---------------------------- MODULE CommandProofs ----------------------------
(***************************************************************************)
(* Theorems about CommandLine, for any files, scenarios and log lines, any *)
(* regex compiler and any texts: what an exit code of zero says.           *)
(***************************************************************************)
EXTENDS CommandLine, WellFoundedInduction, FiniteSetTheorems, SequenceTheorems, TLAPS

----------------------------------------------------------------------------
(* Sequences of sequences *)

\* What holds of zero and passes from each natural to the next holds of all:
\* induction over a set.
LEMMA SetInduction ==
    ASSUME NEW S, 0 \in S, \A k \in Nat : k \in S => k + 1 \in S
    PROVE  Nat \subseteq S
<1> DEFINE Less == OpToRel(<, Nat)
           T == Nat \ S
<1>1. \A x, y \in Nat : x < y => <<x, y>> \in Less
  BY DEF OpToRel
<1>2. SUFFICES ASSUME T # {} PROVE FALSE
  OBVIOUS
<1> HIDE DEF Less
<1>3. PICK m \in T : \A k \in T : ~ (<<k, m>> \in Less)
  BY <1>2, NatLessThanWellFounded, WFMin DEF Less
<1>4. m \in Nat /\ m \notin S /\ m # 0
  OBVIOUS
<1>5. m - 1 \in Nat /\ (m - 1) + 1 = m /\ m - 1 < m
  BY <1>4
<1>6. m - 1 \in T
  BY <1>4, <1>5
<1>7. <<m - 1, m>> \in Less
  BY <1>1, <1>4, <1>5
<1> QED
  BY <1>3, <1>6, <1>7

Flattens(f, s) == f = [i \in 1..Len(s) |-> IF i = 1 THEN s[i] ELSE f[i - 1] \o s[i]]

\* The function that FlattenSeq computes.
LEMMA FlattenExists ==
    ASSUME NEW S, NEW s \in Seq(Seq(S))
    PROVE  \E f \in [1..Len(s) -> Seq(S)] : Flattens(f, s)
<1> DEFINE Upto(l) == \E f \in [1..l -> Seq(S)] :
                         \A i \in 1..l : f[i] = IF i = 1 THEN s[i] ELSE f[i - 1] \o s[i]
           T == {l \in Nat : l <= Len(s) => Upto(l)}
<1>1. Len(s) \in Nat /\ \A i \in 1..Len(s) : s[i] \in Seq(S)
  BY LenProperties, ElementOfSeq
<1>2. 0 \in T
  <2>1. [i \in 1..0 |-> s[i]] \in [1..0 -> Seq(S)] /\ \A i \in 1..0 : FALSE
    OBVIOUS
  <2>2. Upto(0)
    BY <2>1
  <2> HIDE DEF Upto
  <2> QED
    BY <2>2
<1>3. ASSUME NEW l \in Nat, l \in T PROVE l + 1 \in T
  <2> SUFFICES ASSUME l + 1 <= Len(s) PROVE Upto(l + 1)
    <3> HIDE DEF Upto
    <3> QED
      OBVIOUS
  <2>0. Upto(l)
    <3> HIDE DEF Upto
    <3> QED
      BY <1>1, <1>3
  <2>1. PICK f \in [1..l -> Seq(S)] :
                \A i \in 1..l : f[i] = IF i = 1 THEN s[i] ELSE f[i - 1] \o s[i]
    BY <2>0
  <2> DEFINE next == IF l = 0 THEN s[1] ELSE f[l] \o s[l + 1]
             g == [i \in 1..(l + 1) |-> IF i = l + 1 THEN next ELSE f[i]]
  <2>2. next \in Seq(S)
    <3>1. CASE l = 0
      BY <1>1, <3>1
    <3>2. CASE l # 0
      <4>1. f[l] \in Seq(S) /\ s[l + 1] \in Seq(S)
        BY <1>1, <3>2
      <4> QED
        BY <3>2, <4>1, ConcatProperties
    <3> QED
      BY <3>1, <3>2
  <2>3. g \in [1..(l + 1) -> Seq(S)]
    <3> HIDE DEF next
    <3>1. \A i \in 1..(l + 1) : i = l + 1 \/ i \in 1..l
      OBVIOUS
    <3> QED
      BY <2>2, <3>1
  <2>4. ASSUME NEW i \in 1..(l + 1)
        PROVE  g[i] = IF i = 1 THEN s[i] ELSE g[i - 1] \o s[i]
    <3>1. CASE i = l + 1 /\ l = 0
      BY <3>1
    <3>2. CASE i = l + 1 /\ l # 0
      <4>1. i - 1 = l /\ l \in 1..(l + 1) /\ l # l + 1 /\ i # 1
        BY <3>2
      <4>2. g[l] = f[l] /\ g[l + 1] = f[l] \o s[l + 1]
        BY <3>2, <4>1
      <4> QED
        BY <3>2, <4>1, <4>2
    <3>3. CASE i # l + 1
      <4>1. i \in 1..l /\ g[i] = f[i]
        BY <3>3
      <4>2. i # 1 => i - 1 \in 1..(l + 1) /\ i - 1 # l + 1
        BY <3>3
      <4>3. i # 1 => g[i - 1] = f[i - 1]
        BY <4>2
      <4> HIDE DEF g
      <4> QED
        BY <2>1, <4>1, <4>3
    <3> QED
      BY <3>1, <3>2, <3>3
  <2> HIDE DEF g
  <2> QED
    BY <2>3, <2>4
<1> HIDE DEF T, Upto
<1>4. Upto(Len(s))
  <2>1. Nat \subseteq T
    BY <1>2, <1>3, SetInduction
  <2>2. Len(s) \in T /\ Len(s) <= Len(s)
    BY <1>1, <2>1
  <2> QED
    BY <2>2 DEF T
<1>5. PICK f \in [1..Len(s) -> Seq(S)] :
            \A i \in 1..Len(s) : f[i] = IF i = 1 THEN s[i] ELSE f[i - 1] \o s[i]
  BY <1>4 DEF Upto
<1>6. Flattens(f, s)
  BY <1>5 DEF Flattens
<1> QED
  BY <1>6

\* One sequence more is joined to the end.
LEMMA FlattenAppends ==
    ASSUME NEW S, NEW s \in Seq(Seq(S)), NEW x \in Seq(S)
    PROVE  /\ FlattenSeq(s) \in Seq(S) /\ FlattenSeq(<<>>) = <<>>
           /\ FlattenSeq(Append(s, x)) = FlattenSeq(s) \o x
<1> DEFINE n == Len(s)
           t == Append(s, x)
           F(u) == CHOOSE f : Flattens(f, u)
<1>1. /\ n \in Nat /\ t \in Seq(Seq(S)) /\ Len(t) = n + 1 /\ t[n + 1] = x
      /\ \A i \in 1..n : t[i] = s[i]
  BY LenProperties, AppendProperties
<1> HIDE DEF n, t
<1>2. ASSUME NEW u \in Seq(Seq(S))
      PROVE  /\ Flattens(F(u), u)
             /\ Len(u) # 0 => FlattenSeq(u) = F(u)[Len(u)]
  <2>1. \E f : Flattens(f, u)
    BY FlattenExists
  <2>2. Flattens(F(u), u)
    BY <2>1
  <2>3. Len(u) # 0 => FlattenSeq(u) = F(u)[Len(u)]
    BY DEF FlattenSeq, Flattens
  <2> QED
    BY <2>2, <2>3
<1> DEFINE f == F(s)
           g == F(t)
<1>3. Flattens(f, s) /\ Flattens(g, t)
  BY <1>1, <1>2
<1>4. /\ n # 0 => FlattenSeq(s) = f[n]
      /\ FlattenSeq(t) = g[n + 1]
  BY <1>1, <1>2 DEF n
<1> HIDE DEF f, g
<1>5. \A i \in 1..n : f[i] = IF i = 1 THEN s[i] ELSE f[i - 1] \o s[i]
  BY <1>3 DEF Flattens, n
<1>6. \A i \in 1..(n + 1) : g[i] = IF i = 1 THEN t[i] ELSE g[i - 1] \o t[i]
  BY <1>1, <1>3 DEF Flattens
<1> DEFINE T == {k \in Nat : k \in 1..n => g[k] = f[k] /\ f[k] \in Seq(S)}
<1>7. 0 \in T
  OBVIOUS
<1>8. ASSUME NEW k \in Nat, k \in T PROVE k + 1 \in T
  <2> SUFFICES ASSUME k + 1 \in 1..n PROVE g[k + 1] = f[k + 1] /\ f[k + 1] \in Seq(S)
    OBVIOUS
  <2>1. k + 1 \in 1..(n + 1) /\ t[k + 1] = s[k + 1] /\ s[k + 1] \in Seq(S)
    BY <1>1, ElementOfSeq DEF n
  <2>2. CASE k = 0
    BY <1>5, <1>6, <2>1, <2>2
  <2>3. CASE k # 0
    <3>1. k \in 1..n /\ k + 1 # 1 /\ (k + 1) - 1 = k
      BY <1>1, <2>3
    <3>2. g[k] = f[k] /\ f[k] \in Seq(S)
      BY <1>8, <3>1
    <3>3. f[k + 1] = f[k] \o s[k + 1] /\ g[k + 1] = g[k] \o t[k + 1]
      BY <1>5, <1>6, <2>1, <3>1
    <3> QED
      BY <2>1, <3>2, <3>3, ConcatProperties
  <2> QED
    BY <2>2, <2>3
<1> HIDE DEF T
<1>9. n \in T
  BY <1>1, <1>7, <1>8, SetInduction
<1>10. FlattenSeq(<<>>) = <<>>
  BY DEF FlattenSeq
<1>11. CASE n = 0
  <2>1. s = <<>>
    BY <1>11, EmptySeq DEF n
  <2>2. g[1] = x
    BY <1>1, <1>6, <1>11
  <2>3. FlattenSeq(s) = <<>> /\ <<>> \in Seq(S)
    BY <1>10, <2>1, EmptySeq
  <2>4. <<>> \o x = x
    BY ConcatEmptySeq
  <2>5. FlattenSeq(t) = x
    BY <1>4, <1>11, <2>2
  <2> QED
    BY <1>10, <2>3, <2>4, <2>5 DEF t
<1>12. CASE n # 0
  <2>1. n \in 1..n /\ n + 1 \in 1..(n + 1) /\ n + 1 # 1 /\ (n + 1) - 1 = n
    BY <1>1, <1>12
  <2>2. g[n] = f[n] /\ f[n] \in Seq(S)
    BY <1>9, <2>1 DEF T
  <2>3. g[n + 1] = g[n] \o t[n + 1]
    BY <1>6, <2>1
  <2> QED
    BY <1>1, <1>4, <1>10, <1>12, <2>2, <2>3 DEF t
<1> QED
  BY <1>11, <1>12

\* A sequence is empty or ends with some element.
LEMMA EmptyOrAppended ==
    ASSUME NEW S, NEW s \in Seq(S)
    PROVE  s = <<>> \/ \E t \in Seq(S), x \in S : s = Append(t, x) /\ Len(s) = Len(t) + 1
<1> DEFINE n == Len(s)
           t == SubSeq(s, 1, n - 1)
<1>1. n \in Nat /\ \A i \in 1..n : s[i] \in S
  BY LenProperties, ElementOfSeq
<1>2. CASE n = 0
  BY <1>2, EmptySeq
<1>3. CASE n # 0
  <2> HIDE DEF n
  <2>1. n - 1 \in Nat /\ n \in 1..n
    BY <1>1, <1>3
  <2>2. \A i \in 1..(n - 1) : s[i] \in S
    BY <1>1
  <2>3. t \in Seq(S) /\ Len(t) = n - 1 /\ \A i \in 1..(n - 1) : t[i] = s[i]
    <3>1. /\ t \in Seq(S) /\ Len(t) = IF 1 <= n - 1 THEN (n - 1) - 1 + 1 ELSE 0
          /\ \A i \in 1..((n - 1) - 1 + 1) : t[i] = s[1 + i - 1]
      BY <2>1, <2>2, SubSeqProperties
    <3>2. \A i \in 1..(n - 1) : i \in 1..((n - 1) - 1 + 1) /\ 1 + i - 1 = i
      BY <1>1
    <3> QED
      BY <2>1, <3>1, <3>2
  <2> HIDE DEF t
  <2>4. s[n] \in S
    BY <1>1, <2>1
  <2>5. /\ Append(t, s[n]) \in Seq(S) /\ Len(Append(t, s[n])) = n
        /\ \A i \in 1..(n - 1) : Append(t, s[n])[i] = t[i]
        /\ Append(t, s[n])[n] = s[n]
    BY <2>1, <2>3, <2>4, AppendProperties
  <2>6. \A i \in 1..n : i \in 1..(n - 1) \/ i = n
    BY <1>1
  <2>7. s = Append(t, s[n])
    BY <2>3, <2>5, <2>6, SeqEqual DEF n
  <2> QED
    BY <2>1, <2>3, <2>4, <2>7 DEF n
<1> QED
  BY <1>2, <1>3

\* What holds of the empty sequence and of each with one element more holds of all.
LEMMA SeqInduction ==
    ASSUME NEW S, NEW T, <<>> \in T,
           \A s \in Seq(S), x \in S : s \in T => Append(s, x) \in T
    PROVE  Seq(S) \subseteq T
<1> DEFINE N == {n \in Nat : \A s \in Seq(S) : Len(s) = n => s \in T}
<1>1. 0 \in N
  BY EmptySeq
<1>2. ASSUME NEW n \in Nat, n \in N PROVE n + 1 \in N
  <2>1. ASSUME NEW s \in Seq(S), Len(s) = n + 1 PROVE s \in T
    <3>1. s # <<>>
      BY <2>1
    <3>2. PICK t \in Seq(S), x \in S : s = Append(t, x) /\ Len(s) = Len(t) + 1
      BY <3>1, EmptyOrAppended
    <3>3. Len(t) = n
      BY <2>1, <3>2, LenProperties
    <3> QED
      BY <1>2, <3>2, <3>3
  <2> QED
    BY <2>1
<1> HIDE DEF N
<1>3. Nat \subseteq N
  BY <1>1, <1>2, SetInduction
<1> QED
  BY <1>3, LenProperties DEF N

----------------------------------------------------------------------------
(* Texts and the marks between them *)

\* The texts over W in which a mark does not occur.
Without(mark, W) == {u \in Seq(W) : \A i \in 1..Len(u) : u[i] # mark}

\* Texts of the same length strung to others can be told apart.
LEMMA SplitAtLength ==
    ASSUME NEW W, NEW x \in Seq(W), NEW y \in Seq(W), NEW u \in Seq(W), NEW v \in Seq(W),
           Len(x) = Len(u), x \o y = u \o v
    PROVE  x = u /\ y = v
<1>1. Len(x) \in Nat /\ Len(y) \in Nat /\ Len(v) \in Nat
  BY LenProperties
<1>2. ASSUME NEW i \in 1..Len(x) PROVE x[i] = u[i]
  <2>1. i \in 1..(Len(x) + Len(y)) /\ i \in 1..(Len(u) + Len(v)) /\ i <= Len(x) /\ i <= Len(u)
    BY <1>1
  <2>2. (x \o y)[i] = x[i] /\ (u \o v)[i] = u[i]
    BY <2>1, ConcatProperties
  <2> QED
    BY <2>2
<1>3. x = u
  BY <1>1, <1>2, SeqEqual
<1> QED
  BY <1>3, ConcatSimplifications

LEMMA FirstMarkBounds ==
    ASSUME NEW W, NEW x \in Seq(W), NEW y \in Seq(W), NEW u, NEW z \in Seq(W), NEW v \in Seq(W),
           z # <<>>, u \in Without(z[1], W), x \o (z \o y) = u \o (z \o v)
    PROVE  Len(x) >= Len(u)
<1>1. /\ u \in Seq(W) /\ Len(u) \in Nat /\ Len(x) \in Nat /\ Len(y) \in Nat /\ Len(v) \in Nat
      /\ Len(z) \in Nat /\ Len(z) # 0
  BY LenProperties, EmptySeq DEF Without
<1>2. /\ z \o y \in Seq(W) /\ Len(z \o y) = Len(z) + Len(y) /\ (z \o y)[1] = z[1]
      /\ z \o v \in Seq(W) /\ Len(z \o v) = Len(z) + Len(v)
  BY <1>1, ConcatProperties
<1> DEFINE zy == z \o y
           zv == z \o v
<1> HIDE DEF zy, zv
<1>3. (x \o zy)[Len(x) + 1] = zy[1]
  <2>1. Len(x) + 1 \in 1..(Len(x) + Len(zy)) /\ ~(Len(x) + 1 <= Len(x)) /\ (Len(x) + 1) - Len(x) = 1
    BY <1>1, <1>2 DEF zy
  <2> QED
    BY <1>2, <2>1, ConcatProperties DEF zy
<1>4. ASSUME Len(x) < Len(u) PROVE FALSE
  <2>1. Len(x) + 1 \in 1..(Len(u) + Len(zv)) /\ Len(x) + 1 <= Len(u) /\ Len(x) + 1 \in 1..Len(u)
    BY <1>1, <1>2, <1>4 DEF zv
  <2>2. (u \o zv)[Len(x) + 1] = u[Len(x) + 1]
    BY <1>1, <1>2, <2>1, ConcatProperties DEF zv
  <2> QED
    BY <1>2, <1>3, <2>1, <2>2 DEF Without, zy, zv
<1> QED
  BY <1>1, <1>4

LEMMA ConcatLength ==
    ASSUME NEW S, NEW x \in Seq(S), NEW y \in Seq(S)
    PROVE  x \o y \in Seq(S) /\ Len(x \o y) = Len(x) + Len(y)
  BY ConcatProperties

Concatenates(x, y) ==
    /\ Len(x \o y) = Len(x) + Len(y)
    /\ \A k \in 1..(Len(x) + Len(y)) :
          (x \o y)[k] = IF k <= Len(x) THEN x[k] ELSE y[k - Len(x)]

LEMMA Concatenation ==
    ASSUME NEW S, NEW x \in Seq(S), NEW y \in Seq(S)
    PROVE  Concatenates(x, y)
  BY ConcatProperties DEF Concatenates

\* Two texts that end at the first mark are told apart, and so are their rests.
Splits(x, z, y, u, v) == x \o (z \o y) = u \o (z \o v) => x = u /\ y = v

LEMMA SplitAtFirstMark ==
    ASSUME NEW W, NEW z \in Seq(W), z # <<>>,
           NEW x \in Without(z[1], W), NEW y \in Seq(W),
           NEW u \in Without(z[1], W), NEW v \in Seq(W)
    PROVE  Splits(x, z, y, u, v)
<1> SUFFICES ASSUME x \o (z \o y) = u \o (z \o v) PROVE x = u /\ y = v
  BY DEF Splits
<1>1. x \in Seq(W) /\ u \in Seq(W) /\ Len(x) \in Nat /\ Len(u) \in Nat
  BY LenProperties DEF Without
<1>2. Len(x) = Len(u)
  <2>1. Len(x) >= Len(u) /\ Len(u) >= Len(x)
    BY <1>1, FirstMarkBounds
  <2> QED
    BY <1>1, <2>1
<1>3. z \o y \in Seq(W) /\ z \o v \in Seq(W)
  BY ConcatProperties
<1>4. x = u /\ z \o y = z \o v
  BY <1>1, <1>2, <1>3, SplitAtLength
<1> QED
  BY <1>4, ConcatSimplifications

LEMMA LastMarkBounds ==
    ASSUME NEW W, NEW mark \in W, NEW x \in Seq(W), NEW u \in Seq(W),
           NEW y \in Without(mark, W), NEW v \in Seq(W),
           x \o (<<mark>> \o y) = u \o (<<mark>> \o v)
    PROVE  Len(x) >= Len(u)
<1> DEFINE z == <<mark>>
           zy == z \o y
           zv == z \o v
<1>1. /\ z \in Seq(W) /\ Len(z) = 1 /\ z[1] = mark /\ y \in Seq(W)
      /\ Len(x) \in Nat /\ Len(u) \in Nat /\ Len(y) \in Nat /\ Len(v) \in Nat
  BY LenProperties DEF Without
<1> HIDE DEF z
<1>2. /\ zy \in Seq(W) /\ Len(zy) = 1 + Len(y) /\ \A i \in 1..(1 + Len(y)) :
                                zy[i] = IF i <= 1 THEN z[i] ELSE y[i - 1]
      /\ zv \in Seq(W) /\ Len(zv) = 1 + Len(v) /\ zv[1] = mark
  <2>1. /\ zy \in Seq(W) /\ Len(zy) = Len(z) + Len(y)
        /\ \A i \in 1..(Len(z) + Len(y)) :
              zy[i] = IF i <= Len(z) THEN z[i] ELSE y[i - Len(z)]
    BY <1>1, ConcatProperties
  <2>2. /\ zv \in Seq(W) /\ Len(zv) = Len(z) + Len(v)
        /\ \A i \in 1..(Len(z) + Len(v)) :
              zv[i] = IF i <= Len(z) THEN z[i] ELSE v[i - Len(z)]
    BY <1>1, ConcatProperties
  <2>3. 1 \in 1..(1 + Len(v)) /\ 1 <= 1
    BY <1>1
  <2> HIDE DEF zy, zv
  <2> QED
    BY <1>1, <2>1, <2>2, <2>3
<1>3. x \o zy = u \o zv
  BY DEF z
<1> HIDE DEF zy, zv
<1>4. Len(x) + (1 + Len(y)) = Len(u) + (1 + Len(v))
  BY <1>2, <1>3, ConcatProperties
<1>5. ASSUME Len(x) < Len(u) PROVE FALSE
  <2>1. /\ Len(u) + 1 \in 1..(Len(u) + Len(zv)) /\ ~(Len(u) + 1 <= Len(u)) /\ (Len(u) + 1) - Len(u) = 1
        /\ Len(u) + 1 \in 1..(Len(x) + Len(zy)) /\ ~(Len(u) + 1 <= Len(x))
    BY <1>1, <1>2, <1>4, <1>5
  <2>2. (u \o zv)[Len(u) + 1] = mark
    BY <1>2, <2>1, ConcatProperties
  <2>3. (x \o zy)[Len(u) + 1] = zy[(Len(u) + 1) - Len(x)]
    BY <1>2, <2>1, ConcatProperties
  <2> DEFINE j == (Len(u) + 1) - Len(x)
  <2>4. j \in 1..(1 + Len(y)) /\ ~(j <= 1) /\ j - 1 \in 1..Len(y)
    BY <1>1, <1>4, <1>5
  <2> HIDE DEF j
  <2>5. zy[j] = y[j - 1]
    BY <1>2, <2>4
  <2>6. y[j - 1] = mark
    BY <1>3, <2>2, <2>3, <2>5 DEF j
  <2> QED
    BY <2>4, <2>6 DEF Without
<1> QED
  BY <1>1, <1>5

\* Two texts that begin after the last mark are told apart, and so is what is before.
SplitsLast(mark, x, y, u, v) ==
    x \o (<<mark>> \o y) = u \o (<<mark>> \o v) => x = u /\ y = v

LEMMA SplitAtLastMark ==
    ASSUME NEW W, NEW mark \in W, NEW x \in Seq(W), NEW u \in Seq(W),
           NEW y \in Without(mark, W), NEW v \in Without(mark, W)
    PROVE  SplitsLast(mark, x, y, u, v)
<1> SUFFICES ASSUME x \o (<<mark>> \o y) = u \o (<<mark>> \o v)
             PROVE  x = u /\ y = v
  BY DEF SplitsLast
<1> DEFINE z == <<mark>>
           zy == z \o y
           zv == z \o v
<1>1. z \in Seq(W) /\ y \in Seq(W) /\ v \in Seq(W) /\ Len(x) \in Nat /\ Len(u) \in Nat
  BY LenProperties DEF Without
<1>2. Len(x) = Len(u)
  <2>1. Len(x) >= Len(u) /\ Len(u) >= Len(x)
    BY <1>1, LastMarkBounds
  <2> QED
    BY <1>1, <2>1
<1>3. x \o zy = u \o zv
  OBVIOUS
<1> HIDE DEF z
<1>4. zy \in Seq(W) /\ zv \in Seq(W)
  BY <1>1, ConcatProperties
<1> HIDE DEF zy, zv
<1>5. x = u /\ zy = zv
  BY <1>1, <1>2, <1>3, <1>4, SplitAtLength
<1>7. y = v
  BY <1>1, <1>5, ConcatSimplifications DEF zy, zv
<1> QED
  BY <1>5, <1>7

----------------------------------------------------------------------------
(* Texts joined with a mark can be read back *)

\* The pieces that Join strings together.
Pieces(texts, mark) ==
    [k \in DOMAIN texts |-> IF k = 1 THEN texts[1] ELSE <<mark>> \o texts[k]]

\* A text more is joined after a mark.
JoinsOneMore(W, mark, s, x) ==
    /\ Join(s, mark) \in Seq(W) /\ Join(<<>>, mark) = <<>>
    /\ s = <<>> => Join(Append(s, x), mark) = x
    /\ s # <<>> => Join(Append(s, x), mark) = Join(s, mark) \o (<<mark>> \o x)

LEMMA JoinAppends ==
    ASSUME NEW W, NEW mark \in W, NEW s \in Seq(Seq(W)), NEW x \in Seq(W)
    PROVE  JoinsOneMore(W, mark, s, x)
<1> DEFINE n == Len(s)
           t == Append(s, x)
           last == IF n = 0 THEN x ELSE <<mark>> \o x
           p == Pieces(s, mark)
           q == Pieces(t, mark)
<1>1. /\ n \in Nat /\ DOMAIN s = 1..n /\ \A i \in 1..n : s[i] \in Seq(W)
      /\ t \in Seq(Seq(W)) /\ DOMAIN t = 1..(n + 1) /\ t[n + 1] = x
      /\ \A i \in 1..n : t[i] = s[i]
  BY LenProperties, ElementOfSeq, AppendProperties
<1>2. \A u \in Seq(W) : <<mark>> \o u \in Seq(W)
  <2>1. <<mark>> \in Seq(W)
    OBVIOUS
  <2> QED
    BY <2>1, ConcatProperties
<1>3. last \in Seq(W)
  BY <1>2
<1> HIDE DEF n, t, last
<1>4. p \in Seq(Seq(W)) /\ Len(p) = n /\ \A i \in 1..n : p[i] = IF i = 1 THEN s[1] ELSE <<mark>> \o s[i]
  <2>1. p = [k \in 1..n |-> IF k = 1 THEN s[1] ELSE <<mark>> \o s[k]]
    BY <1>1 DEF Pieces
  <2>2. \A k \in 1..n : (IF k = 1 THEN s[1] ELSE <<mark>> \o s[k]) \in Seq(W)
    BY <1>1, <1>2
  <2> HIDE DEF p
  <2>3. p \in Seq(Seq(W))
    BY <1>1, <2>1, <2>2, IsASeq
  <2>4. DOMAIN p = 1..n
    BY <2>1
  <2> QED
    BY <1>1, <2>1, <2>3, <2>4, LenProperties
<1>5. /\ q \in Seq(Seq(W)) /\ Len(q) = n + 1
      /\ \A i \in 1..(n + 1) : q[i] = IF i = 1 THEN t[1] ELSE <<mark>> \o t[i]
  <2>1. q = [k \in 1..(n + 1) |-> IF k = 1 THEN t[1] ELSE <<mark>> \o t[k]]
    BY <1>1 DEF Pieces
  <2>2. \A k \in 1..(n + 1) : (IF k = 1 THEN t[1] ELSE <<mark>> \o t[k]) \in Seq(W)
    <3>1. \A k \in 1..(n + 1) : t[k] \in Seq(W)
      BY <1>1, LenProperties, ElementOfSeq
    <3>2. 1 \in 1..(n + 1)
      BY <1>1
    <3> QED
      BY <1>2, <3>1, <3>2
  <2> HIDE DEF q
  <2>3. q \in Seq(Seq(W))
    BY <1>1, <2>1, <2>2, IsASeq
  <2>4. DOMAIN q = 1..(n + 1)
    BY <2>1
  <2> QED
    BY <1>1, <2>1, <2>3, <2>4, LenProperties
<1> HIDE DEF p, q
<1>6. q = Append(p, last)
  <2> DEFINE r == Append(p, last)
  <2>1. /\ r \in Seq(Seq(W)) /\ Len(r) = n + 1
        /\ (\A i \in 1..n : r[i] = p[i]) /\ r[n + 1] = last
    BY <1>3, <1>4, AppendProperties
  <2> HIDE DEF r
  <2>2. ASSUME NEW i \in 1..(n + 1) PROVE q[i] = r[i]
    <3>1. CASE i = n + 1
      <4>1. q[i] = (IF i = 1 THEN t[1] ELSE <<mark>> \o t[i]) /\ r[i] = last /\ t[i] = x
        BY <1>1, <1>5, <2>1, <3>1
      <4>2. (i = 1 <=> n = 0) /\ (i = 1 => t[1] = x)
        BY <1>1, <3>1
      <4>3. last = IF n = 0 THEN x ELSE <<mark>> \o x
        BY DEF last
      <4> QED
        BY <4>1, <4>2, <4>3
    <3>2. CASE i # n + 1
      <4>1. i \in 1..n /\ 1 \in 1..n
        BY <1>1, <3>2
      <4>2. /\ q[i] = (IF i = 1 THEN t[1] ELSE <<mark>> \o t[i]) /\ r[i] = p[i]
            /\ p[i] = (IF i = 1 THEN s[1] ELSE <<mark>> \o s[i])
        BY <1>4, <1>5, <2>1, <4>1
      <4>3. t[1] = s[1] /\ t[i] = s[i]
        BY <1>1, <4>1
      <4> QED
        BY <4>2, <4>3
    <3> QED
      BY <3>1, <3>2
  <2>3. q = r
    BY <1>5, <2>1, <2>2, SeqEqual
  <2> QED
    BY <2>3 DEF r
<1>7. Join(s, mark) = FlattenSeq(p) /\ Join(t, mark) = FlattenSeq(q)
  BY DEF Join, Pieces, p, q
<1>8. /\ FlattenSeq(p) \in Seq(W) /\ FlattenSeq(<<>>) = <<>>
      /\ FlattenSeq(q) = FlattenSeq(p) \o last
  BY <1>3, <1>4, <1>6, FlattenAppends
<1>9. Join(<<>>, mark) = <<>>
  <2>1. Join(<<>>, mark) = FlattenSeq(Pieces(<<>>, mark)) /\ Pieces(<<>>, mark) = <<>>
    BY DEF Join, Pieces
  <2> QED
    BY <1>8, <2>1
<1>10. s = <<>> <=> n = 0
  BY EmptySeq DEF n
<1>11. ASSUME s = <<>> PROVE Join(t, mark) = x
  <2>1. FlattenSeq(p) = <<>> /\ last = x
    BY <1>7, <1>9, <1>10, <1>11 DEF last
  <2> QED
    BY <1>7, <1>8, <2>1, ConcatEmptySeq
<1>12. s # <<>> => last = <<mark>> \o x
  BY <1>10 DEF last
<1> QED
  BY <1>7, <1>8, <1>9, <1>11, <1>12 DEF t, JoinsOneMore

LEMMA ConcatWithout ==
    ASSUME NEW W, NEW other, NEW x \in Without(other, W), NEW y \in Without(other, W)
    PROVE  x \o y \in Without(other, W)
<1> DEFINE z == x \o y
<1>1. x \in Seq(W) /\ y \in Seq(W) /\ Len(x) \in Nat /\ Len(y) \in Nat
  BY LenProperties DEF Without
<1>2. /\ z \in Seq(W) /\ Len(z) = Len(x) + Len(y)
      /\ \A i \in 1..(Len(x) + Len(y)) : z[i] = IF i <= Len(x) THEN x[i] ELSE y[i - Len(x)]
  BY <1>1, ConcatProperties
<1> HIDE DEF z
<1>3. ASSUME NEW i \in 1..(Len(x) + Len(y)) PROVE z[i] # other
  <2>1. CASE i <= Len(x)
    <3>1. i \in 1..Len(x)
      BY <1>1, <2>1
    <3> QED
      BY <1>2, <2>1, <3>1 DEF Without
  <2>2. CASE ~(i <= Len(x))
    <3>1. i - Len(x) \in 1..Len(y)
      BY <1>1, <2>2
    <3> QED
      BY <1>2, <2>2, <3>1 DEF Without
  <2> QED
    BY <2>1, <2>2
<1>4. z \in Without(other, W)
  BY <1>2, <1>3 DEF Without
<1> QED
  BY <1>4 DEF z

\* Joining brings in no word but its mark.
LEMMA JoinIsWithout ==
    ASSUME NEW W, NEW other, NEW mark \in W, mark # other, NEW s \in Seq(Without(other, W))
    PROVE  Join(s, mark) \in Without(other, W)
<1> DEFINE T == {t \in Seq(Without(other, W)) : Join(t, mark) \in Without(other, W)}
<1>1. Without(other, W) \subseteq Seq(W)
  BY DEF Without
<1>2. \A t \in Seq(Without(other, W)) : t \in Seq(Seq(W))
  BY <1>1
<1>3. \A x, y \in Without(other, W) : x \o y \in Without(other, W)
  BY ConcatWithout
<1>4. <<>> \in Without(other, W) /\ <<mark>> \in Without(other, W)
  BY DEF Without
<1>5. <<>> \in T
  <2>1. JoinsOneMore(W, mark, <<>>, <<>>)
    BY <1>2, JoinAppends, EmptySeq
  <2> QED
    BY <1>4, <2>1, EmptySeq DEF JoinsOneMore
<1>6. ASSUME NEW t \in Seq(Without(other, W)), NEW x \in Without(other, W), t \in T
      PROVE  Append(t, x) \in T
  <2>1. Append(t, x) \in Seq(Without(other, W)) /\ t \in Seq(Seq(W)) /\ x \in Seq(W)
    BY <1>1, <1>2, AppendProperties
  <2>2. /\ t = <<>> => Join(Append(t, x), mark) = x
        /\ t # <<>> => Join(Append(t, x), mark) = Join(t, mark) \o (<<mark>> \o x)
    <3>1. JoinsOneMore(W, mark, t, x)
      BY <2>1, JoinAppends
    <3> QED
      BY <3>1 DEF JoinsOneMore
  <2>3. Join(t, mark) \o (<<mark>> \o x) \in Without(other, W)
    BY <1>3, <1>4, <1>6
  <2> QED
    BY <2>1, <2>2, <2>3
<1> HIDE DEF T
<1>7. Seq(Without(other, W)) \subseteq T
  BY <1>5, <1>6, SeqInduction
<1> QED
  BY <1>7 DEF T

\* Texts that are not empty and have no mark in them can be read back.
LEMMA JoinIsInjective ==
    ASSUME NEW W, NEW mark \in W,
           NEW s \in Seq(Without(mark, W) \ {<<>>}), NEW t \in Seq(Without(mark, W) \ {<<>>}),
           Join(s, mark) = Join(t, mark)
    PROVE  s = t
<1> DEFINE C == Without(mark, W) \ {<<>>}
           J(r) == Join(r, mark)
           T == {r \in Seq(C) : \A u \in Seq(C) : J(r) = J(u) => r = u}
<1>1. C \subseteq Seq(W) /\ \A r \in Seq(C) : r \in Seq(Seq(W))
  <2>1. C \subseteq Seq(W)
    BY DEF Without
  <2> HIDE DEF C
  <2> QED
    BY <2>1
<1>2. ASSUME NEW r \in Seq(C), NEW x \in C
      PROVE  /\ J(r) \in Seq(W) /\ J(<<>>) = <<>> /\ x \in Seq(W)
             /\ r = <<>> => J(Append(r, x)) = x
             /\ r # <<>> => J(Append(r, x)) = J(r) \o (<<mark>> \o x)
  <2>1. r \in Seq(Seq(W)) /\ x \in Seq(W)
    BY <1>1
  <2> HIDE DEF C
  <2>2. /\ Join(r, mark) \in Seq(W) /\ Join(<<>>, mark) = <<>>
        /\ r = <<>> => Join(Append(r, x), mark) = x
        /\ r # <<>> => Join(Append(r, x), mark) = Join(r, mark) \o (<<mark>> \o x)
    <3>1. JoinsOneMore(W, mark, r, x)
      BY <2>1, JoinAppends
    <3> QED
      BY <3>1 DEF JoinsOneMore
  <2> QED
    BY <2>1, <2>2
<1> HIDE DEF J
<1>3. ASSUME NEW r \in Seq(C), NEW x \in C PROVE J(Append(r, x)) # <<>>
  <2>1. CASE r = <<>>
    BY <1>2, <2>1
  <2>2. CASE r # <<>>
    <3> DEFINE m == <<mark>>
               z == m \o x
               w == J(r) \o z
    <3>1. m \in Seq(W) /\ Len(m) = 1
      OBVIOUS
    <3>. HIDE DEF C
    <3>0. J(r) \in Seq(W) /\ x \in Seq(W)
      BY <1>2
    <3>2. Len(x) \in Nat /\ Len(J(r)) \in Nat
      BY <3>0, LenProperties
    <3> HIDE DEF m
    <3>3. z \in Seq(W) /\ Len(z) = 1 + Len(x)
      BY <3>0, <3>1, ConcatLength
    <3> HIDE DEF z
    <3>4. w \in Seq(W) /\ Len(w) = Len(J(r)) + Len(z)
      BY <3>0, <3>3, ConcatLength
    <3> HIDE DEF w
    <3>5. w # <<>>
      BY <3>2, <3>3, <3>4, EmptySeq
    <3>6. J(Append(r, x)) = w
      BY <1>2, <2>2 DEF w, z, m
    <3> QED
      BY <3>5, <3>6
  <2> QED
    BY <2>1, <2>2
<1>4. ASSUME NEW r \in Seq(C), NEW x \in C, NEW y \in C, r # <<>> PROVE J(Append(r, x)) # y
  <2> DEFINE z == <<mark>> \o x
             w == J(r) \o z
             i == Len(J(r)) + 1
  <2>1. /\ J(r) \in Seq(W) /\ Len(J(r)) \in Nat /\ <<mark>> \in Seq(W) /\ x \in Seq(W)
        /\ Len(x) \in Nat /\ Len(<<mark>>) = 1 /\ <<mark>>[1] = mark
    BY <1>2, LenProperties
  <2>2. z \in Seq(W) /\ Len(z) = 1 + Len(x) /\ z[1] = mark
    <3>1. /\ z \in Seq(W) /\ Len(z) = Len(<<mark>>) + Len(x)
          /\ z[1] = IF 1 <= Len(<<mark>>) THEN <<mark>>[1] ELSE x[1 - Len(<<mark>>)]
      BY <2>1, ConcatProperties
    <3> QED
      BY <2>1, <3>1
  <2> HIDE DEF z
  <2>3. i \in 1..(Len(J(r)) + Len(z)) /\ ~(i <= Len(J(r))) /\ i - Len(J(r)) = 1
    BY <2>1, <2>2
  <2>4. Len(w) = Len(J(r)) + Len(z) /\ w[i] = z[i - Len(J(r))]
    <3> HIDE DEF i
    <3>1. /\ Len(w) = Len(J(r)) + Len(z)
          /\ \A k \in 1..(Len(J(r)) + Len(z)) :
                w[k] = IF k <= Len(J(r)) THEN J(r)[k] ELSE z[k - Len(J(r))]
      <4>1. J(r) \in Seq(W) /\ z \in Seq(W)
        BY <2>1, <2>2
      <4>2. Concatenates(J(r), z)
        BY <4>1, Concatenation
      <4> QED
        BY <4>2, Zenon DEF Concatenates, w
    <3> QED
      BY <2>3, <3>1
  <2>5. w[i] = mark /\ i \in 1..Len(w)
    BY <2>2, <2>3, <2>4
  <2> HIDE DEF w, i
  <2>6. w # y
    BY <2>5 DEF Without
  <2> QED
    BY <1>2, <1>4, <2>6 DEF w, z
<1>5. <<>> \in T
  <2>1. ASSUME NEW u \in Seq(C), J(<<>>) = J(u) PROVE <<>> = u
    <3>1. CASE u # <<>>
      <4>1. PICK v \in Seq(C), y \in C : u = Append(v, y)
        BY <3>1, EmptyOrAppended
      <4> HIDE DEF C
      <4> QED
        BY <1>2, <1>3, <2>1, <4>1
    <3> QED
      BY <3>1
  <2> HIDE DEF C
  <2> QED
    BY <2>1, EmptySeq
<1>6. ASSUME NEW r \in Seq(C), NEW x \in C, r \in T PROVE Append(r, x) \in T
  <2>0. C \subseteq Without(mark, W)
    OBVIOUS
  <2> HIDE DEF C
  <2>1. ASSUME NEW u \in Seq(C), J(Append(r, x)) = J(u) PROVE Append(r, x) = u
    <3>1. CASE u = <<>>
      BY <1>2, <1>3, <2>1, <3>1
    <3>2. CASE u # <<>>
      <4>1. PICK v \in Seq(C), y \in C : u = Append(v, y)
        BY <3>2, EmptyOrAppended
      <4> DEFINE jx == J(Append(r, x))
                 jy == J(Append(v, y))
      <4>e. jx = jy
        BY <2>1, <4>1
      <4>f. (r = <<>> => jx = x) /\ (v = <<>> => jy = y)
        BY <1>2
      <4>g. (r # <<>> => jx # y) /\ (v # <<>> => jy # x)
        BY <1>4
      <4>h. /\ r # <<>> => jx = J(r) \o (<<mark>> \o x)
            /\ v # <<>> => jy = J(v) \o (<<mark>> \o y)
            /\ J(r) \in Seq(W) /\ J(v) \in Seq(W)
        BY <1>2
      <4> HIDE DEF jx, jy
      <4>2. CASE r = <<>> /\ v = <<>>
        BY <4>1, <4>e, <4>f, <4>2
      <4>3. CASE r = <<>> /\ v # <<>>
        BY <4>e, <4>f, <4>g, <4>3
      <4>4. CASE r # <<>> /\ v = <<>>
        BY <4>e, <4>f, <4>g, <4>4
      <4>5. CASE r # <<>> /\ v # <<>>
        <5>1. /\ J(r) \o (<<mark>> \o x) = J(v) \o (<<mark>> \o y)
              /\ J(r) \in Seq(W) /\ J(v) \in Seq(W)
          BY <4>e, <4>h, <4>5
        <5>2. x \in Without(mark, W) /\ y \in Without(mark, W)
          BY <2>0
        <5>3. J(r) = J(v) /\ x = y
          <6>1. SplitsLast(mark, J(r), x, J(v), y)
            BY <5>1, <5>2, SplitAtLastMark
          <6> QED
            BY <5>1, <6>1 DEF SplitsLast
        <5> QED
          BY <1>6, <4>1, <5>3
      <4> QED
        BY <4>2, <4>3, <4>4, <4>5
    <3> QED
      BY <3>1, <3>2
  <2>2. Append(r, x) \in Seq(C)
    BY AppendProperties
  <2> QED
    BY <2>1, <2>2
<1> HIDE DEF T, C
<1>7. Seq(C) \subseteq T
  BY <1>5, <1>6, SeqInduction
<1> QED
  BY <1>7 DEF T, C, J

----------------------------------------------------------------------------
(* How often a mark occurs in a text *)

Places(mark, s) == {i \in DOMAIN s : s[i] = mark}

Times(mark, s) == Cardinality(Places(mark, s))

\* In two texts strung together a mark occurs as often as in the two.
TimesAdd(mark, x, y) == Times(mark, x \o y) = Times(mark, x) + Times(mark, y)

LEMMA TimesAreNumbers ==
    ASSUME NEW W, NEW mark, NEW x \in Seq(W)
    PROVE  /\ Places(mark, x) \in SUBSET (1..Len(x)) /\ IsFiniteSet(Places(mark, x))
           /\ Times(mark, x) \in Nat
           /\ Times(mark, x) = 0 <=> x \in Without(mark, W)
<1> DEFINE S == Places(mark, x)
<1>1. DOMAIN x = 1..Len(x) /\ Len(x) \in Nat /\ IsFiniteSet(1..Len(x))
  BY LenProperties, FS_Interval
<1>2. S \in SUBSET (1..Len(x)) /\ \A i \in 1..Len(x) : i \in S <=> x[i] = mark
  BY <1>1 DEF Places
<1> HIDE DEF S
<1>3. IsFiniteSet(S)
  BY <1>1, <1>2, FS_Subset
<1>4. Cardinality(S) \in Nat /\ (Cardinality(S) = 0 <=> S = {})
  BY <1>3, FS_CardinalityType, FS_EmptySet
<1>5. S = {} <=> x \in Without(mark, W)
  BY <1>2 DEF Without
<1> QED
  BY <1>2, <1>3, <1>4, <1>5 DEF Times, S

LEMMA TimesOfBoth ==
    ASSUME NEW W, NEW mark, NEW x \in Seq(W), NEW y \in Seq(W)
    PROVE  TimesAdd(mark, x, y)
<1> DEFINE n == Len(x)
           z == x \o y
           A == Places(mark, x)
           B == Places(mark, y)
           f == [i \in B |-> n + i]
           C == {n + i : i \in B}
<1>1. /\ n \in Nat /\ Len(y) \in Nat /\ z \in Seq(W) /\ DOMAIN z = 1..(n + Len(y))
      /\ \A i \in 1..(n + Len(y)) : z[i] = IF i <= n THEN x[i] ELSE y[i - n]
  <2>1. Concatenates(x, y) /\ z \in Seq(W)
    BY Concatenation, ConcatLength
  <2>2. n \in Nat /\ Len(y) \in Nat /\ DOMAIN z = 1..Len(z)
    BY <2>1, LenProperties
  <2> QED
    BY <2>1, <2>2 DEF Concatenates
<1>2. /\ A \in SUBSET (1..n) /\ IsFiniteSet(A) /\ Cardinality(A) \in Nat
      /\ B \in SUBSET (1..Len(y)) /\ IsFiniteSet(B) /\ Cardinality(B) \in Nat
  BY TimesAreNumbers DEF Times
<1>3. /\ \A i \in 1..n : i \in A <=> x[i] = mark
      /\ \A i \in 1..Len(y) : i \in B <=> y[i] = mark
  BY LenProperties DEF Places
<1> HIDE DEF n, z, A, B
<1>4. Places(mark, z) = A \cup C
  <2>1. Places(mark, z) = {i \in 1..(n + Len(y)) : z[i] = mark}
    BY <1>1 DEF Places
  <2>2. ASSUME NEW i \in 1..(n + Len(y)) PROVE z[i] = mark <=> i \in A \cup C
    <3>1. CASE i <= n
      <4>1. i \in 1..n /\ z[i] = x[i] /\ \A k \in B : i # n + k
        BY <1>1, <1>2, <3>1
      <4> QED
        BY <1>3, <4>1
    <3>2. CASE ~(i <= n)
      <4>1. /\ i - n \in 1..Len(y) /\ z[i] = y[i - n] /\ i \notin 1..n
            /\ \A k \in B : i = n + k <=> k = i - n
        BY <1>1, <1>2, <3>2
      <4>2. i \in C <=> i - n \in B
        BY <4>1, <1>1
      <4> QED
        BY <1>2, <1>3, <4>1, <4>2
    <3> QED
      BY <3>1, <3>2
  <2>3. A \cup C \subseteq 1..(n + Len(y))
    <3>1. A \subseteq 1..(n + Len(y))
      <4>1. \A i \in 1..n : i \in 1..(n + Len(y))
        BY <1>1
      <4> QED
        BY <1>2, <4>1
    <3>2. C \subseteq 1..(n + Len(y))
      <4>1. \A i \in 1..Len(y) : n + i \in 1..(n + Len(y))
        BY <1>1
      <4> QED
        BY <1>2, <4>1
    <3> HIDE DEF C
    <3> QED
      BY <3>1, <3>2
  <2> HIDE DEF C
  <2> QED
    BY <2>1, <2>2, <2>3
<1>5. IsFiniteSet(C) /\ Cardinality(C) = Cardinality(B)
  <2>1. f \in Bijection(B, C)
    <3>1. f \in [B -> C] /\ \A i \in B : f[i] = n + i
      OBVIOUS
    <3>2. \A i, k \in B : n + i = n + k => i = k
      BY <1>1, <1>2
    <3>3. \A c \in C : \E i \in B : c = n + i
      OBVIOUS
    <3> HIDE DEF f, C
    <3> QED
      BY <3>1, <3>2, <3>3 DEF Bijection, Injection, Surjection, IsInjective
  <2> HIDE DEF f, C
  <2>2. ExistsBijection(B, C)
    BY <2>1 DEF ExistsBijection
  <2> QED
    BY <1>2, <2>2, FS_Bijection
<1>6. A \cap C = {}
  BY <1>1, <1>2
<1> HIDE DEF C
<1>7. Cardinality(A \cup C) = Cardinality(A) + Cardinality(C)
  <2>1. Cardinality(A \cup C) = Cardinality(A) + Cardinality(C) - Cardinality(A \cap C)
    BY <1>2, <1>5, FS_Union
  <2>2. Cardinality(A \cap C) = 0
    BY <1>6, FS_EmptySet
  <2> QED
    BY <1>2, <1>5, <2>1, <2>2
<1> QED
  BY <1>4, <1>5, <1>7 DEF TimesAdd, Times, A, B, z

\* A word, and a word after it, as texts.
LEMMA TimesOfWords ==
    ASSUME NEW W, NEW mark \in W, NEW w \in W, w # mark
    PROVE  /\ Times(mark, <<mark>>) = 1 /\ Times(mark, <<w>>) = 0
           /\ Times(mark, <<mark, w>>) = 1 /\ Times(mark, <<>>) = 0
<1>1. <<mark>> \in Seq(W) /\ <<w>> \in Seq(W) /\ <<mark, w>> \in Seq(W) /\ <<>> \in Seq(W)
  OBVIOUS
<1>2. Places(mark, <<mark>>) = {1} /\ Places(mark, <<mark, w>>) = {1}
  BY DEF Places
<1>3. Places(mark, <<w>>) = {} /\ Places(mark, <<>>) = {}
  BY DEF Places
<1> QED
  BY <1>2, <1>3, FS_Singleton, FS_EmptySet DEF Times

----------------------------------------------------------------------------
(* The payload of a signed entry can be taken apart *)

\* The words of a payload.
Alphabet == Words \cup {"v1", "|", ";", ":", "effect=", "policy=", "principal=", "action=",
                        "rtype=", "rid=", "expl="}

Associates(x, s, y) == (x \o s) \o y = x \o (s \o y)

LEMMA Association ==
    ASSUME NEW W, NEW x \in Seq(W), NEW s \in Seq(W), NEW y \in Seq(W)
    PROVE  Associates(x, s, y)
BY ConcatAssociative DEF Associates

Reassociated(h, a, b, c, d, e, f, g, i, j, k, l) ==
    h \o a \o b \o c \o d \o e \o f \o g \o i \o j \o k \o l
      = h \o (a \o (b \o (c \o (d \o (e \o (f \o (g \o (i \o (j \o (k \o l))))))))))

LEMMA Reassociates ==
    ASSUME NEW W, NEW h \in Seq(W), NEW a \in Seq(W), NEW b \in Seq(W), NEW c \in Seq(W),
           NEW d \in Seq(W), NEW e \in Seq(W), NEW f \in Seq(W), NEW g \in Seq(W),
           NEW i \in Seq(W), NEW j \in Seq(W), NEW k \in Seq(W), NEW l \in Seq(W)
    PROVE  Reassociated(h, a, b, c, d, e, f, g, i, j, k, l)
<1> DEFINE xa == h \o a   yk == k \o l
           xb == xa \o b  yj == j \o yk
           xc == xb \o c  yi == i \o yj
           xd == xc \o d  yg == g \o yi
           xe == xd \o e  yf == f \o yg
           xf == xe \o f  ye == e \o yf
           xg == xf \o g  yd == d \o ye
           xi == xg \o i  yc == c \o yd
           xj == xi \o j  yb == b \o yc
           xk == xj \o k  ya == a \o yb
<1> HIDE DEF xa, xb, xc, xd, xe, xf, xg, xi, xj, xk, ya, yb, yc, yd, ye, yf, yg, yi, yj, yk
<1>1. xa \in Seq(W) /\ yk \in Seq(W)
  BY ConcatProperties DEF xa, yk
<1>2. xb \in Seq(W) /\ yj \in Seq(W)
  BY <1>1, ConcatProperties DEF xb, yj
<1>3. xc \in Seq(W) /\ yi \in Seq(W)
  BY <1>2, ConcatProperties DEF xc, yi
<1>4. xd \in Seq(W) /\ yg \in Seq(W)
  BY <1>3, ConcatProperties DEF xd, yg
<1>5. xe \in Seq(W) /\ yf \in Seq(W)
  BY <1>4, ConcatProperties DEF xe, yf
<1>6. xf \in Seq(W) /\ ye \in Seq(W)
  BY <1>5, ConcatProperties DEF xf, ye
<1>7. xg \in Seq(W) /\ yd \in Seq(W)
  BY <1>6, ConcatProperties DEF xg, yd
<1>8. xi \in Seq(W) /\ yc \in Seq(W)
  BY <1>7, ConcatProperties DEF xi, yc
<1>9. xj \in Seq(W) /\ yb \in Seq(W)
  BY <1>8, ConcatProperties DEF xj, yb
<1>10. xk \o l = xj \o yk
  <2>1. Associates(xj, k, l)
    BY <1>9, Association
  <2> QED
    BY <2>1 DEF Associates, xk, yk
<1>11. xj \o yk = xi \o yj
  <2>1. Associates(xi, j, yk)
    BY <1>1, <1>8, Association
  <2> QED
    BY <2>1 DEF Associates, xj, yj
<1>12. xi \o yj = xg \o yi
  <2>1. Associates(xg, i, yj)
    BY <1>2, <1>7, Association
  <2> QED
    BY <2>1 DEF Associates, xi, yi
<1>13. xg \o yi = xf \o yg
  <2>1. Associates(xf, g, yi)
    BY <1>3, <1>6, Association
  <2> QED
    BY <2>1 DEF Associates, xg, yg
<1>14. xf \o yg = xe \o yf
  <2>1. Associates(xe, f, yg)
    BY <1>4, <1>5, Association
  <2> QED
    BY <2>1 DEF Associates, xf, yf
<1>15. xe \o yf = xd \o ye
  <2>1. Associates(xd, e, yf)
    BY <1>4, <1>5, Association
  <2> QED
    BY <2>1 DEF Associates, xe, ye
<1>16. xd \o ye = xc \o yd
  <2>1. Associates(xc, d, ye)
    BY <1>3, <1>6, Association
  <2> QED
    BY <2>1 DEF Associates, xd, yd
<1>17. xc \o yd = xb \o yc
  <2>1. Associates(xb, c, yd)
    BY <1>2, <1>7, Association
  <2> QED
    BY <2>1 DEF Associates, xc, yc
<1>18. xb \o yc = xa \o yb
  <2>1. Associates(xa, b, yc)
    BY <1>1, <1>8, Association
  <2> QED
    BY <2>1 DEF Associates, xb, yb
<1>19. xa \o yb = h \o ya
  <2>1. Associates(h, a, yb)
    BY <1>9, Association
  <2> QED
    BY <2>1 DEF Associates, xa, ya
<1>20. xk \o l = h \o ya
  BY <1>10, <1>11, <1>12, <1>13, <1>14, <1>15, <1>16, <1>17, <1>18, <1>19
<1> QED
  BY <1>20 DEF xa, xb, xc, xd, xe, xf, xg, xi, xj, xk, ya, yb, yc, yd, ye, yf, yg, yi, yj, yk,
               Reassociated

\* Six fields strung together with labels that begin with a mark are read back.
ReadBack(h, H, b, d, f, i, k, a, A, c, C, e, E, g, G, j, J, l, L) ==
    h \o a \o b \o c \o d \o e \o f \o g \o i \o j \o k \o l
        = H \o A \o b \o C \o d \o E \o f \o G \o i \o J \o k \o L =>
      h = H /\ a = A /\ c = C /\ e = E /\ g = G /\ j = J /\ l = L

LEMMA FieldsAreReadBack ==
    ASSUME NEW W, NEW mark,
           NEW h \in Seq(W), NEW H \in Seq(W), Len(h) = Len(H),
           NEW b \in Seq(W), NEW d \in Seq(W), NEW f \in Seq(W), NEW i \in Seq(W), NEW k \in Seq(W),
           b # <<>> /\ d # <<>> /\ f # <<>> /\ i # <<>> /\ k # <<>>,
           b[1] = mark /\ d[1] = mark /\ f[1] = mark /\ i[1] = mark /\ k[1] = mark,
           NEW a \in Without(mark, W), NEW A \in Without(mark, W),
           NEW c \in Without(mark, W), NEW C \in Without(mark, W),
           NEW e \in Without(mark, W), NEW E \in Without(mark, W),
           NEW g \in Without(mark, W), NEW G \in Without(mark, W),
           NEW j \in Without(mark, W), NEW J \in Without(mark, W),
           NEW l \in Seq(W), NEW L \in Seq(W)
    PROVE  ReadBack(h, H, b, d, f, i, k, a, A, c, C, e, E, g, G, j, J, l, L)
<1> SUFFICES
      ASSUME h \o a \o b \o c \o d \o e \o f \o g \o i \o j \o k \o l
               = H \o A \o b \o C \o d \o E \o f \o G \o i \o J \o k \o L
      PROVE  h = H /\ a = A /\ c = C /\ e = E /\ g = G /\ j = J /\ l = L
  BY DEF ReadBack
<1> DEFINE x5 == k \o l           X5 == k \o L
           x4 == i \o (j \o x5)   X4 == i \o (J \o X5)
           x3 == f \o (g \o x4)   X3 == f \o (G \o X4)
           x2 == d \o (e \o x3)   X2 == d \o (E \o X3)
           x1 == b \o (c \o x2)   X1 == b \o (C \o X2)
<1>0. \A x \in Without(mark, W) : x \in Seq(W)
  BY DEF Without
<1>1. h \o (a \o x1) = H \o (A \o X1)
  <2>1. Reassociated(h, a, b, c, d, e, f, g, i, j, k, l)
    BY <1>0, Reassociates
  <2>2. Reassociated(H, A, b, C, d, E, f, G, i, J, k, L)
    BY <1>0, Reassociates
  <2> QED
    BY <2>1, <2>2 DEF Reassociated
<1> HIDE DEF x1, x2, x3, x4, x5, X1, X2, X3, X4, X5
<1>c. ASSUME NEW x \in Seq(W), NEW y \in Seq(W) PROVE x \o y \in Seq(W)
  BY ConcatProperties
<1>2. j \o x5 \in Seq(W) /\ J \o X5 \in Seq(W)
  BY <1>0, <1>c DEF x5, X5
<1>3. x4 \in Seq(W) /\ X4 \in Seq(W) /\ g \o x4 \in Seq(W) /\ G \o X4 \in Seq(W)
  BY <1>0, <1>2, <1>c DEF x4, X4
<1>4. x3 \in Seq(W) /\ X3 \in Seq(W) /\ e \o x3 \in Seq(W) /\ E \o X3 \in Seq(W)
  BY <1>0, <1>3, <1>c DEF x3, X3
<1>5. x2 \in Seq(W) /\ X2 \in Seq(W) /\ c \o x2 \in Seq(W) /\ C \o X2 \in Seq(W)
  BY <1>0, <1>4, <1>c DEF x2, X2
<1>6. x1 \in Seq(W) /\ X1 \in Seq(W) /\ a \o x1 \in Seq(W) /\ A \o X1 \in Seq(W)
  BY <1>0, <1>5, <1>c DEF x1, X1
<1>7. h = H /\ a \o x1 = A \o X1
  <2> DEFINE y == a \o x1
             Y == A \o X1
  <2>1. y \in Seq(W) /\ Y \in Seq(W) /\ h \o y = H \o Y
    BY <1>1, <1>6
  <2> HIDE DEF y, Y
  <2>2. h = H /\ y = Y
    BY <2>1, SplitAtLength
  <2> QED
    BY <2>2 DEF y, Y
<1>8. a = A /\ c \o x2 = C \o X2
  <2>1. Splits(a, b, c \o x2, A, C \o X2)
    BY <1>5, SplitAtFirstMark
  <2> QED
    BY <1>7, <2>1 DEF Splits, x1, X1
<1>9. c = C /\ e \o x3 = E \o X3
  <2>1. Splits(c, d, e \o x3, C, E \o X3)
    BY <1>4, SplitAtFirstMark
  <2> QED
    BY <1>8, <2>1 DEF Splits, x2, X2
<1>10. e = E /\ g \o x4 = G \o X4
  <2>1. Splits(e, f, g \o x4, E, G \o X4)
    BY <1>3, SplitAtFirstMark
  <2> QED
    BY <1>9, <2>1 DEF Splits, x3, X3
<1>11. g = G /\ j \o x5 = J \o X5
  <2>1. Splits(g, i, j \o x5, G, J \o X5)
    BY <1>2, SplitAtFirstMark
  <2> QED
    BY <1>10, <2>1 DEF Splits, x4, X4
<1>12. j = J /\ l = L
  <2>1. Splits(j, k, l, J, L)
    BY SplitAtFirstMark
  <2> QED
    BY <1>11, <2>1 DEF Splits, x5, X5
<1> QED
  BY <1>7, <1>8, <1>9, <1>10, <1>11, <1>12

\* An option of a text that is not empty is told by the text in its place.
LEMMA OptionOfText ==
    ASSUME NEW W, NEW a \in Option(Seq(W)), NEW b \in Option(Seq(W))
    PROVE  /\ OrEmpty(a) \in Seq(W) /\ (a # {} => OrEmpty(a) \in a)
           /\ (<<>> \notin a \cup b /\ OrEmpty(a) = OrEmpty(b)) => a = b
<1>1. ASSUME NEW o \in Option(Seq(W))
      PROVE  /\ o \subseteq Seq(W) /\ OrEmpty(o) \in Seq(W)
             /\ o = {} => OrEmpty(o) = <<>>
             /\ o # {} => o = {OrEmpty(o)}
  <2>1. o \subseteq Seq(W) /\ \A x, y \in o : x = y
    BY DEF Option
  <2>2. o # {} => OrEmpty(o) \in o
    BY DEF OrEmpty
  <2>3. o = {} => OrEmpty(o) = <<>>
    BY DEF OrEmpty
  <2> QED
    BY <2>1, <2>2, <2>3, EmptySeq
<1>2. /\ a \subseteq Seq(W) /\ OrEmpty(a) \in Seq(W)
      /\ a = {} => OrEmpty(a) = <<>>
      /\ a # {} => a = {OrEmpty(a)}
  BY <1>1
<1>3. /\ b \subseteq Seq(W) /\ OrEmpty(b) \in Seq(W)
      /\ b = {} => OrEmpty(b) = <<>>
      /\ b # {} => b = {OrEmpty(b)}
  BY <1>1
<1> QED
  BY <1>2, <1>3

\* The part of Readable that is about an explanation.
ReadableWhy(e) ==
    /\ <<>> \notin e.matched_policy \cup ToSet(e.why)
    /\ \A text \in e.matched_policy \cup ToSet(e.why) : {"|", ";"} \cap ToSet(text) = {}
    /\ \A k \in DOMAIN e.almost :
          /\ {"|", ";", ":"} \cap ToSet(e.almost[k].id) = {}
          /\ {"|", ";"} \cap ToSet(e.almost[k].missing) = {}

\* What an explanation adds to the payload.
PolicyText(e) == OrEmpty(e.matched_policy)
WhyText(e)    == Join(e.why, ";")
NearText(e)   == Join(AlmostText(e.almost), ";")

ExplanationText(e) ==
    PolicyText(e) \o (<<"|">> \o (WhyText(e) \o (<<"|">> \o NearText(e))))

LEMMA TextsAreOfTheAlphabet ==
    /\ Text \subseteq Seq(Alphabet)
    /\ \A text \in Text : \A mark : mark \notin ToSet(text) => text \in Without(mark, Alphabet)
<1>1. Words \subseteq Alphabet
  BY DEF Alphabet
<1> HIDE DEF Alphabet
<1>2. Text \subseteq Seq(Alphabet)
  BY <1>1 DEF Text
<1>3. ASSUME NEW text \in Text, NEW mark, mark \notin ToSet(text)
      PROVE  text \in Without(mark, Alphabet)
  <2>1. text \in Seq(Alphabet) /\ DOMAIN text = 1..Len(text)
    BY <1>2, LenProperties
  <2>2. \A i \in 1..Len(text) : text[i] # mark
    BY <1>3, <2>1 DEF ToSet
  <2> QED
    BY <2>1, <2>2 DEF Without
<1> QED
  BY <1>2, <1>3

\* A policy that almost matched, and what it misses, as one text.
Line(r) == r.id \o <<":">> \o r.missing

\* Its text has a colon, and no other mark than its parts have.
LEMMA LineHasAColon ==
    ASSUME NEW r \in AlmostMatched
    PROVE  /\ Line(r) \in Seq(Alphabet) /\ Line(r) \notin Without(":", Alphabet) /\ Line(r) # <<>>
           /\ \A mark \in Alphabet \ {":"} :
                 mark \notin ToSet(r.id) \cup ToSet(r.missing) => Line(r) \in Without(mark, Alphabet)
<1> DEFINE x == r.id
           c == <<":">>
           y == r.missing
           xc == x \o c
           z == xc \o y
<1>1. x \in Text /\ y \in Text /\ x \in Seq(Alphabet) /\ y \in Seq(Alphabet)
  BY TextsAreOfTheAlphabet DEF AlmostMatched
<1>2. ":" \in Alphabet /\ c \in Seq(Alphabet)
  BY DEF Alphabet
<1>3. z = Line(r)
  BY DEF Line
<1> HIDE DEF x, y, c
<1>4. xc \in Seq(Alphabet)
  BY <1>1, <1>2, ConcatLength
<1>5. ASSUME NEW mark PROVE TimesAdd(mark, x, c)
  BY <1>1, <1>2, TimesOfBoth
<1> HIDE DEF xc
<1>6. z \in Seq(Alphabet)
  BY <1>1, <1>4, ConcatLength
<1>7. ASSUME NEW mark PROVE TimesAdd(mark, xc, y)
  BY <1>1, <1>4, TimesOfBoth
<1> HIDE DEF z
<1>8. ASSUME NEW mark
      PROVE  /\ Times(mark, z) = (Times(mark, x) + Times(mark, c)) + Times(mark, y)
             /\ Times(mark, x) \in Nat /\ Times(mark, y) \in Nat /\ Times(mark, z) \in Nat
             /\ Times(mark, z) = 0 <=> z \in Without(mark, Alphabet)
             /\ mark \notin ToSet(x) => Times(mark, x) = 0
             /\ mark \notin ToSet(y) => Times(mark, y) = 0
  <2>1. Times(mark, z) = (Times(mark, x) + Times(mark, c)) + Times(mark, y)
    BY <1>5, <1>7 DEF TimesAdd, z, xc
  <2>2. /\ mark \notin ToSet(x) => x \in Without(mark, Alphabet)
        /\ mark \notin ToSet(y) => y \in Without(mark, Alphabet)
    BY <1>1, TextsAreOfTheAlphabet
  <2> QED
    BY <1>1, <1>6, <2>1, <2>2, TimesAreNumbers
<1>9. Times(":", c) = 1
  BY <1>2, TimesOfWords DEF Alphabet, c
<1>10. ASSUME NEW mark \in Alphabet \ {":"} PROVE Times(mark, c) = 0
  BY <1>2, TimesOfWords DEF c
<1>11. z \notin Without(":", Alphabet)
  BY <1>8, <1>9
<1>12. z # <<>>
  <2>1. <<>> \in Without(":", Alphabet)
    BY DEF Without
  <2> QED
    BY <1>11, <2>1
<1>13. ASSUME NEW mark \in Alphabet \ {":"}, mark \notin ToSet(x) \cup ToSet(y)
       PROVE  z \in Without(mark, Alphabet)
  BY <1>8, <1>10, <1>13
<1> QED
  BY <1>3, <1>6, <1>11, <1>12, <1>13 DEF x, y

\* What misses in the policies that almost matched is read back.
LEMMA AlmostIsReadBack ==
    ASSUME NEW a \in Seq(AlmostMatched), NEW b \in Seq(AlmostMatched),
           \A k \in DOMAIN a : ":" \notin ToSet(a[k].id),
           \A k \in DOMAIN b : ":" \notin ToSet(b[k].id),
           AlmostText(a) = AlmostText(b)
    PROVE  a = b
<1> DEFINE colon == <<":">>
<1>1. colon \in Seq(Alphabet) /\ colon # <<>> /\ colon[1] = ":"
  BY DEF Alphabet
<1> HIDE DEF colon
<1>2. ASSUME NEW s \in Seq(AlmostMatched), \A k \in DOMAIN s : ":" \notin ToSet(s[k].id),
             NEW k \in DOMAIN s
      PROVE  /\ s[k] \in AlmostMatched /\ s[k].id \in Text /\ s[k].missing \in Text
             /\ s[k].id \in Without(":", Alphabet) /\ s[k].missing \in Seq(Alphabet)
             /\ AlmostText(s)[k] = s[k].id \o (colon \o s[k].missing)
  <2>1. s[k] \in AlmostMatched
    BY ElementOfSeq, LenProperties
  <2>2. s[k].id \in Text /\ s[k].missing \in Text
    BY <2>1 DEF AlmostMatched
  <2> DEFINE x == s[k].id
             y == s[k].missing
  <2>3. x \in Without(":", Alphabet) /\ x \in Seq(Alphabet) /\ y \in Seq(Alphabet)
    BY <1>2, <2>2, TextsAreOfTheAlphabet
  <2>4. AlmostText(s)[k] = (x \o colon) \o y
    BY Zenon DEF AlmostText, colon
  <2> HIDE DEF x, y
  <2>5. Associates(x, colon, y)
    BY <1>1, <2>3, Association
  <2>6. AlmostText(s)[k] = x \o (colon \o y)
    BY <2>4, <2>5 DEF Associates
  <2> QED
    BY <2>1, <2>2, <2>3, <2>6 DEF x, y
<1>3. Len(a) = Len(b) /\ DOMAIN a = 1..Len(a) /\ DOMAIN b = 1..Len(b)
  <2>1. DOMAIN AlmostText(a) = DOMAIN a /\ DOMAIN AlmostText(b) = DOMAIN b
    BY DEF AlmostText
  <2>2. /\ Len(a) \in Nat /\ DOMAIN a = 1..Len(a)
        /\ Len(b) \in Nat /\ DOMAIN b = 1..Len(b)
    BY LenProperties
  <2>3. \A m, n \in Nat : 1..m = 1..n => m = n
    <3>1. ASSUME NEW m \in Nat, NEW n \in Nat, 1..m = 1..n PROVE m = n
      <4>1. (m # 0 => m \in 1..m) /\ (n # 0 => n \in 1..n)
        OBVIOUS
      <4>2. (m # 0 => m \in 1..n) /\ (n # 0 => n \in 1..m)
        BY <3>1, <4>1, Zenon
      <4> QED
        BY <4>2
    <3> QED
      BY <3>1
  <2>4. 1..Len(a) = 1..Len(b)
    BY <2>1, <2>2
  <2> QED
    BY <2>2, <2>3, <2>4, Zenon
<1>r. \A r, t \in AlmostMatched : r.id = t.id /\ r.missing = t.missing => r = t
  BY DEF AlmostMatched
<1>4. ASSUME NEW k \in 1..Len(a) PROVE a[k] = b[k]
  <2> DEFINE x == a[k].id  y == a[k].missing
             u == b[k].id  v == b[k].missing
  <2>1. /\ a[k] \in AlmostMatched /\ x \in Without(":", Alphabet) /\ y \in Seq(Alphabet)
        /\ AlmostText(a)[k] = x \o (colon \o y)
    BY <1>2, <1>3
  <2>2. /\ b[k] \in AlmostMatched /\ u \in Without(":", Alphabet) /\ v \in Seq(Alphabet)
        /\ AlmostText(b)[k] = u \o (colon \o v)
    BY <1>2, <1>3
  <2> HIDE DEF x, y, u, v
  <2>3. Splits(x, colon, y, u, v)
    BY <1>1, <2>1, <2>2, SplitAtFirstMark
  <2>4. x = u /\ y = v
    BY <2>1, <2>2, <2>3 DEF Splits
  <2> QED
    BY <1>r, <2>1, <2>2, <2>4 DEF x, y, u, v
<1> QED
  BY <1>3, <1>4, SeqEqual

\* The texts that an explanation is made of.
LEMMA ExplanationTexts ==
    ASSUME NEW e \in Explanation
    PROVE  /\ PolicyText(e) \in Seq(Alphabet) /\ e.matched_policy \in Option(Seq(Alphabet))
           /\ \A text \in e.matched_policy : text \in Text
           /\ e.why \in Seq(Text) /\ e.why \in Seq(Seq(Alphabet))
           /\ e.almost \in Seq(AlmostMatched)
           /\ AlmostText(e.almost) \in Seq(Seq(Alphabet) \ Without(":", Alphabet))
           /\ \A k \in DOMAIN e.almost :
                 e.almost[k] \in AlmostMatched /\ AlmostText(e.almost)[k] = Line(e.almost[k])
<1> DEFINE m == e.matched_policy
           w == e.why
           s == e.almost
           t == AlmostText(s)
           A == Seq(Alphabet) \ Without(":", Alphabet)
<1>1. m \in Option(Text) /\ w \in Seq(Text) /\ s \in Seq(AlmostMatched)
  BY DEF Explanation
<1> HIDE DEF m, w, s
<1>2. m \in Option(Seq(Alphabet)) /\ \A text \in m : text \in Text
  BY <1>1, TextsAreOfTheAlphabet DEF Option
<1>3. OrEmpty(m) \in Seq(Alphabet)
  BY <1>2, OptionOfText
<1>4. w \in Seq(Seq(Alphabet))
  BY <1>1, TextsAreOfTheAlphabet
<1>5. Len(s) \in Nat /\ DOMAIN s = 1..Len(s) /\ \A k \in DOMAIN s : s[k] \in AlmostMatched
  BY <1>1, ElementOfSeq, LenProperties
<1>6. t = [k \in 1..Len(s) |-> Line(s[k])]
  BY <1>5 DEF AlmostText, Line
<1>7. \A k \in DOMAIN s : Line(s[k]) \in A
  BY <1>5, LineHasAColon
<1> HIDE DEF t, A
<1>8. t \in Seq(A) /\ \A k \in DOMAIN s : t[k] = Line(s[k])
  BY <1>5, <1>6, <1>7, IsASeq
<1> QED
  BY <1>1, <1>2, <1>3, <1>4, <1>5, <1>8 DEF m, w, s, t, A, PolicyText

LEMMA ReadableTexts ==
    ASSUME NEW e \in Explanation, ReadableWhy(e)
    PROVE  /\ PolicyText(e) \in Without("|", Alphabet) /\ <<>> \notin e.matched_policy
           /\ e.why \in Seq(Without(";", Alphabet) \ {<<>>})
           /\ e.why \in Seq(Without("|", Alphabet))
           /\ AlmostText(e.almost) \in Seq(Without(";", Alphabet) \ {<<>>})
           /\ AlmostText(e.almost) \in Seq(Without("|", Alphabet))
           /\ \A k \in DOMAIN e.almost : ":" \notin ToSet(e.almost[k].id)
<1> DEFINE m == e.matched_policy
           w == e.why
           s == e.almost
           t == AlmostText(s)
           A == Without(";", Alphabet) \ {<<>>}
           B == Without("|", Alphabet)
<1>1. /\ m \in Option(Seq(Alphabet)) /\ \A text \in m : text \in Text
      /\ w \in Seq(Text) /\ s \in Seq(AlmostMatched)
      /\ t \in Seq(Seq(Alphabet) \ Without(":", Alphabet))
      /\ \A k \in DOMAIN s : s[k] \in AlmostMatched /\ t[k] = Line(s[k])
  BY ExplanationTexts
<1>2. /\ <<>> \notin m \cup ToSet(w)
      /\ \A text \in m \cup ToSet(w) : "|" \notin ToSet(text) /\ ";" \notin ToSet(text)
      /\ \A k \in DOMAIN s :
            /\ ":" \notin ToSet(s[k].id)
            /\ ";" \notin ToSet(s[k].id) \cup ToSet(s[k].missing)
            /\ "|" \notin ToSet(s[k].id) \cup ToSet(s[k].missing)
  <2>1. \A S : /\ {"|", ";"} \cap S = {} => "|" \notin S /\ ";" \notin S
               /\ {"|", ";", ":"} \cap S = {} => ":" \notin S /\ ";" \notin S /\ "|" \notin S
    OBVIOUS
  <2> QED
    BY <2>1 DEF ReadableWhy
<1>d. DOMAIN t = DOMAIN s
  BY DEF AlmostText
<1> HIDE DEF m, w, s, t
<1>3. OrEmpty(m) \in B
  <2>1. CASE m = {}
    <3>1. OrEmpty(m) = <<>>
      BY <2>1 DEF OrEmpty
    <3>2. <<>> \in Without("|", Alphabet)
      BY DEF Without
    <3> QED
      BY <3>1, <3>2
  <2>2. CASE m # {}
    <3>1. OrEmpty(m) \in m
      BY <1>1, <2>2, OptionOfText
    <3> QED
      BY <1>1, <1>2, <3>1, TextsAreOfTheAlphabet
  <2> QED
    BY <2>1, <2>2
<1>4. \A i \in DOMAIN w : w[i] \in A /\ w[i] \in B
  <2>1. \A i \in DOMAIN w : w[i] \in Text /\ w[i] \in ToSet(w)
    BY <1>1, ElementOfSeq, LenProperties DEF ToSet
  <2> QED
    BY <1>2, <2>1, TextsAreOfTheAlphabet
<1>5. \A k \in DOMAIN t : t[k] \in A /\ t[k] \in B
  <2>1. ";" \in Alphabet \ {":"} /\ "|" \in Alphabet \ {":"}
    BY DEF Alphabet
  <2>2. \A k \in DOMAIN s : Line(s[k]) \in A /\ Line(s[k]) \in B
    BY <1>1, <1>2, <2>1, LineHasAColon
  <2> HIDE DEF A, B
  <2> QED
    BY <1>1, <1>d, <2>2
<1> HIDE DEF A, B
<1>6. ASSUME NEW u, NEW S, u \in Seq(S), \A i \in DOMAIN u : u[i] \in A /\ u[i] \in B
      PROVE  u \in Seq(A) /\ u \in Seq(B)
  <2>1. u = [i \in 1..Len(u) |-> u[i]] /\ Len(u) \in Nat /\ DOMAIN u = 1..Len(u)
    BY <1>6, LenProperties
  <2> QED
    BY <1>6, <2>1, IsASeq
<1>7. w \in Seq(A) /\ w \in Seq(B)
  BY <1>1, <1>4, <1>6
<1>8. t \in Seq(A) /\ t \in Seq(B)
  BY <1>1, <1>5, <1>6
<1> QED
  BY <1>2, <1>3, <1>7, <1>8 DEF m, w, s, t, A, B, PolicyText

LEMMA OneWord ==
    ASSUME NEW W, NEW w \in W
    PROVE  <<w>> \in Seq(W)
  OBVIOUS

\* Lines that each have a colon have one when they are joined.
LEMMA NearTextHasAColon ==
    ASSUME NEW s \in Seq(Seq(Alphabet) \ Without(":", Alphabet))
    PROVE  Join(s, ";") \in Seq(Alphabet) /\ Join(s, ";") # <<"expl=">>
<1> DEFINE L == Seq(Alphabet) \ Without(":", Alphabet)
           J(t) == Join(t, ";")
           T == {t \in Seq(L) : J(t) \in Seq(Alphabet) /\ (t = <<>> \/ Times(":", J(t)) > 0)}
           semi == <<";">>
<1>1. /\ ";" \in Alphabet /\ ":" \in Alphabet /\ "expl=" \in Alphabet /\ ":" # "expl="
      /\ semi \in Seq(Alphabet)
  <2>1. ";" \in Alphabet /\ ":" \in Alphabet /\ "expl=" \in Alphabet /\ ":" # "expl="
    BY DEF Alphabet
  <2>2. ";" \in Alphabet
    BY <2>1
  <2>3. semi \in Seq(Alphabet)
    BY <2>2, OneWord
  <2> QED
    BY <2>1, <2>3, Zenon
<1>2. L \subseteq Seq(Alphabet) /\ \A x \in L : x \notin Without(":", Alphabet)
  OBVIOUS
<1> HIDE DEF L
<1>3. \A t \in Seq(L) : t \in Seq(Seq(Alphabet))
  BY <1>2
<1>4. \A x \in L : Times(":", x) > 0
  <2> SUFFICES ASSUME NEW x \in L PROVE Times(":", x) > 0
    OBVIOUS
  <2>1. Times(":", x) \in Nat /\ Times(":", x) # 0
    BY <1>2, TimesAreNumbers
  <2> QED
    BY <2>1
<1>5. ASSUME NEW t \in Seq(L), NEW x \in L
      PROVE  /\ J(t) \in Seq(Alphabet) /\ J(<<>>) = <<>>
             /\ t = <<>> => J(Append(t, x)) = x
             /\ t # <<>> => J(Append(t, x)) = J(t) \o (semi \o x)
  <2>1. JoinsOneMore(Alphabet, ";", t, x)
    BY <1>1, <1>2, <1>3, JoinAppends
  <2> QED
    BY <2>1 DEF JoinsOneMore
<1> HIDE DEF J, semi
<1>6. J(<<>>) = <<>> /\ <<>> \in T
  <2>1. JoinsOneMore(Alphabet, ";", <<>>, <<>>)
    BY <1>1, JoinAppends, EmptySeq
  <2> QED
    BY <2>1, EmptySeq DEF JoinsOneMore, J
<1>7. ASSUME NEW t \in Seq(L), NEW x \in L, t \in T PROVE Append(t, x) \in T
  <2>1. x \in Seq(Alphabet) /\ Times(":", x) > 0 /\ Append(t, x) \in Seq(L)
    BY <1>2, <1>4, AppendProperties
  <2>2. CASE t = <<>>
    BY <1>5, <2>1, <2>2
  <2>3. CASE t # <<>>
    <3> DEFINE y == semi \o x
    <3>1. y \in Seq(Alphabet) /\ J(t) \in Seq(Alphabet)
      BY <1>1, <1>5, <2>1, ConcatLength
    <3> HIDE DEF y
    <3>2. J(t) \o y \in Seq(Alphabet)
      BY <3>1, ConcatLength
    <3>3. TimesAdd(":", J(t), y) /\ Times(":", J(t)) > 0
      BY <1>7, <2>3, <3>1, TimesOfBoth
    <3>4. Times(":", y) \in Nat /\ Times(":", J(t)) \in Nat
      BY <3>1, TimesAreNumbers
    <3>5. Times(":", J(t) \o y) > 0
      BY <3>3, <3>4 DEF TimesAdd
    <3>6. J(Append(t, x)) = J(t) \o y
      BY <1>5, <2>3 DEF y
    <3> QED
      BY <2>1, <3>2, <3>5, <3>6
  <2> QED
    BY <2>2, <2>3
<1> HIDE DEF T
<1>8. Seq(L) \subseteq T
  BY <1>6, <1>7, SeqInduction
<1>9. s \in T
  BY <1>8 DEF L
<1>10. J(s) \in Seq(Alphabet) /\ (s = <<>> \/ Times(":", J(s)) > 0)
  BY <1>9 DEF T
<1>11. Times(":", <<"expl=">>) = 0
  BY <1>1, TimesOfWords
<1>12. J(s) # <<"expl=">>
  <2>1. <<>> # <<"expl=">>
    OBVIOUS
  <2> QED
    BY <1>6, <1>10, <1>11, <2>1
<1> QED
  BY <1>10, <1>12 DEF J

LEMMA ExplanationParts ==
    ASSUME NEW e \in Explanation
    PROVE  /\ PolicyText(e) \in Seq(Alphabet) /\ WhyText(e) \in Seq(Alphabet)
           /\ NearText(e) \in Seq(Alphabet) /\ NearText(e) # <<"expl=">>
           /\ WhyText(e) \o (<<"|">> \o NearText(e)) \in Seq(Alphabet)
           /\ ExplanationText(e) \in Seq(Alphabet)
           /\ Times("|", ExplanationText(e))
                = Times("|", PolicyText(e)) + Times("|", WhyText(e)) + Times("|", NearText(e)) + 2
           /\ CanonicalizeExplanation({e}) = ExplanationText(e)
<1> DEFINE bar == <<"|">>
           m == PolicyText(e)
           y == WhyText(e)
           z == NearText(e)
<1>0. ";" \in Alphabet /\ bar \in Seq(Alphabet)
  BY DEF Alphabet
<1>b. Times("|", bar) = 1
  <2>1. "|" \in Alphabet /\ ":" \in Alphabet
    BY DEF Alphabet
  <2> QED
    BY <2>1, TimesOfWords
<1>1. m \in Seq(Alphabet)
  BY ExplanationTexts
<1>2. y \in Seq(Alphabet)
  <2>1. e.why \in Seq(Seq(Alphabet))
    BY ExplanationTexts
  <2>2. JoinsOneMore(Alphabet, ";", e.why, <<>>)
    BY <1>0, <2>1, JoinAppends, EmptySeq
  <2> QED
    BY <2>2 DEF JoinsOneMore, WhyText
<1>3. z \in Seq(Alphabet) /\ z # <<"expl=">>
  BY ExplanationTexts, NearTextHasAColon DEF NearText
<1>4. CanonicalizeExplanation({e}) = m \o bar \o y \o bar \o z
  <2>1. {e} # {} /\ (CHOOSE x \in {e} : TRUE) = e
    OBVIOUS
  <2> QED
    BY <2>1 DEF CanonicalizeExplanation, PolicyText, WhyText, NearText
<1> HIDE DEF m, y, z, bar
<1> DEFINE mb == m \o bar
           mby == mb \o y
           bz == bar \o z
           ybz == y \o bz
           bybz == bar \o ybz
           all == m \o bybz
<1>5. mb \in Seq(Alphabet) /\ bz \in Seq(Alphabet) /\ TimesAdd("|", bar, z)
  BY <1>0, <1>1, <1>3, ConcatProperties, TimesOfBoth
<1> HIDE DEF mb, bz
<1>6. mby \in Seq(Alphabet) /\ ybz \in Seq(Alphabet) /\ TimesAdd("|", y, bz)
  BY <1>2, <1>5, ConcatProperties, TimesOfBoth
<1> HIDE DEF mby, ybz
<1>7. bybz \in Seq(Alphabet) /\ TimesAdd("|", bar, ybz)
  BY <1>0, <1>6, ConcatProperties, TimesOfBoth
<1>8. /\ Associates(mby, bar, z) /\ Associates(mb, y, bz) /\ Associates(m, bar, ybz)
  BY <1>0, <1>1, <1>2, <1>3, <1>5, <1>6, Association
<1>9. mby \o bar \o z = all
  BY <1>8 DEF Associates, mb, bz, mby, ybz
<1> HIDE DEF bybz
<1>10. all \in Seq(Alphabet) /\ TimesAdd("|", m, bybz)
  BY <1>1, <1>7, ConcatProperties, TimesOfBoth
<1>11. Times("|", all) = Times("|", m) + (1 + (Times("|", y) + (1 + Times("|", z))))
  BY <1>5, <1>6, <1>7, <1>10, <1>b DEF TimesAdd, bz, ybz, bybz
<1>12. Times("|", m) \in Nat /\ Times("|", y) \in Nat /\ Times("|", z) \in Nat
  BY <1>1, <1>2, <1>3, TimesAreNumbers
<1>13. Times("|", all) = Times("|", m) + Times("|", y) + Times("|", z) + 2
  BY <1>11, <1>12
<1>14. ExplanationText(e) = all
  BY DEF ExplanationText, m, y, z, bar, bz, ybz, bybz
<1>15. CanonicalizeExplanation({e}) = all
  BY <1>4, <1>9 DEF mb, mby
<1> HIDE DEF all
<1> QED
  BY <1>1, <1>2, <1>3, <1>6, <1>10, <1>13, <1>14, <1>15 DEF m, y, z, bar, bz, ybz

LEMMA ReadableParts ==
    ASSUME NEW e \in Explanation, ReadableWhy(e)
    PROVE  /\ PolicyText(e) \in Without("|", Alphabet) /\ WhyText(e) \in Without("|", Alphabet)
           /\ NearText(e) \in Without("|", Alphabet)
<1>1. "|" # ";" /\ ";" \in Alphabet
  BY DEF Alphabet
<1> QED
  BY <1>1, ReadableTexts, JoinIsWithout DEF WhyText, NearText

\* An option of an explanation is none or one.
LEMMA NoneOrOne ==
    ASSUME NEW o \in Option(Explanation)
    PROVE  o = {} \/ \E e \in Explanation : o = {e}
  BY DEF Option

\* Without further bars, the parts of an explanation are told apart.
LEMMA ExplanationIsTakenApart ==
    ASSUME NEW d \in Explanation, NEW e \in Explanation, ExplanationText(d) = ExplanationText(e),
           PolicyText(d) \in Without("|", Alphabet), PolicyText(e) \in Without("|", Alphabet),
           WhyText(d) \in Without("|", Alphabet), WhyText(e) \in Without("|", Alphabet)
    PROVE  PolicyText(d) = PolicyText(e) /\ WhyText(d) = WhyText(e) /\ NearText(d) = NearText(e)
<1> DEFINE bar == <<"|">>
           rest(x) == WhyText(x) \o (bar \o NearText(x))
<1>1. bar \in Seq(Alphabet) /\ bar # <<>> /\ bar[1] = "|"
  <2>1. "|" \in Alphabet
    BY DEF Alphabet
  <2> QED
    BY <2>1
<1>2. /\ rest(d) \in Seq(Alphabet) /\ NearText(d) \in Seq(Alphabet)
      /\ rest(e) \in Seq(Alphabet) /\ NearText(e) \in Seq(Alphabet)
  BY ExplanationParts
<1>3. PolicyText(d) \o (bar \o rest(d)) = PolicyText(e) \o (bar \o rest(e))
  BY DEF ExplanationText
<1> HIDE DEF bar, rest
<1>4. PolicyText(d) = PolicyText(e) /\ rest(d) = rest(e)
  <2>1. Splits(PolicyText(d), bar, rest(d), PolicyText(e), rest(e))
    BY <1>1, <1>2, SplitAtFirstMark
  <2> QED
    BY <1>3, <2>1 DEF Splits
<1>5. WhyText(d) = WhyText(e) /\ NearText(d) = NearText(e)
  <2>1. Splits(WhyText(d), bar, NearText(d), WhyText(e), NearText(e))
    BY <1>1, <1>2, SplitAtFirstMark
  <2> QED
    BY <1>4, <2>1 DEF Splits, rest
<1> QED
  BY <1>4, <1>5

\* What the payload says of an explanation that can be read back is all of it.
LEMMA ExplanationIsReadBack ==
    ASSUME NEW d \in Explanation, NEW e \in Explanation, ReadableWhy(d), ReadableWhy(e),
           PolicyText(d) = PolicyText(e), WhyText(d) = WhyText(e), NearText(d) = NearText(e)
    PROVE  d = e
<1>1. "|" # ";" /\ ";" \in Alphabet
  BY DEF Alphabet
<1>2. d.matched_policy = e.matched_policy
  BY ExplanationTexts, ReadableTexts, OptionOfText DEF PolicyText
<1>3. d.why = e.why
  BY <1>1, ReadableTexts, JoinIsInjective DEF WhyText
<1>4. AlmostText(d.almost) = AlmostText(e.almost)
  BY <1>1, ReadableTexts, JoinIsInjective DEF NearText
<1>5. d.almost = e.almost
  BY <1>4, ExplanationTexts, ReadableTexts, AlmostIsReadBack
<1> QED
  BY <1>2, <1>3, <1>5 DEF Explanation

\* A payload: a head, six fields with the labels between them, and the rest.
Strung(h, a, b, c, d, e, f, g, i, j, k, l) ==
    h \o a \o b \o c \o d \o e \o f \o g \o i \o j \o k \o l

\* What stands before the last two parts of a payload.
Opening(h, a, b, c, d, e, f, g, i, j) == h \o a \o b \o c \o d \o e \o f \o g \o i \o j

StrungOf(W, mark, h, a, b, c, d, e, f, g, i, j, k, l) ==
    /\ Strung(h, a, b, c, d, e, f, g, i, j, k, l) \in Seq(W)
    /\ Opening(h, a, b, c, d, e, f, g, i, j) \in Seq(W)
    /\ Strung(h, a, b, c, d, e, f, g, i, j, k, l)
         = (Opening(h, a, b, c, d, e, f, g, i, j) \o k) \o l
    /\ Times(mark, Strung(h, a, b, c, d, e, f, g, i, j, k, l))
         = Times(mark, h) + Times(mark, a) + Times(mark, b) + Times(mark, c)
             + Times(mark, d) + Times(mark, e) + Times(mark, f) + Times(mark, g)
             + Times(mark, i) + Times(mark, j) + Times(mark, k) + Times(mark, l)

LEMMA StrungTogether ==
    ASSUME NEW W, NEW mark, NEW h \in Seq(W), NEW a \in Seq(W), NEW b \in Seq(W), NEW c \in Seq(W),
           NEW d \in Seq(W), NEW e \in Seq(W), NEW f \in Seq(W), NEW g \in Seq(W),
           NEW i \in Seq(W), NEW j \in Seq(W), NEW k \in Seq(W), NEW l \in Seq(W)
    PROVE  StrungOf(W, mark, h, a, b, c, d, e, f, g, i, j, k, l)
<1> DEFINE xa == h \o a   xb == xa \o b  xc == xb \o c  xd == xc \o d  xe == xd \o e
           xf == xe \o f  xg == xf \o g  xi == xg \o i  xj == xi \o j  xk == xj \o k
           xl == xk \o l
<1>0. ASSUME NEW x \in Seq(W), NEW y \in Seq(W)
      PROVE  x \o y \in Seq(W) /\ Times(mark, x \o y) = Times(mark, x) + Times(mark, y)
  BY ConcatLength, TimesOfBoth DEF TimesAdd
<1> HIDE DEF xa, xb, xc, xd, xe, xf, xg, xi, xj, xk, xl
<1>1. xa \in Seq(W) /\ Times(mark, xa) = Times(mark, h) + Times(mark, a)
  BY <1>0 DEF xa
<1>2. xb \in Seq(W) /\ Times(mark, xb) = Times(mark, xa) + Times(mark, b)
  BY <1>0, <1>1 DEF xb
<1>3. xc \in Seq(W) /\ Times(mark, xc) = Times(mark, xb) + Times(mark, c)
  BY <1>0, <1>2 DEF xc
<1>4. xd \in Seq(W) /\ Times(mark, xd) = Times(mark, xc) + Times(mark, d)
  BY <1>0, <1>3 DEF xd
<1>5. xe \in Seq(W) /\ Times(mark, xe) = Times(mark, xd) + Times(mark, e)
  BY <1>0, <1>4 DEF xe
<1>6. xf \in Seq(W) /\ Times(mark, xf) = Times(mark, xe) + Times(mark, f)
  BY <1>0, <1>5 DEF xf
<1>7. xg \in Seq(W) /\ Times(mark, xg) = Times(mark, xf) + Times(mark, g)
  BY <1>0, <1>6 DEF xg
<1>8. xi \in Seq(W) /\ Times(mark, xi) = Times(mark, xg) + Times(mark, i)
  BY <1>0, <1>7 DEF xi
<1>9. xj \in Seq(W) /\ Times(mark, xj) = Times(mark, xi) + Times(mark, j)
  BY <1>0, <1>8 DEF xj
<1>10. xk \in Seq(W) /\ Times(mark, xk) = Times(mark, xj) + Times(mark, k)
  BY <1>0, <1>9 DEF xk
<1>11. xl \in Seq(W) /\ Times(mark, xl) = Times(mark, xk) + Times(mark, l)
  BY <1>0, <1>10 DEF xl
<1>12. Strung(h, a, b, c, d, e, f, g, i, j, k, l) = xl
  BY DEF Strung, xa, xb, xc, xd, xe, xf, xg, xi, xj, xk, xl
<1>13. Opening(h, a, b, c, d, e, f, g, i, j) = xj
  BY DEF Opening, xa, xb, xc, xd, xe, xf, xg, xi, xj
<1>14. Times(mark, xl) = Times(mark, h) + Times(mark, a) + Times(mark, b) + Times(mark, c)
                    + Times(mark, d) + Times(mark, e) + Times(mark, f) + Times(mark, g)
                    + Times(mark, i) + Times(mark, j) + Times(mark, k) + Times(mark, l)
  BY ONLY <1>1, <1>2, <1>3, <1>4, <1>5, <1>6, <1>7, <1>8, <1>9, <1>10, <1>11
<1> QED
  BY <1>9, <1>11, <1>12, <1>13, <1>14 DEF xk, xl, StrungOf

LEMMA HeadsAreEqual ==
    ASSUME NEW W, NEW h \in Seq(W), NEW H \in Seq(W), Len(h) = Len(H),
           NEW a \in Seq(W), NEW b \in Seq(W), NEW c \in Seq(W),
           NEW d \in Seq(W), NEW e \in Seq(W), NEW f \in Seq(W), NEW g \in Seq(W),
           NEW i \in Seq(W), NEW j \in Seq(W), NEW k \in Seq(W), NEW l \in Seq(W),
           NEW A \in Seq(W), NEW C \in Seq(W), NEW E \in Seq(W), NEW G \in Seq(W),
           NEW J \in Seq(W), NEW L \in Seq(W),
           Strung(h, a, b, c, d, e, f, g, i, j, k, l) = Strung(H, A, b, C, d, E, f, G, i, J, k, L)
    PROVE  h = H
<1>0. ASSUME NEW p \in Seq(W), NEW q \in Seq(W) PROVE p \o q \in Seq(W)
  BY ConcatLength
<1> DEFINE x == a \o (b \o (c \o (d \o (e \o (f \o (g \o (i \o (j \o (k \o l)))))))))
           X == A \o (b \o (C \o (d \o (E \o (f \o (G \o (i \o (J \o (k \o L)))))))))
<1>1. x \in Seq(W) /\ X \in Seq(W)
  BY <1>0
<1>2. Reassociated(h, a, b, c, d, e, f, g, i, j, k, l)
  BY Reassociates
<1>3. Reassociated(H, A, b, C, d, E, f, G, i, J, k, L)
  BY Reassociates
<1>4. h \o x = H \o X
  BY <1>2, <1>3 DEF Reassociated, Strung
<1> HIDE DEF x, X
<1> QED
  BY <1>1, <1>4, SplitAtLength

\* A content in its payload.
HeadOf(c) == <<"v1", "|", "effect=", c.decision_effect, "|", "policy=">>
Tag(word) == <<"|", word>>
Rest(c) == CanonicalizeExplanation(c.explanation)

PayloadOf(c) ==
    Strung(HeadOf(c), OrEmpty(c.matched_policy), Tag("principal="), c.principal_id,
           Tag("action="), c.action, Tag("rtype="), c.resource_type,
           Tag("rid="), c.resource_id, Tag("expl="), Rest(c))

\* The bars inside its fields, of which there should be none.
FieldBars(c) ==
    Times("|", OrEmpty(c.matched_policy)) + Times("|", c.principal_id) + Times("|", c.action)
      + Times("|", c.resource_type) + Times("|", c.resource_id)

LEMMA TagsAreTexts ==
    ASSUME NEW word \in {"principal=", "action=", "rtype=", "rid=", "expl="}
    PROVE  /\ Tag(word) \in Seq(Alphabet) /\ Tag(word) # <<>> /\ Tag(word)[1] = "|"
           /\ Times("|", Tag(word)) = 1 /\ Times("|", <<word>>) = 0 /\ <<word>> \in Seq(Alphabet)
<1>1. "|" \in Alphabet /\ word \in Alphabet /\ word # "|"
  BY DEF Alphabet
<1>2. Times("|", <<"|", word>>) = 1 /\ Times("|", <<word>>) = 0
  BY <1>1, TimesOfWords
<1> QED
  BY <1>1, <1>2 DEF Tag

LEMMA ContentTexts ==
    ASSUME NEW c \in Content
    PROVE  /\ HeadOf(c) \in Seq(Alphabet) /\ Len(HeadOf(c)) = 6 /\ HeadOf(c)[4] = c.decision_effect
           /\ OrEmpty(c.matched_policy) \in Seq(Alphabet)
           /\ c.matched_policy \in Option(Seq(Alphabet))
           /\ c.principal_id \in Seq(Alphabet) /\ c.action \in Seq(Alphabet)
           /\ c.resource_type \in Seq(Alphabet) /\ c.resource_id \in Seq(Alphabet)
           /\ \/ c.explanation = {} /\ Rest(c) = <<>>
              \/ \E e \in Explanation : c.explanation = {e} /\ Rest(c) = ExplanationText(e)
           /\ Rest(c) \in Seq(Alphabet)
           /\ CanonicalPayload(c) = PayloadOf(c)
<1>1. /\ c.decision_effect \in Words /\ c.matched_policy \in Option(Text)
      /\ c.principal_id \in Text /\ c.action \in Text /\ c.resource_type \in Text
      /\ c.resource_id \in Text /\ c.explanation \in Option(Explanation)
  BY DEF Content
<1>2. HeadOf(c) \in Seq(Alphabet) /\ Len(HeadOf(c)) = 6 /\ HeadOf(c)[4] = c.decision_effect
  <2> DEFINE effect == c.decision_effect
  <2>1. /\ effect \in Alphabet /\ "v1" \in Alphabet /\ "|" \in Alphabet
        /\ "effect=" \in Alphabet /\ "policy=" \in Alphabet
    BY <1>1 DEF Alphabet
  <2> HIDE DEF effect
  <2>2. HeadOf(c) = <<"v1", "|", "effect=", effect, "|", "policy=">>
    BY DEF effect, HeadOf
  <2>3. HeadOf(c) \in Seq(Alphabet)
    BY ONLY <2>1, <2>2
  <2> QED
    BY ONLY <2>2, <2>3 DEF effect
<1>3. c.matched_policy \in Option(Seq(Alphabet))
  BY <1>1, TextsAreOfTheAlphabet DEF Option
<1>4. OrEmpty(c.matched_policy) \in Seq(Alphabet)
  BY <1>3, OptionOfText
<1>5. \/ c.explanation = {} /\ Rest(c) = <<>>
      \/ \E e \in Explanation : c.explanation = {e} /\ Rest(c) = ExplanationText(e)
  <2>1. CASE c.explanation = {}
    BY <2>1 DEF Rest, CanonicalizeExplanation
  <2>2. CASE c.explanation # {}
    <3>1. PICK e \in Explanation : c.explanation = {e}
      BY <1>1, <2>2, NoneOrOne
    <3>2. Rest(c) = ExplanationText(e)
      BY <3>1, ExplanationParts DEF Rest
    <3> QED
      BY <3>1, <3>2
  <2> QED
    BY <2>1, <2>2
<1>6. Rest(c) \in Seq(Alphabet)
  BY <1>5, ExplanationParts, EmptySeq
<1>7. CanonicalPayload(c) = PayloadOf(c)
  BY Zenon DEF CanonicalPayload, PayloadOf, Strung, HeadOf, Tag, Rest
<1> QED
  BY <1>1, <1>2, <1>3, <1>4, <1>5, <1>6, <1>7, TextsAreOfTheAlphabet

LEMMA PayloadBars ==
    ASSUME NEW c \in Content
    PROVE  /\ Times("|", CanonicalPayload(c))
                = Times("|", HeadOf(c)) + FieldBars(c) + 5 + Times("|", Rest(c))
           /\ Times("|", HeadOf(c)) \in Nat /\ FieldBars(c) \in Nat /\ Times("|", Rest(c)) \in Nat
           /\ FieldBars(c) = 0 =>
                /\ OrEmpty(c.matched_policy) \in Without("|", Alphabet)
                /\ c.principal_id \in Without("|", Alphabet) /\ c.action \in Without("|", Alphabet)
                /\ c.resource_type \in Without("|", Alphabet)
                /\ c.resource_id \in Without("|", Alphabet)
<1> DEFINE m == OrEmpty(c.matched_policy)
           p == c.principal_id
           a == c.action
           t == c.resource_type
           r == c.resource_id
           h == HeadOf(c)
           l == Rest(c)
<1>1. /\ h \in Seq(Alphabet) /\ m \in Seq(Alphabet) /\ p \in Seq(Alphabet) /\ a \in Seq(Alphabet)
      /\ t \in Seq(Alphabet) /\ r \in Seq(Alphabet) /\ l \in Seq(Alphabet)
      /\ CanonicalPayload(c) = PayloadOf(c)
  BY ContentTexts
<1>2. FieldBars(c) = Times("|", m) + Times("|", p) + Times("|", a) + Times("|", t) + Times("|", r)
  BY DEF FieldBars
<1>3. PayloadOf(c) = Strung(h, m, Tag("principal="), p, Tag("action="), a, Tag("rtype="), t,
                            Tag("rid="), r, Tag("expl="), l)
  BY DEF PayloadOf
<1> HIDE DEF m, p, a, t, r, h, l
<1>4. Times("|", PayloadOf(c))
        = Times("|", h) + Times("|", m) + Times("|", Tag("principal=")) + Times("|", p)
            + Times("|", Tag("action=")) + Times("|", a) + Times("|", Tag("rtype="))
            + Times("|", t) + Times("|", Tag("rid=")) + Times("|", r)
            + Times("|", Tag("expl=")) + Times("|", l)
  <2> DEFINE tp == Tag("principal=")  ta == Tag("action=")  tt == Tag("rtype=")
             tr == Tag("rid=")        tl == Tag("expl=")
  <2>1. /\ tp \in Seq(Alphabet) /\ ta \in Seq(Alphabet) /\ tt \in Seq(Alphabet)
        /\ tr \in Seq(Alphabet) /\ tl \in Seq(Alphabet)
    BY TagsAreTexts
  <2> HIDE DEF tp, ta, tt, tr, tl
  <2>2. StrungOf(Alphabet, "|", h, m, tp, p, ta, a, tt, t, tr, r, tl, l)
    BY <1>1, <2>1, StrungTogether
  <2>3. PayloadOf(c) = Strung(h, m, tp, p, ta, a, tt, t, tr, r, tl, l)
    BY <1>3 DEF tp, ta, tt, tr, tl
  <2> QED
    BY <2>2, <2>3 DEF tp, ta, tt, tr, tl, StrungOf
<1>5. ASSUME NEW x \in Seq(Alphabet)
      PROVE  Times("|", x) \in Nat /\ (Times("|", x) = 0 => x \in Without("|", Alphabet))
  BY TimesAreNumbers
<1>6. /\ Times("|", h) \in Nat /\ Times("|", m) \in Nat /\ Times("|", p) \in Nat
      /\ Times("|", a) \in Nat /\ Times("|", t) \in Nat /\ Times("|", r) \in Nat
      /\ Times("|", l) \in Nat
  BY <1>1, <1>5
<1>7. /\ Times("|", Tag("principal=")) = 1 /\ Times("|", Tag("action=")) = 1
      /\ Times("|", Tag("rtype=")) = 1 /\ Times("|", Tag("rid=")) = 1
      /\ Times("|", Tag("expl=")) = 1
  BY TagsAreTexts
<1>8. Times("|", PayloadOf(c)) = Times("|", h) + FieldBars(c) + 5 + Times("|", l)
  BY ONLY <1>2, <1>4, <1>6, <1>7
<1>9. FieldBars(c) \in Nat
  BY ONLY <1>2, <1>6
<1>10. ASSUME FieldBars(c) = 0
       PROVE  /\ m \in Without("|", Alphabet) /\ p \in Without("|", Alphabet)
              /\ a \in Without("|", Alphabet) /\ t \in Without("|", Alphabet)
              /\ r \in Without("|", Alphabet)
  <2>1. /\ Times("|", m) = 0 /\ Times("|", p) = 0 /\ Times("|", a) = 0
        /\ Times("|", t) = 0 /\ Times("|", r) = 0
    BY ONLY <1>2, <1>6, <1>10
  <2> QED
    BY <1>1, <1>5, <2>1
<1> QED
  BY <1>1, <1>6, <1>8, <1>9, <1>10 DEF m, p, a, t, r, h, l

\* A content that can be read back has no bars but those between its parts.
LEMMA ReadableContent ==
    ASSUME NEW c \in Content, Readable(c)
    PROVE  /\ FieldBars(c) = 0 /\ <<>> \notin c.matched_policy
           /\ \A e \in c.explanation : ReadableWhy(e)
<1>1. /\ \A text \in {c.principal_id, c.action, c.resource_type, c.resource_id}
                        \cup c.matched_policy : "|" \notin ToSet(text)
      /\ <<>> \notin c.matched_policy
      /\ \A e \in c.explanation : ReadableWhy(e)
  BY DEF Readable, ReadableWhy
<1>2. /\ c.matched_policy \in Option(Text) /\ c.principal_id \in Text /\ c.action \in Text
      /\ c.resource_type \in Text /\ c.resource_id \in Text
  BY DEF Content
<1>3. ASSUME NEW text \in Text, "|" \notin ToSet(text) PROVE Times("|", text) = 0
  BY <1>3, TextsAreOfTheAlphabet, TimesAreNumbers
<1>4. Times("|", OrEmpty(c.matched_policy)) = 0
  <2>1. CASE c.matched_policy = {}
    <3>1. OrEmpty(c.matched_policy) = <<>>
      BY <2>1 DEF OrEmpty
    <3>2. "|" \in Alphabet /\ ":" \in Alphabet
      BY DEF Alphabet
    <3> QED
      BY <3>1, <3>2, TimesOfWords
  <2>2. CASE c.matched_policy # {}
    <3>1. OrEmpty(c.matched_policy) \in c.matched_policy
      BY <2>2 DEF OrEmpty
    <3>2. OrEmpty(c.matched_policy) \in Text
      BY <1>2, <3>1 DEF Option
    <3> QED
      BY <1>1, <1>3, <3>1, <3>2
  <2> QED
    BY <2>1, <2>2
<1>5. /\ Times("|", c.principal_id) = 0 /\ Times("|", c.action) = 0
      /\ Times("|", c.resource_type) = 0 /\ Times("|", c.resource_id) = 0
  BY <1>1, <1>2, <1>3
<1>6. FieldBars(c) = 0
  BY <1>4, <1>5 DEF FieldBars
<1> QED
  BY <1>1, <1>6

LEMMA TwoWords ==
    ASSUME NEW W, NEW v \in W, NEW w \in W
    PROVE  <<v>> \o <<w>> = <<v, w>>
<1> DEFINE x == <<v>>
           y == <<w>>
           z == <<v, w>>
<1>1. /\ x \in Seq(W) /\ y \in Seq(W) /\ z \in Seq(W) /\ Len(x) = 1 /\ Len(y) = 1 /\ Len(z) = 2
      /\ x[1] = v /\ y[1] = w /\ z[1] = v /\ z[2] = w
  OBVIOUS
<1> HIDE DEF x, y, z
<1>2. x \o y \in Seq(W) /\ Concatenates(x, y)
  BY <1>1, ConcatLength, Concatenation
<1>3. Len(x \o y) = 2 /\ (x \o y)[1] = v /\ (x \o y)[2] = w
  BY <1>1, <1>2 DEF Concatenates
<1>4. \A i \in 1..Len(z) : (x \o y)[i] = z[i]
  <2>1. \A i \in 1..2 : i = 1 \/ i = 2
    OBVIOUS
  <2> QED
    BY <1>1, <1>3, <2>1
<1>5. x \o y = z
  BY <1>1, <1>2, <1>3, <1>4, SeqEqual
<1> QED
  BY <1>5 DEF x, y, z

\* A payload with an explanation does not end like one without.
LEMMA ExplanationIsNotLost ==
    ASSUME NEW c \in Content, NEW d \in Content, Readable(c), NEW e \in Explanation,
           c.explanation = {e}, d.explanation = {},
           CanonicalPayload(c) = CanonicalPayload(d)
    PROVE  FALSE
<1> DEFINE bar == <<"|">>
           word == <<"expl=">>
           tag == Tag("expl=")
           open(x) == Opening(HeadOf(x), OrEmpty(x.matched_policy), Tag("principal="),
                              x.principal_id, Tag("action="), x.action, Tag("rtype="),
                              x.resource_type, Tag("rid="), x.resource_id)
           near == NearText(e)
           before == PolicyText(e) \o (bar \o WhyText(e))
<1>1. /\ bar \in Seq(Alphabet) /\ "|" \in Alphabet /\ word \in Seq(Alphabet)
      /\ word \in Without("|", Alphabet) /\ tag = bar \o word /\ tag \in Seq(Alphabet)
  <2>1. "|" \in Alphabet /\ "expl=" \in Alphabet /\ "|" # "expl="
    BY DEF Alphabet
  <2>2. Times("|", word) = 0 /\ word \in Seq(Alphabet)
    BY TagsAreTexts
  <2>3. word \in Without("|", Alphabet)
    BY <2>2, TimesAreNumbers
  <2>4. <<"|">> \o <<"expl=">> = <<"|", "expl=">>
    BY <2>1, TwoWords
  <2> QED
    BY <2>1, <2>2, <2>3, <2>4 DEF Tag
<1>2. ASSUME NEW x \in Content
      PROVE  open(x) \in Seq(Alphabet) /\ CanonicalPayload(x) = (open(x) \o tag) \o Rest(x)
  <2>1. /\ HeadOf(x) \in Seq(Alphabet) /\ OrEmpty(x.matched_policy) \in Seq(Alphabet)
        /\ x.principal_id \in Seq(Alphabet) /\ x.action \in Seq(Alphabet)
        /\ x.resource_type \in Seq(Alphabet) /\ x.resource_id \in Seq(Alphabet)
        /\ Rest(x) \in Seq(Alphabet) /\ CanonicalPayload(x) = PayloadOf(x)
    BY ContentTexts
  <2> DEFINE h == HeadOf(x)  m == OrEmpty(x.matched_policy)  p == x.principal_id
             a == x.action  t == x.resource_type  r == x.resource_id  l == Rest(x)
             tp == Tag("principal=")  ta == Tag("action=")  tt == Tag("rtype=")
             tr == Tag("rid=")
  <2>2. /\ tp \in Seq(Alphabet) /\ ta \in Seq(Alphabet) /\ tt \in Seq(Alphabet)
        /\ tr \in Seq(Alphabet)
    BY TagsAreTexts
  <2>3. /\ PayloadOf(x) = Strung(h, m, tp, p, ta, a, tt, t, tr, r, tag, l)
        /\ open(x) = Opening(h, m, tp, p, ta, a, tt, t, tr, r)
    BY DEF PayloadOf
  <2> HIDE DEF h, m, p, a, t, r, l, tp, ta, tt, tr, open, tag
  <2>4. /\ h \in Seq(Alphabet) /\ m \in Seq(Alphabet) /\ p \in Seq(Alphabet)
        /\ a \in Seq(Alphabet) /\ t \in Seq(Alphabet) /\ r \in Seq(Alphabet)
        /\ l \in Seq(Alphabet)
    BY <2>1 DEF h, m, p, a, t, r, l
  <2>5. StrungOf(Alphabet, "|", h, m, tp, p, ta, a, tt, t, tr, r, tag, l)
    BY <1>1, <2>2, <2>4, StrungTogether
  <2>6. l = Rest(x)
    BY DEF l
  <2> QED
    BY <2>1, <2>3, <2>5, <2>6 DEF StrungOf
<1>3. /\ PolicyText(e) \in Seq(Alphabet) /\ WhyText(e) \in Seq(Alphabet) /\ near \in Seq(Alphabet)
      /\ near # word /\ near \in Without("|", Alphabet)
  <2>1. ReadableWhy(e)
    BY ReadableContent
  <2> QED
    BY <2>1, ExplanationParts, ReadableParts
<1>4. Rest(c) = ExplanationText(e) /\ Rest(d) = <<>>
  BY ContentTexts
<1>5. ExplanationText(e) = PolicyText(e) \o (bar \o (WhyText(e) \o (bar \o near)))
  BY DEF ExplanationText
<1> HIDE DEF open, bar, word, tag, near
<1>c. ASSUME NEW x \in Seq(Alphabet), NEW y \in Seq(Alphabet) PROVE x \o y \in Seq(Alphabet)
  BY ConcatLength
<1> DEFINE w == WhyText(e)
           bn == bar \o near
           oc == open(c) \o tag
           od == open(d)
<1>6. /\ w \in Seq(Alphabet) /\ bn \in Seq(Alphabet) /\ oc \in Seq(Alphabet) /\ od \in Seq(Alphabet)
      /\ bar \o w \in Seq(Alphabet) /\ before \in Seq(Alphabet) /\ oc \o before \in Seq(Alphabet)
  BY <1>1, <1>2, <1>3, <1>c
<1>7. ExplanationText(e) = before \o bn
  <2>1. Associates(bar, w, bn) /\ Associates(PolicyText(e), bar \o w, bn)
    BY <1>1, <1>3, <1>6, Association
  <2> QED
    BY <1>5, <2>1 DEF Associates
<1>8. CanonicalPayload(c) = (oc \o before) \o bn
  <2> HIDE DEF before, bn, oc
  <2>1. Associates(oc, before, bn)
    BY <1>6, Association
  <2>2. CanonicalPayload(c) = oc \o ExplanationText(e)
    BY <1>2, <1>4 DEF oc
  <2> QED
    BY <1>7, <2>1, <2>2 DEF Associates
<1>9. CanonicalPayload(d) = od \o (bar \o word)
  <2>1. od \o tag \in Seq(Alphabet)
    BY <1>1, <1>6, <1>c
  <2>2. CanonicalPayload(d) = (od \o tag) \o <<>>
    BY <1>2, <1>4 DEF od
  <2>3. (od \o tag) \o <<>> = od \o tag
    BY <2>1, ConcatEmptySeq
  <2> QED
    BY <1>1, <2>2, <2>3
<1> DEFINE left == oc \o before
<1>10. left \o (<<"|">> \o near) = od \o (<<"|">> \o word)
  BY <1>8, <1>9 DEF bn, bar
<1>11. left \in Seq(Alphabet) /\ od \in Seq(Alphabet)
  BY <1>6
<1> HIDE DEF left, od
<1>12. SplitsLast("|", left, near, od, word)
  BY <1>1, <1>3, <1>11, SplitAtLastMark
<1> QED
  BY <1>3, <1>10, <1>12 DEF SplitsLast

\* Without bars in their fields, two contents with one payload agree in them.
LEMMA FieldsAreTheSame ==
    ASSUME NEW c \in Content, NEW d \in Content, FieldBars(c) = 0, FieldBars(d) = 0,
           CanonicalPayload(c) = CanonicalPayload(d)
    PROVE  /\ OrEmpty(c.matched_policy) = OrEmpty(d.matched_policy)
           /\ c.principal_id = d.principal_id /\ c.action = d.action
           /\ c.resource_type = d.resource_type /\ c.resource_id = d.resource_id
           /\ Rest(c) = Rest(d)
<1> DEFINE hc == HeadOf(c)                      hd == HeadOf(d)
           mc == OrEmpty(c.matched_policy)    md == OrEmpty(d.matched_policy)
           cp == c.principal_id    dp == d.principal_id
           ca == c.action          da == d.action
           ct == c.resource_type   dt == d.resource_type
           cr == c.resource_id     dr == d.resource_id
           lc == Rest(c)           le == Rest(d)
           tp == Tag("principal=")  ta == Tag("action=")  tt == Tag("rtype=")
           tr == Tag("rid=")        tl == Tag("expl=")
<1>1. /\ tp \in Seq(Alphabet) /\ ta \in Seq(Alphabet) /\ tt \in Seq(Alphabet)
      /\ tr \in Seq(Alphabet) /\ tl \in Seq(Alphabet)
      /\ tp # <<>> /\ ta # <<>> /\ tt # <<>> /\ tr # <<>> /\ tl # <<>>
      /\ tp[1] = "|" /\ ta[1] = "|" /\ tt[1] = "|" /\ tr[1] = "|" /\ tl[1] = "|"
  BY TagsAreTexts
<1>2. /\ hc \in Seq(Alphabet) /\ hd \in Seq(Alphabet) /\ Len(hc) = Len(hd)
      /\ lc \in Seq(Alphabet) /\ le \in Seq(Alphabet)
      /\ PayloadOf(c) = PayloadOf(d)
  BY ContentTexts
<1>3. /\ mc \in Without("|", Alphabet) /\ md \in Without("|", Alphabet)
      /\ cp \in Without("|", Alphabet) /\ dp \in Without("|", Alphabet)
      /\ ca \in Without("|", Alphabet) /\ da \in Without("|", Alphabet)
      /\ ct \in Without("|", Alphabet) /\ dt \in Without("|", Alphabet)
      /\ cr \in Without("|", Alphabet) /\ dr \in Without("|", Alphabet)
  BY PayloadBars
<1>4. Strung(hc, mc, tp, cp, ta, ca, tt, ct, tr, cr, tl, lc)
        = Strung(hd, md, tp, dp, ta, da, tt, dt, tr, dr, tl, le)
  BY <1>2 DEF PayloadOf
<1> HIDE DEF hc, hd, mc, md, cp, dp, ca, da, ct, dt, cr, dr, lc, le, tp, ta, tt, tr, tl
<1>5. ReadBack(hc, hd, tp, ta, tt, tr, tl, mc, md, cp, dp, ca, da, ct, dt, cr, dr, lc, le)
  BY <1>1, <1>2, <1>3, FieldsAreReadBack
<1>6. mc = md /\ cp = dp /\ ca = da /\ ct = dt /\ cr = dr /\ lc = le
  BY <1>4, <1>5 DEF ReadBack, Strung
<1> QED
  BY <1>6 DEF mc, md, cp, dp, ca, da, ct, dt, cr, dr, lc, le

\* Two contents with one payload, the first of which can be read back, say the same.
LEMMA PayloadSaysTheContent ==
    ASSUME NEW c \in Content, NEW d \in Content, Readable(c),
           CanonicalPayload(c) = CanonicalPayload(d)
    PROVE  Said(c) = Said(d)
<1> DEFINE m(x) == OrEmpty(x.matched_policy)
<1>1. HeadOf(c) = HeadOf(d)
  <2>1. ASSUME NEW x \in Content
        PROVE  /\ HeadOf(x) \in Seq(Alphabet) /\ Len(HeadOf(x)) = 6
               /\ m(x) \in Seq(Alphabet) /\ x.principal_id \in Seq(Alphabet)
               /\ x.action \in Seq(Alphabet) /\ x.resource_type \in Seq(Alphabet)
               /\ x.resource_id \in Seq(Alphabet) /\ Rest(x) \in Seq(Alphabet)
    BY ContentTexts
  <2>2. PayloadOf(c) = PayloadOf(d)
    BY ContentTexts
  <2> DEFINE hc == HeadOf(c)           hd == HeadOf(d)
             mc == m(c)              md == m(d)
             cp == c.principal_id    dp == d.principal_id
             ca == c.action          da == d.action
             ct == c.resource_type   dt == d.resource_type
             cr == c.resource_id     dr == d.resource_id
             lc == Rest(c)           le == Rest(d)
             tp == Tag("principal=")  ta == Tag("action=")  tt == Tag("rtype=")
             tr == Tag("rid=")        tl == Tag("expl=")
  <2>3. /\ tp \in Seq(Alphabet) /\ ta \in Seq(Alphabet) /\ tt \in Seq(Alphabet)
        /\ tr \in Seq(Alphabet) /\ tl \in Seq(Alphabet)
    BY TagsAreTexts
  <2>4. Strung(hc, mc, tp, cp, ta, ca, tt, ct, tr, cr, tl, lc)
          = Strung(hd, md, tp, dp, ta, da, tt, dt, tr, dr, tl, le)
    BY <2>2 DEF PayloadOf
  <2>5. /\ hc \in Seq(Alphabet) /\ hd \in Seq(Alphabet) /\ Len(hc) = Len(hd)
        /\ mc \in Seq(Alphabet) /\ md \in Seq(Alphabet)
        /\ cp \in Seq(Alphabet) /\ dp \in Seq(Alphabet)
        /\ ca \in Seq(Alphabet) /\ da \in Seq(Alphabet)
        /\ ct \in Seq(Alphabet) /\ dt \in Seq(Alphabet)
        /\ cr \in Seq(Alphabet) /\ dr \in Seq(Alphabet)
        /\ lc \in Seq(Alphabet) /\ le \in Seq(Alphabet)
    BY <2>1
  <2> HIDE DEF hc, hd, mc, md, cp, dp, ca, da, ct, dt, cr, dr, lc, le, tp, ta, tt, tr, tl
  <2>6. hc = hd
    BY <2>3, <2>4, <2>5, HeadsAreEqual
  <2> QED
    BY <2>6 DEF hc, hd
<1>2. /\ FieldBars(d) + Times("|", Rest(d)) = Times("|", Rest(c))
      /\ FieldBars(d) \in Nat /\ Times("|", Rest(d)) \in Nat /\ FieldBars(c) = 0
  <2>1. FieldBars(c) = 0
    BY ReadableContent
  <2>2. /\ Times("|", HeadOf(c)) + FieldBars(c) + 5 + Times("|", Rest(c))
             = Times("|", HeadOf(c)) + FieldBars(d) + 5 + Times("|", Rest(d))
        /\ Times("|", HeadOf(c)) \in Nat /\ FieldBars(d) \in Nat
        /\ Times("|", Rest(c)) \in Nat /\ Times("|", Rest(d)) \in Nat
    BY <1>1, PayloadBars
  <2> QED
    BY ONLY <2>1, <2>2
<1>3. Times("|", <<>>) = 0
  <2>1. "|" \in Alphabet /\ ":" \in Alphabet
    BY DEF Alphabet
  <2> QED
    BY <2>1, TimesOfWords
<1>4. \/ c.explanation = {} /\ Rest(c) = <<>>
      \/ \E e \in Explanation : c.explanation = {e} /\ Rest(c) = ExplanationText(e)
  BY ContentTexts
<1>5. \/ d.explanation = {} /\ Rest(d) = <<>>
      \/ \E e \in Explanation : d.explanation = {e} /\ Rest(d) = ExplanationText(e)
  BY ContentTexts
<1>6. ASSUME NEW e \in Explanation
      PROVE  /\ Times("|", ExplanationText(e)) = Times("|", PolicyText(e)) + Times("|", WhyText(e))
                                                   + Times("|", NearText(e)) + 2
             /\ Times("|", PolicyText(e)) \in Nat /\ Times("|", WhyText(e)) \in Nat
             /\ Times("|", NearText(e)) \in Nat
             /\ Times("|", PolicyText(e)) = 0 <=> PolicyText(e) \in Without("|", Alphabet)
             /\ Times("|", WhyText(e)) = 0 <=> WhyText(e) \in Without("|", Alphabet)
             /\ Times("|", NearText(e)) = 0 <=> NearText(e) \in Without("|", Alphabet)
  BY ExplanationParts, TimesAreNumbers
<1>7. FieldBars(d) = 0 =>
        /\ m(c) = m(d) /\ c.principal_id = d.principal_id /\ c.action = d.action
        /\ c.resource_type = d.resource_type /\ c.resource_id = d.resource_id
        /\ Rest(c) = Rest(d)
  BY <1>2, FieldsAreTheSame
<1>8. c.decision_effect = d.decision_effect
  BY <1>1, ContentTexts
<1>9. ASSUME FieldBars(d) = 0, c.explanation = {}, d.explanation = {}
      PROVE  Said(c) = Said(d)
  BY <1>7, <1>8, <1>9 DEF Said
<1>10. CASE c.explanation = {}
  <2>1. Rest(c) = <<>>
    BY <1>4, <1>10
  <2>2. FieldBars(d) = 0 /\ Times("|", Rest(d)) = 0
    BY <1>2, <1>3, <2>1
  <2>3. d.explanation = {}
    BY <1>5, <1>6, <2>2
  <2> QED
    BY <1>9, <1>10, <2>2, <2>3
<1>11. CASE c.explanation # {}
  <2>1. PICK e \in Explanation : c.explanation = {e} /\ Rest(c) = ExplanationText(e)
    BY <1>4, <1>11
  <2>2. d.explanation # {}
    BY <2>1, ExplanationIsNotLost
  <2>3. PICK f \in Explanation : d.explanation = {f} /\ Rest(d) = ExplanationText(f)
    BY <1>5, <2>2
  <2>4. ReadableWhy(e)
    BY <2>1, ReadableContent
  <2>5. /\ PolicyText(e) \in Without("|", Alphabet) /\ WhyText(e) \in Without("|", Alphabet)
        /\ NearText(e) \in Without("|", Alphabet)
    BY <2>4, ReadableParts
  <2>6. Times("|", Rest(c)) = 2
    BY <1>6, <2>1, <2>5
  <2>7. FieldBars(d) = 0 /\ Times("|", PolicyText(f)) = 0 /\ Times("|", WhyText(f)) = 0
    BY <1>2, <1>6, <2>3, <2>6
  <2>8. PolicyText(f) \in Without("|", Alphabet) /\ WhyText(f) \in Without("|", Alphabet)
    BY <1>6, <2>7
  <2>9. PolicyText(e) = PolicyText(f) /\ WhyText(e) = WhyText(f) /\ NearText(e) = NearText(f)
    BY <1>7, <2>1, <2>3, <2>5, <2>7, <2>8, ExplanationIsTakenApart
  <2>10. Said(c)[7] = Said(d)[7]
    <3>1. Said(c)[7] = {<<PolicyText(e), WhyText(e), NearText(e)>>}
      BY <2>1 DEF Said, PolicyText, WhyText, NearText
    <3>2. Said(d)[7] = {<<PolicyText(f), WhyText(f), NearText(f)>>}
      BY <2>3 DEF Said, PolicyText, WhyText, NearText
    <3> QED
      BY <2>9, <3>1, <3>2
  <2> QED
    BY <1>7, <1>8, <2>7, <2>10 DEF Said
<1> QED
  BY <1>10, <1>11

\* What the payload says of contents that can be read back is all of them.
LEMMA SaidIsReadBack ==
    ASSUME NEW c \in Content, NEW d \in Content, Readable(c), Readable(d), Said(c) = Said(d)
    PROVE  c = d
<1>1. /\ c.decision_effect = d.decision_effect
      /\ OrEmpty(c.matched_policy) = OrEmpty(d.matched_policy)
      /\ c.principal_id = d.principal_id /\ c.action = d.action
      /\ c.resource_type = d.resource_type /\ c.resource_id = d.resource_id
  BY DEF Said
<1>2. c.matched_policy = d.matched_policy
  <2>1. /\ c.matched_policy \in Option(Seq(Alphabet)) /\ <<>> \notin c.matched_policy
        /\ d.matched_policy \in Option(Seq(Alphabet)) /\ <<>> \notin d.matched_policy
    BY ContentTexts, ReadableContent
  <2> QED
    BY <1>1, <2>1, OptionOfText
<1>3. c.explanation = d.explanation
  <2> DEFINE said(e) == <<PolicyText(e), WhyText(e), NearText(e)>>
  <2>1. {said(e) : e \in c.explanation} = {said(e) : e \in d.explanation}
    BY DEF Said, PolicyText, WhyText, NearText
  <2>2. \A e, f : said(e) = said(f) => /\ PolicyText(e) = PolicyText(f)
                                       /\ WhyText(e) = WhyText(f) /\ NearText(e) = NearText(f)
    OBVIOUS
  <2> HIDE DEF said
  <2>3. c.explanation = {} \/ \E e \in Explanation : c.explanation = {e}
    BY NoneOrOne DEF Content
  <2>4. d.explanation = {} \/ \E e \in Explanation : d.explanation = {e}
    BY NoneOrOne DEF Content
  <2>5. CASE c.explanation = {} \/ d.explanation = {}
    BY <2>1, <2>5
  <2>6. CASE c.explanation # {} /\ d.explanation # {}
    <3>1. PICK e \in Explanation : c.explanation = {e}
      BY <2>3, <2>6
    <3>2. PICK f \in Explanation : d.explanation = {f}
      BY <2>4, <2>6
    <3>3. said(e) = said(f)
      BY <2>1, <3>1, <3>2
    <3>4. ReadableWhy(e) /\ ReadableWhy(f)
      BY <3>1, <3>2, ReadableContent
    <3>5. e = f
      BY <2>2, <3>3, <3>4, ExplanationIsReadBack
    <3> QED
      BY <3>1, <3>2, <3>5
  <2> QED
    BY <2>5, <2>6
<1> QED
  BY <1>1, <1>2, <1>3 DEF Content

----------------------------------------------------------------------------
(* CommandLine: what has been loaded *)

\* Every policy of every file.
Shelf == UNION {ToSet(file) : file \in PolicyFiles}

Opened(k) == SubSeq(command.files, 1, k)

LoadInv ==
    /\ command \in Commands /\ opened \in Nat /\ opened <= Len(command.files)
    /\ \A i \in 1..opened : command.files[i] # Unreadable
    /\ policies = FlattenSeq(Opened(opened))

LEMMA FilesAreLists ==
    ASSUME command \in Commands
    PROVE  /\ command.files \in Seq(ToSet(command.files)) /\ Len(command.files) \in Nat
           /\ DOMAIN command.files = 1..Len(command.files)
           /\ \A i \in 1..Len(command.files) :
                /\ command.files[i] \in ToSet(command.files)
                /\ command.files[i] # Unreadable => command.files[i] \in Seq(Shelf)
<1>1. command.files \in Seq(ToSet(command.files))
  BY CommandsAssumption DEF IsList
<1>2. Len(command.files) \in Nat /\ DOMAIN command.files = 1..Len(command.files)
  BY <1>1, LenProperties
<1>3. ASSUME NEW i \in 1..Len(command.files), command.files[i] # Unreadable
      PROVE  command.files[i] \in Seq(Shelf)
  <2> DEFINE file == command.files[i]
  <2>1. file \in PolicyFiles
    <3>1. file \in ToSet(command.files) /\ file # Unreadable
      BY <1>2, <1>3 DEF ToSet
    <3> HIDE DEF file
    <3>2. ToSet(command.files) \in {ToSet(c.files) : c \in Commands}
      OBVIOUS
    <3>3. file \in UNION {ToSet(c.files) : c \in Commands}
      BY <3>1, <3>2
    <3> QED
      BY <3>1, <3>3 DEF PolicyFiles
  <2>2. file \in Seq(ToSet(file))
    BY <2>1, FilesAssumption DEF IsList
  <2>3. ToSet(file) \subseteq Shelf
    BY <2>1 DEF Shelf
  <2> HIDE DEF file
  <2>4. file \in Seq(Shelf)
    BY <2>2, <2>3
  <2> QED
    BY <2>4 DEF file
<1> QED
  BY <1>1, <1>2, <1>3 DEF ToSet

LEMMA OpenedOneMore ==
    ASSUME command \in Commands,
           NEW k \in Nat, k < Len(command.files),
           \A i \in 1..(k + 1) : command.files[i] # Unreadable
    PROVE  /\ Opened(k) \in Seq(Seq(Shelf)) /\ command.files[k + 1] \in Seq(Shelf)
           /\ Opened(k + 1) = Append(Opened(k), command.files[k + 1])
<1> DEFINE fs == command.files
<1>1. /\ fs \in Seq(ToSet(fs)) /\ Len(fs) \in Nat
      /\ \A i \in 1..Len(fs) : fs[i] # Unreadable => fs[i] \in Seq(Shelf)
  BY FilesAreLists
<1>2. \A i \in 1..(k + 1) : i \in 1..Len(fs)
  BY <1>1
<1> HIDE DEF fs
<1>3. \A i \in 1..(k + 1) : fs[i] \in Seq(Shelf)
  BY <1>1, <1>2 DEF fs
<1>4. Opened(k) \in Seq(Seq(Shelf)) /\ Opened(k + 1) \in Seq(Seq(Shelf))
  <2>1. \A i \in 1..k : fs[i] \in Seq(Shelf)
    BY <1>3
  <2> QED
    BY <1>3, <2>1, SubSeqProperties DEF Opened, fs
<1>5. k + 1 \in 1..(k + 1) /\ k + 1 \in 1..Len(fs) /\ (k + 1) - 1 = k /\ 1 \in 1..Len(fs)
      /\ k + 1 \in 1..Len(fs)
  BY <1>1 DEF fs
<1>6. SubSeq(fs, 1, k + 1) = SubSeq(fs, 1, (k + 1) - 1) \o <<fs[k + 1]>>
  BY <1>1, <1>5, SubSeqRecursiveSecond
<1>7. Opened(k + 1) = Opened(k) \o <<fs[k + 1]>>
  BY <1>5, <1>6 DEF Opened, fs
<1>8. Append(Opened(k), fs[k + 1]) = Opened(k) \o <<fs[k + 1]>>
  BY <1>3, <1>4, <1>5, AppendIsConcat
<1> QED
  BY <1>3, <1>4, <1>5, <1>7, <1>8 DEF fs

\* Only LoadFile touches what has been loaded.
LEMMA LoadStep ==
    ASSUME LoadInv, [Next]_vars
    PROVE  LoadInv'
<1>1. CASE LoadFile
  <2>1. /\ opened < Len(command.files) /\ command.files[opened + 1] # Unreadable
        /\ opened' = opened + 1 /\ policies' = policies \o command.files[opened + 1]
        /\ command' = command
    BY <1>1 DEF LoadFile, ThisFile
  <2>2. /\ command \in Commands /\ opened \in Nat /\ Len(command.files) \in Nat
        /\ \A i \in 1..(opened + 1) : command.files[i] # Unreadable
    <3>1. \A i \in 1..(opened + 1) : i \in 1..opened \/ i = opened + 1
      BY DEF LoadInv
    <3> QED
      BY <2>1, <3>1, FilesAreLists DEF LoadInv
  <2>3. /\ Opened(opened) \in Seq(Seq(Shelf)) /\ command.files[opened + 1] \in Seq(Shelf)
        /\ Opened(opened + 1) = Append(Opened(opened), command.files[opened + 1])
    BY <2>1, <2>2, OpenedOneMore
  <2>4. FlattenSeq(Opened(opened + 1))
          = FlattenSeq(Opened(opened)) \o command.files[opened + 1]
    BY <2>3, FlattenAppends
  <2>5. policies' = FlattenSeq(Opened(opened + 1))
    BY <2>1, <2>4 DEF LoadInv
  <2>6. opened + 1 \in Nat /\ opened + 1 <= Len(command.files)
    BY <2>1, <2>2
  <2>7. policies' = FlattenSeq(SubSeq(command.files, 1, opened + 1))
    BY <2>5 DEF Opened
  <2> QED
    BY <2>1, <2>2, <2>6, <2>7 DEF LoadInv, Opened
<1>2. CASE UNCHANGED <<command, opened, policies>>
  BY <1>2 DEF LoadInv, Opened
<1> QED
  BY <1>1, <1>2 DEF Next, vars, NoFiles, CannotLoad, Reject, Validate, Lint,
     StartTest, ReadRecords, CannotRead, RunScenario, SkipBlankLine, BadLine,
     VerifyLine, Finish, Exit, Judge

LEMMA LoadedIsEverything ==
    ASSUME LoadInv, opened = Len(command.files)
    PROVE  policies = AllPolicies /\ Unreadable \notin ToSet(command.files)
<1>1. command \in Commands
  BY DEF LoadInv
<1>2. /\ command.files \in Seq(ToSet(command.files))
      /\ DOMAIN command.files = 1..Len(command.files)
  BY <1>1, FilesAreLists
<1>3. Opened(opened) = command.files
  BY <1>2, SubSeqFull DEF Opened
<1> QED
  BY <1>2, <1>3 DEF LoadInv, AllPolicies, ToSet

----------------------------------------------------------------------------
(* CommandLine: how far it has come, and what has passed *)

PassInv ==
    /\ pc \in {"loading", "reading", "running", "done"} /\ exit \in {"none", "success", "failure"}
    /\ pc # "done" <=> exit = "none"
    /\ pc = "loading" => command.name # "verify"
    /\ pc \in {"reading", "running"} => command.name \in {"test", "verify"}
    /\ command.name # "verify" /\ (pc \in {"reading", "running"} \/ exit = "success") =>
          opened = Len(command.files) /\ Valid(policies)
    /\ command.name = "lint" /\ command.strict /\ exit = "success" => Warnings(policies) = {}

LEMMA Names ==
    ASSUME command \in Commands
    PROVE  /\ command.name \in {"validate", "lint", "test", "verify"} /\ Malformed # BlankLine
           /\ command.name = "test" => Len(command.files) = 1
           /\ command.records # Unreadable => IsList(command.records)
BY CommandsAssumption

LEMMA PassStep ==
    ASSUME LoadInv, PassInv, [Next]_vars
    PROVE  PassInv'
<1>1. command.name \in {"validate", "lint", "test", "verify"}
  BY Names DEF LoadInv
<1>2. CASE NoFiles
  BY <1>2 DEF PassInv, NoFiles, Exit
<1>3. CASE LoadFile
  BY <1>3 DEF PassInv, LoadFile
<1>4. CASE CannotLoad
  BY <1>4 DEF PassInv, CannotLoad, Exit
<1>5. CASE Reject
  BY <1>5 DEF PassInv, Reject, Loaded, Exit
<1>6. CASE Validate
  BY <1>6 DEF PassInv, Validate, Loaded, Exit
<1>7. CASE Lint
  BY <1>7 DEF PassInv, Lint, Loaded, Exit
<1>8. CASE StartTest
  BY <1>8 DEF PassInv, StartTest, Loaded
<1>9. CASE ReadRecords
  BY <1>9 DEF PassInv, ReadRecords
<1>10. CASE CannotRead
  BY <1>1, <1>10 DEF PassInv, CannotRead, Exit
<1>11. CASE RunScenario \/ SkipBlankLine \/ VerifyLine
  BY <1>11 DEF PassInv, RunScenario, SkipBlankLine, VerifyLine, Judge, Running
<1>12. CASE BadLine
  BY <1>12 DEF PassInv, BadLine, Running, Exit
<1>13. CASE Finish
  BY <1>13 DEF PassInv, Finish, Exit
<1>14. CASE UNCHANGED vars
  BY <1>14 DEF PassInv, vars
<1> QED
  BY <1>2, <1>3, <1>4, <1>5, <1>6, <1>7, <1>8, <1>9, <1>10, <1>11, <1>12, <1>13, <1>14 DEF Next

\* The record is as it should be; a blank line is.
InOrder(r) ==
    IF command.name = "test" THEN EffectFor(r.request, policies) = r.expected_effect
                             ELSE r = BlankLine \/ Verified(r)

\* The records that the tool has gone past are counted right.
RunInv ==
    /\ position \in Nat \ {0} /\ good \in Nat /\ bad \in Nat
    /\ pc \in {"loading", "reading"} => position = 1 /\ good = 0 /\ bad = 0
    /\ pc = "running" =>
         /\ Legible /\ position <= Len(command.records) + 1
         /\ command.name = "verify" => \A i \in 1..(position - 1) : command.records[i] # Malformed
         /\ bad = 0 <=> \A i \in 1..(position - 1) : InOrder(command.records[i])
         /\ command.name = "verify" /\ bad = 0 =>
               (good > 0 <=> \E i \in 1..(position - 1) : command.records[i] # BlankLine)

LEMMA RecordsAreAList ==
    ASSUME command \in Commands, command.records # Unreadable
    PROVE  /\ Len(command.records) \in Nat /\ DOMAIN command.records = 1..Len(command.records)
           /\ ToSet(command.records) = {command.records[i] : i \in 1..Len(command.records)}
<1>1. command.records \in Seq(ToSet(command.records))
  BY Names DEF IsList
<1> DEFINE rs == command.records
           S == ToSet(rs)
<1>2. rs \in Seq(S)
  BY <1>1
<1> HIDE DEF S, rs
<1>3. Len(rs) \in Nat /\ DOMAIN rs = 1..Len(rs)
  BY <1>2, LenProperties
<1> QED
  BY <1>3 DEF ToSet, rs

\* A record more is judged.
LEMMA JudgeStep ==
    ASSUME LoadInv, PassInv, RunInv, pc = "running",
           position <= Len(command.records), command.records[position] # Malformed \/ command.name = "test",
           UNCHANGED <<command, pc, policies>>, position' = position + 1,
           \/ good' = good + 1 /\ bad' = bad /\ InOrder(command.records[position])
                /\ command.records[position] # BlankLine
           \/ good' = good /\ bad' = bad + 1 /\ ~InOrder(command.records[position])
           \/ good' = good + 1 /\ bad' = bad /\ InOrder(command.records[position])
                /\ command.name = "test"
           \/ good' = good /\ bad' = bad /\ command.name = "verify"
                /\ command.records[position] = BlankLine
    PROVE  RunInv'
<1> DEFINE rs == command.records
<1>1. /\ position \in Nat \ {0} /\ good \in Nat /\ bad \in Nat
      /\ Legible
      /\ command.name \in {"test", "verify"}
      /\ command.name = "verify" => \A i \in 1..(position - 1) : rs[i] # Malformed
      /\ bad = 0 <=> \A i \in 1..(position - 1) : InOrder(rs[i])
      /\ command.name = "verify" /\ bad = 0 =>
               (good > 0 <=> \E i \in 1..(position - 1) : rs[i] # BlankLine)
  BY DEF RunInv, PassInv
<1>2. Len(rs) \in Nat
  BY <1>1, RecordsAreAList DEF Legible, LoadInv
<1>3. /\ \A i \in 1..position : i \in 1..(position - 1) \/ i = position
      /\ \A i \in 1..(position - 1) : i \in 1..position
      /\ position \in 1..position /\ (position + 1) - 1 = position
  BY <1>1
<1>4. position + 1 \in Nat \ {0} /\ good' \in Nat /\ bad' \in Nat /\ position + 1 <= Len(rs) + 1
  BY <1>1, <1>2
<1>5. command.name = "verify" => \A i \in 1..position : rs[i] # Malformed
  BY <1>1, <1>3
<1>6. command.name = "verify" /\ rs[position] = BlankLine => InOrder(rs[position])
  BY DEF InOrder
<1>7. /\ bad' = 0 => bad = 0 /\ InOrder(rs[position])
      /\ bad = 0 /\ InOrder(rs[position]) => bad' = 0
  BY <1>1, <1>6
<1>8. bad' = 0 <=> \A i \in 1..position : InOrder(rs[i])
  BY <1>1, <1>3, <1>7
<1>9. command.name = "verify" /\ bad' = 0 =>
         (good' > 0 <=> \E i \in 1..position : rs[i] # BlankLine)
  <2>1. SUFFICES ASSUME command.name = "verify", bad' = 0
                 PROVE  good' > 0 <=> \E i \in 1..position : rs[i] # BlankLine
    OBVIOUS
  <2>2. bad = 0 /\ (good > 0 <=> \E i \in 1..(position - 1) : rs[i] # BlankLine)
    BY <1>1, <1>7, <2>1
  <2>3. \/ good' = good + 1 /\ rs[position] # BlankLine
        \/ good' = good /\ rs[position] = BlankLine
    BY <1>1, <1>7, <2>1
  <2>4. good' > 0 <=> (good > 0 \/ rs[position] # BlankLine)
    BY <1>1, <2>3
  <2> QED
    BY <1>3, <2>2, <2>4
<1>10. \A r : InOrder(r)' <=> InOrder(r)
  BY DEF InOrder
<1>11. Legible'
  BY <1>1 DEF Legible
<1> HIDE DEF rs
<1> QED
  BY <1>3, <1>4, <1>5, <1>8, <1>9, <1>10, <1>11 DEF RunInv, rs

LEMMA RunStep ==
    ASSUME LoadInv, PassInv, RunInv, [Next]_vars
    PROVE  RunInv'
<1>1. CASE RunScenario
  <2>1. /\ pc = "running" /\ command.name = "test" /\ position <= Len(command.records)
        /\ UNCHANGED <<command, pc, policies>> /\ position' = position + 1
        /\ good' = IF InOrder(command.records[position]) THEN good + 1 ELSE good
        /\ bad' = IF InOrder(command.records[position]) THEN bad ELSE bad + 1
    BY <1>1 DEF RunScenario, Running, Judge, This, InOrder
  <2> QED
    BY <2>1, JudgeStep
<1>2. CASE SkipBlankLine
  <2>1. /\ pc = "running" /\ command.name = "verify" /\ position <= Len(command.records)
        /\ UNCHANGED <<command, pc, policies, good, bad>> /\ position' = position + 1
        /\ command.records[position] = BlankLine
    BY <1>2 DEF SkipBlankLine, Running, This
  <2>2. command.records[position] # Malformed
    BY <2>1, Names DEF LoadInv
  <2> QED
    BY <2>1, <2>2, JudgeStep
<1>3. CASE VerifyLine
  <2>1. /\ pc = "running" /\ command.name = "verify" /\ position <= Len(command.records)
        /\ UNCHANGED <<command, pc, policies>> /\ position' = position + 1
        /\ command.records[position] \notin {BlankLine, Malformed}
        /\ good' = IF Verified(command.records[position]) THEN good + 1 ELSE good
        /\ bad' = IF Verified(command.records[position]) THEN bad ELSE bad + 1
    BY <1>3 DEF VerifyLine, Running, Judge, This
  <2>2. InOrder(command.records[position]) <=> Verified(command.records[position])
    BY <2>1 DEF InOrder
  <2> QED
    BY <2>1, <2>2, JudgeStep
<1>4. CASE ReadRecords
  <2>1. /\ pc = "reading" /\ Legible /\ pc' = "running"
        /\ UNCHANGED <<command, policies, position, good, bad>>
    BY <1>4 DEF ReadRecords
  <2>2. position = 1 /\ good = 0 /\ bad = 0 /\ Len(command.records) \in Nat
    BY <2>1, RecordsAreAList DEF RunInv, LoadInv, Legible
  <2>3. Legible' /\ (\A i \in 1..(position' - 1) : FALSE) /\ position' <= Len(command.records) + 1
    BY <2>1, <2>2 DEF Legible
  <2> QED
    BY <2>1, <2>2, <2>3 DEF RunInv
<1>5. CASE LoadFile \/ StartTest
  BY <1>5 DEF RunInv, LoadFile, StartTest, Loaded
<1>6. CASE pc' = "done" /\ UNCHANGED <<position, good, bad>>
  BY <1>6 DEF RunInv
<1>7. CASE UNCHANGED vars
  BY <1>7 DEF RunInv, vars, Legible, InOrder
<1> QED
  BY <1>1, <1>2, <1>3, <1>4, <1>5, <1>6, <1>7 DEF Next, NoFiles, CannotLoad, Reject,
     Validate, Lint, CannotRead, BadLine, Finish, Exit

LEMMA CommandInit ==
    ASSUME Init
    PROVE  LoadInv /\ PassInv /\ RunInv /\ ExitIsTheConjunction
<1>1. /\ command \in Commands /\ opened = 0 /\ policies = <<>> /\ position = 1
      /\ good = 0 /\ bad = 0 /\ exit = "none"
      /\ pc = IF command.name = "verify" THEN "reading" ELSE "loading"
  BY DEF Init
<1>2. LoadInv
  <2>1. Opened(0) = <<>>
    BY SubSeqEmpty DEF Opened
  <2>2. Opened(opened) = <<>> /\ FlattenSeq(<<>>) = <<>>
    BY <1>1, <2>1 DEF FlattenSeq
  <2> QED
    BY <1>1, <2>2, FilesAreLists DEF LoadInv
<1>3. PassInv
  BY <1>1, Names DEF PassInv
<1>4. RunInv
  BY <1>1, <1>3 DEF RunInv, PassInv
<1>5. ExitIsTheConjunction
  BY <1>1 DEF ExitIsTheConjunction
<1> QED
  BY <1>2, <1>3, <1>4, <1>5

\* The step that ends the command sets its exit code right, and no step follows it.
LEMMA ExitStep ==
    ASSUME LoadInv, PassInv, RunInv,
           ExitIsTheConjunction, [Next]_vars
    PROVE  ExitIsTheConjunction'
<1> DEFINE Tested ==
             /\ Unreadable \notin ToSet(command.files) \cup {command.records}
             /\ Valid(AllPolicies)
             /\ \A s \in ToSet(command.records) :
                   s # Malformed /\ s.expected_effect = EffectFor(s.request, AllPolicies)
           Checked ==
             /\ command.records # Unreadable /\ Entries # {}
             /\ \A entry \in Entries : entry # Malformed /\ Verified(entry)
<1>0. /\ command \in Commands /\ command.name \in {"validate", "lint", "test", "verify"}
      /\ Malformed # BlankLine /\ (command.name = "test" => Len(command.files) = 1)
  BY Names DEF LoadInv
<1>1. ExitIsTheConjunction <=>
        (pc = "done" => /\ command.name = "test" => (exit = "success" <=> Tested)
                        /\ command.name = "verify" => (exit = "success" <=> Checked))
  BY DEF ExitIsTheConjunction
<1>2. ASSUME command' = command,
             pc' = "done" => /\ command.name = "test" => (exit' = "success" <=> Tested)
                             /\ command.name = "verify" => (exit' = "success" <=> Checked)
      PROVE  ExitIsTheConjunction'
  BY <1>2 DEF ExitIsTheConjunction, AllPolicies, Entries
<1>3. CASE UNCHANGED vars
  BY <1>1, <1>2, <1>3 DEF vars
<1>4. CASE command' = command /\ pc' # "done"
  BY <1>2, <1>4
<1>5. CASE NoFiles \/ Validate \/ Lint
  <2>1. command' = command /\ command.name \notin {"test", "verify"}
    <3>1. Len(<<>>) = 0
      OBVIOUS
    <3> QED
      BY <1>0, <1>5, <3>1 DEF NoFiles, Validate, Lint, Exit, PassInv
  <2> QED
    BY <1>2, <2>1
<1>6. CASE CannotLoad
  <2>1. /\ command' = command /\ exit' = "failure" /\ pc = "loading"
        /\ opened < Len(command.files) /\ command.files[opened + 1] = Unreadable
    BY <1>6 DEF CannotLoad, ThisFile, Exit
  <2>2. command.name # "verify" /\ Unreadable \in ToSet(command.files)
    <3>1. opened + 1 \in 1..Len(command.files)
      BY <1>0, <2>1, FilesAreLists DEF LoadInv
    <3> QED
      BY <1>0, <2>1, <3>1, FilesAreLists DEF PassInv
  <2> QED
    BY <1>2, <2>1, <2>2
<1>7. CASE Reject
  <2>1. /\ command' = command /\ exit' = "failure" /\ pc = "loading"
        /\ opened = Len(command.files) /\ ~Valid(policies)
    BY <1>7 DEF Reject, Loaded, Exit
  <2>2. command.name # "verify" /\ ~Valid(AllPolicies)
    BY <2>1, LoadedIsEverything DEF PassInv
  <2> QED
    BY <1>2, <2>1, <2>2
<1>8. CASE CannotRead
  <2>1. command' = command /\ exit' = "failure" /\ ~Legible
    BY <1>8 DEF CannotRead, Exit
  <2> QED
    BY <1>2, <2>1 DEF Legible
<1>9. CASE BadLine
  <2>1. /\ command' = command /\ exit' = "failure" /\ command.name = "verify" /\ pc = "running"
        /\ position <= Len(command.records) /\ command.records[position] = Malformed
    BY <1>9 DEF BadLine, Running, This, Exit
  <2>2. Malformed \in Entries
    <3>1. command.records # Unreadable /\ position \in 1..Len(command.records)
      BY <1>0, <2>1, RecordsAreAList DEF RunInv, Legible
    <3>2. ToSet(command.records) = {command.records[i] : i \in 1..Len(command.records)}
      BY <1>0, <3>1, RecordsAreAList
    <3>3. Malformed \in ToSet(command.records)
      BY <2>1, <3>1, <3>2
    <3> QED
      BY <1>0, <3>3 DEF Entries
  <2> QED
    BY <1>2, <2>1, <2>2
<1>10. CASE Finish
  <2>1. /\ command' = command /\ pc = "running" /\ position > Len(command.records)
        /\ exit' = IF bad = 0 /\ (command.name = "verify" => good > 0) THEN "success" ELSE "failure"
    BY <1>10 DEF Finish, Exit
  <2>2. /\ Legible /\ command.records # Unreadable /\ Len(command.records) \in Nat
        /\ ToSet(command.records) = {command.records[i] : i \in 1..Len(command.records)}
    BY <1>0, <2>1, RecordsAreAList DEF RunInv, Legible
  <2>3. 1..(position - 1) = 1..Len(command.records)
    <3>1. position - 1 = Len(command.records)
      BY <2>1, <2>2 DEF RunInv
    <3> QED
      BY <3>1
  <2> DEFINE rs == command.records
             S == ToSet(rs)
  <2>4. /\ command.name = "verify" => \A r \in S : r # Malformed
        /\ bad = 0 <=> \A r \in S : InOrder(r)
        /\ command.name = "verify" /\ bad = 0 => (good > 0 <=> \E r \in S : r # BlankLine)
    BY <2>1, <2>2, <2>3 DEF RunInv
  <2>5. CASE command.name = "test"
    <3>1. policies = AllPolicies /\ Valid(policies) /\ Unreadable \notin ToSet(command.files)
      BY <2>1, <2>5, LoadedIsEverything DEF PassInv
    <3>2. Malformed \notin S
      BY <2>2, <2>5 DEF Legible
    <3>3. bad = 0 <=> \A s \in S : s.expected_effect = EffectFor(s.request, AllPolicies)
      BY <2>4, <2>5, <3>1 DEF InOrder
    <3>4. Tested <=> bad = 0
      BY <2>2, <3>1, <3>2, <3>3
    <3> HIDE DEF Tested
    <3> QED
      BY <1>2, <2>1, <2>5, <3>4
  <2>6. CASE command.name = "verify"
    <3>1. bad = 0 <=> \A r \in S : r = BlankLine \/ Verified(r)
      BY <2>4, <2>6 DEF InOrder
    <3>2. Entries = S \ {BlankLine}
      BY DEF Entries
    <3>3. Checked <=> (bad = 0 /\ good > 0)
      BY <2>2, <2>4, <2>6, <3>1, <3>2
    <3> HIDE DEF Checked
    <3> QED
      BY <1>2, <2>1, <2>6, <3>3
  <2> QED
    BY <1>2, <2>1, <2>5, <2>6
<1>11. CASE LoadFile \/ StartTest \/ ReadRecords
  <2>1. command' = command /\ pc' # "done"
    BY <1>11 DEF LoadFile, StartTest, ReadRecords
  <2> QED
    BY <1>4, <2>1
<1>12. CASE RunScenario \/ SkipBlankLine \/ VerifyLine
  <2>1. command' = command /\ pc' # "done"
    BY <1>12 DEF RunScenario, SkipBlankLine, VerifyLine, Judge, Running
  <2> QED
    BY <1>4, <2>1
<1> QED
  BY <1>3, <1>5, <1>6, <1>7, <1>8, <1>9, <1>10, <1>11, <1>12 DEF Next

\* policy test succeeds exactly if its file and its scenarios can be read, the
\* policies are valid and every scenario is decided as it expects; audit verify
\* exactly if the log can be read, has an entry and every entry of it verifies.
THEOREM ExitCodesAreConjunctions == Spec => []ExitIsTheConjunction
<1> DEFINE Inv == LoadInv /\ PassInv /\ RunInv /\ ExitIsTheConjunction
<1>1. Init => Inv
  BY CommandInit
<1>2. Inv /\ [Next]_vars => Inv'
  <2> SUFFICES ASSUME Inv, [Next]_vars PROVE Inv'
    OBVIOUS
  <2>1. LoadInv' /\ PassInv' /\ RunInv' /\ ExitIsTheConjunction'
    BY LoadStep, PassStep, RunStep, ExitStep
  <2> QED
    BY <2>1
<1> QED
  BY <1>1, <1>2, PTL DEF Spec

\* The key of an entry that verifies signed something that says the same.
SignedAs(entry, key) ==
    (\A pair \in Signed : pair[2] = key => Readable(pair[1])) =>
        \E pair \in Signed :
            /\ pair[2] = key /\ Said(pair[1]) = Said(entry.content)
            /\ Readable(entry.content) => pair[1] = entry.content

LEMMA VerifiedContentIsSigned ==
    ASSUME command \in Commands, command.name = "verify",
           command.records # Unreadable, NEW entry \in Entries,
           entry # Malformed, Verified(entry)
    PROVE  \E key \in entry.public_key : SignedAs(entry, key)
<1>1. PICK key \in entry.public_key \cap Keys, signature \in entry.signature :
            signature = SignatureOf(key, CanonicalPayload(entry.content))
  BY DEF Verified
<1>2. /\ Signed \subseteq Content \X Keys /\ entry.content \in Content
      /\ \E pair \in Signed :
            pair[2] = key /\ CanonicalPayload(pair[1]) = CanonicalPayload(entry.content)
  <2>1. command \in {d \in Commands : d.name = "verify" /\ d.records # Unreadable}
    OBVIOUS
  <2>2. entry \in ToSet(command.records) \ {BlankLine, Malformed}
    BY DEF Entries
  <2> QED
    BY <1>1, <2>1, <2>2, SignaturesAssumption
<1>3. PICK pair \in Signed :
            pair[2] = key /\ CanonicalPayload(pair[1]) = CanonicalPayload(entry.content)
  BY <1>2
<1>4. ASSUME \A p \in Signed : p[2] = key => Readable(p[1])
      PROVE  /\ Said(pair[1]) = Said(entry.content)
             /\ Readable(entry.content) => pair[1] = entry.content
  <2> DEFINE c == pair[1]
             d == entry.content
  <2>1. /\ c \in Content /\ d \in Content /\ Readable(c)
        /\ CanonicalPayload(c) = CanonicalPayload(d)
    BY <1>2, <1>3, <1>4
  <2> HIDE DEF c, d
  <2>2. Said(c) = Said(d)
    BY <2>1, PayloadSaysTheContent
  <2>3. Readable(d) => c = d
    BY <2>1, <2>2, SaidIsReadBack
  <2> QED
    BY <2>2, <2>3 DEF c, d
<1>5. SignedAs(entry, key)
  BY <1>3, <1>4 DEF SignedAs
<1> QED
  BY <1>1, <1>5

\* A log that passes says what was signed, though the payload merely strings the
\* fields together: if no signature is forged and the key that an entry names never
\* signed a separator inside a field, it signed something that agrees with the entry
\* field by field, whatever has become of the entry (the lists of an explanation up
\* to where they are cut), and exactly the entry if that has no separator in a field.
THEOREM PassedLogsAreAsSigned == Spec => []VerifiedLinesAreAsSigned
<1> DEFINE Inv == LoadInv /\ PassInv /\ RunInv /\ ExitIsTheConjunction
<1>1. Init => Inv
  BY CommandInit
<1>2. Inv /\ [Next]_vars => Inv'
  <2> SUFFICES ASSUME Inv, [Next]_vars PROVE Inv'
    OBVIOUS
  <2>1. LoadInv' /\ PassInv' /\ RunInv' /\ ExitIsTheConjunction'
    BY LoadStep, PassStep, RunStep, ExitStep
  <2> QED
    BY <2>1
<1>3. Inv => VerifiedLinesAreAsSigned
  <2> SUFFICES ASSUME Inv, exit = "success", command.name = "verify", NEW entry \in Entries
               PROVE  \E key \in entry.public_key : SignedAs(entry, key)
    BY Zenon DEF VerifiedLinesAreAsSigned, Succeeded, SignedAs
  <2>1. pc = "done" /\ command \in Commands
    BY DEF PassInv, LoadInv
  <2>2. command.records # Unreadable /\ entry # Malformed /\ Verified(entry)
    BY <2>1 DEF ExitIsTheConjunction
  <2> QED
    BY <2>1, <2>2, VerifiedContentIsSigned
<1> QED
  BY <1>1, <1>2, <1>3, PTL DEF Spec

----------------------------------------------------------------------------
(* What a valid list of policies is *)

LEMMA ValidLists ==
    ASSUME NEW ps \in Seq(Shelf), Valid(ps)
    PROVE  /\ \A i, j \in DOMAIN ps : ps[i].id = ps[j].id => i = j
           /\ \A i \in DOMAIN ps : \A g \in DOMAIN ps[i].match : ps[i].match[g] # <<>>
           /\ \A i \in DOMAIN ps : \A g \in DOMAIN ps[i].match :
                 \A k \in DOMAIN ps[i].match[g] : RuleFaults(ps[i].match[g][k]) = {}
<1>1. /\ {<<i, <<"duplicate id">>>> :
             i \in {j \in DOMAIN ps : \E h \in 1..(j - 1) : ps[h].id = ps[j].id}} = {}
      /\ UNION {{<<i, fault>> : fault \in PolicyFaults(ps[i])} : i \in DOMAIN ps} = {}
  BY DEF Valid, Faults
<1>2. Len(ps) \in Nat /\ DOMAIN ps = 1..Len(ps)
  BY LenProperties
<1>3. ASSUME NEW i \in DOMAIN ps, NEW j \in DOMAIN ps, ps[i].id = ps[j].id PROVE i = j
  <2>1. ASSUME NEW h \in DOMAIN ps, NEW k \in DOMAIN ps, ps[h].id = ps[k].id PROVE ~(h < k)
    <3> DEFINE D == {m \in DOMAIN ps : \E l \in 1..(m - 1) : ps[l].id = ps[m].id}
    <3>0. {<<m, <<"duplicate id">>>> : m \in D} = {}
      BY <1>1
    <3>1. k \notin D
      <4> HIDE DEF D
      <4> QED
        BY <3>0
    <3>2. h < k => h \in 1..(k - 1)
      BY <1>2
    <3> QED
      BY <2>1, <3>1, <3>2
  <2>2. ~(i < j) /\ ~(j < i)
    BY <1>3, <2>1
  <2> QED
    BY <1>2, <2>2
<1>4. ASSUME NEW i \in DOMAIN ps PROVE PolicyFaults(ps[i]) = {}
  <2>1. {<<i, fault>> : fault \in PolicyFaults(ps[i])}
          \in {{<<j, fault>> : fault \in PolicyFaults(ps[j])} : j \in DOMAIN ps}
    OBVIOUS
  <2>2. {<<i, fault>> : fault \in PolicyFaults(ps[i])} = {}
    BY <1>1, <2>1
  <2> QED
    BY <2>2
<1>5. ASSUME NEW p, PolicyFaults(p) = {}
      PROVE  /\ \A g \in DOMAIN p.match : p.match[g] # <<>>
             /\ \A g \in DOMAIN p.match : \A k \in DOMAIN p.match[g] :
                   RuleFaults(p.match[g][k]) = {}
  <2> DEFINE F(g, k) == {<<fault, g, k>> : fault \in RuleFaults(p.match[g][k])}
             G(g) == {F(g, k) : k \in DOMAIN p.match[g]}
  <2>1. /\ {<<"empty group", g>> : g \in {h \in DOMAIN p.match : p.match[h] = <<>>}} = {}
        /\ UNION {UNION G(g) : g \in DOMAIN p.match} = {}
    BY <1>5 DEF PolicyFaults
  <2>2. ASSUME NEW g \in DOMAIN p.match PROVE p.match[g] # <<>>
    <3> DEFINE empty == {h \in DOMAIN p.match : p.match[h] = <<>>}
    <3>1. g \in empty => <<"empty group", g>> \in {<<"empty group", h>> : h \in empty}
      OBVIOUS
    <3>2. g \notin empty
      BY <2>1, <3>1, Zenon
    <3> QED
      BY <3>2
  <2>3. ASSUME NEW g \in DOMAIN p.match, NEW k \in DOMAIN p.match[g]
        PROVE  RuleFaults(p.match[g][k]) = {}
    <3>1. F(g, k) \in G(g)
      OBVIOUS
    <3> HIDE DEF G
    <3>2. UNION G(g) \in {UNION G(h) : h \in DOMAIN p.match}
      OBVIOUS
    <3>3. UNION G(g) = {}
      BY <2>1, <3>2
    <3>4. F(g, k) = {}
      <4> HIDE DEF F
      <4> QED
        BY <3>1, <3>3
    <3> QED
      BY <3>4
  <2> QED
    BY <2>2, <2>3
<1> QED
  BY <1>3, <1>4, <1>5

LEMMA KindsOfField ==
    /\ \A x : R!Own(x) # R!Absent
    /\ \A x : R!OwnList(x) # R!Absent
    /\ \A x : R!OwnMap(x) # R!Absent
    /\ \A x : R!Json(x) # R!Absent
<1>1. DOMAIN R!Absent = {"absent"}
  BY DEF R!Absent
<1>2. /\ \A x : DOMAIN R!Own(x) = {"own"}
      /\ \A x : DOMAIN R!OwnList(x) = {"list"}
      /\ \A x : DOMAIN R!OwnMap(x) = {"map"}
      /\ \A x : DOMAIN R!Json(x) = {"json"}
  BY DEF R!Own, R!OwnList, R!OwnMap, R!Json
<1>3. "absent" \notin {"own"} \cup {"list"} \cup {"map"} \cup {"json"}
  OBVIOUS
<1> QED
  BY <1>1, <1>2, <1>3

\* A known path is found in a request that carries it.
LEMMA KnownIsFound ==
    ASSUME NEW q, NEW path, Known(path), Carries(q, path)
    PROVE  R!Present(q, path)
<1> DEFINE B(prefix) == R!Beyond(prefix, path)
<1>1. \/ path \in {<<"action">>, <<"principal", "id">>, <<"principal", "roles">>,
                   <<"principal", "attributes">>, <<"resource", "type">>, <<"resource", "id">>,
                   <<"resource", "attributes">>, <<"context">>}
      \/ B(<<"principal", "attributes">>) \/ B(<<"resource", "attributes">>) \/ B(<<"context">>)
      \/ B(<<"session">>) \/ B(<<"graph">>)
  <2>1. \A prefix : IsStrictPrefix(prefix, path) <=> B(prefix)
    BY DEF R!Beyond, IsStrictPrefix, IsPrefix, R!IsStrictPrefix, R!IsPrefix
  <2> HIDE DEF B
  <2> QED
    BY <2>1 DEF Known
<1>2. \A map, key : key \in DOMAIN map => R!Get(map, key) # R!Absent
  BY KindsOfField DEF R!Get
<1>3. /\ B(<<"principal", "attributes">>) => R!Get(q.pattrs, Tail(Tail(path))) # R!Absent
      /\ B(<<"resource", "attributes">>) => R!Get(q.rattrs, Tail(Tail(path))) # R!Absent
      /\ B(<<"context">>) => R!Get(q.context, Tail(path)) # R!Absent
  BY <1>2 DEF Carries
<1>4. ASSUME NEW space \in {"session", "graph"}, B(<<space>>)
      PROVE  R!LookupNamespaced(q.context, space, Tail(path)) # R!Absent
  BY <1>4, KindsOfField DEF Carries, R!LookupNamespaced
<1>5. /\ B(<<"session">>) => R!LookupNamespaced(q.context, "session", Tail(path)) # R!Absent
      /\ B(<<"graph">>) => R!LookupNamespaced(q.context, "graph", Tail(path)) # R!Absent
  BY <1>4
<1> DEFINE Found == R!ResolveField(q, path)
<1>6. \/ Found = R!Own(q.action) \/ Found = R!Own(q.id) \/ Found = R!OwnList(q.roles)
      \/ Found = R!OwnMap(q.pattrs) \/ Found = R!Own(q.rtype) \/ Found = R!Own(q.rid)
      \/ Found = R!OwnMap(q.rattrs) \/ Found = R!OwnMap(q.context)
      \/ B(<<"principal", "attributes">>) /\ Found = R!Get(q.pattrs, Tail(Tail(path)))
      \/ B(<<"resource", "attributes">>) /\ Found = R!Get(q.rattrs, Tail(Tail(path)))
      \/ B(<<"context">>) /\ Found = R!Get(q.context, Tail(path))
      \/ B(<<"session">>) /\ Found = R!LookupNamespaced(q.context, "session", Tail(path))
      \/ B(<<"graph">>) /\ Found = R!LookupNamespaced(q.context, "graph", Tail(path))
  <2> HIDE DEF B
  <2>1. \A prefix : R!Beyond(prefix, path) <=> B(prefix)
    BY DEF B
  <2> QED
    BY <1>1, <2>1 DEF R!ResolveField
<1> HIDE DEF Found, B
<1>7. Found # R!Absent
  BY <1>3, <1>5, <1>6, KindsOfField
<1> QED
  BY <1>7 DEF Found, R!Present

\* A rule without faults has a target its operator can match, whatever the request.
LEMMA FaultlessFits ==
    ASSUME NEW rule, RuleFaults(rule) = {}, DOMAIN rule.value \in R!Shapes,
           Compiles(rule.value) => ~R!Is("ref", rule.value)
    PROVE  TargetFits(rule) /\ Known(rule.field)
<1>1. /\ "empty field" \notin RuleFaults(rule) /\ "unknown field" \notin RuleFaults(rule)
      /\ "no pattern" \notin RuleFaults(rule) /\ "bad pattern" \notin RuleFaults(rule)
      /\ "no array" \notin RuleFaults(rule)
  OBVIOUS
<1>2. /\ rule.field # <<>> /\ Known(rule.field)
      /\ rule.operator = "Regex" => IsString(rule.value) /\ Compiles(rule.value)
      /\ rule.operator \in {"In", "NotIn"} => IsArray(rule.value)
  BY <1>1 DEF RuleFaults
<1> DEFINE v == rule.value
           Has(kind) == kind \in DOMAIN v
<1>3. \/ DOMAIN v = {"str"} \/ DOMAIN v = {"num", "form"} \/ DOMAIN v = {"bool"}
      \/ DOMAIN v = {"null"} \/ DOMAIN v = {"arr"} \/ DOMAIN v = {"obj"}
      \/ DOMAIN v = {"ref"} \/ DOMAIN v = {"pieces"} \/ DOMAIN v = {"items"}
  BY DEF R!Shapes
<1>4. ASSUME NEW q \in Requests, rule.operator \in {"In", "NotIn"}
      PROVE  R!Is("arr", R!Substitute(q, v))
  <2>1. DOMAIN v = {"arr"} \/ DOMAIN v = {"items"}
    <3>1. "arr" \in DOMAIN v \/ "items" \in DOMAIN v
      BY <1>2, <1>4 DEF IsArray
    <3> HIDE DEF v
    <3> QED
      BY <1>3, <3>1
  <2> HIDE DEF v
  <2>2. CASE DOMAIN v = {"arr"}
    <3>1. R!Substitute(q, v) = v
      BY <2>2 DEF R!Substitute, R!SubstituteOne, R!Is
    <3> QED
      BY <2>2, <3>1 DEF R!Is
  <2>3. CASE DOMAIN v = {"items"}
    BY <2>3 DEF R!Substitute, R!JArr, R!Is
  <2> QED
    BY <2>1, <2>2, <2>3
<1>5. ASSUME NEW q \in Requests, rule.operator = "Regex"
      PROVE  R!Is("str", R!Substitute(q, v))
  <2>1. DOMAIN v = {"str"} \/ DOMAIN v = {"pieces"}
    <3>1. "str" \in DOMAIN v \/ "pieces" \in DOMAIN v
      BY <1>2, <1>5 DEF IsString, R!Is
    <3> HIDE DEF v
    <3> QED
      BY <1>3, <3>1
  <2> HIDE DEF v
  <2>2. CASE DOMAIN v = {"str"}
    <3>1. R!Substitute(q, v) = v
      BY <2>2 DEF R!Substitute, R!SubstituteOne, R!Is
    <3> QED
      BY <2>2, <3>1 DEF R!Is
  <2>3. CASE DOMAIN v = {"pieces"}
    <3>1. R!Substitute(q, v) = R!JStr(R!ReplaceEmbedded(q, v.pieces))
      BY <2>3 DEF R!Substitute, R!SubstituteOne, R!Is
    <3> QED
      BY <3>1 DEF R!JStr, R!Is
  <2> QED
    BY <2>1, <2>2, <2>3
<1> QED
  BY <1>2, <1>4, <1>5 DEF TargetFits

\* Two elements of a finite set make its size more than one, and the other way round.
LEMMA MoreThanOne ==
    ASSUME NEW S, IsFiniteSet(S)
    PROVE  Cardinality(S) > 1 <=> \E x, y \in S : x # y
<1>1. Cardinality(S) \in Nat
  BY FS_CardinalityType
<1>2. Cardinality(S) = 0 <=> S = {}
  BY FS_EmptySet
<1>3. Cardinality(S) = 1 <=> \E x : S = {x}
  BY FS_Singleton
<1>4. (\E x, y \in S : x # y) <=> (S # {} /\ ~ \E x : S = {x})
  <2>1. ASSUME S # {}, ~ \E x : S = {x} PROVE \E x, y \in S : x # y
    <3>1. PICK x : x \in S
      BY <2>1
    <3>2. S # {x}
      BY <2>1
    <3> QED
      BY <3>1, <3>2
  <2> QED
    BY <2>1
<1> QED
  BY <1>1, <1>2, <1>3, <1>4

\* Policies with one fingerprint share a rule of the first group.
LEMMA TwinsShareARule ==
    ASSUME NEW p, NEW t, NEW g \in DOMAIN p.match, NEW k \in DOMAIN p.match[g],
           MatchFingerprint(p) = MatchFingerprint(t)
    PROVE  p.match[g][k] \in Conditions(p) /\ p.match[g][k] \in Conditions(t)
<1> DEFINE bag(s) == ToBag(s)
           rule == p.match[g][k]
<1>1. \A s : DOMAIN bag(s) = ToSet(s)
  BY DEF ToBag, Range, ToSet
<1>2. \A q : DOMAIN MatchFingerprint(q) = {bag(q.match[h]) : h \in DOMAIN q.match}
  <2>1. ASSUME NEW q PROVE DOMAIN MatchFingerprint(q) = {bag(q.match[h]) : h \in DOMAIN q.match}
    <3> DEFINE f == [h \in DOMAIN q.match |-> bag(q.match[h])]
    <3>1. MatchFingerprint(q) = bag(f)
      BY DEF MatchFingerprint
    <3>2. ToSet(f) = {bag(q.match[h]) : h \in DOMAIN q.match}
      <4> HIDE DEF bag
      <4> QED
        BY DEF ToSet
    <3> HIDE DEF bag, f
    <3> QED
      BY <1>1, <3>1, <3>2
  <2> QED
    BY <2>1
<1> HIDE DEF bag
<1>3. PICK h \in DOMAIN t.match : bag(p.match[g]) = bag(t.match[h])
  <2>1. bag(p.match[g]) \in {bag(t.match[h]) : h \in DOMAIN t.match}
    BY <1>2
  <2> QED
    BY <2>1
<1>4. rule \in ToSet(p.match[g]) /\ rule \in ToSet(t.match[h])
  <2>1. rule \in ToSet(p.match[g])
    BY DEF ToSet
  <2> QED
    BY <1>1, <1>3, <2>1
<1> HIDE DEF rule
<1>5. rule \in Conditions(p)
  BY <1>4 DEF Conditions
<1>6. rule \in Conditions(t)
  BY <1>4 DEF Conditions
<1> QED
  BY <1>5, <1>6 DEF rule

\* The instance has a Cardinality of its own, with the same definition.
LEMMA CountsAreTheSame ==
    ASSUME NEW S
    PROVE  Cardinality(S) = Cardinality(S)
  BY DEF Cardinality, Cardinality

\* In a valid list with twins some condition is shared, which is a warning.
LEMMA TwinsAreWarnedOf ==
    ASSUME NEW ps \in Seq(Shelf), Valid(ps), Warnings(ps) = {},
           \A p \in Shelf :
              IsList(p.match) /\ \A group \in ToSet(p.match) : IsList(group),
           NEW a \in DOMAIN ps, NEW b \in DOMAIN ps, a # b, ps[a].match # <<>>
    PROVE  MatchFingerprint(ps[a]) # MatchFingerprint(ps[b])
<1>1. Len(ps) \in Nat /\ DOMAIN ps = 1..Len(ps) /\ IsFiniteSet(DOMAIN ps)
  BY LenProperties, FS_Interval
<1>2. SUFFICES ASSUME MatchFingerprint(ps[a]) = MatchFingerprint(ps[b]) PROVE FALSE
  OBVIOUS
<1>3. a # b
  OBVIOUS
<1>4. /\ a \in DOMAIN ps /\ b \in DOMAIN ps /\ ps[a].match # <<>>
      /\ MatchFingerprint(ps[a]) = MatchFingerprint(ps[b])
  BY <1>2
<1>5. ps[a].id # ps[b].id
  BY <1>3, <1>4, ValidLists
<1>6. PICK g \in DOMAIN ps[a].match : \E k \in DOMAIN ps[a].match[g] : TRUE
  <2> DEFINE m == ps[a].match
  <2>1. ps[a] \in Shelf
    BY <1>1, <1>4, ElementOfSeq
  <2>2. m \in Seq(ToSet(m))
    BY <2>1 DEF IsList
  <2>3. 1 \in DOMAIN m
    <3> DEFINE S == ToSet(m)
    <3>0. m \in Seq(S) /\ m # <<>>
      BY <1>4, <2>2
    <3> HIDE DEF S, m
    <3> QED
      BY <3>0, EmptySeq, LenProperties
  <2>4. m[1] # <<>>
    BY <1>4, <2>3, ValidLists
  <2>5. m[1] \in ToSet(m)
    BY <2>3 DEF ToSet
  <2> DEFINE group == m[1]
  <2>6. group \in Seq(ToSet(group)) /\ group # <<>>
    BY <2>1, <2>4, <2>5 DEF IsList
  <2>7. 1 \in DOMAIN group
    <3> DEFINE S == ToSet(group)
    <3>0. group \in Seq(S) /\ group # <<>>
      BY <2>6
    <3> HIDE DEF S, group
    <3> QED
      BY <3>0, EmptySeq, LenProperties
  <2> QED
    BY <2>3, <2>7
<1>7. PICK k \in DOMAIN ps[a].match[g] : TRUE
  BY <1>6
<1> DEFINE rule == ps[a].match[g][k]
           sharing == {i \in DOMAIN ps : rule \in Conditions(ps[i])}
           ids == {ps[i].id : i \in sharing}
<1>8. rule \in Conditions(ps[a]) /\ rule \in Conditions(ps[b])
  BY <1>4, TwinsShareARule
<1> HIDE DEF rule
<1>9. Cardinality(ids) > 1
  <2>1. IsFiniteSet(sharing)
    BY <1>1, FS_Subset
  <2>2. IsFiniteSet(ids)
    <3> DEFINE f == [i \in sharing |-> ps[i].id]
    <3>1. f \in Surjection(sharing, ids)
      BY DEF Surjection
    <3> HIDE DEF f, ids, sharing
    <3> QED
      BY <2>1, <3>1, FS_Surjection
  <2>3. ps[a].id \in ids /\ ps[b].id \in ids
    BY <1>4, <1>8
  <2> HIDE DEF ids
  <2> QED
    BY <1>5, <2>2, <2>3, MoreThanOne
<1>10. rule \in SharedConditions(ps)
  <2> DEFINE Shared(r) == Cardinality({ps[i].id : i \in {h \in DOMAIN ps : r \in Conditions(ps[h])}}) > 1
  <2>1. rule \in UNION {Conditions(ps[i]) : i \in DOMAIN ps}
    BY <1>4, <1>8
  <2>2. Shared(rule)
    BY <1>9, CountsAreTheSame
  <2>3. SharedConditions(ps) = {r \in UNION {Conditions(ps[i]) : i \in DOMAIN ps} : Shared(r)}
    BY DEF SharedConditions
  <2> HIDE DEF Shared
  <2> QED
    BY <2>1, <2>2, <2>3
<1>11. <<"shared condition", rule>> \in Warnings(ps)
  <2> DEFINE named(r) == <<"shared condition", r>>
  <2>1. {named(r) : r \in SharedConditions(ps)} \subseteq Warnings(ps)
    BY Zenon DEF Warnings
  <2> HIDE DEF named
  <2>2. named(rule) \in Warnings(ps)
    BY <1>10, <2>1
  <2> QED
    BY <2>2 DEF named
<1> QED
  BY <1>11

LEMMA PassedIsLoaded ==
    ASSUME LoadInv, PassInv,
           exit = "success", command.name # "verify"
    PROVE  /\ policies = AllPolicies /\ policies \in Seq(Shelf) /\ Valid(policies)
<1>1. /\ opened = Len(command.files) /\ Valid(policies) /\ command \in Commands
      /\ \A i \in 1..opened : command.files[i] # Unreadable
  BY DEF PassInv, LoadInv
<1>2. policies = AllPolicies
  BY <1>1, LoadedIsEverything
<1>3. policies \in Seq(Shelf)
  <2> DEFINE fs == command.files
  <2>1. /\ fs \in Seq(ToSet(fs)) /\ Len(fs) \in Nat
        /\ \A i \in 1..Len(fs) : fs[i] \in Seq(Shelf)
    BY <1>1, FilesAreLists
  <2> HIDE DEF fs
  <2>2. fs \in Seq(Seq(Shelf))
    <3>1. fs = [i \in 1..Len(fs) |-> fs[i]]
      BY <2>1, LenProperties
    <3> QED
      BY <2>1, <3>1, IsASeq
  <2>3. FlattenSeq(fs) \in Seq(Shelf)
    <3>1. <<>> \in Seq(Shelf)
      BY EmptySeq
    <3> QED
      BY <2>2, <3>1, FlattenAppends
  <2> QED
    BY <1>2, <2>3 DEF AllPolicies, fs
<1> QED
  BY <1>1, <1>2, <1>3

LEMMA ShelfIsOfLists ==
    ASSUME NEW p \in Shelf
    PROVE  /\ IsList(p.match) /\ \A group \in ToSet(p.match) : IsList(group)
           /\ \A rule \in Conditions(p) :
                /\ DOMAIN rule.value \in R!Shapes
                /\ Compiles(rule.value) => ~R!Is("ref", rule.value)
                /\ \E q \in Requests : Carries(q, rule.field)
<1>1. PICK file \in PolicyFiles : p \in ToSet(file)
  BY DEF Shelf
<1>2. IsList(p.match) /\ \A group \in ToSet(p.match) : IsList(group)
  BY <1>1, FilesAssumption
<1>3. Conditions(p) \subseteq Rules(file)
  BY <1>1 DEF Rules, ToSet
<1> QED
  BY <1>1, <1>2, <1>3, FilesAssumption

LEMMA CommandInvariant == Spec => [](LoadInv /\ PassInv)
<1> DEFINE Inv == LoadInv /\ PassInv
<1>1. Init => Inv
  BY CommandInit
<1>2. Inv /\ [Next]_vars => Inv'
  <2> SUFFICES ASSUME Inv, [Next]_vars PROVE Inv'
    OBVIOUS
  <2>1. LoadInv' /\ PassInv'
    BY LoadStep, PassStep
  <2> QED
    BY <2>1
<1> QED
  BY <1>1, <1>2, PTL DEF Spec

\* A strict lint lets no two policies with conditions through that have the same
\* match up to the order of groups and rules: though identical blocks are only
\* suggested, two such policies that are not told apart by their ids are rejected,
\* and two that are share a condition, which is a warning.  Two policies without
\* conditions do pass.
THEOREM StrictLintFindsTwins == Spec => []StrictLintLeavesNoTwins
<1>1. LoadInv /\ PassInv => StrictLintLeavesNoTwins
  <2> DEFINE all == AllPolicies
  <2> SUFFICES ASSUME LoadInv, PassInv, exit = "success", command.name = "lint", command.strict,
                      NEW i \in DOMAIN all, NEW j \in DOMAIN all, i # j, all[i].match # <<>>
               PROVE  MatchFingerprint(all[i]) # MatchFingerprint(all[j])
    BY DEF StrictLintLeavesNoTwins, Succeeded
  <2>1. policies = all /\ policies \in Seq(Shelf) /\ Valid(policies)
    BY PassedIsLoaded
  <2>2. Warnings(policies) = {}
    BY DEF PassInv
  <2>3. \A p \in Shelf :
           IsList(p.match) /\ \A group \in ToSet(p.match) : IsList(group)
    BY ShelfIsOfLists
  <2> HIDE DEF all
  <2> QED
    BY <2>1, <2>2, <2>3, TwinsAreWarnedOf
<1> QED
  BY <1>1, CommandInvariant, PTL

\* Files that pass validate, lint or test may be deployed together: ids are unique
\* across the files, no group is empty and so matches everything, and each rule
\* asks for a field that can be found and compares it with a value of a kind that
\* its operator can match, whatever is put in the place of a placeholder.
THEOREM PassedFilesCanBeDeployed == Spec => []PassedFilesAreSound
<1>1. LoadInv /\ PassInv => PassedFilesAreSound
  <2> DEFINE all == AllPolicies
  <2> SUFFICES ASSUME LoadInv, PassInv, exit = "success",
                      command.name \in {"validate", "lint", "test"}
               PROVE  /\ \A i, j \in DOMAIN all : all[i].id = all[j].id => i = j
                      /\ \A i \in DOMAIN all : <<>> \notin ToSet(all[i].match)
                      /\ \A rule \in Rules(all) :
                            TargetFits(rule) /\ \E q \in Requests : R!Present(q, rule.field)
    BY DEF PassedFilesAreSound, Succeeded
  <2>1. all \in Seq(Shelf) /\ Valid(all)
    BY PassedIsLoaded
  <2> HIDE DEF all
  <2>2. /\ \A i, j \in DOMAIN all : all[i].id = all[j].id => i = j
        /\ \A i \in DOMAIN all : \A g \in DOMAIN all[i].match : all[i].match[g] # <<>>
        /\ \A i \in DOMAIN all : \A g \in DOMAIN all[i].match :
              \A k \in DOMAIN all[i].match[g] : RuleFaults(all[i].match[g][k]) = {}
    BY <2>1, ValidLists
  <2>3. \A i \in DOMAIN all : <<>> \notin ToSet(all[i].match)
    BY <2>2 DEF ToSet
  <2>4. ASSUME NEW rule \in Rules(all)
        PROVE  TargetFits(rule) /\ \E q \in Requests : R!Present(q, rule.field)
    <3>1. PICK i \in DOMAIN all : rule \in Conditions(all[i])
      BY DEF Rules
    <3>2. RuleFaults(rule) = {}
      <4>1. PICK g \in DOMAIN all[i].match : rule \in ToSet(all[i].match[g])
        BY <3>1 DEF Conditions
      <4> QED
        BY <2>2, <3>1, <4>1 DEF ToSet
    <3>3. all[i] \in Shelf
      BY <2>1, <3>1, LenProperties, ElementOfSeq
    <3>4. /\ DOMAIN rule.value \in R!Shapes
          /\ Compiles(rule.value) => ~R!Is("ref", rule.value)
          /\ \E q \in Requests : Carries(q, rule.field)
      BY <3>1, <3>3, ShelfIsOfLists
    <3>5. TargetFits(rule) /\ Known(rule.field)
      BY <3>2, <3>4, FaultlessFits
    <3> QED
      BY <3>4, <3>5, KnownIsFound
  <2> QED
    BY <2>2, <2>3, <2>4
<1> QED
  BY <1>1, CommandInvariant, PTL
=============================================================================
