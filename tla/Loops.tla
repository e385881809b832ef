------------------------------- MODULE Loops --------------------------------
(***************************************************************************)
(* Lemmas for loops over lists and numbers, one round at a time: induction *)
(* over the natural numbers and the existence of a function defined by     *)
(* recursion, both for sets rather than operators, what a filter keeps and *)
(* what a sum comes to.                                                    *)
(***************************************************************************)
EXTENDS ListOps, Integers, FiniteSetTheorems, SequenceTheorems, WellFoundedInduction, TLAPS

-----------------------------------------------------------------------------
\* A set with 0 that is closed under successor has every natural number: the
\* least number outside of it would have a predecessor inside.
LEMMA EveryNumber ==
    ASSUME NEW S, 0 \in S, \A n \in Nat : n \in S => n + 1 \in S
    PROVE  \A n \in Nat : n \in S
  <1> DEFINE T == Nat \ S
             Less == OpToRel(<, Nat)
  <1>1. SUFFICES ASSUME T # {} PROVE FALSE
      OBVIOUS
  <1>2. IsWellFoundedOn(Less, Nat)
      BY NatLessThanWellFounded
  <1> HIDE DEF Less
  <1>3. PICK x \in T : \A y \in T : ~(<<y, x>> \in Less)
      BY <1>1, <1>2, WFMin
  <1>4. x \in Nat \ {0} /\ x - 1 \in Nat
      BY <1>3
  <1>5. x - 1 \in S
    <2>1. <<x - 1, x>> \in Less
        BY <1>4 DEF Less, OpToRel
    <2>2. QED
        BY <1>3, <1>4, <2>1
  <1>6. (x - 1) + 1 \in S
      BY <1>4, <1>5
  <1>7. QED
      BY <1>3, <1>4, <1>6

\* A loop of N rounds over values of D has its sequence of results.
LEMMA LoopHasResults ==
    ASSUME NEW D, NEW base \in D, NEW N \in Nat, NEW round \in [1..N -> [D -> D]]
    PROVE  \E f \in [0..N -> D] : f[0] = base /\ \A n \in 1..N : f[n] = round[n][f[n - 1]]
  <1> DEFINE Good(m, f) == f[0] = base /\ \A n \in 1..m : f[n] = round[n][f[n - 1]]
             S == {m \in Nat : m <= N => \E f \in [0..m -> D] : Good(m, f)}
  <1>1. 0 \in S
    <2>1. Good(0, [n \in 0..0 |-> base])
        OBVIOUS
    <2>2. QED
        BY <2>1
  <1>2. ASSUME NEW m \in Nat, m \in S PROVE m + 1 \in S
    <2>1. SUFFICES ASSUME m + 1 <= N PROVE \E f \in [0..(m + 1) -> D] : Good(m + 1, f)
        OBVIOUS
    <2>2. PICK f \in [0..m -> D] : Good(m, f)
        BY <1>2, <2>1
    <2> DEFINE g == [n \in 0..(m + 1) |-> IF n = m + 1 THEN round[m + 1][f[m]] ELSE f[n]]
    <2>3. round[m + 1][f[m]] \in D
        BY <2>1, <2>2
    <2>4. g \in [0..(m + 1) -> D] /\ g[0] = base
        BY <2>2, <2>3
    <2>5. ASSUME NEW n \in 1..(m + 1) PROVE g[n] = round[n][g[n - 1]]
      <3>1. g[n - 1] = f[n - 1]
          BY <2>5
      <3>2. CASE n = m + 1
          BY <3>1, <3>2
      <3>3. CASE n # m + 1
        <4>1. n \in 1..m
            BY <3>3
        <4>2. QED
            BY <2>2, <3>1, <4>1
      <3>4. QED
          BY <3>2, <3>3
    <2>6. QED
        BY <2>4, <2>5
  <1>3. N \in S
    <2> HIDE DEF S
    <2>1. QED
        BY <1>1, <1>2, EveryNumber
  <1>4. QED
      BY <1>3

\* The same, as one fact to instantiate: f holds the results of the loop.
LoopOf(D, base, N, round, f) ==
    f \in [0..N -> D] /\ f[0] = base /\ \A n \in 1..N : f[n] = round[n][f[n - 1]]
LEMMA EveryLoopHasResults ==
    \A D, base, N, round :
        base \in D /\ N \in Nat /\ round \in [1..N -> [D -> D]] => \E f : LoopOf(D, base, N, round, f)
  BY LoopHasResults DEF LoopOf

-----------------------------------------------------------------------------
\* A loop over a list that keeps some of its members, and where it found them.
Finds(s, keep, n, f, at) ==
    /\ at \in [1..Len(f) -> 1..n]
    /\ \A i, j \in 1..Len(f) : i < j => at[i] < at[j]
    /\ \A i \in 1..Len(f) : f[i] = s[at[i]] /\ keep[at[i]]
Keeps(s, keep, n, f) ==
    /\ Len(f) <= n
    /\ (\A k \in 1..n : keep[k]) => Len(f) = n
    /\ \E at \in [1..Len(f) -> 1..n] : Finds(s, keep, n, f, at)

\* One round of the loop.
LEMMA KeepsOn ==
    ASSUME NEW D, NEW s \in Seq(D), NEW keep \in [DOMAIN s -> BOOLEAN], NEW n \in 0..Len(s) - 1,
           NEW f \in Seq(D), Keeps(s, keep, n, f)
    PROVE  LET g == IF keep[n + 1] THEN Append(f, s[n + 1]) ELSE f
           IN  g \in Seq(D) /\ Keeps(s, keep, n + 1, g)
  <1> DEFINE m == Len(f)
             g == IF keep[n + 1] THEN Append(f, s[n + 1]) ELSE f
  <1>1. m \in Nat /\ n \in Nat /\ Len(s) \in Nat /\ n + 1 \in 1..Len(s) /\ s[n + 1] \in D
        /\ DOMAIN s = 1..Len(s)
      BY ElementOfSeq
  <1>2. PICK at \in [1..m -> 1..n] : Finds(s, keep, n, f, at)
      BY DEF Keeps
  <1>3. CASE keep[n + 1]
    <2> DEFINE to == [i \in 1..(m + 1) |-> IF i = m + 1 THEN n + 1 ELSE at[i]]
    <2>1. g = Append(f, s[n + 1]) /\ g \in Seq(D) /\ Len(g) = m + 1 /\ g[m + 1] = s[n + 1]
          /\ \A i \in 1..m : g[i] = f[i]
        BY <1>1, <1>3
    <2> HIDE DEF g, m
    <2>2. to \in [1..(m + 1) -> 1..(n + 1)] /\ to[m + 1] = n + 1 /\ \A i \in 1..m : to[i] = at[i]
        BY <1>1, <1>2
    <2> HIDE DEF to
    <2>3. \A i \in 1..(m + 1) : i \in 1..m \/ i = m + 1
        BY <1>1
    <2>4. \A i \in 1..(m + 1) : g[i] = s[to[i]] /\ keep[to[i]]
        BY <1>2, <1>3, <2>1, <2>2, <2>3 DEF Finds, m
    <2>5. \A i, j \in 1..(m + 1) : i < j => to[i] < to[j]
      <3>1. SUFFICES ASSUME NEW i \in 1..(m + 1), NEW j \in 1..(m + 1), i < j PROVE to[i] < to[j]
          OBVIOUS
      <3>2. i \in 1..m /\ to[i] = at[i] /\ at[i] \in 1..n
          BY <1>1, <1>2, <2>2, <3>1
      <3>3. CASE j = m + 1
          BY <1>1, <2>2, <3>2, <3>3
      <3>4. CASE j # m + 1
        <4>1. j \in 1..m
            BY <2>3, <3>4
        <4>2. at[i] < at[j]
            BY <1>2, <3>1, <3>2, <4>1 DEF Finds, m
        <4>3. QED
            BY <2>2, <3>2, <4>1, <4>2
      <3>5. QED
          BY <3>3, <3>4
    <2>6. Finds(s, keep, n + 1, g, to)
        BY <2>1, <2>2, <2>4, <2>5 DEF Finds
    <2>7. (\A k \in 1..(n + 1) : keep[k]) => m = n
        BY <1>1 DEF Keeps, m
    <2>8. m + 1 <= n + 1
        BY <1>1 DEF Keeps, m
    <2>9. QED
        BY <2>1, <2>2, <2>6, <2>7, <2>8 DEF Keeps, g
  <1>4. CASE ~keep[n + 1]
    <2>1. g = f
        BY <1>4
    <2>2. at \in [1..m -> 1..(n + 1)] /\ Finds(s, keep, n + 1, f, at)
        BY <1>1, <1>2 DEF Finds
    <2>3. ~ \A k \in 1..(n + 1) : keep[k]
        BY <1>1, <1>4
    <2>4. m <= n + 1
        BY <1>1 DEF Keeps
    <2>5. QED
        BY <2>1, <2>2, <2>3, <2>4 DEF Keeps
  <1>5. QED
      BY <1>3, <1>4

\* f holds what is filtered of the first n members, for each n.
FilterOf(E, s, keep, f) ==
    /\ f \in [0..Len(s) -> E] /\ Filtered(s, keep) = f[Len(s)] /\ f[0] = <<>>
    /\ \A n \in 1..Len(s) : f[n] = IF keep[n] THEN Append(f[n - 1], s[n]) ELSE f[n - 1]

\* Filtered is what its definition says, member by member.
LEMMA FilteredStepwise ==
    ASSUME NEW E, <<>> \in E, NEW s, NEW keep, Len(s) \in Nat,
           \A n \in 1..Len(s), x \in E : Append(x, s[n]) \in E
    PROVE  \E f : FilterOf(E, s, keep, f)
  <1> DEFINE N == Len(s)
             Round(x, n) == IF keep[n] THEN Append(x, s[n]) ELSE x
             round == [n \in 1..N |-> [x \in E |-> Round(x, n)]]
             Equation(f) == [n \in 0..N |-> IF n = 0 THEN <<>> ELSE Round(f[n - 1], n)]
  <1>1. N \in Nat
      OBVIOUS
  <1>2. \A n \in 1..N, x \in E : Round(x, n) \in E
      OBVIOUS
  <1> HIDE DEF N
  <1> HIDE DEF Round
  <1>3. round \in [1..N -> [E -> E]]
      BY <1>2
  <1>4. \A n \in 1..N, x \in E : round[n][x] = Round(x, n)
      OBVIOUS
  <1> HIDE DEF round
  <1>5. PICK f \in [0..N -> E] : f[0] = <<>> /\ \A n \in 1..N : f[n] = round[n][f[n - 1]]
    <2> HIDE DEF Equation
    <2>1. PICK f : LoopOf(E, <<>>, N, round, f)
        BY <1>1, <1>3, EveryLoopHasResults, Zenon
    <2>2. QED
        BY <2>1 DEF LoopOf
  <1>6. f = Equation(f)
    <2>1. \A n \in 1..N : n - 1 \in 0..N
        BY <1>1
    <2>2. ASSUME NEW n \in 1..N PROVE f[n] = Round(f[n - 1], n)
      <3>1. f[n - 1] \in E
          BY <1>5, <2>1
      <3>2. QED
          BY <1>4, <1>5, <3>1
    <2>3. \A n \in 0..N : f[n] = IF n = 0 THEN <<>> ELSE Round(f[n - 1], n)
        BY <1>1, <1>5, <2>2
    <2>4. QED
        BY <1>5, <2>3
  <1> DEFINE h == CHOOSE g : g = Equation(g)
  <1>7. Filtered(s, keep) = h[N]
      BY DEF Filtered, Round, N
  <1>8. h = Equation(h)
    <2> HIDE DEF Equation
    <2>1. QED
        BY <1>6
  <1>9. h[0] = <<>> /\ \A n \in 1..N : h[n] = Round(h[n - 1], n)
    <2> HIDE DEF h
    <2>1. QED
        BY <1>1, <1>8
  <1> HIDE DEF h, Equation
  <1>10. h = f
    <2> DEFINE S == {n \in Nat : n <= N => h[n] = f[n]}
    <2>1. 0 \in S
        BY <1>1, <1>5, <1>9
    <2>2. ASSUME NEW n \in Nat, n \in S PROVE n + 1 \in S
      <3>1. CASE n + 1 <= N
        <4>1. n + 1 \in 1..N /\ (n + 1) - 1 = n /\ n <= N
            BY <1>1, <3>1
        <4>2. f[n + 1] = Round(f[n], n + 1) /\ h[n + 1] = Round(h[n], n + 1)
          <5>1. f[n] \in E
              BY <1>1, <1>5, <4>1
          <5>2. f[n + 1] = round[n + 1][f[n]]
              BY <1>5, <4>1
          <5>3. QED
              BY <1>4, <1>9, <4>1, <5>1, <5>2
        <4>3. QED
            BY <2>2, <4>1, <4>2
      <3>2. QED
          BY <3>1
    <2>3. \A n \in Nat : n \in S
      <3> HIDE DEF S
      <3>1. QED
          BY <2>1, <2>2, EveryNumber
    <2>4. \A n \in 0..N : h[n] = f[n]
        BY <1>1, <2>3
    <2>5. DOMAIN h = 0..N
        BY <1>8 DEF Equation
    <2>6. h = [n \in 0..N |-> h[n]]
        BY <1>8 DEF Equation
    <2>7. QED
        BY <1>5, <2>4, <2>6
  <1>11. QED
    <2>1. \A n \in 1..N : h[n] = IF keep[n] THEN Append(h[n - 1], s[n]) ELSE h[n - 1]
        BY <1>9 DEF Round
    <2>2. QED
        BY <1>5, <1>7, <1>10, <2>1 DEF N, FilterOf

\* What is filtered are members of the list in their order, and all of them
\* if all are kept.
LEMMA FilteredKeeps ==
    ASSUME NEW D, NEW s \in Seq(D), NEW keep \in [DOMAIN s -> BOOLEAN]
    PROVE  LET f == Filtered(s, keep)
           IN  f \in Seq(D) /\ Keeps(s, keep, Len(s), f)
  <1>1. PICK f : FilterOf(Seq(D), s, keep, f)
    <2>1. Len(s) \in Nat /\ <<>> \in Seq(D) /\ \A n \in 1..Len(s), x \in Seq(D) : Append(x, s[n]) \in Seq(D)
        BY ElementOfSeq
    <2>2. QED
        BY <2>1, FilteredStepwise, Zenon
  <1> USE DEF FilterOf
  <1> DEFINE S == {n \in Nat : n <= Len(s) => Keeps(s, keep, n, f[n])}
  <1>2. Len(s) \in Nat /\ f[0] \in Seq(D) /\ Len(f[0]) = 0
      BY <1>1
  <1>3. 0 \in S
    <2>1. <<>> \in [1..0 -> 1..0] /\ Finds(s, keep, 0, f[0], <<>>)
        BY <1>1, <1>2 DEF Finds
    <2>2. QED
        BY <1>2, <2>1 DEF Keeps
  <1>4. ASSUME NEW n \in Nat, n \in S PROVE n + 1 \in S
    <2>1. SUFFICES ASSUME n + 1 <= Len(s) PROVE Keeps(s, keep, n + 1, f[n + 1])
        OBVIOUS
    <2>2. n \in 0..Len(s) - 1 /\ n + 1 \in 1..Len(s) /\ (n + 1) - 1 = n /\ f[n] \in Seq(D)
        BY <1>1, <1>2, <2>1
    <2>3. f[n + 1] = IF keep[n + 1] THEN Append(f[n], s[n + 1]) ELSE f[n]
        BY <1>1, <2>2
    <2>4. Keeps(s, keep, n, f[n])
        BY <1>4, <2>1, <2>2
    <2>5. QED
        BY <2>2, <2>3, <2>4, KeepsOn
  <1>5. Len(s) \in S
    <2> HIDE DEF S
    <2>1. QED
        BY <1>2, <1>3, <1>4, EveryNumber
  <1>6. QED
      BY <1>1, <1>2, <1>5

\* A list whose members are all kept stays as it is.
LEMMA AllKept ==
    ASSUME NEW D, NEW s \in Seq(D), NEW keep \in [DOMAIN s -> BOOLEAN], \A k \in DOMAIN s : keep[k]
    PROVE  Filtered(s, keep) = s
  <1> DEFINE f == Filtered(s, keep)
             N == Len(s)
  <1>1. N \in Nat /\ DOMAIN s = 1..N /\ s = [i \in 1..N |-> s[i]]
      OBVIOUS
  <1>2. f \in Seq(D) /\ Keeps(s, keep, N, f)
      BY FilteredKeeps
  <1> HIDE DEF f, N
  <1>3. Len(f) = N
      BY <1>1, <1>2 DEF Keeps
  <1>4. PICK at \in [1..N -> 1..N] : Finds(s, keep, N, f, at)
      BY <1>2, <1>3 DEF Keeps
  <1>5. \A i \in 1..N : at[i] = i
    <2> DEFINE Up == {i \in Nat : i + 1 <= N => at[i + 1] >= i + 1}
               Down == {i \in Nat : i < N => at[N - i] <= N - i}
    <2>1. \A i \in 1..N : at[i] \in 1..N
        BY <1>4
    <2>2. \A i \in Nat : i \in Up
      <3>1. 0 \in Up
          BY <1>1, <2>1
      <3>2. ASSUME NEW i \in Nat, i \in Up PROVE i + 1 \in Up
        <4>1. SUFFICES ASSUME i + 2 <= N PROVE at[i + 2] >= i + 2
            OBVIOUS
        <4>2. i + 1 \in 1..N /\ i + 2 \in 1..N /\ i + 1 < i + 2
            BY <1>1, <4>1
        <4>3. at[i + 1] < at[i + 2] /\ at[i + 1] >= i + 1 /\ at[i + 1] \in 1..N /\ at[i + 2] \in 1..N
            BY <1>3, <1>4, <2>1, <3>2, <4>2 DEF Finds
        <4>4. QED
            BY <1>1, <4>3
      <3> HIDE DEF Up
      <3>3. QED
          BY <3>1, <3>2, EveryNumber
    <2>3. \A i \in Nat : i \in Down
      <3>1. 0 \in Down
          BY <1>1, <2>1
      <3>2. ASSUME NEW i \in Nat, i \in Down PROVE i + 1 \in Down
        <4>1. SUFFICES ASSUME i + 1 < N PROVE at[N - (i + 1)] <= N - (i + 1)
            OBVIOUS
        <4>2. N - (i + 1) \in 1..N /\ N - i \in 1..N /\ N - (i + 1) < N - i
            BY <1>1, <4>1
        <4>3. /\ at[N - (i + 1)] < at[N - i] /\ at[N - i] <= N - i
              /\ at[N - (i + 1)] \in 1..N /\ at[N - i] \in 1..N
            BY <1>3, <1>4, <2>1, <3>2, <4>1, <4>2 DEF Finds
        <4>4. QED
            BY <1>1, <4>3
      <3> HIDE DEF Down
      <3>3. QED
          BY <3>1, <3>2, EveryNumber
    <2>4. SUFFICES ASSUME NEW i \in 1..N PROVE at[i] = i
        OBVIOUS
    <2>5. i - 1 \in Up /\ N - i \in Down /\ i - 1 \in Nat /\ N - i \in Nat
        BY <1>1, <2>2, <2>3
    <2>6. at[i] >= i
        BY <1>1, <2>5
    <2>7. N - (N - i) = i /\ (i > 0 => N - i < N)
        BY <1>1
    <2>8. at[i] <= i
        BY <1>1, <2>5, <2>7
    <2>9. QED
        BY <1>1, <2>1, <2>6, <2>8
  <1>6. \A i \in 1..N : f[i] = s[i]
      BY <1>3, <1>4, <1>5 DEF Finds
  <1>7. f = [i \in 1..N |-> f[i]]
      BY <1>2, <1>3
  <1>8. QED
      BY <1>1, <1>6, <1>7 DEF f

-----------------------------------------------------------------------------
\* Of some numbers up to a bound one is the largest.
LEMMA LargestExists ==
    ASSUME NEW n \in Nat, NEW I, I \subseteq 1..n, I # {}
    PROVE  \E i \in I : \A j \in I : i >= j
  <1> DEFINE Less == OpToRel(<, Nat)
             D == {k \in Nat : \E i \in I : k = n - i}
  <1>1. D # {}
    <2>1. PICK i \in I : TRUE
        OBVIOUS
    <2>2. n - i \in D
        BY <2>1
    <2>3. QED
        BY <2>2
  <1>2. IsWellFoundedOn(Less, Nat)
      BY NatLessThanWellFounded
  <1> HIDE DEF Less
  <1>3. PICK k \in D : \A m \in D : ~(<<m, k>> \in Less)
      BY <1>1, <1>2, WFMin
  <1>4. PICK i \in I : k = n - i
      OBVIOUS
  <1>5. ASSUME NEW j \in I, j > i PROVE FALSE
    <2>1. n - j \in D /\ n - j < k /\ n - j \in Nat /\ k \in Nat
        BY <1>4, <1>5
    <2>2. <<n - j, k>> \in Less
        BY <2>1 DEF Less, OpToRel
    <2>3. QED
        BY <1>3, <2>1, <2>2
  <1>6. QED
      BY <1>5

\* A list stays one when a member is taken out of it.
LEMMA OneTakenOut ==
    ASSUME NEW D, NEW s \in Seq(D), NEW i \in DOMAIN s
    PROVE  SubSeq(s, 1, i - 1) \o SubSeq(s, i + 1, Len(s)) \in Seq(D)
  <1>1. Len(s) \in Nat /\ i \in 1..Len(s) /\ \A k \in 1..Len(s) : s[k] \in D
      OBVIOUS
  <1>2. SubSeq(s, 1, i - 1) \in Seq(D)
      BY <1>1, SubSeqProperties
  <1>3. SubSeq(s, i + 1, Len(s)) \in Seq(D)
      BY <1>1, SubSeqProperties
  <1>4. QED
      BY <1>2, <1>3

\* A member taken out where it was appended.
LEMMA LastTakenOut ==
    ASSUME NEW D, NEW s \in Seq(D), NEW e \in D
    PROVE  LET all == Append(s, e)
               n == Len(s)
           IN  SubSeq(all, 1, n) \o SubSeq(all, n + 2, n + 1) = s
  <1> DEFINE all == Append(s, e)
             n == Len(s)
             front == SubSeq(all, 1, n)
  <1>1. n \in Nat /\ \A i \in 1..n : all[i] = s[i] /\ s[i] \in D
      BY AppendProperties
  <1> HIDE DEF all
  <1>2. front \in Seq(D) /\ Len(front) = n /\ \A i \in 1..n : front[i] = s[i]
    <2>1. \A i \in 1..n : all[i] \in D
        BY <1>1
    <2>2. front \in Seq(D) /\ Len(front) = (IF 1 <= n THEN n - 1 + 1 ELSE 0) /\ \A i \in 1..n - 1 + 1 : front[i] = all[1 + i - 1]
        BY <1>1, <2>1, SubSeqProperties
    <2>3. QED
        BY <1>1, <2>2
  <1> HIDE DEF front
  <1>3. front = s
      BY <1>1, <1>2
  <1>4. SubSeq(all, n + 2, n + 1) = <<>>
      BY <1>1, SubSeqEmpty
  <1>5. QED
      BY <1>3, <1>4, ConcatEmptySeq DEF front, all

-----------------------------------------------------------------------------
\* A sum is what a running total comes to.
LEMMA SumIs ==
    ASSUME NEW s \in Seq(Int), NEW f \in [0..Len(s) -> Int], f[0] = 0,
           \A n \in 1..Len(s) : f[n] = f[n - 1] + s[n]
    PROVE  Summed(s) = f[Len(s)]
  <1> DEFINE N == Len(s)
             Equation(g) == [n \in 0..N |-> IF n = 0 THEN 0 ELSE g[n - 1] + s[n]]
             h == CHOOSE g : g = Equation(g)
  <1>1. N \in Nat
      OBVIOUS
  <1>2. f = Equation(f)
    <2>1. \A n \in 0..N : f[n] = IF n = 0 THEN 0 ELSE f[n - 1] + s[n]
        BY <1>1
    <2>2. f = [n \in 0..N |-> f[n]]
        OBVIOUS
    <2>3. QED
        BY <2>1, <2>2
  <1>3. Summed(s) = h[N]
      BY DEF Summed
  <1>4. h = Equation(h)
    <2> HIDE DEF Equation
    <2>1. QED
        BY <1>2
  <1>5. h[0] = 0 /\ \A n \in 1..N : h[n] = h[n - 1] + s[n]
    <2> HIDE DEF h
    <2>1. QED
        BY <1>1, <1>4
  <1> HIDE DEF h, Equation, N
  <1> DEFINE S == {n \in Nat : n <= N => h[n] = f[n]}
  <1>6. 0 \in S
      BY <1>5
  <1>7. ASSUME NEW n \in Nat, n \in S PROVE n + 1 \in S
    <2>1. CASE n + 1 <= N
      <3>1. n + 1 \in 1..N /\ (n + 1) - 1 = n /\ n <= N
          BY <1>1, <2>1
      <3>2. f[n + 1] = f[n] + s[n + 1] /\ h[n + 1] = h[n] + s[n + 1]
          BY <1>5, <3>1 DEF N
      <3>3. QED
          BY <1>7, <3>1, <3>2
    <2>2. QED
        BY <2>1
  <1>8. \A n \in Nat : n \in S
    <2> HIDE DEF S
    <2>1. QED
        BY <1>6, <1>7, EveryNumber
  <1>9. h[N] = f[N]
      BY <1>1, <1>8
  <1>10. QED
      BY <1>3, <1>9 DEF N

\* A list has a running total.
LEMMA SumOfList ==
    ASSUME NEW s \in Seq(Int)
    PROVE  /\ Summed(s) \in Int
           /\ \E f \in [0..Len(s) -> Int] :
                  f[0] = 0 /\ (\A n \in 1..Len(s) : f[n] = f[n - 1] + s[n]) /\ Summed(s) = f[Len(s)]
  <1> DEFINE N == Len(s)
             round == [n \in 1..N |-> [x \in Int |-> x + s[n]]]
  <1>1. N \in Nat /\ \A n \in 1..N : s[n] \in Int
      OBVIOUS
  <1>2. round \in [1..N -> [Int -> Int]] /\ \A n \in 1..N, x \in Int : round[n][x] = x + s[n]
      BY <1>1
  <1> HIDE DEF round
  <1>3. PICK f : LoopOf(Int, 0, N, round, f)
    <2> HIDE DEF N
    <2>1. 0 \in Int
        OBVIOUS
    <2>2. QED
        BY <1>1, <1>2, <2>1, EveryLoopHasResults, Zenon
  <1>4. f \in [0..N -> Int] /\ f[0] = 0 /\ \A n \in 1..N : f[n] = round[n][f[n - 1]]
      BY <1>3 DEF LoopOf
  <1>5. \A n \in 1..N : f[n] = f[n - 1] + s[n]
    <2>1. \A n \in 1..N : n - 1 \in 0..N
        BY <1>1
    <2>2. QED
        BY <1>2, <1>4, <2>1
  <1>6. Summed(s) = f[N]
      BY <1>4, <1>5, SumIs
  <1>7. QED
      BY <1>1, <1>4, <1>5, <1>6

\* Sums add up member by member.
LEMMA SumsAdd ==
    ASSUME NEW s \in Seq(Int), NEW t \in Seq(Int), NEW u \in Seq(Int), Len(t) = Len(s), Len(u) = Len(s),
           \A n \in 1..Len(s) : u[n] = s[n] + t[n]
    PROVE  Summed(u) = Summed(s) + Summed(t)
  <1> DEFINE N == Len(s)
  <1>1. N \in Nat /\ \A n \in 1..N : n \in 0..N /\ n - 1 \in 0..N /\ s[n] \in Int /\ t[n] \in Int
      OBVIOUS
  <1>2. PICK f \in [0..N -> Int] : f[0] = 0 /\ (\A n \in 1..N : f[n] = f[n - 1] + s[n]) /\ Summed(s) = f[N]
      BY SumOfList
  <1>3. PICK g \in [0..N -> Int] : g[0] = 0 /\ (\A n \in 1..N : g[n] = g[n - 1] + t[n]) /\ Summed(t) = g[N]
      BY SumOfList
  <1> DEFINE h == [n \in 0..N |-> f[n] + g[n]]
  <1>4. h \in [0..N -> Int] /\ h[0] = 0 /\ h[N] = Summed(s) + Summed(t)
      BY <1>1, <1>2, <1>3
  <1>5. ASSUME NEW n \in 1..N PROVE h[n] = h[n - 1] + u[n]
    <2> DEFINE a == f[n - 1]
               b == s[n]
               c == g[n - 1]
               d == t[n]
    <2>1. h[n] = f[n] + g[n] /\ h[n - 1] = a + c
        BY <1>1
    <2>2. f[n] = a + b /\ g[n] = c + d /\ u[n] = b + d
        BY <1>2, <1>3
    <2>3. a \in Int /\ b \in Int /\ c \in Int /\ d \in Int
        BY <1>1, <1>2, <1>3
    <2> HIDE DEF a, b, c, d, h
    <2>4. (a + b) + (c + d) = (a + c) + (b + d)
        BY <2>3, SMTT(30)
    <2>5. QED
        BY <2>1, <2>2, <2>4, Zenon
  <1> HIDE DEF h
  <1>6. Summed(u) = h[N]
      BY <1>4, <1>5, SumIs
  <1>7. QED
      BY <1>4, <1>6
=============================================================================
