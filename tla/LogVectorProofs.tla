--------------------------- MODULE LogVectorProofs --------------------------
(***************************************************************************)
(* The transparency log, for trees of every size: the generators are the   *)
(* functions their recursions describe, both folding loops accept exactly  *)
(* what the generators print, and check_log_vector passes right vectors    *)
(* and only proved ones.                                                   *)
(*                                                                         *)
(* A generator splits a tree at its largest power of two, a loop climbs it *)
(* level by level from the leaves.  The two meet in the lemmas *PairUp: a  *)
(* root, a path or a proof over h is the one over the hashes one level up  *)
(* (PairUp), with what that level adds in front.  One round of a loop then *)
(* moves from a tree to the smaller tree above it, and what it will answer *)
(* does not change on the way (FoldDecides).                               *)
(***************************************************************************)
EXTENDS LogVector, WellFoundedInduction, SequenceTheorems, TLAPS

\* Every nonempty set of naturals has a least element: induction over the
\* naturals below is done on the least counterexample.
LEMMA Least ==
  ASSUME NEW S, S \subseteq Nat, S # {}
  PROVE  \E n \in S : \A k \in S : n <= k
<1> DEFINE R == OpToRel(<, Nat)
<1>1. IsWellFoundedOn(R, Nat)
  BY NatLessThanWellFounded
<1>2. \A x, y \in Nat : x < y => <<x, y>> \in R
  BY DEF OpToRel
<1> HIDE DEF R
<1>3. PICK n \in S : \A k \in S : ~(<<k, n>> \in R)
  BY <1>1, WFMin
<1>4. ASSUME NEW k \in S  PROVE n <= k
  <2>1. n \in Nat /\ k \in Nat
    OBVIOUS
  <2>2. ~(k < n)
    BY <1>2, <1>3, <2>1, Zenon
  <2> QED
    BY <2>1, <2>2, SMT
<1> QED
  BY <1>4

\* Strong induction, for a set: what holds of n whenever it holds below n
\* holds of every natural.
LEMMA StrongInduction ==
  ASSUME NEW S, \A n \in Nat : (\A k \in 0..(n - 1) : k \in S) => n \in S
  PROVE  \A n \in Nat : n \in S
<1> DEFINE Bad == {n \in Nat : n \notin S}
<1> SUFFICES ASSUME Bad # {} PROVE FALSE
  OBVIOUS
<1>1. PICK n \in Bad : \A k \in Bad : n <= k
  <2>1. Bad \subseteq Nat
    OBVIOUS
  <2> HIDE DEF Bad
  <2> QED
    BY <2>1, Least
<1>2. \A k \in 0..(n - 1) : k \in Nat /\ ~(n <= k)
  OBVIOUS
<1> QED
  BY <1>1, <1>2

\* Two functions each of whose values follows from the values below agree.
LEMMA Agreement ==
  ASSUME NEW g, NEW h, NEW n \in Nat,
         \A k \in 0..n : (\A j \in 0..(k - 1) : g[j] = h[j]) => g[k] = h[k]
  PROVE  \A k \in 0..n : g[k] = h[k]
<1> DEFINE S == {k \in Nat : k \in 0..n => g[k] = h[k]}
<1>1. ASSUME NEW k \in Nat, \A j \in 0..(k - 1) : j \in S
      PROVE  k \in S
  BY <1>1
<1>2. \A k \in Nat : k \in S
  <2> HIDE DEF S
  <2> QED
    BY <1>1, StrongInduction
<1> QED
  BY <1>2

\* Doubled is the function its recursion describes.
LEMMA DoubledExists ==
  Doubled = [rounds \in Nat |-> IF rounds = 0 THEN 1 ELSE 2 * Doubled[rounds - 1]]
<1> DEFINE Is(g) == g = [rounds \in Nat |->
                           IF rounds = 0 THEN 1 ELSE 2 * g[rounds - 1]]
<1> DEFINE UpTo(g, n) ==
      \A j \in 0..n : g[j] = IF j = 0 THEN 1 ELSE 2 * g[j - 1]
<1>1. \A n \in Nat : \E g : UpTo(g, n)
  <2> DEFINE S == {n \in Nat : \E g : UpTo(g, n)}
  <2>1. ASSUME NEW n \in Nat, \A k \in 0..(n - 1) : k \in S
        PROVE  n \in S
    <3>1. CASE n = 0
      <4>1. UpTo([j \in 0..0 |-> 1], 0)
        OBVIOUS
      <4> QED BY <3>1, <4>1
    <3>2. CASE n # 0
      <4>1. n - 1 \in 0..(n - 1)
        BY <3>2
      <4>2. PICK g : UpTo(g, n - 1)
        BY <4>1, <2>1
      <4>3. UpTo([j \in 0..n |-> IF j = n THEN 2 * g[n - 1] ELSE g[j]], n)
        BY <4>2, <3>2
      <4> QED BY <4>3
    <3> QED BY <3>1, <3>2
  <2>2. \A n \in Nat : n \in S
    <3> HIDE DEF S
    <3> QED BY <2>1, StrongInduction
  <2> QED BY <2>2
<1> DEFINE G == [n \in Nat |-> CHOOSE g : UpTo(g, n)]
<1>2. \A n \in Nat : UpTo(G[n], n)
  BY <1>1
<1> HIDE DEF G
<1>3. ASSUME NEW n \in Nat, NEW k \in 0..n
      PROVE  G[n][k] = G[k][k]
  <2>1. k \in Nat /\ UpTo(G[n], n) /\ UpTo(G[k], k)
    BY <1>2
  <2>a. PICK g : g = G[n]
    OBVIOUS
  <2>b. PICK h : h = G[k]
    OBVIOUS
  <2>2. \A j \in 0..k : (\A l \in 0..(j - 1) : g[l] = h[l]) => g[j] = h[j]
    BY <2>1, <2>a, <2>b
  <2> HIDE DEF UpTo
  <2>3. \A j \in 0..k : g[j] = h[j]
    BY <2>1, <2>2, Agreement
  <2>4. k \in 0..k
    BY <2>1
  <2> QED
    BY <2>a, <2>b, <2>3, <2>4
<1>4. ASSUME NEW n \in Nat
      PROVE  G[n][n] = IF n = 0 THEN 1 ELSE 2 * G[n - 1][n - 1]
  <2>1. G[n][n] = IF n = 0 THEN 1 ELSE 2 * G[n][n - 1]
    BY <1>2
  <2> QED
    BY <1>3, <2>1
<1>5. Is([n \in Nat |-> G[n][n]])
  BY <1>4
<1> QED
  BY <1>5 DEF Doubled

\* Doubled, round by round; it outgrows its argument.
LEMMA DoubledFacts ==
  ASSUME NEW j \in Nat
  PROVE  /\ Doubled[0] = 1
         /\ Doubled[j + 1] = 2 * Doubled[j]
         /\ Doubled[j] \in Nat
         /\ Doubled[j] > j
<1> DEFINE S == {k \in Nat : Doubled[k] \in Nat /\ Doubled[k] > k}
<1>1. \A k \in Nat : Doubled[k] = IF k = 0 THEN 1 ELSE 2 * Doubled[k - 1]
  BY DoubledExists
<1>2. ASSUME NEW n \in Nat, \A k \in 0..(n - 1) : k \in S
      PROVE  n \in S
  BY <1>1, <1>2
<1>3. \A n \in Nat : n \in S
  <2> HIDE DEF S
  <2> QED BY <1>2, StrongInduction
<1> QED
  BY <1>1, <1>3

\* What the loop stops at: the first round with no room for another.
Stops(n, rounds) ==
  /\ ~(Doubled[rounds] * 2 < n)
  /\ \A before \in 0..rounds : before # rounds => Doubled[before] * 2 < n

\* The doubling loop stops within n rounds, and at one round only.
LEMMA LoopStops ==
  ASSUME NEW n \in Nat
  PROVE  \E rounds \in 0..n : Stops(n, rounds)
<1> DEFINE T == {j \in 0..n : ~(Doubled[j] * 2 < n)}
<1>1. n \in T
  BY DoubledFacts
<1>2. PICK j \in T : \A k \in T : j <= k
  <2>1. T \subseteq Nat /\ T # {}
    BY <1>1
  <2> HIDE DEF T
  <2> QED BY <2>1, Least
<1>3. \A k \in 0..j : k # j => k \in 0..n /\ ~(j <= k)
  OBVIOUS
<1> QED
  BY <1>2, <1>3 DEF Stops

LEMMA StopsOnce ==
  ASSUME NEW n \in Nat, NEW j \in Nat, NEW k \in Nat, Stops(n, j), Stops(n, k)
  PROVE  j = k
BY DEF Stops

\* The CHOOSE of LargestPow2Lt picks the round the loop stops at.
LEMMA Pow2IsDoubled ==
  ASSUME NEW n \in Nat, NEW j \in Nat, Stops(n, j)
  PROVE  LargestPow2Lt(n) = Doubled[j]
<1>1. LargestPow2Lt(n) = Doubled[CHOOSE rounds \in 0..n : Stops(n, rounds)]
  BY DEF LargestPow2Lt, Stops
<1>2. \A k \in 0..n : Stops(n, k) => k = j
  BY StopsOnce
<1> QED
  BY <1>1, <1>2, LoopStops

\* The split of n >= 2 leaves both parts nonempty, and the split of n > 2 is
\* twice the split of the pairs of n.
LEMMA SplitFacts ==
  ASSUME NEW n \in Nat
  PROVE  /\ LargestPow2Lt(n) \in Nat
         /\ n >= 2 => LargestPow2Lt(n) >= 1 /\ LargestPow2Lt(n) < n
         /\ n = 2 => LargestPow2Lt(n) = 1
         /\ n > 2 => LargestPow2Lt(n) = 2 * LargestPow2Lt((n + 1) \div 2)
<1>1. PICK j \in 0..n : Stops(n, j)
  BY LoopStops
<1>2. j \in Nat /\ LargestPow2Lt(n) = Doubled[j]
  BY <1>1, Pow2IsDoubled
<1>3. Doubled[j] \in Nat /\ Doubled[j] >= 1 /\ Doubled[0] = 1
  BY <1>2, DoubledFacts
<1>4. j # 0 => /\ j - 1 \in Nat /\ Doubled[j - 1] \in Nat
               /\ Doubled[j] = 2 * Doubled[j - 1]
  BY <1>2, DoubledFacts
<1>5. j # 0 => Doubled[j - 1] * 2 < n
  BY <1>1, <1>2 DEF Stops
<1>6. n >= 2 => Doubled[j] < n
  BY <1>3, <1>4, <1>5
<1>7. n = 2 => j = 0
  BY <1>2, <1>4, <1>5, DoubledFacts
<1>8. ASSUME n > 2 PROVE Doubled[j] = 2 * LargestPow2Lt((n + 1) \div 2)
  <2>1. j # 0
    BY <1>1, <1>3, <1>8 DEF Stops
  <2>2. (n + 1) \div 2 \in Nat /\ j - 1 \in Nat
    BY <2>1, <1>2
  <2>3. Stops((n + 1) \div 2, j - 1)
    <3>1. ~(Doubled[j - 1] * 2 < (n + 1) \div 2)
      BY <1>1, <1>3, <1>4, <2>1 DEF Stops
    <3>2. ASSUME NEW k \in 0..(j - 1), k # j - 1
          PROVE  Doubled[k] * 2 < (n + 1) \div 2
      <4>1. k \in Nat /\ k + 1 \in 0..j /\ k + 1 # j
        BY <3>2, <2>2, <1>2
      <4>2. Doubled[k + 1] * 2 < n /\ Doubled[k + 1] = 2 * Doubled[k]
            /\ Doubled[k] \in Nat
        BY <4>1, <1>1, DoubledFacts DEF Stops
      <4> QED
        BY <4>2
    <3> QED
      BY <3>1, <3>2 DEF Stops
  <2>4. LargestPow2Lt((n + 1) \div 2) = Doubled[j - 1]
    BY <2>2, <2>3, Pow2IsDoubled
  <2> QED
    BY <2>1, <2>4, <1>4
<1> QED
  BY <1>2, <1>3, <1>6, <1>7, <1>8
----------------------------------------------------------------------------
(***************************************************************************)
(* The generators, as the recursions of the code.                          *)
(***************************************************************************)
\* Roots(h) is the function its recursion describes.
LEMMA RootsExist ==
  ASSUME NEW h
  PROVE  Roots(h) =
           [len \in Nat |-> [lo \in Nat |->
              IF len < 2 THEN h[lo + 1]
              ELSE Node(Roots(h)[LargestPow2Lt(len)][lo],
                        Roots(h)[len - LargestPow2Lt(len)]
                                [lo + LargestPow2Lt(len)])]]
<1> DEFINE Body(g, n) ==
      [lo \in Nat |-> IF n < 2 THEN h[lo + 1]
                      ELSE Node(g[LargestPow2Lt(n)][lo],
                                g[n - LargestPow2Lt(n)][lo + LargestPow2Lt(n)])]
<1> DEFINE UpTo(g, n) == \A j \in 0..n : g[j] = Body(g, j)
<1>1. ASSUME NEW n \in Nat, NEW g, NEW f, \A j \in 0..(n - 1) : g[j] = f[j]
      PROVE  Body(g, n) = Body(f, n)
  <2>1. n >= 2 => LargestPow2Lt(n) \in 0..(n - 1)
                  /\ n - LargestPow2Lt(n) \in 0..(n - 1)
    BY SplitFacts
  <2> QED
    BY <1>1, <2>1
<1> HIDE DEF Body
<1>2. \A n \in Nat : \E g : UpTo(g, n)
  <2> DEFINE S == {n \in Nat : \E g : UpTo(g, n)}
  <2>1. ASSUME NEW n \in Nat, \A k \in 0..(n - 1) : k \in S
        PROVE  n \in S
    <3>1. PICK g : \A j \in 0..(n - 1) : g[j] = Body(g, j)
      <4>1. n # 0 => n - 1 \in 0..(n - 1)
        OBVIOUS
      <4>2. n # 0 => \E g : UpTo(g, n - 1)
        BY <4>1, <2>1
      <4>3. n = 0 => 0..(n - 1) = {}
        OBVIOUS
      <4> QED BY <4>2, <4>3
    <3> DEFINE f == [j \in 0..n |-> IF j = n THEN Body(g, n) ELSE g[j]]
    <3>2. \A j \in 0..(n - 1) : f[j] = g[j]
      OBVIOUS
    <3>3. f[n] = Body(g, n)
      OBVIOUS
    <3> HIDE DEF f
    <3>4. ASSUME NEW j \in 0..n PROVE f[j] = Body(f, j)
      <4>1. j \in Nat /\ \A i \in 0..(j - 1) : f[i] = g[i]
        BY <3>2
      <4>2. Body(f, j) = Body(g, j)
        BY <4>1, <1>1
      <4> QED BY <4>2, <3>1, <3>2, <3>3
    <3> QED BY <3>4
  <2>2. \A n \in Nat : n \in S
    <3> HIDE DEF S
    <3> QED BY <2>1, StrongInduction
  <2> QED BY <2>2
<1> DEFINE G == [n \in Nat |-> CHOOSE g : UpTo(g, n)]
<1>3. \A n \in Nat : UpTo(G[n], n)
  BY <1>2
<1> HIDE DEF G
<1>4. ASSUME NEW n \in Nat, NEW k \in 0..n
      PROVE  G[n][k] = G[k][k]
  <2>1. k \in Nat /\ UpTo(G[n], n) /\ UpTo(G[k], k)
    BY <1>3
  <2> DEFINE g == G[n]
             f == G[k]
  <2>2. ASSUME NEW j \in 0..k, \A i \in 0..(j - 1) : g[i] = f[i]
        PROVE  g[j] = f[j]
    <3>1. j \in Nat /\ j \in 0..n
      BY <2>1
    <3>2. Body(g, j) = Body(f, j)
      <4> HIDE DEF g, f
      <4> QED BY <3>1, <2>2, <1>1
    <3> QED BY <3>1, <3>2, <2>1
  <2> HIDE DEF g, f, UpTo
  <2>3. \A j \in 0..k : g[j] = f[j]
    BY <2>1, <2>2, Agreement
  <2> QED
    BY <2>1, <2>3 DEF g, f
<1> DEFINE F == [n \in Nat |-> G[n][n]]
<1>5. ASSUME NEW n \in Nat
      PROVE  F[n] = Body(F, n)
  <2>1. F[n] = Body(G[n], n)
    BY <1>3
  <2>2. \A i \in 0..(n - 1) : G[n][i] = F[i]
    BY <1>4
  <2> DEFINE g == G[n]
  <2>3. Body(g, n) = Body(F, n)
    <3> HIDE DEF g, F
    <3> QED BY <2>2, <1>1 DEF g
  <2> QED BY <2>1, <2>3
<1>6. F = [n \in Nat |-> Body(F, n)]
  BY <1>5
<1> HIDE DEF F
<1>7. Roots(h) = [n \in Nat |-> Body(Roots(h), n)]
  <2> USE DEF Body
  <2> QED BY <1>6 DEF Roots
<1> QED
  BY <1>7 DEF Body
----------------------------------------------------------------------------
\* Paths(h) and SubProofs(h) are the functions their recursions describe.
LEMMA PathsExist ==
  ASSUME NEW h
  PROVE  Paths(h) =
           [len \in Nat |-> [m \in Nat |-> [lo \in Nat |->
              IF len < 2 THEN << >>
              ELSE IF m < LargestPow2Lt(len)
                THEN Append(Paths(h)[LargestPow2Lt(len)][m][lo],
                            Roots(h)[len - LargestPow2Lt(len)]
                                    [lo + LargestPow2Lt(len)])
                ELSE Append(Paths(h)[len - LargestPow2Lt(len)]
                                    [m - LargestPow2Lt(len)]
                                    [lo + LargestPow2Lt(len)],
                            Roots(h)[LargestPow2Lt(len)][lo])]]]
<1> DEFINE Body(g, n) ==
      [m \in Nat |-> [lo \in Nat |->
         IF n < 2 THEN << >>
         ELSE IF m < LargestPow2Lt(n)
           THEN Append(g[LargestPow2Lt(n)][m][lo],
                       Roots(h)[n - LargestPow2Lt(n)][lo + LargestPow2Lt(n)])
           ELSE Append(g[n - LargestPow2Lt(n)][m - LargestPow2Lt(n)]
                                              [lo + LargestPow2Lt(n)],
                       Roots(h)[LargestPow2Lt(n)][lo])]]
<1> DEFINE UpTo(g, n) == \A j \in 0..n : g[j] = Body(g, j)
<1>1. ASSUME NEW n \in Nat, NEW g, NEW f, \A j \in 0..(n - 1) : g[j] = f[j]
      PROVE  Body(g, n) = Body(f, n)
  <2>1. n >= 2 => LargestPow2Lt(n) \in 0..(n - 1)
                  /\ n - LargestPow2Lt(n) \in 0..(n - 1)
    BY SplitFacts
  <2>2. n >= 2 => /\ g[LargestPow2Lt(n)] = f[LargestPow2Lt(n)]
                  /\ g[n - LargestPow2Lt(n)] = f[n - LargestPow2Lt(n)]
    BY <1>1, <2>1
  <2> QED
    BY <2>2
<1> HIDE DEF Body
<1>2. \A n \in Nat : \E g : UpTo(g, n)
  <2> DEFINE S == {n \in Nat : \E g : UpTo(g, n)}
  <2>1. ASSUME NEW n \in Nat, \A k \in 0..(n - 1) : k \in S
        PROVE  n \in S
    <3>1. PICK g : \A j \in 0..(n - 1) : g[j] = Body(g, j)
      <4>1. n # 0 => n - 1 \in 0..(n - 1)
        OBVIOUS
      <4>2. n # 0 => \E g : UpTo(g, n - 1)
        BY <4>1, <2>1
      <4>3. n = 0 => 0..(n - 1) = {}
        OBVIOUS
      <4> QED BY <4>2, <4>3
    <3> DEFINE f == [j \in 0..n |-> IF j = n THEN Body(g, n) ELSE g[j]]
    <3>2. \A j \in 0..(n - 1) : f[j] = g[j]
      OBVIOUS
    <3>3. f[n] = Body(g, n)
      OBVIOUS
    <3> HIDE DEF f
    <3>4. ASSUME NEW j \in 0..n PROVE f[j] = Body(f, j)
      <4>1. j \in Nat /\ \A i \in 0..(j - 1) : f[i] = g[i]
        BY <3>2
      <4>2. Body(f, j) = Body(g, j)
        BY <4>1, <1>1
      <4> QED BY <4>2, <3>1, <3>2, <3>3
    <3> QED BY <3>4
  <2>2. \A n \in Nat : n \in S
    <3> HIDE DEF S
    <3> QED BY <2>1, StrongInduction
  <2> QED BY <2>2
<1> DEFINE G == [n \in Nat |-> CHOOSE g : UpTo(g, n)]
<1>3. \A n \in Nat : UpTo(G[n], n)
  BY <1>2
<1> HIDE DEF G
<1>4. ASSUME NEW n \in Nat, NEW k \in 0..n
      PROVE  G[n][k] = G[k][k]
  <2>1. k \in Nat /\ UpTo(G[n], n) /\ UpTo(G[k], k)
    BY <1>3
  <2> DEFINE g == G[n]
             f == G[k]
  <2>2. ASSUME NEW j \in 0..k, \A i \in 0..(j - 1) : g[i] = f[i]
        PROVE  g[j] = f[j]
    <3>1. j \in Nat /\ j \in 0..n
      BY <2>1
    <3>2. Body(g, j) = Body(f, j)
      <4> HIDE DEF g, f
      <4> QED BY <3>1, <2>2, <1>1
    <3> QED BY <3>1, <3>2, <2>1
  <2> HIDE DEF g, f, UpTo
  <2>3. \A j \in 0..k : g[j] = f[j]
    BY <2>1, <2>2, Agreement
  <2> QED
    BY <2>1, <2>3 DEF g, f
<1> DEFINE F == [n \in Nat |-> G[n][n]]
<1>5. ASSUME NEW n \in Nat
      PROVE  F[n] = Body(F, n)
  <2>1. F[n] = Body(G[n], n)
    BY <1>3
  <2>2. \A i \in 0..(n - 1) : G[n][i] = F[i]
    BY <1>4
  <2> DEFINE g == G[n]
  <2>3. Body(g, n) = Body(F, n)
    <3> HIDE DEF g, F
    <3> QED BY <2>2, <1>1 DEF g
  <2> QED BY <2>1, <2>3
<1>6. F = [n \in Nat |-> Body(F, n)]
  BY <1>5
<1> HIDE DEF F
<1>7. Paths(h) = [n \in Nat |-> Body(Paths(h), n)]
  <2> USE DEF Body
  <2> QED BY <1>6 DEF Paths
<1> QED
  BY <1>7 DEF Body

LEMMA SubProofsExist ==
  ASSUME NEW h
  PROVE  SubProofs(h) =
           [len \in Nat |-> [m \in Nat |-> [b \in BOOLEAN |-> [lo \in Nat |->
              IF m = len \/ len < 2
                THEN IF b THEN << >> ELSE <<Roots(h)[len][lo]>>
              ELSE IF m <= LargestPow2Lt(len)
                THEN Append(SubProofs(h)[LargestPow2Lt(len)][m][b][lo],
                            Roots(h)[len - LargestPow2Lt(len)]
                                    [lo + LargestPow2Lt(len)])
                ELSE Append(SubProofs(h)[len - LargestPow2Lt(len)]
                                        [m - LargestPow2Lt(len)][FALSE]
                                        [lo + LargestPow2Lt(len)],
                            Roots(h)[LargestPow2Lt(len)][lo])]]]]
<1> DEFINE Body(g, n) ==
      [m \in Nat |-> [b \in BOOLEAN |-> [lo \in Nat |->
         IF m = n \/ n < 2
           THEN IF b THEN << >> ELSE <<Roots(h)[n][lo]>>
         ELSE IF m <= LargestPow2Lt(n)
           THEN Append(g[LargestPow2Lt(n)][m][b][lo],
                       Roots(h)[n - LargestPow2Lt(n)][lo + LargestPow2Lt(n)])
           ELSE Append(g[n - LargestPow2Lt(n)][m - LargestPow2Lt(n)][FALSE]
                                              [lo + LargestPow2Lt(n)],
                       Roots(h)[LargestPow2Lt(n)][lo])]]]
<1> DEFINE UpTo(g, n) == \A j \in 0..n : g[j] = Body(g, j)
<1>1. ASSUME NEW n \in Nat, NEW g, NEW f, \A j \in 0..(n - 1) : g[j] = f[j]
      PROVE  Body(g, n) = Body(f, n)
  <2>1. n >= 2 => LargestPow2Lt(n) \in 0..(n - 1)
                  /\ n - LargestPow2Lt(n) \in 0..(n - 1)
    BY SplitFacts
  <2>2. n >= 2 => /\ g[LargestPow2Lt(n)] = f[LargestPow2Lt(n)]
                  /\ g[n - LargestPow2Lt(n)] = f[n - LargestPow2Lt(n)]
    BY <1>1, <2>1
  <2> DEFINE At(x, m, b, lo) ==
        IF m = n \/ n < 2
          THEN IF b THEN << >> ELSE <<Roots(h)[n][lo]>>
        ELSE IF m <= LargestPow2Lt(n)
          THEN Append(x[LargestPow2Lt(n)][m][b][lo],
                      Roots(h)[n - LargestPow2Lt(n)][lo + LargestPow2Lt(n)])
          ELSE Append(x[n - LargestPow2Lt(n)][m - LargestPow2Lt(n)][FALSE]
                                             [lo + LargestPow2Lt(n)],
                      Roots(h)[LargestPow2Lt(n)][lo])
  <2>3. ASSUME NEW m \in Nat, NEW b \in BOOLEAN, NEW lo \in Nat
        PROVE  At(g, m, b, lo) = At(f, m, b, lo)
    <3>1. CASE m = n \/ n < 2
      <4>1. CASE b = TRUE
        BY <3>1, <4>1
      <4>2. CASE b = FALSE
        BY <3>1, <4>2
      <4> QED BY <4>1, <4>2
    <3>2. CASE ~(m = n \/ n < 2)
      <4>1. /\ g[LargestPow2Lt(n)] = f[LargestPow2Lt(n)]
            /\ g[n - LargestPow2Lt(n)] = f[n - LargestPow2Lt(n)]
        BY <3>2, <2>2
      <4>2. CASE m <= LargestPow2Lt(n)
        BY <3>2, <4>1, <4>2, Zenon
      <4>3. CASE ~(m <= LargestPow2Lt(n))
        BY <3>2, <4>1, <4>3, Zenon
      <4> QED BY <4>2, <4>3
    <3> QED
      BY <3>1, <3>2
  <2> HIDE DEF At
  <2>4. Body(g, n) = [m \in Nat |-> [b \in BOOLEAN |-> [lo \in Nat |-> At(g, m, b, lo)]]]
    BY DEF At, Body
  <2>5. Body(f, n) = [m \in Nat |-> [b \in BOOLEAN |-> [lo \in Nat |-> At(f, m, b, lo)]]]
    BY DEF At, Body
  <2> HIDE DEF Body
  <2> QED
    BY <2>3, <2>4, <2>5
<1> HIDE DEF Body
<1>2. \A n \in Nat : \E g : UpTo(g, n)
  <2> DEFINE S == {n \in Nat : \E g : UpTo(g, n)}
  <2>1. ASSUME NEW n \in Nat, \A k \in 0..(n - 1) : k \in S
        PROVE  n \in S
    <3>1. PICK g : \A j \in 0..(n - 1) : g[j] = Body(g, j)
      <4>1. n # 0 => n - 1 \in 0..(n - 1)
        OBVIOUS
      <4>2. n # 0 => \E g : UpTo(g, n - 1)
        BY <4>1, <2>1
      <4>3. n = 0 => 0..(n - 1) = {}
        OBVIOUS
      <4> QED BY <4>2, <4>3
    <3> DEFINE f == [j \in 0..n |-> IF j = n THEN Body(g, n) ELSE g[j]]
    <3>2. \A j \in 0..(n - 1) : f[j] = g[j]
      OBVIOUS
    <3>3. f[n] = Body(g, n)
      OBVIOUS
    <3> HIDE DEF f
    <3>4. ASSUME NEW j \in 0..n PROVE f[j] = Body(f, j)
      <4>1. j \in Nat /\ \A i \in 0..(j - 1) : f[i] = g[i]
        BY <3>2
      <4>2. Body(f, j) = Body(g, j)
        BY <4>1, <1>1
      <4> QED BY <4>2, <3>1, <3>2, <3>3
    <3> QED BY <3>4
  <2>2. \A n \in Nat : n \in S
    <3> HIDE DEF S
    <3> QED BY <2>1, StrongInduction
  <2> QED BY <2>2
<1> DEFINE G == [n \in Nat |-> CHOOSE g : UpTo(g, n)]
<1>3. \A n \in Nat : UpTo(G[n], n)
  BY <1>2
<1> HIDE DEF G
<1>4. ASSUME NEW n \in Nat, NEW k \in 0..n
      PROVE  G[n][k] = G[k][k]
  <2>1. k \in Nat /\ UpTo(G[n], n) /\ UpTo(G[k], k)
    BY <1>3
  <2> DEFINE g == G[n]
             f == G[k]
  <2>2. ASSUME NEW j \in 0..k, \A i \in 0..(j - 1) : g[i] = f[i]
        PROVE  g[j] = f[j]
    <3>1. j \in Nat /\ j \in 0..n
      BY <2>1
    <3>2. Body(g, j) = Body(f, j)
      <4> HIDE DEF g, f
      <4> QED BY <3>1, <2>2, <1>1
    <3> QED BY <3>1, <3>2, <2>1
  <2> HIDE DEF g, f, UpTo
  <2>3. \A j \in 0..k : g[j] = f[j]
    BY <2>1, <2>2, Agreement
  <2> QED
    BY <2>1, <2>3 DEF g, f
<1> DEFINE F == [n \in Nat |-> G[n][n]]
<1>5. ASSUME NEW n \in Nat
      PROVE  F[n] = Body(F, n)
  <2>1. F[n] = Body(G[n], n)
    BY <1>3
  <2>2. \A i \in 0..(n - 1) : G[n][i] = F[i]
    BY <1>4
  <2> DEFINE g == G[n]
  <2>3. Body(g, n) = Body(F, n)
    <3> HIDE DEF g, F
    <3> QED BY <2>2, <1>1 DEF g
  <2> QED BY <2>1, <2>3
<1>6. F = [n \in Nat |-> Body(F, n)]
  BY <1>5
<1> HIDE DEF F
<1>7. SubProofs(h) = [n \in Nat |-> Body(SubProofs(h), n)]
  <2> USE DEF Body
  <2> QED BY <1>6 DEF SubProofs
<1> QED
  BY <1>7 DEF Body
----------------------------------------------------------------------------
\* What the generators say of the slice of h that has len hashes and lo
\* before it.
Root(h, lo, len) == Roots(h)[len][lo]
Path(h, m, lo, len) == Paths(h)[len][m][lo]
Proof(h, m, b, lo, len) == SubProofs(h)[len][m][b][lo]

Left(len) == LargestPow2Lt(len)
Right(len) == len - LargestPow2Lt(len)

\* The two halves of the split; one level up they are half as long.
LEMMA HalvesFacts ==
  ASSUME NEW len \in Nat, len >= 2
  PROVE  /\ Left(len) \in Nat /\ Left(len) >= 1 /\ Left(len) < len
         /\ Right(len) \in Nat /\ Right(len) >= 1 /\ Right(len) < len
         /\ Left(len) + Right(len) = len
         /\ len = 2 => Left(len) = 1
         /\ len > 2 => Left(len) = 2 * Left((len + 1) \div 2)
BY SplitFacts DEF Left, Right

\* One step of the recursion of _log_mth, then of _log_inclusion_path.
LEMMA RootStep ==
  ASSUME NEW h, NEW lo \in Nat, NEW len \in Nat, len >= 1
  PROVE  /\ len = 1 => Root(h, lo, len) = h[lo + 1]
         /\ len >= 2 => Root(h, lo, len) =
              Node(Root(h, lo, Left(len)), Root(h, lo + Left(len), Right(len)))
BY RootsExist DEF Root, Left, Right

LEMMA PathStep ==
  ASSUME NEW h, NEW m \in Nat, NEW lo \in Nat, NEW len \in Nat, len >= 1
  PROVE  /\ len = 1 => Path(h, m, lo, len) = << >>
         /\ len >= 2 /\ m < Left(len) =>
              Path(h, m, lo, len) =
                Append(Path(h, m, lo, Left(len)),
                       Root(h, lo + Left(len), Right(len)))
         /\ len >= 2 /\ ~(m < Left(len)) =>
              Path(h, m, lo, len) =
                Append(Path(h, m - Left(len), lo + Left(len), Right(len)),
                       Root(h, lo, Left(len)))
<1> DEFINE Deep(k, x, y) ==
      IF x < LargestPow2Lt(k)
        THEN Append(Paths(h)[LargestPow2Lt(k)][x][y],
                    Roots(h)[k - LargestPow2Lt(k)][y + LargestPow2Lt(k)])
        ELSE Append(Paths(h)[k - LargestPow2Lt(k)][x - LargestPow2Lt(k)]
                                                  [y + LargestPow2Lt(k)],
                    Roots(h)[LargestPow2Lt(k)][y])
<1>1. Paths(h) = [k \in Nat |-> [x \in Nat |-> [y \in Nat |->
                    IF k < 2 THEN << >> ELSE Deep(k, x, y)]]]
  BY PathsExist, Zenon
<1> HIDE DEF Deep
<1>2. /\ len = 1 => Paths(h)[len][m][lo] = << >>
      /\ len >= 2 => Paths(h)[len][m][lo] = Deep(len, m, lo)
  BY <1>1
<1>3. m < Left(len) => Deep(len, m, lo) =
        Append(Path(h, m, lo, Left(len)), Root(h, lo + Left(len), Right(len)))
  BY Zenon DEF Deep, Root, Path, Left, Right
<1>4. ~(m < Left(len)) => Deep(len, m, lo) =
        Append(Path(h, m - Left(len), lo + Left(len), Right(len)),
               Root(h, lo, Left(len)))
  BY Zenon DEF Deep, Root, Path, Left, Right
<1> QED
  BY <1>2, <1>3, <1>4, Zenon DEF Path

LEMMA PathLeaf ==
  ASSUME NEW h, NEW m \in Nat, NEW lo \in Nat
  PROVE  Path(h, m, lo, 1) = << >>
<1>1. 1 \in Nat /\ 1 >= 1
  OBVIOUS
<1> QED
  BY <1>1, PathStep, Zenon

LEMMA PathLeft ==
  ASSUME NEW h, NEW m \in Nat, NEW lo \in Nat, NEW len \in Nat, len >= 2,
         m < Left(len)
  PROVE  Path(h, m, lo, len) =
           Append(Path(h, m, lo, Left(len)), Root(h, lo + Left(len), Right(len)))
<1>1. len >= 1
  OBVIOUS
<1> QED
  BY <1>1, PathStep, Zenon

LEMMA PathRight ==
  ASSUME NEW h, NEW m \in Nat, NEW lo \in Nat, NEW len \in Nat, len >= 2,
         ~(m < Left(len))
  PROVE  Path(h, m, lo, len) =
           Append(Path(h, m - Left(len), lo + Left(len), Right(len)),
                  Root(h, lo, Left(len)))
<1>1. len >= 1
  OBVIOUS
<1> QED
  BY <1>1, PathStep, Zenon

\* Names for the values of b, which the provers need not look into.
Flag == BOOLEAN
No == FALSE

LEMMA NoIsFlag == No \in Flag
BY DEF No, Flag

LEMMA ProofStep ==
  ASSUME NEW h, NEW m \in Nat, NEW b \in Flag, NEW lo \in Nat,
         NEW len \in Nat, len >= 1
  PROVE  /\ (m = len \/ len = 1) /\ b => Proof(h, m, b, lo, len) = << >>
         /\ (m = len \/ len = 1) /\ ~b =>
              Proof(h, m, b, lo, len) = <<Root(h, lo, len)>>
         /\ len >= 2 /\ m # len /\ m <= Left(len) =>
              Proof(h, m, b, lo, len) =
                Append(Proof(h, m, b, lo, Left(len)),
                       Root(h, lo + Left(len), Right(len)))
         /\ len >= 2 /\ m # len /\ ~(m <= Left(len)) =>
              Proof(h, m, b, lo, len) =
                Append(Proof(h, m - Left(len), No, lo + Left(len), Right(len)),
                       Root(h, lo, Left(len)))
<1> DEFINE Last(k, c, y) == IF c THEN << >> ELSE <<Roots(h)[k][y]>>
           Deep(k, x, c, y) ==
      IF x <= LargestPow2Lt(k)
        THEN Append(SubProofs(h)[LargestPow2Lt(k)][x][c][y],
                    Roots(h)[k - LargestPow2Lt(k)][y + LargestPow2Lt(k)])
        ELSE Append(SubProofs(h)[k - LargestPow2Lt(k)][x - LargestPow2Lt(k)][FALSE]
                                [y + LargestPow2Lt(k)],
                    Roots(h)[LargestPow2Lt(k)][y])
<1>1. SubProofs(h) = [k \in Nat |-> [x \in Nat |-> [c \in BOOLEAN |-> [y \in Nat |->
                        IF x = k \/ k < 2 THEN Last(k, c, y) ELSE Deep(k, x, c, y)]]]]
  BY SubProofsExist, Zenon
<1> HIDE DEF Deep, Last
<1>2. /\ m = len \/ len = 1 => SubProofs(h)[len][m][b][lo] = Last(len, b, lo)
      /\ len >= 2 /\ m # len => SubProofs(h)[len][m][b][lo] = Deep(len, m, b, lo)
  BY <1>1 DEF Flag
<1>3. m <= Left(len) => Deep(len, m, b, lo) =
        Append(Proof(h, m, b, lo, Left(len)), Root(h, lo + Left(len), Right(len)))
  BY Zenon DEF Deep, Root, Proof, Left, Right
<1>4. ~(m <= Left(len)) => Deep(len, m, b, lo) =
        Append(Proof(h, m - Left(len), No, lo + Left(len), Right(len)),
               Root(h, lo, Left(len)))
  BY Zenon DEF Deep, Root, Proof, Left, Right, No
<1>5. /\ b => Last(len, b, lo) = << >>
      /\ ~b => Last(len, b, lo) = <<Root(h, lo, len)>>
  BY Zenon DEF Last, Root
<1> QED
  BY <1>2, <1>3, <1>4, <1>5, Zenon DEF Proof
----------------------------------------------------------------------------
\* One level up: the hashes of the nodes above the first n elements of h.  A
\* last element without a neighbour moves up as it is.
Above(n) == (n + 1) \div 2
PairUp(h, n) ==
  [j \in 1..Above(n) |->
     IF 2 * j <= n THEN Node(h[2 * j - 1], h[2 * j]) ELSE h[2 * j - 1]]

\* A slice that starts at an even position and whose length is even, unless
\* it ends where h does: its pairs are pairs of h.
Paired(n, lo, len) ==
  /\ len >= 1
  /\ 2 * lo + len <= n
  /\ len % 2 = 0 \/ 2 * lo + len = n

LEMMA AboveFacts ==
  ASSUME NEW n \in Nat
  PROVE  /\ Above(n) \in Nat
         /\ n >= 1 => Above(n) >= 1
         /\ n >= 2 => Above(n) < n
         /\ n >= 3 => Above(n) >= 2
BY DEF Above

\* The halves of a paired slice of more than two hashes are paired, and lie
\* above each other as the halves of the level above do.
LEMMA PairedHalves ==
  ASSUME NEW n \in Nat, NEW lo \in Nat, NEW len \in Nat, len > 2,
         Paired(n, lo, len)
  PROVE  /\ Left(Above(len)) \in Nat /\ Left(len) = 2 * Left(Above(len))
         /\ Above(Left(len)) = Left(Above(len))
         /\ Above(Right(len)) = Right(Above(len))
         /\ 2 * lo + Left(len) = 2 * (lo + Left(Above(len)))
         /\ lo + Left(Above(len)) \in Nat
         /\ Paired(n, lo, Left(len))
         /\ Paired(n, lo + Left(Above(len)), Right(len))
<1>1. Above(len) \in Nat /\ Above(len) >= 2
  BY AboveFacts
<1>2. Left(Above(len)) \in Nat /\ Right(Above(len)) = Above(len) - Left(Above(len))
  BY <1>1, HalvesFacts DEF Right, Left
<1>3. Left(len) = 2 * Left(Above(len)) /\ Left(len) >= 1 /\ Left(len) < len
      /\ Right(len) = len - Left(len)
  BY HalvesFacts DEF Above, Right, Left
<1>4. Above(Left(len)) = Left(Above(len))
  BY <1>2, <1>3 DEF Above
<1>5. Above(Right(len)) = Right(Above(len))
  BY <1>2, <1>3 DEF Above
<1>6. 2 * lo + Left(len) = 2 * (lo + Left(Above(len))) /\ lo + Left(Above(len)) \in Nat
  BY <1>2, <1>3
<1>7. Paired(n, lo, Left(len))
  BY <1>2, <1>3 DEF Paired
<1>8. Paired(n, lo + Left(Above(len)), Right(len))
  BY <1>2, <1>3 DEF Paired
<1> QED
  BY <1>2, <1>3, <1>4, <1>5, <1>6, <1>7, <1>8

\* The root of a paired slice is the root of its pairs.
LEMMA RootPairUp ==
  ASSUME NEW h, NEW n \in Nat, NEW lo \in Nat, NEW len \in Nat,
         Paired(n, lo, len)
  PROVE  Root(h, 2 * lo, len) = Root(PairUp(h, n), lo, Above(len))
<1> DEFINE S == {k \in Nat : \A l \in Nat : Paired(n, l, k) =>
                   Root(h, 2 * l, k) = Root(PairUp(h, n), l, Above(k))}
<1>1. ASSUME NEW k \in Nat, \A j \in 0..(k - 1) : j \in S
      PROVE  k \in S
  <2> SUFFICES ASSUME NEW l \in Nat, Paired(n, l, k)
               PROVE  Root(h, 2 * l, k) = Root(PairUp(h, n), l, Above(k))
    OBVIOUS
  <2> HIDE DEF S
  <2>1. CASE k = 1
    <3>1. 2 * l + 1 = n /\ l + 1 \in 1..Above(n) /\ Above(k) = 1
      BY <2>1 DEF Paired, Above
    <3>2. Root(h, 2 * l, k) = h[2 * l + 1]
      BY <2>1, RootStep
    <3>3. Root(PairUp(h, n), l, Above(k)) = PairUp(h, n)[l + 1]
      BY <3>1, RootStep
    <3>4. PairUp(h, n)[l + 1] = h[2 * l + 1]
      BY <3>1 DEF PairUp
    <3> QED BY <3>2, <3>3, <3>4
  <2>2. CASE k = 2
    <3>1. 2 * l + 2 <= n /\ l + 1 \in 1..Above(n) /\ Above(k) = 1
          /\ Left(k) = 1 /\ Right(k) = 1
      BY <2>2, HalvesFacts DEF Paired, Above
    <3>2. Root(h, 2 * l, k) = Node(h[2 * l + 1], h[2 * l + 2])
      <4>1. Root(h, 2 * l, k) = Node(Root(h, 2 * l, 1), Root(h, 2 * l + 1, 1))
        <5>1. Root(h, 2 * l, k) =
                Node(Root(h, 2 * l, Left(k)), Root(h, 2 * l + Left(k), Right(k)))
          <6>1. 2 * l \in Nat /\ k >= 2
            BY <2>2
          <6> QED BY <6>1, RootStep
        <5> QED BY <5>1, <3>1, Zenon
      <4>2. Root(h, 2 * l, 1) = h[2 * l + 1] /\ Root(h, 2 * l + 1, 1) = h[2 * l + 1 + 1]
        BY RootStep
      <4>3. 2 * l + 1 + 1 = 2 * l + 2
        OBVIOUS
      <4> QED BY <4>1, <4>2, <4>3
    <3>3. Root(PairUp(h, n), l, Above(k)) = PairUp(h, n)[l + 1]
      BY <3>1, RootStep
    <3>4. PairUp(h, n)[l + 1] = Node(h[2 * l + 1], h[2 * l + 2])
      BY <3>1 DEF PairUp
    <3> QED BY <3>2, <3>3, <3>4
  <2>3. CASE k > 2
    <3> DEFINE a == Above(k)
               v == l + Left(Above(k))
    <3>1. a \in Nat /\ a >= 2 /\ v \in Nat
      BY <2>3, AboveFacts, PairedHalves
    <3>2. Left(k) \in 0..(k - 1) /\ Right(k) \in 0..(k - 1)
      BY <2>3, HalvesFacts
    <3>3. Root(h, 2 * l, k) =
            Node(Root(h, 2 * l, Left(k)), Root(h, 2 * l + Left(k), Right(k)))
      BY <2>3, RootStep
    <3>4. Root(PairUp(h, n), l, a) =
            Node(Root(PairUp(h, n), l, Left(a)), Root(PairUp(h, n), v, Right(a)))
      BY <3>1, RootStep
    <3>5. Root(h, 2 * l, Left(k)) = Root(PairUp(h, n), l, Left(a))
      <4>1. Left(k) \in S /\ Paired(n, l, Left(k)) /\ Above(Left(k)) = Left(a)
        BY <3>2, <1>1, <2>3, PairedHalves
      <4> QED BY <4>1 DEF S
    <3>6. Root(h, 2 * l + Left(k), Right(k)) = Root(PairUp(h, n), v, Right(a))
      <4>1. Right(k) \in S /\ Paired(n, v, Right(k)) /\ Above(Right(k)) = Right(a)
            /\ 2 * l + Left(k) = 2 * v
        BY <3>2, <1>1, <2>3, PairedHalves
      <4> QED BY <4>1, <3>1 DEF S
    <3> QED BY <3>3, <3>4, <3>5, <3>6
  <2> QED
    BY <2>1, <2>2, <2>3 DEF Paired
<1>2. \A k \in Nat : k \in S
  <2> HIDE DEF S
  <2> QED BY <1>1, StrongInduction
<1> QED
  BY <1>2
----------------------------------------------------------------------------
\* The nodes a path may name.
Nodes(h) == {Root(h, lo, len) : lo \in Nat, len \in Nat}

\* Nodes over h: leaves, and what paths are made of.
LEMMA LeafIsNode ==
  ASSUME NEW h, NEW j \in Nat, j >= 1
  PROVE  h[j] \in Nodes(h)
<1>1. j - 1 \in Nat /\ (j - 1) + 1 = j
  OBVIOUS
<1>2. Root(h, j - 1, 1) = h[j]
  BY <1>1, RootStep
<1>3. Root(h, j - 1, 1) \in Nodes(h)
  BY <1>1 DEF Nodes
<1> QED
  BY <1>2, <1>3

LEMMA PathIsSeq ==
  ASSUME NEW h, NEW m \in Nat, NEW lo \in Nat, NEW len \in Nat, len >= 1
  PROVE  Path(h, m, lo, len) \in Seq(Nodes(h))
<1> DEFINE S == {k \in Nat : k >= 1 => \A x, y \in Nat :
                   Path(h, x, y, k) \in Seq(Nodes(h))}
<1>1. ASSUME NEW k \in Nat, \A j \in 0..(k - 1) : j \in S
      PROVE  k \in S
  <2> SUFFICES ASSUME k >= 1, NEW x \in Nat, NEW y \in Nat
               PROVE  Path(h, x, y, k) \in Seq(Nodes(h))
    OBVIOUS
  <2>1. CASE k = 1
    <3>1. Path(h, x, y, k) = << >>
      BY <2>1, PathLeaf
    <3> QED BY <3>1
  <2>2. CASE k >= 2
    <3>1. /\ Left(k) \in Nat /\ Left(k) >= 1 /\ Left(k) \in S
          /\ Right(k) \in Nat /\ Right(k) >= 1 /\ Right(k) \in S
          /\ y + Left(k) \in Nat
      <4> HIDE DEF S
      <4> QED BY <2>2, <1>1, HalvesFacts
    <3>2. Root(h, y, Left(k)) \in Nodes(h) /\ Root(h, y + Left(k), Right(k)) \in Nodes(h)
      BY <3>1 DEF Nodes
    <3>3. CASE x < Left(k)
      <4>1. Path(h, x, y, Left(k)) \in Seq(Nodes(h))
        BY <3>1
      <4>2. Path(h, x, y, k) = Append(Path(h, x, y, Left(k)),
                                      Root(h, y + Left(k), Right(k)))
        BY <2>2, <3>3, PathLeft
      <4> HIDE DEF S
      <4> QED BY <3>2, <4>1, <4>2
    <3>4. CASE ~(x < Left(k))
      <4>0. x - Left(k) \in Nat
        <5> HIDE DEF S
        <5> QED BY <3>1, <3>4
      <4>1. Path(h, x - Left(k), y + Left(k), Right(k)) \in Seq(Nodes(h))
        BY <3>1, <4>0
      <4>2. Path(h, x, y, k) = Append(Path(h, x - Left(k), y + Left(k), Right(k)),
                                      Root(h, y, Left(k)))
        BY <2>2, <3>4, PathRight
      <4> HIDE DEF S
      <4> QED BY <3>2, <4>1, <4>2
    <3> QED BY <3>3, <3>4
  <2> QED BY <2>1, <2>2
<1>2. \A k \in Nat : k \in S
  <2> HIDE DEF S
  <2> QED BY <1>1, StrongInduction
<1> QED
  BY <1>2

\* The neighbour of position j among the first n elements of h, if it has one.
Beside(h, n, j) ==
  IF j % 2 = 1 THEN <<h[j]>> ELSE IF j + 2 <= n THEN <<h[j + 2]>> ELSE << >>

\* What a level adds to a path is made of nodes too.
LEMMA BesideIsSeq ==
  ASSUME NEW h, NEW n \in Nat, NEW j \in Nat
  PROVE  Beside(h, n, j) \in Seq(Nodes(h))
<1>1. j % 2 = 1 => j >= 1 /\ h[j] \in Nodes(h)
  BY LeafIsNode
<1>2. h[j + 2] \in Nodes(h)
  BY LeafIsNode
<1> QED
  BY <1>1, <1>2 DEF Beside

LEMMA ConcatAppend ==
  ASSUME NEW A, NEW B, NEW s \in Seq(A), NEW t \in Seq(B), NEW e \in B
  PROVE  s \o Append(t, e) = Append(s \o t, e)
OBVIOUS

LEMMA PathTwo ==
  ASSUME NEW h, NEW m \in {0, 1}, NEW lo \in Nat
  PROVE  Path(h, m, lo, 2) = IF m = 0 THEN <<h[lo + 2]>> ELSE <<h[lo + 1]>>
<1>1. Left(2) = 1 /\ Right(2) = 1
  BY HalvesFacts DEF Right, Left
<1>2. Root(h, lo + 1, 1) = h[lo + 2] /\ Root(h, lo, 1) = h[lo + 1]
  <2>1. lo + 1 \in Nat /\ lo + 1 + 1 = lo + 2
    OBVIOUS
  <2> QED BY <2>1, RootStep
<1>3. CASE m = 0
  <2>1. Path(h, 0, lo, 2) = Append(Path(h, 0, lo, 1), Root(h, lo + 1, 1))
    BY <1>1, PathLeft
  <2>2. Path(h, 0, lo, 1) = << >>
    BY PathLeaf
  <2>3. Path(h, 0, lo, 2) = Append(<< >>, h[lo + 2])
    BY <1>2, <2>1, <2>2, Zenon
  <2> QED BY <1>3, <2>3
<1>4. CASE m = 1
  <2>1. Path(h, 1, lo, 2) = Append(Path(h, 0, lo + 1, 1), Root(h, lo, 1))
    <3>1. 1 - Left(2) = 0
      BY <1>1
    <3>2. Path(h, 1, lo, 2) =
            Append(Path(h, 1 - Left(2), lo + Left(2), Right(2)), Root(h, lo, Left(2)))
      BY <1>1, PathRight
    <3> QED BY <3>1, <3>2, <1>1, Zenon
  <2>2. Path(h, 0, lo + 1, 1) = << >>
    BY PathLeaf
  <2>3. Path(h, 1, lo, 2) = Append(<< >>, h[lo + 1])
    BY <1>2, <2>1, <2>2, Zenon
  <2> QED BY <1>4, <2>3
<1> QED
  BY <1>3, <1>4

\* The path in a paired slice: the neighbour, then the path one level up.
PairedPath(h, n, m, lo, len) ==
  Beside(h, n, 2 * lo + m) \o Path(PairUp(h, n), m \div 2, lo, Above(len))

\* ... when the slice is a leaf or a pair,
LEMMA SmallPathPairUp ==
  ASSUME NEW h, NEW n \in Nat, NEW m \in Nat, NEW lo \in Nat, NEW len \in {1, 2},
         Paired(n, lo, len), m < len
  PROVE  Path(h, m, 2 * lo, len) = PairedPath(h, n, m, lo, len)
<1>1. m \in {0, 1} /\ m \div 2 = 0 /\ Above(len) = 1 /\ 2 * lo \in Nat
      /\ 2 * lo + m \in Nat
  BY DEF Above
<1>2. Path(PairUp(h, n), m \div 2, lo, Above(len)) = << >>
  BY <1>1, PathLeaf
<1>3. Beside(h, n, 2 * lo + m) \o << >> = Beside(h, n, 2 * lo + m)
  BY <1>1, BesideIsSeq, ConcatEmptySeq
<1>4. Path(h, m, 2 * lo, len) = Beside(h, n, 2 * lo + m)
  <2>1. CASE len = 1
    <3>1. Path(h, m, 2 * lo, 1) = << >>
      BY <1>1, PathLeaf
    <3>2. Beside(h, n, 2 * lo + m) = << >>
      BY <2>1 DEF Beside, Paired
    <3> QED BY <2>1, <3>1, <3>2
  <2>2. CASE len = 2
    <3>1. Path(h, m, 2 * lo, 2) =
            IF m = 0 THEN <<h[2 * lo + 2]>> ELSE <<h[2 * lo + 1]>>
      BY <1>1, PathTwo
    <3>2. CASE m = 0
      BY <2>2, <3>1, <3>2 DEF Beside, Paired
    <3>3. CASE m = 1
      BY <2>2, <3>1, <3>3 DEF Beside
    <3> QED BY <1>1, <3>2, <3>3
  <2> QED BY <2>1, <2>2
<1> QED
  BY <1>2, <1>3, <1>4, Zenon DEF PairedPath

\* ... when it is longer and the leaf is in its left half,
LEMMA LeftPathPairUp ==
  ASSUME NEW h, NEW n \in Nat, NEW m \in Nat, NEW lo \in Nat, NEW len \in Nat,
         Paired(n, lo, len), len > 2, m < Left(len),
         Path(h, m, 2 * lo, Left(len)) = PairedPath(h, n, m, lo, Left(len))
  PROVE  Path(h, m, 2 * lo, len) = PairedPath(h, n, m, lo, len)
<1> DEFINE a == Above(len)
           v == lo + Left(Above(len))
           g == PairUp(h, n)
           b == Beside(h, n, 2 * lo + m)
           t == Path(g, m \div 2, lo, Left(a))
           e == Root(g, v, Right(a))
<1>1. /\ a \in Nat /\ a >= 2 /\ v \in Nat /\ len >= 2 /\ 2 * lo + m \in Nat
      /\ 2 * lo \in Nat /\ m \div 2 \in Nat
      /\ Left(len) = 2 * Left(a) /\ 2 * lo + Left(len) = 2 * v
      /\ Above(Left(len)) = Left(a) /\ Above(Right(len)) = Right(a)
      /\ Paired(n, v, Right(len))
  BY AboveFacts, PairedHalves
<1>2. /\ Left(a) \in Nat /\ Left(a) >= 1 /\ Right(a) \in Nat /\ Right(a) >= 1
      /\ Right(len) \in Nat /\ m \div 2 < Left(a)
  BY <1>1, HalvesFacts
<1>3. Root(h, 2 * lo + Left(len), Right(len)) = e
  BY <1>1, <1>2, RootPairUp
<1>4. b \in Seq(Nodes(h)) /\ t \in Seq(Nodes(g)) /\ e \in Nodes(g)
  <2>1. b \in Seq(Nodes(h))
    BY <1>1, BesideIsSeq
  <2>2. t \in Seq(Nodes(g))
    BY <1>1, <1>2, PathIsSeq
  <2>3. e \in Nodes(g)
    BY <1>1, <1>2 DEF Nodes
  <2> QED BY <2>1, <2>2, <2>3
<1>5. Path(h, m, 2 * lo, len) =
        Append(Path(h, m, 2 * lo, Left(len)), Root(h, 2 * lo + Left(len), Right(len)))
  BY <1>1, PathLeft
<1>6. Path(g, m \div 2, lo, a) = Append(t, e)
  <2>1. v = lo + Left(a)
    OBVIOUS
  <2> HIDE DEF g, a, v
  <2>2. Path(g, m \div 2, lo, a) =
          Append(Path(g, m \div 2, lo, Left(a)), Root(g, lo + Left(a), Right(a)))
    <3>1. m \div 2 \in Nat /\ a \in Nat /\ a >= 2 /\ m \div 2 < Left(a)
      BY <1>1, <1>2
    <3> HIDE DEF b, t, e
    <3> QED BY <3>1, PathLeft
  <2> QED BY <2>1, <2>2, Zenon
<1>7. b \o Append(t, e) = Append(b \o t, e)
  <2> HIDE DEF b, t, e, g
  <2> QED BY <1>4, ConcatAppend
<1>8. Path(h, m, 2 * lo, Left(len)) = b \o t
  BY <1>1, Zenon DEF PairedPath
<1>9. PairedPath(h, n, m, lo, len) = b \o Path(g, m \div 2, lo, a)
  BY Zenon DEF PairedPath
<1> HIDE DEF b, t, e, g, a, v
<1> QED
  BY <1>3, <1>5, <1>6, <1>7, <1>8, <1>9, Zenon

\* ... or in its right half.
LEMMA RightPathPairUp ==
  ASSUME NEW h, NEW n \in Nat, NEW m \in Nat, NEW lo \in Nat, NEW len \in Nat,
         Paired(n, lo, len), len > 2, ~(m < Left(len)),
         Path(h, m - Left(len), 2 * (lo + Left(Above(len))), Right(len)) =
           PairedPath(h, n, m - Left(len), lo + Left(Above(len)), Right(len))
  PROVE  Path(h, m, 2 * lo, len) = PairedPath(h, n, m, lo, len)
<1> DEFINE a == Above(len)
           v == lo + Left(Above(len))
           g == PairUp(h, n)
           b == Beside(h, n, 2 * lo + m)
           t == Path(g, m \div 2 - Left(a), v, Right(a))
           e == Root(g, lo, Left(a))
<1>1. /\ a \in Nat /\ a >= 2 /\ v \in Nat /\ len >= 2 /\ 2 * lo + m \in Nat
      /\ 2 * lo \in Nat /\ m \div 2 \in Nat
      /\ Left(len) = 2 * Left(a) /\ 2 * lo + Left(len) = 2 * v
      /\ Above(Left(len)) = Left(a) /\ Above(Right(len)) = Right(a)
      /\ Paired(n, lo, Left(len))
  BY AboveFacts, PairedHalves
<1>2. /\ Left(a) \in Nat /\ Left(a) >= 1 /\ Right(a) \in Nat /\ Right(a) >= 1
      /\ Right(len) \in Nat /\ ~(m \div 2 < Left(a)) /\ Left(len) \in Nat
      /\ m \div 2 - Left(a) \in Nat /\ (m - Left(len)) \div 2 = m \div 2 - Left(a)
      /\ 2 * v + (m - Left(len)) = 2 * lo + m
  <2>1. /\ Left(a) \in Nat /\ Left(a) >= 1 /\ Right(a) \in Nat /\ Right(a) >= 1
        /\ Left(len) \in Nat /\ Right(len) \in Nat
    BY <1>1, HalvesFacts
  <2> HIDE DEF a, v
  <2>2. m >= 2 * Left(a)
    BY <1>1, <2>1
  <2>3. (m - 2 * Left(a)) \div 2 = m \div 2 - Left(a)
    BY <2>1, <2>2
  <2> QED BY <1>1, <2>1, <2>2, <2>3
<1>3. Root(h, 2 * lo, Left(len)) = e
  BY <1>1, <1>2, RootPairUp
<1>4. b \in Seq(Nodes(h)) /\ t \in Seq(Nodes(g)) /\ e \in Nodes(g)
  <2>1. b \in Seq(Nodes(h))
    BY <1>1, BesideIsSeq
  <2>2. t \in Seq(Nodes(g))
    BY <1>1, <1>2, PathIsSeq
  <2>3. e \in Nodes(g)
    BY <1>1, <1>2 DEF Nodes
  <2> QED BY <2>1, <2>2, <2>3
<1>5. Path(h, m, 2 * lo, len) =
        Append(Path(h, m - Left(len), 2 * v, Right(len)), Root(h, 2 * lo, Left(len)))
  <2>1. Path(h, m, 2 * lo, len) =
          Append(Path(h, m - Left(len), 2 * lo + Left(len), Right(len)),
                 Root(h, 2 * lo, Left(len)))
    BY <1>1, PathRight
  <2> QED BY <1>1, <2>1, Zenon
<1>6. Path(g, m \div 2, lo, a) = Append(t, e)
  <2>1. v = lo + Left(a)
    OBVIOUS
  <2> HIDE DEF g, a, v
  <2>2. Path(g, m \div 2, lo, a) =
          Append(Path(g, m \div 2 - Left(a), lo + Left(a), Right(a)),
                 Root(g, lo, Left(a)))
    <3>1. a \in Nat /\ a >= 2 /\ m \div 2 \in Nat /\ ~(m \div 2 < Left(a))
      BY <1>1, <1>2
    <3> HIDE DEF b, t, e
    <3> QED BY <3>1, PathRight
  <2> QED BY <2>1, <2>2, Zenon
<1>7. b \o Append(t, e) = Append(b \o t, e)
  <2> HIDE DEF b, t, e, g
  <2> QED BY <1>4, ConcatAppend
<1>8. Path(h, m - Left(len), 2 * v, Right(len)) = b \o t
  BY <1>1, <1>2, Zenon DEF PairedPath
<1>9. PairedPath(h, n, m, lo, len) = b \o Path(g, m \div 2, lo, a)
  BY Zenon DEF PairedPath
<1> HIDE DEF b, t, e, g, a, v
<1> QED
  BY <1>3, <1>5, <1>6, <1>7, <1>8, <1>9, Zenon

\* A path over h is what the lowest level adds, then the path over the
\* hashes one level up.
LEMMA PathPairUp ==
  ASSUME NEW h, NEW n \in Nat
  PROVE  \A len \in Nat : \A m, lo \in Nat : Paired(n, lo, len) /\ m < len =>
           Path(h, m, 2 * lo, len) = PairedPath(h, n, m, lo, len)
<1> DEFINE S == {k \in Nat : \A m, lo \in Nat : Paired(n, lo, k) /\ m < k =>
                   Path(h, m, 2 * lo, k) = PairedPath(h, n, m, lo, k)}
<1>1. ASSUME NEW k \in Nat, \A j \in 0..(k - 1) : j \in S
      PROVE  k \in S
  <2> SUFFICES ASSUME NEW m \in Nat, NEW lo \in Nat, Paired(n, lo, k), m < k
               PROVE  Path(h, m, 2 * lo, k) = PairedPath(h, n, m, lo, k)
    OBVIOUS
  <2> HIDE DEF S
  <2>1. CASE k \in {1, 2}
    BY <2>1, SmallPathPairUp
  <2>2. CASE k > 2
    <3>1. /\ Left(k) \in S /\ Right(k) \in S /\ Left(k) \in Nat
          /\ Left(k) + Right(k) = k /\ Right(k) \in Nat
          /\ lo + Left(Above(k)) \in Nat /\ Paired(n, lo, Left(k))
          /\ Paired(n, lo + Left(Above(k)), Right(k))
      <4>1. Left(k) \in 0..(k - 1) /\ Right(k) \in 0..(k - 1)
        BY <2>2, HalvesFacts
      <4> QED BY <1>1, <4>1, <2>2, HalvesFacts, PairedHalves
    <3>2. CASE m < Left(k)
      <4>1. Path(h, m, 2 * lo, Left(k)) = PairedPath(h, n, m, lo, Left(k))
        BY <3>1, <3>2 DEF S
      <4> QED BY <2>2, <3>2, <4>1, LeftPathPairUp
    <3>3. CASE ~(m < Left(k))
      <4>0. m - Left(k) \in Nat /\ m - Left(k) < Right(k)
        BY <3>1, <3>3
      <4>1. Path(h, m - Left(k), 2 * (lo + Left(Above(k))), Right(k)) =
              PairedPath(h, n, m - Left(k), lo + Left(Above(k)), Right(k))
        BY <3>1, <4>0 DEF S
      <4> QED BY <2>2, <3>3, <4>1, RightPathPairUp
    <3> QED BY <3>2, <3>3
  <2> QED BY <2>1, <2>2 DEF Paired
<1>2. \A k \in Nat : k \in S
  <2> HIDE DEF S
  <2> QED BY <1>1, StrongInduction
<1> QED
  BY <1>2
----------------------------------------------------------------------------
LEMMA AppendInSeq ==
  ASSUME NEW S, NEW s \in Seq(S), NEW e \in S
  PROVE  Append(s, e) \in Seq(S)
OBVIOUS

\* Every element of a path lies in S if the nodes of the first n leaves do.
LEMMA PathInSlice ==
  ASSUME NEW h, NEW n \in Nat, NEW S,
         \A l, k \in Nat : k >= 1 /\ l + k <= n => Root(h, l, k) \in S
  PROVE  \A len \in Nat : \A m, lo \in Nat : m < len /\ lo + len <= n =>
           Path(h, m, lo, len) \in Seq(S)
<1> DEFINE P == {k \in Nat : \A m, lo \in Nat : m < k /\ lo + k <= n =>
                   Path(h, m, lo, k) \in Seq(S)}
<1>1. ASSUME NEW k \in Nat, \A j \in 0..(k - 1) : j \in P
      PROVE  k \in P
  <2> SUFFICES ASSUME NEW m \in Nat, NEW lo \in Nat, m < k, lo + k <= n
               PROVE  Path(h, m, lo, k) \in Seq(S)
    OBVIOUS
  <2> HIDE DEF P
  <2>1. CASE k = 1
    <3>1. Path(h, m, lo, 1) = << >>
      BY PathLeaf
    <3> QED BY <2>1, <3>1, EmptySeq, Zenon
  <2>2. CASE k >= 2
    <3>1. /\ Left(k) \in Nat /\ Left(k) >= 1 /\ Left(k) \in P
          /\ Right(k) \in Nat /\ Right(k) >= 1 /\ Right(k) \in P
          /\ lo + Left(k) \in Nat /\ Left(k) + Right(k) = k
      <4>1. Left(k) \in 0..(k - 1) /\ Right(k) \in 0..(k - 1)
        BY <2>2, HalvesFacts
      <4> QED BY <1>1, <2>2, <4>1, HalvesFacts
    <3>2. Root(h, lo, Left(k)) \in S /\ Root(h, lo + Left(k), Right(k)) \in S
      BY <3>1
    <3>3. CASE m < Left(k)
      <4>1. Path(h, m, lo, Left(k)) \in Seq(S)
        BY <3>1, <3>3 DEF P
      <4>2. Path(h, m, lo, k) = Append(Path(h, m, lo, Left(k)),
                                       Root(h, lo + Left(k), Right(k)))
        BY <2>2, <3>3, PathLeft
      <4> QED BY <3>2, <4>1, <4>2, AppendInSeq, Zenon
    <3>4. CASE ~(m < Left(k))
      <4>0. m - Left(k) \in Nat /\ m - Left(k) < Right(k)
        BY <3>1, <3>4
      <4>1. Path(h, m - Left(k), lo + Left(k), Right(k)) \in Seq(S)
        BY <3>1, <4>0 DEF P
      <4>2. Path(h, m, lo, k) = Append(Path(h, m - Left(k), lo + Left(k), Right(k)),
                                       Root(h, lo, Left(k)))
        BY <2>2, <3>4, PathRight
      <4> QED BY <3>2, <4>1, <4>2, AppendInSeq, Zenon
    <3> QED BY <3>3, <3>4
  <2> QED BY <2>1, <2>2
<1>2. \A k \in Nat : k \in P
  <2> HIDE DEF P
  <2> QED BY <1>1, StrongInduction
<1> QED
  BY <1>2
----------------------------------------------------------------------------
\* One step of the recursion of subproof: the whole slice, its left half, its
\* right half.
LEMMA ProofWhole ==
  ASSUME NEW h, NEW m \in Nat, NEW b \in Flag, NEW lo \in Nat, m >= 1
  PROVE  /\ b => Proof(h, m, b, lo, m) = << >>
         /\ ~b => Proof(h, m, b, lo, m) = <<Root(h, lo, m)>>
BY ProofStep

\* Append under a name of its own: the steps below only move it about.
Then(s, e) == Append(s, e)

LEMMA ProofLeft ==
  ASSUME NEW h, NEW m \in Nat, NEW b \in Flag, NEW lo \in Nat,
         NEW len \in Nat, len >= 2, m # len, m <= Left(len)
  PROVE  Proof(h, m, b, lo, len) =
           Then(Proof(h, m, b, lo, Left(len)),
                Root(h, lo + Left(len), Right(len)))
<1>1. len >= 1
  OBVIOUS
<1> QED
  BY <1>1, ProofStep, Zenon DEF Then

LEMMA ProofRight ==
  ASSUME NEW h, NEW m \in Nat, NEW b \in Flag, NEW lo \in Nat,
         NEW len \in Nat, len >= 2, m # len, ~(m <= Left(len))
  PROVE  Proof(h, m, b, lo, len) =
           Then(Proof(h, m - Left(len), No, lo + Left(len), Right(len)),
                Root(h, lo, Left(len)))
<1>1. len >= 1
  OBVIOUS
<1> QED
  BY <1>1, ProofStep, Zenon DEF Then

\* A proof for an even size is the proof for half of it one level up: when
\* the size is that of the slice,
LEMMA WholeProofPairUp ==
  ASSUME NEW h, NEW n \in Nat, NEW m \in Nat, NEW b \in Flag, NEW lo \in Nat,
         m >= 1, Paired(n, lo, 2 * m)
  PROVE  Proof(h, 2 * m, b, 2 * lo, 2 * m) =
           Proof(PairUp(h, n), m, b, lo, Above(2 * m))
<1>1. Above(2 * m) = m /\ 2 * m \in Nat /\ 2 * m >= 1 /\ 2 * lo \in Nat
  BY DEF Above
<1>2. Root(h, 2 * lo, 2 * m) = Root(PairUp(h, n), lo, m)
  BY <1>1, RootPairUp
<1>3. CASE b
  <2>1. Proof(h, 2 * m, b, 2 * lo, 2 * m) = << >>
    BY <1>1, <1>3, ProofWhole
  <2>2. Proof(PairUp(h, n), m, b, lo, m) = << >>
    BY <1>3, ProofWhole
  <2> QED BY <1>1, <2>1, <2>2
<1>4. CASE ~b
  <2>1. Proof(h, 2 * m, b, 2 * lo, 2 * m) = <<Root(h, 2 * lo, 2 * m)>>
    BY <1>1, <1>4, ProofWhole
  <2>2. Proof(PairUp(h, n), m, b, lo, m) = <<Root(PairUp(h, n), lo, m)>>
    BY <1>4, ProofWhole
  <2> QED BY <1>1, <1>2, <2>1, <2>2
<1> QED
  BY <1>3, <1>4

\* ... when it lies in the left half of the slice,
LEMMA LeftProofPairUp ==
  ASSUME NEW h, NEW n \in Nat, NEW m \in Nat, NEW b \in Flag, NEW lo \in Nat,
         NEW len \in Nat, m >= 1, 2 * m < len, Paired(n, lo, len),
         2 * m <= Left(len),
         Proof(h, 2 * m, b, 2 * lo, Left(len)) =
           Proof(PairUp(h, n), m, b, lo, Above(Left(len)))
  PROVE  Proof(h, 2 * m, b, 2 * lo, len) =
           Proof(PairUp(h, n), m, b, lo, Above(len))
<1> DEFINE a == Above(len)
           v == lo + Left(Above(len))
           g == PairUp(h, n)
<1>1. /\ a \in Nat /\ a >= 2 /\ m # a /\ 2 * m \in Nat /\ 2 * lo \in Nat
      /\ len >= 2 /\ 2 * m # len
  BY AboveFacts DEF Above
<1>2. /\ Left(a) \in Nat /\ v \in Nat /\ Left(len) = 2 * Left(a)
      /\ 2 * lo + Left(len) = 2 * v
      /\ Above(Left(len)) = Left(a) /\ Above(Right(len)) = Right(a)
      /\ Paired(n, v, Right(len)) /\ Right(len) \in Nat /\ v = lo + Left(a)
  BY PairedHalves, HalvesFacts
<1>3. Root(h, 2 * lo + Left(len), Right(len)) = Root(g, v, Right(a))
  BY <1>2, RootPairUp
<1>4. m <= Left(a)
  BY <1>2
<1>5. Proof(h, 2 * m, b, 2 * lo, len) =
        Then(Proof(h, 2 * m, b, 2 * lo, Left(len)),
             Root(h, 2 * lo + Left(len), Right(len)))
  BY <1>1, ProofLeft
<1> HIDE DEF g, a, v
<1>6. Proof(g, m, b, lo, a) =
        Then(Proof(g, m, b, lo, Left(a)), Root(g, lo + Left(a), Right(a)))
  BY <1>1, <1>4, ProofLeft
<1> QED
  BY <1>2, <1>3, <1>5, <1>6, Zenon DEF a, g

\* ... or in its right half.
LEMMA RightProofPairUp ==
  ASSUME NEW h, NEW n \in Nat, NEW m \in Nat, NEW b \in Flag, NEW lo \in Nat,
         NEW len \in Nat, m >= 1, 2 * m < len, Paired(n, lo, len),
         ~(2 * m <= Left(len)),
         NEW d \in Nat, d = m - Left(Above(len)),
         NEW v \in Nat, v = lo + Left(Above(len)),
         Proof(h, 2 * d, No, 2 * v, Right(len)) =
           Proof(PairUp(h, n), d, No, v, Above(Right(len)))
  PROVE  Proof(h, 2 * m, b, 2 * lo, len) =
           Proof(PairUp(h, n), m, b, lo, Above(len))
<1> DEFINE a == Above(len)
           g == PairUp(h, n)
           x == 2 * m
           y == 2 * lo
<1>1. /\ a \in Nat /\ a >= 2 /\ m # a /\ x \in Nat /\ y \in Nat
      /\ len >= 2 /\ x # len /\ ~(x <= Left(len))
  BY AboveFacts DEF Above
<1>2. /\ Left(a) \in Nat /\ Left(len) = 2 * Left(a)
      /\ y + Left(len) = 2 * v
      /\ Above(Left(len)) = Left(a) /\ Above(Right(len)) = Right(a)
      /\ Paired(n, lo, Left(len)) /\ Left(len) \in Nat /\ lo + Left(a) = v
  BY PairedHalves, HalvesFacts
<1>3. Root(h, y, Left(len)) = Root(g, lo, Left(a))
  BY <1>2, RootPairUp
<1>4. ~(m <= Left(a)) /\ x - Left(len) = 2 * d /\ m - Left(a) = d
  BY <1>2
<1>5. Proof(h, 2 * d, No, 2 * v, Right(len)) = Proof(g, d, No, v, Right(a))
  BY <1>2
<1> HIDE DEF g, a, x, y
<1>6. Proof(h, x, b, y, len) =
        Then(Proof(h, x - Left(len), No, y + Left(len), Right(len)),
             Root(h, y, Left(len)))
  BY <1>1, ProofRight
<1>7. Proof(g, m, b, lo, a) =
        Then(Proof(g, d, No, v, Right(a)), Root(g, lo, Left(a)))
  BY <1>1, <1>2, <1>4, ProofRight
<1>8. Proof(h, x, b, y, len) = Proof(g, m, b, lo, a)
  BY <1>2, <1>3, <1>4, <1>5, <1>6, <1>7, Zenon
<1> QED
  BY <1>8 DEF a, g, x, y

\* For an even size nothing is proved on the lowest level: the proof over h is
\* the one over the hashes one level up.
LEMMA ProofPairUp ==
  ASSUME NEW h, NEW n \in Nat
  PROVE  \A len \in Nat : \A m, lo \in Nat : \A b \in Flag :
           m >= 1 /\ 2 * m <= len /\ Paired(n, lo, len) =>
             Proof(h, 2 * m, b, 2 * lo, len) =
               Proof(PairUp(h, n), m, b, lo, Above(len))
<1> DEFINE S == {k \in Nat : \A m, lo \in Nat : \A b \in Flag :
                   m >= 1 /\ 2 * m <= k /\ Paired(n, lo, k) =>
                     Proof(h, 2 * m, b, 2 * lo, k) =
                       Proof(PairUp(h, n), m, b, lo, Above(k))}
<1>1. ASSUME NEW k \in Nat, \A j \in 0..(k - 1) : j \in S
      PROVE  k \in S
  <2> SUFFICES ASSUME NEW m \in Nat, NEW lo \in Nat, NEW b \in Flag,
                      m >= 1, 2 * m <= k, Paired(n, lo, k)
               PROVE  Proof(h, 2 * m, b, 2 * lo, k) =
                        Proof(PairUp(h, n), m, b, lo, Above(k))
    OBVIOUS
  <2> HIDE DEF S
  <2>1. CASE 2 * m = k
    BY <2>1, WholeProofPairUp
  <2>2. CASE 2 * m < k
    <3>1. k > 2
      BY <2>2
    <3>2. /\ Left(k) \in Nat /\ Right(k) \in Nat /\ Left(k) + Right(k) = k
          /\ Left(k) \in S /\ Right(k) \in S
      <4>1. Left(k) \in 0..(k - 1) /\ Right(k) \in 0..(k - 1)
        BY <3>1, HalvesFacts
      <4> QED BY <1>1, <3>1, <4>1, HalvesFacts
    <3>3. /\ Left(Above(k)) \in Nat /\ Left(k) = 2 * Left(Above(k))
          /\ lo + Left(Above(k)) \in Nat
          /\ Paired(n, lo, Left(k)) /\ Paired(n, lo + Left(Above(k)), Right(k))
      BY <3>1, PairedHalves
    <3>4. CASE 2 * m <= Left(k)
      <4>1. Proof(h, 2 * m, b, 2 * lo, Left(k)) =
              Proof(PairUp(h, n), m, b, lo, Above(Left(k)))
        BY <3>2, <3>3, <3>4 DEF S
      <4> QED BY <2>2, <3>4, <4>1, LeftProofPairUp
    <3>5. CASE ~(2 * m <= Left(k))
      <4> DEFINE d == m - Left(Above(k))
                 v == lo + Left(Above(k))
      <4>0. d \in Nat /\ d >= 1 /\ 2 * d <= Right(k) /\ v \in Nat
            /\ Paired(n, v, Right(k))
        BY <3>2, <3>3, <3>5
      <4>1. d = m - Left(Above(k)) /\ v = lo + Left(Above(k))
        OBVIOUS
      <4> HIDE DEF d, v
      <4>2. Proof(h, 2 * d, No, 2 * v, Right(k)) =
              Proof(PairUp(h, n), d, No, v, Above(Right(k)))
        BY <3>2, <4>0, NoIsFlag DEF S
      <4> QED BY <2>2, <3>5, <4>0, <4>1, <4>2, RightProofPairUp
    <3> QED BY <3>4, <3>5
  <2> QED BY <2>1, <2>2
<1>2. \A k \in Nat : k \in S
  <2> HIDE DEF S
  <2> QED BY <1>1, StrongInduction
<1> QED
  BY <1>2
----------------------------------------------------------------------------
\* A proof for an odd size is the path of the last leaf of the first tree,
\* after that leaf itself unless it is the whole tree the verifier knows.
Seed(h, m, b, lo) == IF b /\ m = 1 THEN << >> ELSE <<h[lo + m]>>
Join(s, t) == s \o t
OddProof(h, m, b, lo, len) == Join(Seed(h, m, b, lo), Path(h, m - 1, lo, len))

LEMMA ThenRight ==
  ASSUME NEW h, NEW m \in Nat, NEW lo \in Nat, NEW len \in Nat, len >= 2,
         ~(m < Left(len))
  PROVE  Path(h, m, lo, len) =
           Then(Path(h, m - Left(len), lo + Left(len), Right(len)),
                Root(h, lo, Left(len)))
BY PathRight, Zenon DEF Then

LEMMA SeedIsSeq ==
  ASSUME NEW h, NEW m \in Nat, NEW b \in Flag, NEW lo \in Nat, m >= 1
  PROVE  Seed(h, m, b, lo) \in Seq(Nodes(h))
<1>1. lo + m \in Nat /\ lo + m >= 1
  OBVIOUS
<1>2. h[lo + m] \in Nodes(h)
  BY <1>1, LeafIsNode
<1>3. <<h[lo + m]>> \in Seq(Nodes(h)) /\ << >> \in Seq(Nodes(h))
  BY <1>2
<1> QED
  BY <1>3, Zenon DEF Seed

LEMMA JoinThen ==
  ASSUME NEW A, NEW s \in Seq(A), NEW t \in Seq(A), NEW e \in A
  PROVE  Join(s, Then(t, e)) = Then(Join(s, t), e)
BY ConcatAppend DEF Join, Then

\* ProofOfOdd for a single leaf, and for a last old leaf in the left and in
\* the right half.
LEMMA OddLeaf ==
  ASSUME NEW h, NEW b \in Flag, NEW lo \in Nat
  PROVE  Proof(h, 1, b, lo, 1) = OddProof(h, 1, b, lo, 1)
<1>1. 1 - 1 = 0 /\ 1 \in Nat /\ 0 \in Nat
  OBVIOUS
<1>2. Path(h, 0, lo, 1) = << >>
  BY <1>1, PathLeaf
<1>3. Root(h, lo, 1) = h[lo + 1]
  BY <1>1, RootStep
<1>4. Proof(h, 1, b, lo, 1) = Seed(h, 1, b, lo)
  <2>0. 1 \in Nat /\ 1 >= 1
    OBVIOUS
  <2>1. b => Proof(h, 1, b, lo, 1) = << >>
    BY <2>0, ProofWhole, Zenon
  <2>2. ~b => Proof(h, 1, b, lo, 1) = <<Root(h, lo, 1)>>
    BY <2>0, ProofWhole, Zenon
  <2> QED BY <1>3, <2>1, <2>2, Zenon DEF Seed
<1>5. Seed(h, 1, b, lo) \o << >> = Seed(h, 1, b, lo)
  BY SeedIsSeq, ConcatEmptySeq
<1> QED
  BY <1>1, <1>2, <1>4, <1>5, Zenon DEF OddProof, Join

LEMMA OddLeft ==
  ASSUME NEW h, NEW m \in Nat, NEW b \in Flag, NEW lo \in Nat, NEW len \in Nat,
         m >= 1, m < len, m <= Left(len),
         Proof(h, m, b, lo, Left(len)) = OddProof(h, m, b, lo, Left(len))
  PROVE  Proof(h, m, b, lo, len) = OddProof(h, m, b, lo, len)
<1> DEFINE s == Seed(h, m, b, lo)
           t == Path(h, m - 1, lo, Left(len))
           e == Root(h, lo + Left(len), Right(len))
<1>1. /\ len >= 2 /\ m # len /\ m - 1 \in Nat
      /\ Left(len) \in Nat /\ Left(len) >= 1 /\ Right(len) \in Nat
      /\ lo + Left(len) \in Nat /\ m - 1 < Left(len)
  BY HalvesFacts
<1>2. s \in Seq(Nodes(h)) /\ t \in Seq(Nodes(h)) /\ e \in Nodes(h)
  <2>1. s \in Seq(Nodes(h))
    BY SeedIsSeq
  <2>2. t \in Seq(Nodes(h))
    BY <1>1, PathIsSeq
  <2>3. e \in Nodes(h)
    BY <1>1 DEF Nodes
  <2> QED BY <2>1, <2>2, <2>3
<1>3. Path(h, m - 1, lo, len) = Then(t, e)
  <2>1. Path(h, m - 1, lo, len) = Append(t, e)
    BY <1>1, PathLeft
  <2> QED BY <2>1, Zenon DEF Then
<1>4. Proof(h, m, b, lo, len) = Then(Proof(h, m, b, lo, Left(len)), e)
  BY <1>1, ProofLeft
<1>5. Join(s, Then(t, e)) = Then(Join(s, t), e)
  <2> HIDE DEF s, t, e
  <2> QED BY <1>2, JoinThen
<1>6. OddProof(h, m, b, lo, Left(len)) = Join(s, t)
  BY Zenon DEF OddProof
<1>7. OddProof(h, m, b, lo, len) = Join(s, Path(h, m - 1, lo, len))
  BY Zenon DEF OddProof
<1> HIDE DEF s, t, e
<1> QED
  BY <1>3, <1>4, <1>5, <1>6, <1>7, Zenon

LEMMA OddRight ==
  ASSUME NEW h, NEW m \in Nat, NEW b \in Flag, NEW lo \in Nat, NEW len \in Nat,
         m < len, ~(m <= Left(len)),
         NEW d \in Nat, d = m - Left(len), NEW v \in Nat, v = lo + Left(len),
         Proof(h, d, No, v, Right(len)) = OddProof(h, d, No, v, Right(len))
  PROVE  Proof(h, m, b, lo, len) = OddProof(h, m, b, lo, len)
<1> DEFINE s == Seed(h, m, b, lo)
           t == Path(h, d - 1, v, Right(len))
           e == Root(h, lo, Left(len))
<1>1. /\ len >= 2 /\ m # len /\ m - 1 \in Nat /\ d >= 1 /\ d - 1 \in Nat
      /\ m >= 1 /\ m # 1 /\ Right(len) >= 1
      /\ Left(len) \in Nat /\ Right(len) \in Nat
      /\ ~(m - 1 < Left(len)) /\ m - 1 - Left(len) = d - 1
      /\ v + d = lo + m
  <2>1. len >= 2
    <3>1. CASE len = 1
      <4>1. m = 0
        BY <3>1
      <4>2. Left(1) \in Nat
        BY SplitFacts, DoubledFacts DEF Left
      <4> QED BY <3>1, <4>1, <4>2
    <3> QED BY <3>1
  <2> QED BY <2>1, HalvesFacts
<1>2. s \in Seq(Nodes(h)) /\ t \in Seq(Nodes(h)) /\ e \in Nodes(h)
  <2>1. s \in Seq(Nodes(h))
    BY <1>1, SeedIsSeq
  <2>2. t \in Seq(Nodes(h))
    BY <1>1, PathIsSeq
  <2>3. e \in Nodes(h)
    BY <1>1 DEF Nodes
  <2> QED BY <2>1, <2>2, <2>3
<1>3. Path(h, m - 1, lo, len) = Then(t, e)
  <2> DEFINE p == m - 1
  <2>1. p \in Nat /\ ~(p < Left(len)) /\ p - Left(len) = d - 1
    BY <1>1
  <2> HIDE DEF p, e
  <2>2. Path(h, p, lo, len) =
          Then(Path(h, p - Left(len), lo + Left(len), Right(len)),
               Root(h, lo, Left(len)))
    BY <1>1, <2>1, ThenRight
  <2> QED BY <2>1, <2>2, Zenon DEF p, e
<1>4. Proof(h, m, b, lo, len) = Then(Proof(h, d, No, v, Right(len)), e)
  BY <1>1, ProofRight
<1>5. Join(s, Then(t, e)) = Then(Join(s, t), e)
  <2> HIDE DEF s, t, e
  <2> QED BY <1>2, JoinThen
<1>6. OddProof(h, d, No, v, Right(len)) = Join(s, t)
  <2>1. Seed(h, d, No, v) = <<h[lo + m]>>
    BY <1>1, Zenon DEF Seed, No
  <2>2. s = <<h[lo + m]>>
    BY <1>1, Zenon DEF Seed
  <2> QED BY <2>1, <2>2, Zenon DEF OddProof
<1>7. OddProof(h, m, b, lo, len) = Join(s, Path(h, m - 1, lo, len))
  BY Zenon DEF OddProof
<1> HIDE DEF s, t, e
<1> QED
  BY <1>3, <1>4, <1>5, <1>6, <1>7, Zenon

\* A proof for an odd size is the path of the last old leaf, after that leaf.
LEMMA ProofOfOdd ==
  ASSUME NEW h
  PROVE  \A len \in Nat : \A m, lo \in Nat : \A b \in Flag :
           m % 2 = 1 /\ (m < len \/ (len = 1 /\ m = 1)) =>
             Proof(h, m, b, lo, len) = OddProof(h, m, b, lo, len)
<1> DEFINE S == {k \in Nat : \A m, lo \in Nat : \A b \in Flag :
                   m % 2 = 1 /\ (m < k \/ (k = 1 /\ m = 1)) =>
                     Proof(h, m, b, lo, k) = OddProof(h, m, b, lo, k)}
<1>1. ASSUME NEW k \in Nat, \A j \in 0..(k - 1) : j \in S
      PROVE  k \in S
  <2> SUFFICES ASSUME NEW m \in Nat, NEW lo \in Nat, NEW b \in Flag,
                      m % 2 = 1, m < k \/ (k = 1 /\ m = 1)
               PROVE  Proof(h, m, b, lo, k) = OddProof(h, m, b, lo, k)
    OBVIOUS
  <2> HIDE DEF S
  <2>0. m >= 1
    OBVIOUS
  <2>1. CASE k = 1 /\ m = 1
    BY <2>1, OddLeaf
  <2>2. CASE m < k
    <3>1. k >= 2
      BY <2>0, <2>2
    <3>2. /\ Left(k) \in Nat /\ Right(k) \in Nat /\ Left(k) + Right(k) = k
          /\ Left(k) \in S /\ Right(k) \in S /\ Right(k) >= 1
      <4>1. Left(k) \in 0..(k - 1) /\ Right(k) \in 0..(k - 1)
        BY <3>1, HalvesFacts
      <4> QED BY <1>1, <3>1, <4>1, HalvesFacts
    <3>3. (k = 2 /\ Left(k) = 1) \/ (k > 2 /\ Left(k) % 2 = 0)
      <4>1. CASE k = 2
        BY <4>1, HalvesFacts
      <4>2. CASE k > 2
        <5>1. Above(k) \in Nat /\ Above(k) >= 2
          BY <4>2, AboveFacts
        <5>2. Left(Above(k)) \in Nat /\ Left(k) = 2 * Left(Above(k))
          BY <4>2, <5>1, HalvesFacts DEF Above
        <5> QED BY <4>2, <5>2
      <4> QED BY <3>1, <4>1, <4>2
    <3>4. CASE m <= Left(k)
      <4>1. m < Left(k) \/ (Left(k) = 1 /\ m = 1)
        BY <2>0, <3>2, <3>3, <3>4
      <4>2. Proof(h, m, b, lo, Left(k)) = OddProof(h, m, b, lo, Left(k))
        BY <3>2, <4>1 DEF S
      <4> QED BY <2>0, <2>2, <3>4, <4>2, OddLeft
    <3>5. CASE ~(m <= Left(k))
      <4> DEFINE d == m - Left(k)
                 v == lo + Left(k)
      <4>1. d \in Nat /\ v \in Nat /\ d % 2 = 1 /\ d < Right(k)
        <5>1. k > 2 /\ Left(k) % 2 = 0
          BY <2>2, <3>3, <3>5
        <5> QED BY <2>2, <3>2, <3>5, <5>1
      <4>2. d = m - Left(k) /\ v = lo + Left(k)
        OBVIOUS
      <4> HIDE DEF d, v
      <4>3. Proof(h, d, No, v, Right(k)) = OddProof(h, d, No, v, Right(k))
        BY <3>2, <4>1, NoIsFlag DEF S
      <4> QED BY <2>2, <3>5, <4>1, <4>2, <4>3, OddRight
    <3> QED BY <3>4, <3>5
  <2> QED BY <2>1, <2>2
<1>2. \A k \in Nat : k \in S
  <2> HIDE DEF S
  <2> QED BY <1>1, StrongInduction
<1> QED
  BY <1>2
----------------------------------------------------------------------------
(***************************************************************************)
(* The folding loops.  Both verifiers climb from level to level of a tree: *)
(* hs are the hashes of a level of the tree the path is for, sn + 1 of     *)
(* them, and the loop stands on hash fn + 1.  The consistency check climbs *)
(* a second tree at the same time, whose leaves are the first leaves of    *)
(* the first: gs are the fn + 1 hashes of its level.  X is the list of     *)
(* hashes the generator gives, p the list the verifier was given.          *)
(***************************************************************************)

\* P is what is left of X after i elements.
Rest(X, i, P) ==
  /\ Len(X) = i + Len(P)
  /\ \A j \in 1..Len(P) : X[i + j] = P[j]

Before(e, P) == <<e>> \o P

\* Reading one element, or none, off the generated list.
LEMMA RestAfter ==
  ASSUME NEW S, NEW P \in Seq(S), NEW e \in S, NEW X, NEW i \in Nat,
         Rest(X, i, Before(e, P))
  PROVE  X[i + 1] = e /\ Rest(X, i + 1, P) /\ Len(X) > i
<1> DEFINE Q == Before(e, P)
<1>0. Q = <<e>> \o P /\ Rest(X, i, Q)
  BY DEF Before
<1> HIDE DEF Q
<1>1. Len(P) \in Nat
  OBVIOUS
<1>2. Len(Q) = Len(P) + 1 /\ Q[1] = e /\ \A j \in 1..Len(P) : Q[j + 1] = P[j]
  BY <1>0
<1>3. 1 \in 1..Len(Q) /\ \A j \in 1..Len(P) : j + 1 \in 1..Len(Q)
  BY <1>1, <1>2
<1>4. X[i + 1] = e
  BY <1>0, <1>2, <1>3 DEF Rest
<1>5. \A j \in 1..Len(P) : X[i + 1 + j] = P[j]
  <2> TAKE j \in 1..Len(P)
  <2>1. X[i + (j + 1)] = Q[j + 1]
    BY <1>0, <1>3 DEF Rest
  <2>2. i + (j + 1) = i + 1 + j
    BY <1>1
  <2> QED BY <1>2, <2>1, <2>2
<1>6. Len(X) = i + 1 + Len(P) /\ Len(X) > i
  BY <1>0, <1>1, <1>2 DEF Rest
<1> QED BY <1>4, <1>5, <1>6 DEF Rest

LEMMA RestSame ==
  ASSUME NEW S, NEW P \in Seq(S), NEW X, NEW i \in Nat,
         NEW Q, Q = << >> \o P, Rest(X, i, Q)
  PROVE  Rest(X, i, P)
<1>1. Q = P
  OBVIOUS
<1> QED BY <1>1

\* One level up from a level of sn + 1 hashes.
LEMMA ClimbRoot ==
  ASSUME NEW hs, NEW sn \in Nat
  PROVE  Root(PairUp(hs, sn + 1), 0, (sn \div 2) + 1) = Root(hs, 0, sn + 1)
<1>1. /\ sn + 1 \in Nat /\ Paired(sn + 1, 0, sn + 1) /\ 2 * 0 = 0
      /\ Above(sn + 1) = (sn \div 2) + 1
  BY DEF Paired, Above
<1>2. Root(hs, 2 * 0, sn + 1) = Root(PairUp(hs, sn + 1), 0, Above(sn + 1))
  BY <1>1, RootPairUp
<1> QED
  BY <1>1, <1>2

\* What one level up does to the path, and to the hash the loop stands on.
LEMMA ClimbPath ==
  ASSUME NEW hs, NEW fn \in Nat, NEW sn \in Nat, fn <= sn
  PROVE  /\ Path(hs, fn, 0, sn + 1) =
              Beside(hs, sn + 1, fn)
                \o Path(PairUp(hs, sn + 1), fn \div 2, 0, (sn \div 2) + 1)
         /\ Path(PairUp(hs, sn + 1), fn \div 2, 0, (sn \div 2) + 1)
              \in Seq(Nodes(PairUp(hs, sn + 1)))
<1>1. /\ sn + 1 \in Nat /\ Paired(sn + 1, 0, sn + 1) /\ 2 * 0 = 0 /\ fn < sn + 1
      /\ Above(sn + 1) = (sn \div 2) + 1 /\ 2 * 0 + fn = fn /\ 0 \in Nat
      /\ fn \div 2 \in Nat /\ (sn \div 2) + 1 \in Nat /\ (sn \div 2) + 1 >= 1
  BY DEF Paired, Above
<1>2. Path(hs, fn, 2 * 0, sn + 1) = PairedPath(hs, sn + 1, fn, 0, sn + 1)
  BY <1>1, PathPairUp
<1>3. Path(hs, fn, 0, sn + 1) =
        Beside(hs, sn + 1, fn)
          \o Path(PairUp(hs, sn + 1), fn \div 2, 0, (sn \div 2) + 1)
  BY <1>1, <1>2, Zenon DEF PairedPath
<1>4. Path(PairUp(hs, sn + 1), fn \div 2, 0, (sn \div 2) + 1)
        \in Seq(Nodes(PairUp(hs, sn + 1)))
  BY <1>1, PathIsSeq
<1> QED
  BY <1>3, <1>4

LEMMA ClimbHash ==
  ASSUME NEW hs, NEW fn \in Nat, NEW sn \in Nat, fn <= sn
  PROVE  /\ fn % 2 = 1 =>
              PairUp(hs, sn + 1)[(fn \div 2) + 1] = Node(hs[fn], hs[fn + 1])
         /\ fn % 2 = 0 /\ fn # sn =>
              PairUp(hs, sn + 1)[(fn \div 2) + 1] = Node(hs[fn + 1], hs[fn + 2])
         /\ fn % 2 = 0 /\ fn = sn =>
              PairUp(hs, sn + 1)[(fn \div 2) + 1] = hs[fn + 1]
         /\ \A j \in 1..(fn \div 2) :
              PairUp(hs, sn + 1)[j] = Node(hs[2 * j - 1], hs[2 * j])
<1>1. (fn \div 2) + 1 \in 1..Above(sn + 1)
  BY DEF Above
<1>a. PairUp(hs, sn + 1)[(fn \div 2) + 1] =
        IF 2 * ((fn \div 2) + 1) <= sn + 1
          THEN Node(hs[2 * ((fn \div 2) + 1) - 1], hs[2 * ((fn \div 2) + 1)])
          ELSE hs[2 * ((fn \div 2) + 1) - 1]
  BY <1>1 DEF PairUp
<1>2. ASSUME fn % 2 = 1
      PROVE  PairUp(hs, sn + 1)[(fn \div 2) + 1] = Node(hs[fn], hs[fn + 1])
  <2>1. 2 * ((fn \div 2) + 1) = fn + 1 /\ 2 * ((fn \div 2) + 1) - 1 = fn
        /\ fn + 1 <= sn + 1
    BY <1>2
  <2>2. PairUp(hs, sn + 1)[(fn \div 2) + 1] = Node(hs[fn], hs[fn + 1])
    BY <1>a, <2>1, Zenon
  <2> QED BY <2>2
<1>3. ASSUME fn % 2 = 0
      PROVE  /\ (fn # sn => PairUp(hs, sn + 1)[(fn \div 2) + 1] =
                             Node(hs[fn + 1], hs[fn + 2]))
             /\ (fn = sn => PairUp(hs, sn + 1)[(fn \div 2) + 1] = hs[fn + 1])
  <2>1. 2 * ((fn \div 2) + 1) = fn + 2 /\ 2 * ((fn \div 2) + 1) - 1 = fn + 1
        /\ (fn + 2 <= sn + 1 <=> fn # sn)
    BY <1>3
  <2>2. PairUp(hs, sn + 1)[(fn \div 2) + 1] =
          IF fn + 2 <= sn + 1 THEN Node(hs[fn + 1], hs[fn + 2]) ELSE hs[fn + 1]
    BY <1>a, <2>1, Zenon
  <2> QED BY <2>1, <2>2, Zenon
<1>4. ASSUME NEW j \in 1..(fn \div 2)
      PROVE  PairUp(hs, sn + 1)[j] = Node(hs[2 * j - 1], hs[2 * j])
  <2>1. j \in 1..Above(sn + 1) /\ 2 * j <= sn + 1
    BY DEF Above
  <2> QED BY <2>1 DEF PairUp
<1>5. fn % 2 = 0 \/ fn % 2 = 1
  OBVIOUS
<1>6. \A j \in 1..(fn \div 2) :
        PairUp(hs, sn + 1)[j] = Node(hs[2 * j - 1], hs[2 * j])
  BY <1>4
<1>7. fn % 2 = 1 =>
        PairUp(hs, sn + 1)[(fn \div 2) + 1] = Node(hs[fn], hs[fn + 1])
  BY <1>2, <1>3, <1>5, Zenon
<1>8. fn % 2 = 0 /\ fn # sn =>
        PairUp(hs, sn + 1)[(fn \div 2) + 1] = Node(hs[fn + 1], hs[fn + 2])
  BY <1>2, <1>3, <1>5, Zenon
<1>9. fn % 2 = 0 /\ fn = sn => PairUp(hs, sn + 1)[(fn \div 2) + 1] = hs[fn + 1]
  BY <1>2, <1>3, <1>5, Zenon
<1> QED
  BY <1>6, <1>7, <1>8, <1>9, Zenon

\* What is left is the path of hash fn + 1 of a level of sn + 1 hashes.
RestAt(X, i, hs, fn, sn) == Rest(X, i, Path(hs, fn, 0, sn + 1))

\* One level up it is one element less, unless the node has no neighbour.
LEMMA ClimbRest ==
  ASSUME NEW hs, NEW X, NEW i \in Nat, NEW fn \in Nat, NEW sn \in Nat, fn <= sn,
         RestAt(X, i, hs, fn, sn)
  PROVE  /\ fn % 2 = 1 =>
              /\ X[i + 1] = hs[fn]
              /\ RestAt(X, i + 1, PairUp(hs, sn + 1), fn \div 2, sn \div 2)
         /\ fn % 2 = 0 /\ fn # sn =>
              /\ X[i + 1] = hs[fn + 2]
              /\ RestAt(X, i + 1, PairUp(hs, sn + 1), fn \div 2, sn \div 2)
         /\ fn % 2 = 0 /\ fn = sn =>
              RestAt(X, i, PairUp(hs, sn + 1), fn \div 2, sn \div 2)
<1> DEFINE P == Path(PairUp(hs, sn + 1), fn \div 2, 0, (sn \div 2) + 1)
<1> SUFFICES /\ fn % 2 = 1 => X[i + 1] = hs[fn] /\ Rest(X, i + 1, P)
             /\ fn % 2 = 0 /\ fn # sn => X[i + 1] = hs[fn + 2] /\ Rest(X, i + 1, P)
             /\ fn % 2 = 0 /\ fn = sn => Rest(X, i, P)
  BY Zenon DEF RestAt
<1> DEFINE T == Nodes(PairUp(hs, sn + 1)) \cup {hs[fn], hs[fn + 2]}
<1>1. P \in Seq(Nodes(PairUp(hs, sn + 1)))
  BY ClimbPath
<1>2. P \in Seq(T) /\ hs[fn] \in T /\ hs[fn + 2] \in T
  BY <1>1, SeqMonotonic
<1>3. Rest(X, i, Beside(hs, sn + 1, fn) \o P)
  BY ClimbPath DEF RestAt
<1> HIDE DEF T, P
<1>4. CASE fn % 2 = 1
  <2>1. Beside(hs, sn + 1, fn) = <<hs[fn]>>
    BY <1>4 DEF Beside
  <2>2. Rest(X, i, Before(hs[fn], P))
    BY <1>3, <2>1, Zenon DEF Before
  <2>3. X[i + 1] = hs[fn] /\ Rest(X, i + 1, P) /\ Len(X) > i
    BY <1>2, <2>2, RestAfter
  <2> QED BY <1>4, <2>3
<1>5. CASE fn % 2 = 0 /\ fn # sn
  <2>1. Beside(hs, sn + 1, fn) = <<hs[fn + 2]>>
    BY <1>5 DEF Beside
  <2>2. Rest(X, i, Before(hs[fn + 2], P))
    BY <1>3, <2>1, Zenon DEF Before
  <2>3. X[i + 1] = hs[fn + 2] /\ Rest(X, i + 1, P) /\ Len(X) > i
    BY <1>2, <2>2, RestAfter
  <2> QED BY <1>5, <2>3
<1>6. CASE fn % 2 = 0 /\ fn = sn
  <2>1. Beside(hs, sn + 1, fn) = << >>
    BY <1>6 DEF Beside
  <2>2. Rest(X, i, << >> \o P)
    BY <1>3, <2>1, Zenon
  <2>3. Rest(X, i, P)
    BY <1>2, <2>2, RestSame
  <2> QED BY <1>6, <2>3
<1>7. fn % 2 = 0 \/ fn % 2 = 1
  OBVIOUS
<1> QED
  BY <1>4, <1>5, <1>6, <1>7

\* At the root nothing is left of the list, below it something is.
LEMMA RestAtRoot ==
  ASSUME NEW hs, NEW X, NEW i \in Nat, NEW fn \in Nat, NEW sn \in Nat, fn <= sn,
         Rest(X, i, Path(hs, fn, 0, sn + 1))
  PROVE  /\ sn = 0 => Len(X) = i
         /\ sn # 0 => Len(X) > i
<1>1. CASE sn = 0
  <2>1. sn + 1 = 1 /\ 0 \in Nat
    BY <1>1
  <2>2. Path(hs, fn, 0, 1) = << >>
    BY <2>1, PathLeaf
  <2>3. Rest(X, i, << >>)
    BY <2>1, <2>2
  <2> QED BY <1>1, <2>3 DEF Rest
<1>2. CASE sn # 0
  <2> DEFINE S == Nodes(hs)
  <2>1. /\ sn + 1 >= 2 /\ sn + 1 \in Nat /\ 0 \in Nat
        /\ Left(sn + 1) \in Nat /\ Left(sn + 1) >= 1
        /\ Right(sn + 1) \in Nat /\ Right(sn + 1) >= 1
    BY <1>2, HalvesFacts
  <2>2. \E s \in Seq(S) : \E e : Path(hs, fn, 0, sn + 1) = Append(s, e)
    <3>1. CASE fn < Left(sn + 1)
      <4>1. Path(hs, fn, 0, Left(sn + 1)) \in Seq(S)
        BY <2>1, PathIsSeq
      <4>2. Path(hs, fn, 0, sn + 1) =
              Append(Path(hs, fn, 0, Left(sn + 1)),
                     Root(hs, 0 + Left(sn + 1), Right(sn + 1)))
        BY <2>1, <3>1, PathLeft
      <4> QED BY <4>1, <4>2, Zenon
    <3>2. CASE ~(fn < Left(sn + 1))
      <4>0. fn - Left(sn + 1) \in Nat /\ 0 + Left(sn + 1) \in Nat
        BY <2>1, <3>2
      <4>1. Path(hs, fn - Left(sn + 1), 0 + Left(sn + 1), Right(sn + 1)) \in Seq(S)
        BY <2>1, <4>0, PathIsSeq
      <4>2. Path(hs, fn, 0, sn + 1) =
              Append(Path(hs, fn - Left(sn + 1), 0 + Left(sn + 1), Right(sn + 1)),
                     Root(hs, 0, Left(sn + 1)))
        <5>1. \A lo, len \in Nat :
                len >= 2 /\ ~(fn < Left(len)) =>
                  Path(hs, fn, lo, len) =
                    Append(Path(hs, fn - Left(len), lo + Left(len), Right(len)),
                           Root(hs, lo, Left(len)))
          BY PathRight
        <5> QED BY <2>1, <3>2, <5>1, Zenon
      <4> QED BY <4>1, <4>2, Zenon
    <3> QED BY <3>1, <3>2
  <2>a. PICK s \in Seq(S) : \E e : Path(hs, fn, 0, sn + 1) = Append(s, e)
    BY <2>2
  <2>3. PICK e : Path(hs, fn, 0, sn + 1) = Append(s, e)
    BY <2>a
  <2>4. Len(Append(s, e)) = Len(s) + 1 /\ Len(s) \in Nat
    OBVIOUS
  <2>5. Len(X) = i + Len(Append(s, e))
    BY <2>3 DEF Rest
  <2> QED BY <1>2, <2>4, <2>5
<1> QED
  BY <1>1, <1>2

\* The two levels the loop stands on: hs the hashes of the tree of root
\* k.root, gs those of the tree of root k.first; k.list is the list the
\* generator gives.
Levels(k, i, hs, gs, fn, sn) ==
  /\ Root(hs, 0, sn + 1) = k.root
  /\ Root(gs, 0, fn + 1) = k.first
  /\ \A j \in 1..fn : gs[j] = hs[j]
  /\ RestAt(k.list, i, hs, fn, sn)

\* hs2 and gs2 are one level further up.
LevelsAbove(k, i, hs, gs, fn, sn, hs2, gs2) ==
  /\ fn % 2 = 1 =>
       /\ Levels(k, i + 1, hs2, gs2, fn \div 2, sn \div 2)
       /\ k.list[i + 1] = hs[fn]
       /\ hs2[(fn \div 2) + 1] = Node(hs[fn], hs[fn + 1])
       /\ gs2[(fn \div 2) + 1] = Node(hs[fn], gs[fn + 1])
  /\ fn % 2 = 0 /\ fn # sn =>
       /\ Levels(k, i + 1, hs2, gs2, fn \div 2, sn \div 2)
       /\ k.list[i + 1] = hs[fn + 2]
       /\ hs2[(fn \div 2) + 1] = Node(hs[fn + 1], hs[fn + 2])
       /\ gs2[(fn \div 2) + 1] = gs[fn + 1]
  /\ fn % 2 = 0 /\ fn = sn =>
       /\ Levels(k, i, hs2, gs2, fn \div 2, sn \div 2)
       /\ hs2[(fn \div 2) + 1] = hs[fn + 1]
       /\ gs2[(fn \div 2) + 1] = gs[fn + 1]

\* Both trees one level up: what one round of the loop reads.
LEMMA LevelsUp ==
  ASSUME NEW k, NEW i \in Nat, NEW hs, NEW gs, NEW fn \in Nat, NEW sn \in Nat,
         fn <= sn, Levels(k, i, hs, gs, fn, sn)
  PROVE  \E hs2, gs2 : LevelsAbove(k, i, hs, gs, fn, sn, hs2, gs2)
<1>a. PICK hs2 : hs2 = PairUp(hs, sn + 1)
  OBVIOUS
<1>b. PICK gs2 : gs2 = PairUp(gs, fn + 1)
  OBVIOUS
<1>c. PICK m : m = fn \div 2
  OBVIOUS
<1>d. PICK n : n = sn \div 2
  OBVIOUS
<1>1. m \in Nat /\ n \in Nat /\ m <= n /\ fn <= fn
  BY <1>c, <1>d
<1>2. Root(hs2, 0, n + 1) = k.root /\ Root(gs2, 0, m + 1) = k.first
  BY <1>a, <1>b, <1>c, <1>d, ClimbRoot DEF Levels
<1>3. \A j \in 1..m : gs2[j] = hs2[j]
  <2> TAKE j \in 1..m
  <2>1. /\ hs2[j] = Node(hs[2 * j - 1], hs[2 * j])
        /\ gs2[j] = Node(gs[2 * j - 1], gs[2 * j])
    BY <1>1, <1>a, <1>b, <1>c, ClimbHash
  <2>2. 2 * j - 1 \in 1..fn /\ 2 * j \in 1..fn
    BY <1>c
  <2>3. gs[2 * j - 1] = hs[2 * j - 1] /\ gs[2 * j] = hs[2 * j]
    BY <2>2 DEF Levels
  <2> QED BY <2>1, <2>3
<1>4. /\ fn % 2 = 1 => k.list[i + 1] = hs[fn]
                       /\ RestAt(k.list, i + 1, hs2, m, n)
      /\ fn % 2 = 0 /\ fn # sn => k.list[i + 1] = hs[fn + 2]
                       /\ RestAt(k.list, i + 1, hs2, m, n)
      /\ fn % 2 = 0 /\ fn = sn => RestAt(k.list, i, hs2, m, n)
  <2>1. RestAt(k.list, i, hs, fn, sn)
    BY DEF Levels
  <2>2. /\ fn % 2 = 1 =>
             /\ k.list[i + 1] = hs[fn]
             /\ RestAt(k.list, i + 1, PairUp(hs, sn + 1), fn \div 2, sn \div 2)
        /\ fn % 2 = 0 /\ fn # sn =>
             /\ k.list[i + 1] = hs[fn + 2]
             /\ RestAt(k.list, i + 1, PairUp(hs, sn + 1), fn \div 2, sn \div 2)
        /\ fn % 2 = 0 /\ fn = sn =>
             RestAt(k.list, i, PairUp(hs, sn + 1), fn \div 2, sn \div 2)
    BY <2>1, ClimbRest, Zenon
  <2> QED BY <2>2, <1>a, <1>c, <1>d, Zenon
<1>5. /\ fn % 2 = 1 => hs2[m + 1] = Node(hs[fn], hs[fn + 1])
      /\ fn % 2 = 0 /\ fn # sn => hs2[m + 1] = Node(hs[fn + 1], hs[fn + 2])
      /\ fn % 2 = 0 /\ fn = sn => hs2[m + 1] = hs[fn + 1]
  BY <1>a, <1>c, ClimbHash
<1>6. /\ fn % 2 = 1 => gs2[m + 1] = Node(hs[fn], gs[fn + 1])
      /\ fn % 2 = 0 => gs2[m + 1] = gs[fn + 1]
  <2>1. /\ fn % 2 = 1 => gs2[m + 1] = Node(gs[fn], gs[fn + 1])
        /\ fn % 2 = 0 => gs2[m + 1] = gs[fn + 1]
    BY <1>1, <1>a, <1>b, <1>c, ClimbHash
  <2>2. fn % 2 = 1 => gs[fn] = hs[fn]
    <3>1. fn % 2 = 1 => fn \in 1..fn
      OBVIOUS
    <3> QED BY <3>1 DEF Levels
  <2> QED BY <2>1, <2>2
<1>7. /\ fn % 2 = 1 => Levels(k, i + 1, hs2, gs2, m, n)
      /\ fn % 2 = 0 /\ fn # sn => Levels(k, i + 1, hs2, gs2, m, n)
      /\ fn % 2 = 0 /\ fn = sn => Levels(k, i, hs2, gs2, m, n)
  BY <1>2, <1>3, <1>4, Zenon DEF Levels
<1>8. LevelsAbove(k, i, hs, gs, fn, sn, hs2, gs2)
  BY <1>c, <1>d, <1>4, <1>5, <1>6, <1>7, Zenon DEF LevelsAbove
<1> QED
  BY <1>8

\* The verifier started from the right hash and has read the generator's
\* elements so far.
Good(k, i) == k.hash = k.leaf /\ \A j \in 1..i : k.path[j] = k.list[j]

\* s is the right hash of the later tree exactly if everything read was
\* right, and then f is the right hash of the earlier one.
Matches(k, i, hs, gs, fn, s, f) ==
  /\ s = hs[fn + 1] <=> Good(k, i)
  /\ Good(k, i) => f = gs[fn + 1]

\* At the head of the loop.
FoldState(k, i, fn, sn, s, f) ==
  /\ fn <= sn
  /\ \E hs, gs : Levels(k, i, hs, gs, fn, sn) /\ Matches(k, i, hs, gs, fn, s, f)

\* Between a fold at the edge of the tree and the end of the inner loop: the
\* element folded belongs to a level further up.
SkipState(k, i, fn, sn, s, f) ==
  /\ fn = sn /\ fn # 0
  /\ \E hs, gs, s0, f0 :
       /\ Levels(k, i, hs, gs, fn, sn) /\ Matches(k, i, hs, gs, fn, s0, f0)
       /\ s = Node(k.path[i + 1], s0) /\ f = Node(k.path[i + 1], f0)

LEMMA NodeBinds ==
  ASSUME NEW a, NEW b, NEW c, NEW d
  PROVE  Node(a, b) = Node(c, d) <=> a = c /\ b = d
BY DEF Node

LEMMA GoodNext ==
  ASSUME NEW k, NEW i \in Nat
  PROVE  Good(k, i + 1) <=> Good(k, i) /\ k.path[i + 1] = k.list[i + 1]
<1>1. 1..(i + 1) = (1..i) \cup {i + 1}
  OBVIOUS
<1> QED
  BY <1>1, Zenon DEF Good

\* The rounds of the loop: at a right child, at a left child, and, on the right
\* border, through the levels without a neighbour.
LEMMA FoldOdd ==
  ASSUME NEW k, NEW i \in Nat, NEW fn \in Nat, NEW sn \in Nat, NEW s, NEW f,
         FoldState(k, i, fn, sn, s, f), fn % 2 = 1
  PROVE  FoldState(k, i + 1, fn \div 2, sn \div 2,
                   Node(k.path[i + 1], s), Node(k.path[i + 1], f))
<1>1. fn <= sn
  BY DEF FoldState
<1>2. PICK hs, gs : Levels(k, i, hs, gs, fn, sn) /\ Matches(k, i, hs, gs, fn, s, f)
  BY DEF FoldState
<1> DEFINE m == fn \div 2
           n == sn \div 2
<1>a. PICK hs2, gs2 : LevelsAbove(k, i, hs, gs, fn, sn, hs2, gs2)
  BY <1>1, <1>2, LevelsUp
<1>3. /\ m <= n
      /\ Levels(k, i + 1, hs2, gs2, m, n)
      /\ k.list[i + 1] = hs[fn]
      /\ hs2[m + 1] = Node(hs[fn], hs[fn + 1])
      /\ gs2[m + 1] = Node(hs[fn], gs[fn + 1])
  BY <1>1, <1>a DEF LevelsAbove
<1>4. Matches(k, i + 1, hs2, gs2, m, Node(k.path[i + 1], s), Node(k.path[i + 1], f))
  <2> HIDE DEF m, n
  <2>1. Good(k, i + 1) <=> Good(k, i) /\ k.path[i + 1] = k.list[i + 1]
    BY GoodNext
  <2>2. Node(k.path[i + 1], s) = Node(hs[fn], hs[fn + 1]) <=>
          k.path[i + 1] = hs[fn] /\ s = hs[fn + 1]
    BY NodeBinds
  <2> QED BY <1>2, <1>3, <2>1, <2>2, Zenon DEF Matches
<1> QED
  BY <1>3, <1>4, Zenon DEF FoldState

LEMMA FoldEven ==
  ASSUME NEW k, NEW i \in Nat, NEW fn \in Nat, NEW sn \in Nat, NEW s, NEW f,
         FoldState(k, i, fn, sn, s, f), fn % 2 = 0, fn # sn
  PROVE  FoldState(k, i + 1, fn \div 2, sn \div 2, Node(s, k.path[i + 1]), f)
<1>1. fn <= sn
  BY DEF FoldState
<1>2. PICK hs, gs : Levels(k, i, hs, gs, fn, sn) /\ Matches(k, i, hs, gs, fn, s, f)
  BY DEF FoldState
<1> DEFINE m == fn \div 2
           n == sn \div 2
<1>a. PICK hs2, gs2 : LevelsAbove(k, i, hs, gs, fn, sn, hs2, gs2)
  BY <1>1, <1>2, LevelsUp
<1>3. /\ m <= n
      /\ Levels(k, i + 1, hs2, gs2, m, n)
      /\ k.list[i + 1] = hs[fn + 2]
      /\ hs2[m + 1] = Node(hs[fn + 1], hs[fn + 2])
      /\ gs2[m + 1] = gs[fn + 1]
  BY <1>1, <1>a DEF LevelsAbove
<1>4. Matches(k, i + 1, hs2, gs2, m, Node(s, k.path[i + 1]), f)
  <2> HIDE DEF m, n
  <2>1. Good(k, i + 1) <=> Good(k, i) /\ k.path[i + 1] = k.list[i + 1]
    BY GoodNext
  <2>2. Node(s, k.path[i + 1]) = Node(hs[fn + 1], hs[fn + 2]) <=>
          s = hs[fn + 1] /\ k.path[i + 1] = hs[fn + 2]
    BY NodeBinds
  <2> QED BY <1>2, <1>3, <2>1, <2>2, Zenon DEF Matches
<1> QED
  BY <1>3, <1>4, Zenon DEF FoldState

LEMMA FoldEdge ==
  ASSUME NEW k, NEW i, NEW fn, NEW sn, NEW s, NEW f,
         FoldState(k, i, fn, sn, s, f), fn = sn, sn # 0
  PROVE  SkipState(k, i, fn, sn, Node(k.path[i + 1], s), Node(k.path[i + 1], f))
BY Zenon DEF FoldState, SkipState

LEMMA SkipUp ==
  ASSUME NEW k, NEW i \in Nat, NEW fn \in Nat, NEW sn \in Nat, NEW s, NEW f,
         SkipState(k, i, fn, sn, s, f), fn % 2 = 0
  PROVE  SkipState(k, i, fn \div 2, sn \div 2, s, f)
<1>1. fn = sn /\ fn # 0 /\ fn <= sn
  BY DEF SkipState
<1>2. PICK hs, gs, s0, f0 :
        /\ Levels(k, i, hs, gs, fn, sn) /\ Matches(k, i, hs, gs, fn, s0, f0)
        /\ s = Node(k.path[i + 1], s0) /\ f = Node(k.path[i + 1], f0)
  BY DEF SkipState
<1> DEFINE m == fn \div 2
           n == sn \div 2
<1>a. PICK hs2, gs2 : LevelsAbove(k, i, hs, gs, fn, sn, hs2, gs2)
  BY <1>1, <1>2, LevelsUp
<1>3. /\ Levels(k, i, hs2, gs2, m, n)
      /\ hs2[m + 1] = hs[fn + 1]
      /\ gs2[m + 1] = gs[fn + 1]
  BY <1>1, <1>a DEF LevelsAbove
<1>4. m = n /\ m # 0
  BY <1>1
<1>5. Matches(k, i, hs2, gs2, m, s0, f0)
  <2> HIDE DEF m, n
  <2> QED BY <1>2, <1>3, Zenon DEF Matches
<1> QED
  BY <1>2, <1>3, <1>4, <1>5, Zenon DEF SkipState

LEMMA SkipEnd ==
  ASSUME NEW k, NEW i \in Nat, NEW fn \in Nat, NEW sn \in Nat, NEW s, NEW f,
         SkipState(k, i, fn, sn, s, f), fn % 2 = 1
  PROVE  FoldState(k, i + 1, fn \div 2, sn \div 2, s, f)
<1>1. fn = sn /\ fn <= sn
  BY DEF SkipState
<1>2. PICK hs, gs, s0, f0 :
        /\ Levels(k, i, hs, gs, fn, sn) /\ Matches(k, i, hs, gs, fn, s0, f0)
        /\ s = Node(k.path[i + 1], s0) /\ f = Node(k.path[i + 1], f0)
  BY DEF SkipState
<1>3. FoldState(k, i, fn, sn, s0, f0)
  BY <1>1, <1>2, Zenon DEF FoldState
<1> QED
  BY <1>2, <1>3, FoldOdd

\* What the loop has found when the elements are used up.
LEMMA FoldDecides ==
  ASSUME NEW k, NEW i \in Nat, NEW fn \in Nat, NEW sn \in Nat, NEW s, NEW f,
         FoldState(k, i, fn, sn, s, f)
  PROVE  /\ sn # 0 => Len(k.list) > i
         /\ sn = 0 => /\ Len(k.list) = i
                      /\ s = k.root <=> Good(k, i)
                      /\ Good(k, i) => f = k.first
<1>1. fn <= sn
  BY DEF FoldState
<1>2. PICK hs, gs : Levels(k, i, hs, gs, fn, sn) /\ Matches(k, i, hs, gs, fn, s, f)
  BY DEF FoldState
<1>3. (sn # 0 => Len(k.list) > i) /\ (sn = 0 => Len(k.list) = i)
  <2>1. Rest(k.list, i, Path(hs, fn, 0, sn + 1))
    BY <1>2, Zenon DEF Levels, RestAt
  <2> QED BY <1>1, <2>1, RestAtRoot
<1>4. ASSUME sn = 0
      PROVE  (s = k.root <=> Good(k, i)) /\ (Good(k, i) => f = k.first)
  <2>1. fn = 0 /\ 0 + 1 = 1
    BY <1>1, <1>4
  <2>2. Root(hs, 0, 1) = hs[0 + 1] /\ Root(gs, 0, 1) = gs[0 + 1]
    BY RootStep
  <2>3. k.root = hs[fn + 1] /\ k.first = gs[fn + 1]
    BY <1>2, <1>4, <2>1, <2>2 DEF Levels
  <2> QED BY <1>2, <2>3, Zenon DEF Matches
<1> QED
  BY <1>3, <1>4

----------------------------------------------------------------------------
(***************************************************************************)
(* Trees over distinct leaves.  The check builds its trees over leaf       *)
(* hashes <<1>>, <<2>>, ..., so a root tells where its slice starts and    *)
(* how long it is.                                                         *)
(***************************************************************************)
Distinct(h, n) == \A j \in 1..n : h[j] = <<j>>

\* Leaves and nodes are told apart.
LEMMA LeafBinds ==
  ASSUME NEW x, NEW y
  PROVE  <<x>> = <<y>> => x = y
OBVIOUS

LEMMA LeafIsNotNode ==
  ASSUME NEW x, NEW a, NEW b
  PROVE  <<x>> # Node(a, b)
BY DEF Node

LEMMA RootOfLeaf ==
  ASSUME NEW h, NEW n \in Nat, Distinct(h, n), NEW lo \in Nat, lo + 1 <= n
  PROVE  Root(h, lo, 1) = <<lo + 1>>
<1>1. Root(h, lo, 1) = h[lo + 1]
  BY RootStep
<1>2. lo + 1 \in 1..n
  OBVIOUS
<1> QED
  BY <1>1, <1>2, Zenon DEF Distinct

\* No root is the hash a tampered element is replaced with.
LEMMA RootIsNotJunk ==
  ASSUME NEW h, NEW n \in Nat, Distinct(h, n),
         NEW lo \in Nat, NEW len \in Nat, len >= 1, lo + len <= n
  PROVE  Root(h, lo, len) # << 0 >>
<1>1. CASE len = 1
  <2>1. Root(h, lo, len) = <<lo + 1>> /\ lo + 1 # 0
    BY <1>1, RootOfLeaf
  <2> QED BY <2>1, LeafBinds, Zenon
<1>2. CASE len >= 2
  <2>1. Root(h, lo, len) =
          Node(Root(h, lo, Left(len)), Root(h, lo + Left(len), Right(len)))
    BY <1>2, RootStep
  <2> QED BY <2>1, LeafIsNotNode, Zenon
<1> QED
  BY <1>1, <1>2

\* Equal roots over distinct leaves are of the same slice.
LEMMA RootBinds ==
  ASSUME NEW h, NEW n \in Nat, Distinct(h, n), NEW g, NEW m \in Nat, Distinct(g, m)
  PROVE  \A len \in Nat : \A lo, l, k \in Nat :
           /\ len >= 1 /\ lo + len <= n
           /\ k >= 1 /\ l + k <= m
           /\ Root(h, lo, len) = Root(g, l, k)
           => lo = l /\ len = k
<1> DEFINE S == {len \in Nat : \A lo, l, k \in Nat :
                   /\ len >= 1 /\ lo + len <= n
                   /\ k >= 1 /\ l + k <= m
                   /\ Root(h, lo, len) = Root(g, l, k)
                   => lo = l /\ len = k}
<1>1. ASSUME NEW len \in Nat, \A j \in 0..(len - 1) : j \in S
      PROVE  len \in S
  <2> SUFFICES ASSUME NEW lo \in Nat, NEW l \in Nat, NEW k \in Nat,
                      len >= 1, lo + len <= n, k >= 1, l + k <= m,
                      Root(h, lo, len) = Root(g, l, k)
               PROVE  lo = l /\ len = k
    OBVIOUS
  <2> HIDE DEF S
  <2>1. /\ len = 1 => Root(h, lo, len) = <<lo + 1>>
        /\ k = 1 => Root(g, l, k) = <<l + 1>>
    BY RootOfLeaf
  <2>2. /\ len >= 2 => Root(h, lo, len) =
             Node(Root(h, lo, Left(len)), Root(h, lo + Left(len), Right(len)))
        /\ k >= 2 => Root(g, l, k) =
             Node(Root(g, l, Left(k)), Root(g, l + Left(k), Right(k)))
    BY RootStep
  <2>3. CASE len = 1
    <3>1. CASE k = 1
      <4>1. lo + 1 = l + 1
        BY <2>1, <2>3, <3>1, LeafBinds, Zenon
      <4> QED BY <2>3, <3>1, <4>1
    <3>2. CASE k >= 2
      BY <2>1, <2>2, <2>3, <3>2, LeafIsNotNode, Zenon
    <3> QED BY <3>1, <3>2
  <2>4. CASE len >= 2
    <3>1. CASE k = 1
      BY <2>1, <2>2, <2>4, <3>1, LeafIsNotNode, Zenon
    <3>2. CASE k >= 2
      <4>1. /\ Root(h, lo, Left(len)) = Root(g, l, Left(k))
            /\ Root(h, lo + Left(len), Right(len)) = Root(g, l + Left(k), Right(k))
        <5>1. Node(Root(h, lo, Left(len)), Root(h, lo + Left(len), Right(len))) =
                Node(Root(g, l, Left(k)), Root(g, l + Left(k), Right(k)))
          BY <2>2, <2>4, <3>2, Zenon
        <5> QED BY <5>1, NodeBinds
      <4>2. /\ Left(len) \in Nat /\ Left(len) >= 1 /\ Left(len) < len
            /\ Right(len) \in Nat /\ Right(len) >= 1 /\ Right(len) < len
            /\ Left(len) + Right(len) = len
            /\ Left(k) \in Nat /\ Left(k) >= 1 /\ Right(k) \in Nat /\ Right(k) >= 1
            /\ Left(k) + Right(k) = k
        BY <2>4, <3>2, HalvesFacts
      <4>3. Left(len) \in S /\ Right(len) \in S
        <5>1. Left(len) \in 0..(len - 1) /\ Right(len) \in 0..(len - 1)
          BY <4>2
        <5> QED BY <1>1, <5>1
      <4>4. lo = l /\ Left(len) = Left(k)
        <5>1. lo + Left(len) <= n /\ l + Left(k) <= m
          BY <4>2
        <5> QED BY <4>1, <4>2, <4>3, <5>1 DEF S
      <4>5. Right(len) = Right(k)
        <5>1. /\ lo + Left(len) \in Nat /\ lo + Left(len) + Right(len) <= n
              /\ l + Left(k) \in Nat /\ l + Left(k) + Right(k) <= m
          BY <4>2
        <5> QED BY <4>1, <4>2, <4>3, <5>1 DEF S
      <4> QED BY <4>2, <4>4, <4>5
    <3> QED BY <3>1, <3>2
  <2> QED BY <2>3, <2>4
<1>2. \A len \in Nat : len \in S
  <2> HIDE DEF S
  <2> QED BY <1>1, StrongInduction
<1> QED
  BY <1>2

\* A root depends on the leaves of its slice only.
LEMMA RootLocal ==
  ASSUME NEW h, NEW g, NEW n \in Nat, \A j \in 1..n : h[j] = g[j]
  PROVE  \A len \in Nat : \A lo \in Nat : len >= 1 /\ lo + len <= n =>
           Root(h, lo, len) = Root(g, lo, len)
<1> DEFINE S == {len \in Nat : \A lo \in Nat : len >= 1 /\ lo + len <= n =>
                   Root(h, lo, len) = Root(g, lo, len)}
<1>1. ASSUME NEW len \in Nat, \A j \in 0..(len - 1) : j \in S
      PROVE  len \in S
  <2> SUFFICES ASSUME NEW lo \in Nat, len >= 1, lo + len <= n
               PROVE  Root(h, lo, len) = Root(g, lo, len)
    OBVIOUS
  <2> HIDE DEF S
  <2>1. CASE len = 1
    <3>1. Root(h, lo, len) = h[lo + 1] /\ Root(g, lo, len) = g[lo + 1]
      BY <2>1, RootStep
    <3>2. lo + 1 \in 1..n
      BY <2>1
    <3> QED BY <3>1, <3>2
  <2>2. CASE len >= 2
    <3>1. /\ Left(len) \in Nat /\ Left(len) >= 1 /\ Left(len) < len
          /\ Right(len) \in Nat /\ Right(len) >= 1 /\ Right(len) < len
          /\ Left(len) + Right(len) = len
      BY <2>2, HalvesFacts
    <3>2. Left(len) \in S /\ Right(len) \in S
      <4>1. Left(len) \in 0..(len - 1) /\ Right(len) \in 0..(len - 1)
        BY <3>1
      <4> QED BY <1>1, <4>1
    <3>3. /\ lo + Left(len) <= n /\ lo + Left(len) \in Nat
          /\ lo + Left(len) + Right(len) <= n
      BY <3>1
    <3>4. Root(h, lo, Left(len)) = Root(g, lo, Left(len))
      BY <3>1, <3>2, <3>3 DEF S
    <3>5. Root(h, lo + Left(len), Right(len)) = Root(g, lo + Left(len), Right(len))
      BY <3>1, <3>2, <3>3 DEF S
    <3>6. /\ Root(h, lo, len) =
               Node(Root(h, lo, Left(len)), Root(h, lo + Left(len), Right(len)))
          /\ Root(g, lo, len) =
               Node(Root(g, lo, Left(len)), Root(g, lo + Left(len), Right(len)))
      BY <2>2, RootStep
    <3> QED BY <3>4, <3>5, <3>6, Zenon
  <2> QED BY <2>1, <2>2
<1>2. \A len \in Nat : len \in S
  <2> HIDE DEF S
  <2> QED BY <1>1, StrongInduction
<1> QED
  BY <1>2

\* Every element of a proof lies in S if the nodes of the first n leaves do,
\* and a proof between different sizes has an element.
LEMMA ProofInSlice ==
  ASSUME NEW h, NEW n \in Nat, NEW S,
         \A l, k \in Nat : k >= 1 /\ l + k <= n => Root(h, l, k) \in S
  PROVE  \A len \in Nat : \A m, lo \in Nat : \A b \in Flag :
           m >= 1 /\ m <= len /\ lo + len <= n => Proof(h, m, b, lo, len) \in Seq(S)
<1> DEFINE P == {k \in Nat : \A m, lo \in Nat : \A b \in Flag :
                   m >= 1 /\ m <= k /\ lo + k <= n => Proof(h, m, b, lo, k) \in Seq(S)}
<1>1. ASSUME NEW k \in Nat, \A j \in 0..(k - 1) : j \in P
      PROVE  k \in P
  <2> SUFFICES ASSUME NEW m \in Nat, NEW lo \in Nat, NEW b \in Flag,
                      m >= 1, m <= k, lo + k <= n
               PROVE  Proof(h, m, b, lo, k) \in Seq(S)
    OBVIOUS
  <2> HIDE DEF P
  <2>1. CASE m = k
    <3>1. Root(h, lo, m) \in S
      BY <2>1
    <3>2. (b \/ ~b) /\ (b => Proof(h, m, b, lo, m) = << >>)
          /\ (~b => Proof(h, m, b, lo, m) = <<Root(h, lo, m)>>)
      BY ProofWhole, Zenon
    <3>3. << >> \in Seq(S) /\ <<Root(h, lo, m)>> \in Seq(S)
      BY <3>1
    <3>4. Proof(h, m, b, lo, m) \in Seq(S)
      BY <3>2, <3>3, Zenon
    <3> QED BY <2>1, <3>4, Zenon
  <2>2. CASE m # k
    <3>1. /\ k >= 2 /\ Left(k) \in Nat /\ Left(k) >= 1 /\ Left(k) \in P
          /\ Right(k) \in Nat /\ Right(k) >= 1 /\ Right(k) \in P
          /\ lo + Left(k) \in Nat /\ Left(k) + Right(k) = k
      <4>1. Left(k) \in 0..(k - 1) /\ Right(k) \in 0..(k - 1)
        BY <2>2, HalvesFacts
      <4> QED BY <1>1, <2>2, <4>1, HalvesFacts
    <3>2. Root(h, lo, Left(k)) \in S /\ Root(h, lo + Left(k), Right(k)) \in S
      BY <3>1
    <3>3. CASE m <= Left(k)
      <4>1. Proof(h, m, b, lo, Left(k)) \in Seq(S)
        BY <3>1, <3>3 DEF P
      <4>2. Proof(h, m, b, lo, k) =
              Then(Proof(h, m, b, lo, Left(k)), Root(h, lo + Left(k), Right(k)))
        BY <2>2, <3>1, <3>3, ProofLeft
      <4> QED BY <3>2, <4>1, <4>2, AppendInSeq, Zenon DEF Then
    <3>4. CASE ~(m <= Left(k))
      <4>0. m - Left(k) \in Nat /\ m - Left(k) >= 1 /\ m - Left(k) <= Right(k)
            /\ lo + Left(k) + Right(k) <= n
        BY <3>1, <3>4
      <4>1. Proof(h, m - Left(k), No, lo + Left(k), Right(k)) \in Seq(S)
        BY <3>1, <4>0, NoIsFlag DEF P
      <4>2. Proof(h, m, b, lo, k) =
              Then(Proof(h, m - Left(k), No, lo + Left(k), Right(k)),
                   Root(h, lo, Left(k)))
        BY <2>2, <3>1, <3>4, ProofRight
      <4> QED BY <3>2, <4>1, <4>2, AppendInSeq, Zenon DEF Then
    <3> QED BY <3>3, <3>4
  <2> QED BY <2>1, <2>2
<1>2. \A k \in Nat : k \in P
  <2> HIDE DEF P
  <2> QED BY <1>1, StrongInduction
<1> QED
  BY <1>2

\* Only a tree compared with itself has an empty proof.
LEMMA ProofNotEmpty ==
  ASSUME NEW h, NEW m \in Nat, NEW n \in Nat, NEW b \in Flag, m >= 1, m < n
  PROVE  /\ Len(Proof(h, m, b, 0, n)) > 0
         /\ Proof(h, m, b, 0, n) # << >>
<1> DEFINE S == {Root(h, l, k) : l \in Nat, k \in Nat}
<1>0. \A l, k \in Nat : Root(h, l, k) \in S
  OBVIOUS
<1>1. /\ n >= 2 /\ Left(n) \in Nat /\ Left(n) >= 1 /\ Left(n) < n
      /\ Right(n) \in Nat /\ Left(n) + Right(n) = n
  BY HalvesFacts
<1>2. ASSUME NEW s, s \in Seq(S), NEW e
      PROVE  Len(Then(s, e)) > 0 /\ Then(s, e) # << >>
  BY <1>2 DEF Then
<1>3. \A len \in Nat : \A x, lo \in Nat : \A c \in Flag :
        x >= 1 /\ x <= len /\ lo + len <= n => Proof(h, x, c, lo, len) \in Seq(S)
  <2> HIDE DEF S
  <2> QED BY <1>0, ProofInSlice
<1> HIDE DEF S
<1>4. CASE m <= Left(n)
  <2>1. Proof(h, m, b, 0, Left(n)) \in Seq(S)
    <3>1. 0 + Left(n) <= n /\ 0 \in Nat
      BY <1>1
    <3> QED BY <1>1, <1>3, <1>4, <3>1
  <2>2. Proof(h, m, b, 0, n) =
          Then(Proof(h, m, b, 0, Left(n)), Root(h, 0 + Left(n), Right(n)))
    BY <1>1, <1>4, ProofLeft
  <2> QED BY <1>2, <2>1, <2>2
<1>5. CASE ~(m <= Left(n))
  <2>1. Proof(h, m - Left(n), No, 0 + Left(n), Right(n)) \in Seq(S)
    <3>1. /\ 0 + Left(n) + Right(n) <= n /\ 0 + Left(n) \in Nat
          /\ m - Left(n) \in Nat /\ m - Left(n) >= 1 /\ m - Left(n) <= Right(n)
      BY <1>1, <1>5
    <3> QED BY <1>1, <1>3, <3>1, NoIsFlag
  <2>2. Proof(h, m, b, 0, n) =
          Then(Proof(h, m - Left(n), No, 0 + Left(n), Right(n)), Root(h, 0, Left(n)))
    BY <1>1, <1>5, ProofRight
  <2> QED BY <1>2, <2>1, <2>2
<1> QED
  BY <1>4, <1>5
----------------------------------------------------------------------------
(***************************************************************************)
(* first & (first - 1), bit by bit.                                        *)
(***************************************************************************)
Bit(x, y) == IF x % 2 = 1 /\ y % 2 = 1 THEN 1 ELSE 0

\* The recursion of & defines a function, and this is its step.
LEMMA AndExists ==
  Cons!And = [x \in Nat |-> [y \in Nat |->
                IF x = 0 THEN 0
                ELSE 2 * Cons!And[x \div 2][y \div 2] + Bit(x, y)]]
<1> DEFINE Body(g, n) ==
      [y \in Nat |-> IF n = 0 THEN 0 ELSE 2 * g[n \div 2][y \div 2] + Bit(n, y)]
<1> DEFINE UpTo(g, n) == \A j \in 0..n : g[j] = Body(g, j)
<1>1. ASSUME NEW n \in Nat, NEW g, NEW f, \A j \in 0..(n - 1) : g[j] = f[j]
      PROVE  Body(g, n) = Body(f, n)
  <2>1. n # 0 => n \div 2 \in 0..(n - 1)
    OBVIOUS
  <2> QED
    BY <1>1, <2>1
<1> HIDE DEF Body
<1>2. \A n \in Nat : \E g : UpTo(g, n)
  <2> DEFINE S == {n \in Nat : \E g : UpTo(g, n)}
  <2>1. ASSUME NEW n \in Nat, \A k \in 0..(n - 1) : k \in S
        PROVE  n \in S
    <3>1. PICK g : \A j \in 0..(n - 1) : g[j] = Body(g, j)
      <4>1. n # 0 => n - 1 \in 0..(n - 1)
        OBVIOUS
      <4>2. n # 0 => \E g : UpTo(g, n - 1)
        BY <4>1, <2>1
      <4>3. n = 0 => 0..(n - 1) = {}
        OBVIOUS
      <4> QED BY <4>2, <4>3
    <3> DEFINE f == [j \in 0..n |-> IF j = n THEN Body(g, n) ELSE g[j]]
    <3>2. \A j \in 0..(n - 1) : f[j] = g[j]
      OBVIOUS
    <3>3. f[n] = Body(g, n)
      OBVIOUS
    <3> HIDE DEF f
    <3>4. ASSUME NEW j \in 0..n PROVE f[j] = Body(f, j)
      <4>1. j \in Nat /\ \A i \in 0..(j - 1) : f[i] = g[i]
        BY <3>2
      <4>2. Body(f, j) = Body(g, j)
        BY <4>1, <1>1
      <4> QED BY <4>2, <3>1, <3>2, <3>3
    <3> QED BY <3>4
  <2>2. \A n \in Nat : n \in S
    <3> HIDE DEF S
    <3> QED BY <2>1, StrongInduction
  <2> QED BY <2>2
<1> DEFINE G == [n \in Nat |-> CHOOSE g : UpTo(g, n)]
<1>3. \A n \in Nat : UpTo(G[n], n)
  BY <1>2
<1> HIDE DEF G
<1>4. ASSUME NEW n \in Nat, NEW k \in 0..n
      PROVE  G[n][k] = G[k][k]
  <2>1. k \in Nat /\ UpTo(G[n], n) /\ UpTo(G[k], k)
    BY <1>3
  <2> DEFINE g == G[n]
             f == G[k]
  <2>2. ASSUME NEW j \in 0..k, \A i \in 0..(j - 1) : g[i] = f[i]
        PROVE  g[j] = f[j]
    <3>1. j \in Nat /\ j \in 0..n
      BY <2>1
    <3>2. Body(g, j) = Body(f, j)
      <4> HIDE DEF g, f
      <4> QED BY <3>1, <2>2, <1>1
    <3> QED BY <3>1, <3>2, <2>1
  <2> HIDE DEF g, f, UpTo
  <2>3. \A j \in 0..k : g[j] = f[j]
    BY <2>1, <2>2, Agreement
  <2> QED
    BY <2>1, <2>3 DEF g, f
<1> DEFINE F == [n \in Nat |-> G[n][n]]
<1>5. ASSUME NEW n \in Nat
      PROVE  F[n] = Body(F, n)
  <2>1. F[n] = Body(G[n], n)
    BY <1>3
  <2>2. \A i \in 0..(n - 1) : G[n][i] = F[i]
    BY <1>4
  <2> DEFINE g == G[n]
  <2>3. Body(g, n) = Body(F, n)
    <3> HIDE DEF g, F
    <3> QED BY <2>2, <1>1 DEF g
  <2> QED BY <2>1, <2>3
<1>6. F = [n \in Nat |-> Body(F, n)]
  BY <1>5
<1> HIDE DEF F
<1>7. Cons!And = [n \in Nat |-> Body(Cons!And, n)]
  <2> USE DEF Body, Bit
  <2> QED BY <1>6 DEF Cons!And, Cons!Half, Cons!IsOdd
<1> QED
  BY <1>7 DEF Body

LEMMA AndStep ==
  ASSUME NEW x \in Nat, NEW y \in Nat
  PROVE  /\ x = 0 => Cons!And[x][y] = 0
         /\ x # 0 => Cons!And[x][y] = 2 * Cons!And[x \div 2][y \div 2] + Bit(x, y)
BY AndExists

LEMMA AndType ==
  \A x \in Nat : \A y \in Nat : Cons!And[x][y] \in Nat
<1> DEFINE S == {x \in Nat : \A y \in Nat : Cons!And[x][y] \in Nat}
<1>1. ASSUME NEW x \in Nat, \A j \in 0..(x - 1) : j \in S
      PROVE  x \in S
  <2> SUFFICES ASSUME NEW y \in Nat PROVE Cons!And[x][y] \in Nat
    OBVIOUS
  <2>1. CASE x = 0
    BY <2>1, AndStep
  <2>2. CASE x # 0
    <3>1. x \div 2 \in 0..(x - 1) /\ y \div 2 \in Nat /\ Bit(x, y) \in Nat
      BY <2>2 DEF Bit
    <3>2. Cons!And[x \div 2][y \div 2] \in Nat
      BY <3>1, <1>1
    <3>3. Cons!And[x][y] = 2 * Cons!And[x \div 2][y \div 2] + Bit(x, y)
      BY <2>2, AndStep
    <3> QED BY <3>1, <3>2, <3>3
  <2> QED BY <2>1, <2>2
<1>2. \A x \in Nat : x \in S
  <2> HIDE DEF S
  <2> QED BY <1>1, StrongInduction
<1> QED
  BY <1>2

\* x & x is x.
LEMMA AndSelf ==
  \A x \in Nat : Cons!And[x][x] = x
<1> DEFINE S == {x \in Nat : Cons!And[x][x] = x}
<1>1. ASSUME NEW x \in Nat, \A j \in 0..(x - 1) : j \in S
      PROVE  x \in S
  <2>1. CASE x = 0
    BY <2>1, AndStep
  <2>2. CASE x # 0
    <3>1. x \div 2 \in 0..(x - 1) /\ x = 2 * (x \div 2) + Bit(x, x)
      BY <2>2 DEF Bit
    <3>2. Cons!And[x \div 2][x \div 2] = x \div 2
      BY <3>1, <1>1
    <3>3. Cons!And[x][x] = 2 * Cons!And[x \div 2][x \div 2] + Bit(x, x)
      BY <2>2, AndStep
    <3> QED BY <3>1, <3>2, <3>3
  <2> QED BY <2>1, <2>2
<1>2. \A x \in Nat : x \in S
  <2> HIDE DEF S
  <2> QED BY <1>1, StrongInduction
<1> QED
  BY <1>2

\* The test for a power of two: one is the only odd one, and doubling keeps
\* it so.
LEMMA PowerOf2OfOdd ==
  ASSUME NEW m \in Nat, m % 2 = 1
  PROVE  Cons!IsPowerOf2(m) <=> m = 1
<1>1. m # 0 /\ m - 1 \in Nat /\ (m - 1) \div 2 = m \div 2 /\ Bit(m, m - 1) = 0
      /\ m \div 2 \in Nat
  BY DEF Bit
<1>2. Cons!And[m][m - 1] = 2 * Cons!And[m \div 2][(m - 1) \div 2] + Bit(m, m - 1)
  BY <1>1, AndStep
<1>3. Cons!And[m \div 2][m \div 2] = m \div 2
  BY <1>1, AndSelf
<1>4. Cons!And[m][m - 1] = 2 * (m \div 2)
  BY <1>1, <1>2, <1>3
<1>5. 2 * (m \div 2) = 0 <=> m = 1
  OBVIOUS
<1> QED
  BY <1>4, <1>5 DEF Cons!IsPowerOf2

LEMMA PowerOf2OfDouble ==
  ASSUME NEW m \in Nat, m >= 1
  PROVE  Cons!IsPowerOf2(2 * m) <=> Cons!IsPowerOf2(m)
<1>1. /\ 2 * m \in Nat /\ 2 * m # 0 /\ 2 * m - 1 \in Nat /\ m - 1 \in Nat
      /\ (2 * m) \div 2 = m /\ (2 * m - 1) \div 2 = m - 1 /\ Bit(2 * m, 2 * m - 1) = 0
  BY DEF Bit
<1>2. Cons!And[2 * m][2 * m - 1] =
        2 * Cons!And[(2 * m) \div 2][(2 * m - 1) \div 2] + Bit(2 * m, 2 * m - 1)
  BY <1>1, AndStep
<1>3. Cons!And[m][m - 1] \in Nat
  BY <1>1, AndType
<1>4. Cons!And[2 * m][2 * m - 1] = 2 * Cons!And[m][m - 1]
  BY <1>1, <1>2, <1>3
<1> QED
  BY <1>3, <1>4 DEF Cons!IsPowerOf2
----------------------------------------------------------------------------
(***************************************************************************)
(* One call of the inclusion verifier, against the tree over the first     *)
(* tree_size hashes of h.                                                  *)
(***************************************************************************)
Task(h, c) ==
  [list |-> Path(h, c.leaf_index, 0, c.tree_size), path |-> c.path,
   hash |-> c.lh, leaf |-> h[c.leaf_index + 1],
   root |-> Root(h, 0, c.tree_size), first |-> Root(h, 0, c.leaf_index + 1)]

\* The verifier was given what the generator gives.
Exact(k) == Len(k.path) = Len(k.list) /\ Good(k, Len(k.list))

\* The verifier at a control point of its loop.
Climbing(k, p, i, fn, sn, s, f) ==
  /\ i \in Nat /\ fn \in Nat /\ sn \in Nat
  /\ p = "loop" => FoldState(k, i, fn, sn, s, f)
  /\ p = "shift" => SkipState(k, i, fn, sn, s, f)
  /\ p = "halve" => FoldState(k, i + 1, fn \div 2, sn \div 2, s, f)

\* The right answer, known if the caller's root or the caller's path is
\* right.
Answered(h, c, answer) ==
  /\ answer \in {"True", "False"}
  /\ c.leaf_index >= c.tree_size => answer = "False"
  /\ c.leaf_index < c.tree_size
       /\ (c.root = Task(h, c).root \/ Exact(Task(h, c))) =>
       (answer = "True" <=> Exact(Task(h, c)) /\ c.root = Task(h, c).root)

\* The inductive invariant of a call.
InclusionInv(h) ==
  /\ icall.leaf_index \in Nat /\ icall.tree_size \in Nat
  /\ ipc \in {"entry", "loop", "shift", "halve", "returned"}
  /\ iret = "none" <=> ipc # "returned"
  /\ ipc = "entry" => ii = 0 /\ ir = icall.lh
  /\ ipc \in {"loop", "shift", "halve"} =>
       /\ icall.leaf_index < icall.tree_size
       /\ \E f : Climbing(Task(h, icall), ipc, ii, ifn, isn, ir, f)
  /\ ipc = "returned" => Answered(h, icall, iret)

\* Where the fold starts, whatever the leaf hash.
LEMMA StartInclusion ==
  ASSUME NEW h, NEW c, c.leaf_index \in Nat, c.tree_size \in Nat,
         c.leaf_index < c.tree_size
  PROVE  \E f : FoldState(Task(h, c), 0, c.leaf_index, c.tree_size - 1, c.lh, f)
<1>a. PICK k : k = Task(h, c)
  OBVIOUS
<1>b. PICK m \in Nat : m = c.leaf_index
  OBVIOUS
<1>c. PICK n \in Nat : n = c.tree_size - 1
  OBVIOUS
<1>1. m <= n /\ n + 1 = c.tree_size /\ m + 1 \in Nat
  BY <1>b, <1>c
<1>2. /\ k.list = Path(h, m, 0, n + 1) /\ k.hash = c.lh /\ k.leaf = h[m + 1]
      /\ k.root = Root(h, 0, n + 1) /\ k.first = Root(h, 0, m + 1)
  BY <1>a, <1>b, <1>1 DEF Task
<1>3. Path(h, m, 0, n + 1) \in Seq(Nodes(h))
  BY <1>1, PathIsSeq
<1>4. Rest(k.list, 0, Path(h, m, 0, n + 1))
  <2>a. PICK P : P = Path(h, m, 0, n + 1)
    OBVIOUS
  <2>1. P \in Seq(Nodes(h)) /\ k.list = P
    BY <1>2, <1>3, <2>a
  <2>2. Len(P) = 0 + Len(P) /\ \A j \in 1..Len(P) : 0 + j = j
    BY <2>1
  <2>3. Rest(P, 0, P)
    BY <2>2 DEF Rest
  <2> QED BY <2>1, <2>3, <2>a, Zenon
<1>5. Levels(k, 0, h, h, m, n)
  BY <1>2, <1>4, Zenon DEF Levels, RestAt
<1>6. Matches(k, 0, h, h, m, c.lh, h[m + 1])
  <2>1. \A j \in 1..0 : FALSE
    OBVIOUS
  <2> QED BY <1>2, <2>1, Zenon DEF Matches, Good
<1>7. FoldState(k, 0, m, n, c.lh, h[m + 1])
  BY <1>1, <1>5, <1>6, Zenon DEF FoldState
<1> QED
  BY <1>a, <1>b, <1>c, <1>7

\* A loop that meets the root too early, or its end, returns the right
\* answer.
LEMMA LoopAnswers ==
  ASSUME NEW h, NEW c, c.leaf_index \in Nat, c.tree_size \in Nat,
         c.leaf_index < c.tree_size,
         NEW i \in Nat, NEW fn \in Nat, NEW sn \in Nat, NEW s, NEW f,
         FoldState(Task(h, c), i, fn, sn, s, f)
  PROVE  /\ i < Len(c.path) /\ sn = 0 => Answered(h, c, "False")
         /\ i = Len(c.path) =>
              Answered(h, c, IF sn = 0 /\ s = c.root THEN "True" ELSE "False")
<1>a. PICK k : k = Task(h, c)
  OBVIOUS
<1>1. k.path = c.path
  BY <1>a DEF Task
<1>2. /\ sn # 0 => Len(k.list) > i
      /\ sn = 0 => /\ Len(k.list) = i
                   /\ s = k.root <=> Good(k, i)
  BY <1>a, FoldDecides
<1>3. ~(c.leaf_index >= c.tree_size)
  OBVIOUS
<1>4. ASSUME i < Len(c.path), sn = 0
      PROVE  Answered(h, c, "False")
  <2>1. ~Exact(k)
    BY <1>1, <1>2, <1>4 DEF Exact
  <2> QED BY <1>a, <1>3, <2>1, Zenon DEF Answered
<1>5. ASSUME i = Len(c.path)
      PROVE  Answered(h, c, IF sn = 0 /\ s = c.root THEN "True" ELSE "False")
  <2>1. CASE sn = 0
    <3>1. Exact(k) <=> s = k.root
      BY <1>1, <1>2, <1>5, <2>1, Zenon DEF Exact
    <3>2. CASE s = c.root
      <4>1. Answered(h, c, "True")
        BY <1>a, <1>3, <3>1, <3>2, Zenon DEF Answered
      <4> QED BY <2>1, <3>2, <4>1, Zenon
    <3>3. CASE s # c.root
      <4>1. Answered(h, c, "False")
        BY <1>a, <1>3, <3>1, <3>3, Zenon DEF Answered
      <4> QED BY <3>3, <4>1, Zenon
    <3> QED BY <3>2, <3>3
  <2>2. CASE sn # 0
    <3>1. ~Exact(k)
      BY <1>1, <1>2, <1>5, <2>2 DEF Exact
    <3>2. Answered(h, c, "False")
      BY <1>a, <1>3, <3>1, Zenon DEF Answered
    <3> QED BY <2>2, <3>2, Zenon
  <2> QED BY <2>1, <2>2
<1> QED
  BY <1>4, <1>5

\* Every step of the verifier keeps what was said of the call.
LEMMA InclusionStep ==
  ASSUME NEW h, InclusionInv(h), Incl!Next
  PROVE  InclusionInv(h)'
<1> USE DEF Incl!IsOdd, Incl!Half, Incl!Bool, Incl!NodeHash, Incl!Return
<1>0. /\ icall.leaf_index \in Nat /\ icall.tree_size \in Nat
      /\ icall' = icall
  BY DEF InclusionInv, Incl!Next, Incl!RejectIndex, Incl!Enter, Incl!RejectLongPath,
         Incl!FoldLeftSibling, Incl!FoldRightSibling, Incl!SkipLevel,
         Incl!EndSkip, Incl!NextLevel, Incl!Finish
<1>a. PICK c : c = icall
  OBVIOUS
<1>b. c' = c /\ icall' = c
  BY <1>0, <1>a
<1>c. c.leaf_index \in Nat /\ c.tree_size \in Nat
  BY <1>0, <1>a
\* What the steps that stay in the loop have to show.
<1>1. ASSUME NEW p \in {"loop", "shift", "halve"}, NEW f,
             ipc' = p, iret' = iret, ipc # "returned",
             c.leaf_index < c.tree_size,
             Climbing(Task(h, c), p, ii', ifn', isn', ir', f)
      PROVE  InclusionInv(h)'
  <2>1. /\ ipc' \in {"entry", "loop", "shift", "halve", "returned"}
        /\ ipc' # "entry" /\ ipc' # "returned" /\ iret' = "none"
    BY <1>1 DEF InclusionInv
  <2>2. \E e : Climbing(Task(h, icall'), ipc', ii', ifn', isn', ir', e)
    BY <1>1, <1>b
  <2> QED BY <1>1, <1>0, <1>a, <2>1, <2>2 DEF InclusionInv
\* And the steps that return.
<1>2. ASSUME NEW answer, ipc' = "returned", iret' = answer,
             Answered(h, c, answer)
      PROVE  InclusionInv(h)'
  <2>1. iret' # "none" /\ Answered(h, icall', iret')
    BY <1>2, <1>b DEF Answered
  <2> QED BY <1>2, <1>0, <2>1 DEF InclusionInv
<1>3. CASE Incl!RejectIndex
  <2>1. Answered(h, c, "False")
    BY <1>3, <1>a, <1>c DEF Incl!RejectIndex, Answered
  <2> QED BY <1>2, <1>3, <2>1 DEF Incl!RejectIndex
<1>4. CASE Incl!Enter
  <2>1. /\ ipc = "entry" /\ c.leaf_index < c.tree_size /\ ii' = 0 /\ ir' = c.lh
        /\ ifn' = c.leaf_index /\ isn' = c.tree_size - 1 /\ ipc' = "loop"
        /\ iret' = iret
    BY <1>4, <1>a DEF Incl!Enter, InclusionInv
  <2>2. PICK f : FoldState(Task(h, c), 0, c.leaf_index, c.tree_size - 1, c.lh, f)
    BY <1>c, <2>1, StartInclusion
  <2>3. Climbing(Task(h, c), "loop", ii', ifn', isn', ir', f)
    BY <1>c, <2>1, <2>2 DEF Climbing
  <2> QED BY <1>1, <2>1, <2>3
<1>5. ASSUME ipc \in {"loop", "shift", "halve"},
             \/ Incl!RejectLongPath \/ Incl!FoldLeftSibling
             \/ Incl!FoldRightSibling \/ Incl!SkipLevel \/ Incl!EndSkip
             \/ Incl!NextLevel \/ Incl!Finish
      PROVE  InclusionInv(h)'
  <2>a. PICK k : k = Task(h, c)
    OBVIOUS
  <2>b. PICK f : Climbing(k, ipc, ii, ifn, isn, ir, f)
    BY <1>5, <1>a, <2>a DEF InclusionInv
  <2>c. /\ ii \in Nat /\ ifn \in Nat /\ isn \in Nat /\ k.path = c.path
        /\ c.leaf_index < c.tree_size /\ ipc # "returned" /\ iret = "none"
    BY <1>5, <1>a, <2>a, <2>b DEF InclusionInv, Climbing, Task
  <2>1. CASE Incl!RejectLongPath
    <3>1. FoldState(k, ii, ifn, isn, ir, f) /\ ii < Len(c.path) /\ isn = 0
      BY <2>1, <2>b, <1>a DEF Climbing, Incl!RejectLongPath
    <3>2. Answered(h, c, "False")
      BY <1>c, <2>a, <2>c, <3>1, LoopAnswers
    <3> QED BY <1>2, <2>1, <3>2 DEF Incl!RejectLongPath
  <2>2. CASE Incl!FoldLeftSibling
    <3>1. /\ FoldState(k, ii, ifn, isn, ir, f) /\ isn # 0
          /\ ir' = Node(k.path[ii + 1], ir)
          /\ ii' = ii /\ ifn' = ifn /\ isn' = isn /\ iret' = iret
      BY <2>2, <2>b, <2>c, <1>a DEF Climbing, Incl!FoldLeftSibling, Node
    <3>2. CASE ifn % 2 = 1
      <4>1. FoldState(k, ii + 1, ifn \div 2, isn \div 2, ir', Node(k.path[ii + 1], f))
        BY <3>1, <3>2, <2>c, FoldOdd
      <4>2. Climbing(k, "halve", ii', ifn', isn', ir', Node(k.path[ii + 1], f))
        BY <2>c, <3>1, <4>1 DEF Climbing
      <4>3. ipc' = "halve"
        BY <2>2, <3>2 DEF Incl!FoldLeftSibling
      <4> QED BY <1>1, <2>a, <2>c, <3>1, <4>2, <4>3
    <3>3. CASE ifn % 2 # 1
      <4>1. ifn = isn /\ ipc' = "shift"
        BY <2>2, <3>3 DEF Incl!FoldLeftSibling
      <4>2. SkipState(k, ii, ifn, isn, ir', Node(k.path[ii + 1], f))
        BY <3>1, <4>1, FoldEdge
      <4>3. Climbing(k, "shift", ii', ifn', isn', ir', Node(k.path[ii + 1], f))
        BY <2>c, <3>1, <4>2 DEF Climbing
      <4> QED BY <1>1, <2>a, <2>c, <3>1, <4>1, <4>3
    <3> QED BY <3>2, <3>3
  <2>3. CASE Incl!FoldRightSibling
    <3>1. /\ FoldState(k, ii, ifn, isn, ir, f) /\ isn # 0
          /\ ifn % 2 = 0 /\ ifn # isn
          /\ ir' = Node(ir, k.path[ii + 1]) /\ ipc' = "halve"
          /\ ii' = ii /\ ifn' = ifn /\ isn' = isn /\ iret' = iret
      BY <2>3, <2>b, <2>c, <1>a DEF Climbing, Incl!FoldRightSibling, Node
    <3>2. FoldState(k, ii + 1, ifn \div 2, isn \div 2, ir', f)
      BY <3>1, <2>c, FoldEven
    <3>3. Climbing(k, "halve", ii', ifn', isn', ir', f)
      BY <2>c, <3>1, <3>2 DEF Climbing
    <3> QED BY <1>1, <2>a, <2>c, <3>1, <3>3
  <2>4. CASE Incl!SkipLevel
    <3>1. /\ SkipState(k, ii, ifn, isn, ir, f) /\ ifn % 2 = 0
          /\ ifn' = ifn \div 2 /\ isn' = isn \div 2
          /\ ipc' = "shift" /\ ii' = ii /\ ir' = ir /\ iret' = iret
      BY <2>4, <2>b, <2>c DEF Climbing, Incl!SkipLevel
    <3>2. SkipState(k, ii, ifn \div 2, isn \div 2, ir, f)
      BY <3>1, <2>c, SkipUp
    <3>3. Climbing(k, "shift", ii', ifn', isn', ir', f)
      BY <2>c, <3>1, <3>2 DEF Climbing
    <3> QED BY <1>1, <2>a, <2>c, <3>1, <3>3
  <2>5. CASE Incl!EndSkip
    <3>1. /\ SkipState(k, ii, ifn, isn, ir, f) /\ ifn % 2 = 1
          /\ ipc' = "halve" /\ ii' = ii /\ ir' = ir /\ ifn' = ifn /\ isn' = isn
          /\ iret' = iret
      BY <2>5, <2>b, <2>c DEF Climbing, Incl!EndSkip, SkipState
    <3>2. FoldState(k, ii + 1, ifn \div 2, isn \div 2, ir, f)
      BY <3>1, <2>c, SkipEnd
    <3>3. Climbing(k, "halve", ii', ifn', isn', ir', f)
      BY <2>c, <3>1, <3>2 DEF Climbing
    <3> QED BY <1>1, <2>a, <2>c, <3>1, <3>3
  <2>6. CASE Incl!NextLevel
    <3>1. /\ FoldState(k, ii + 1, ifn \div 2, isn \div 2, ir, f)
          /\ ipc' = "loop" /\ ii' = ii + 1 /\ ir' = ir /\ iret' = iret
          /\ ifn' = ifn \div 2 /\ isn' = isn \div 2
      BY <2>6, <2>b, <2>c DEF Climbing, Incl!NextLevel
    <3>2. Climbing(k, "loop", ii', ifn', isn', ir', f)
      BY <2>c, <3>1 DEF Climbing
    <3> QED BY <1>1, <2>a, <2>c, <3>1, <3>2
  <2>7. CASE Incl!Finish
    <3>1. FoldState(k, ii, ifn, isn, ir, f) /\ ii = Len(c.path)
      BY <2>7, <2>b, <1>a DEF Climbing, Incl!Finish
    <3>2. Answered(h, c, IF isn = 0 /\ ir = c.root THEN "True" ELSE "False")
      BY <1>c, <2>a, <2>c, <3>1, LoopAnswers
    <3> QED BY <1>2, <2>7, <3>2, <1>a DEF Incl!Finish
  <2> QED BY <1>5, <2>1, <2>2, <2>3, <2>4, <2>5, <2>6, <2>7
<1> QED
  BY <1>3, <1>4, <1>5 DEF Incl!Next, Incl!RejectLongPath,
     Incl!FoldLeftSibling, Incl!FoldRightSibling, Incl!SkipLevel, Incl!EndSkip,
     Incl!NextLevel, Incl!Finish
----------------------------------------------------------------------------
(***************************************************************************)
(* One call of the consistency verifier, against the trees over the first  *)
(* first and the first second hashes of h.                                 *)
(***************************************************************************)
Yes == TRUE

LEMMA YesIsFlag == Yes \in Flag
BY DEF Yes, Flag

\* What the verifier puts in front of the path: the root r of a full tree.
Known(m, r) == IF Cons!IsPowerOf2(m) THEN <<r>> ELSE << >>

\* The list it reads, if path is what the caller passes.
Reading(m, r, path) == Join(Known(m, r), path)

GrowthTask(h, c) ==
  [list |-> Reading(c.first, Root(h, 0, c.first), Proof(h, c.first, Yes, 0, c.second)),
   path |-> Reading(c.first, c.first_root, c.path),
   hash |-> Reading(c.first, c.first_root, c.path)[1],
   leaf |-> Reading(c.first, Root(h, 0, c.first),
                    Proof(h, c.first, Yes, 0, c.second))[1],
   root |-> Root(h, 0, c.second),
   first |-> Root(h, 0, c.first)]

\* While the verifier strips levels: both trees and the generator's proof are
\* the same one level up.
StripState(h, c, fn, sn) ==
  /\ fn < sn
  /\ Cons!IsPowerOf2(fn + 1) <=> Cons!IsPowerOf2(c.first)
  /\ \E hs : /\ Root(hs, 0, sn + 1) = Root(h, 0, c.second)
             /\ Root(hs, 0, fn + 1) = Root(h, 0, c.first)
             /\ Proof(hs, fn + 1, Yes, 0, sn + 1) = Proof(h, c.first, Yes, 0, c.second)

\* Stripping the levels on which the first tree has no open border changes
\* neither root nor proof.
LEMMA StartStrip ==
  ASSUME NEW h, NEW c, c.first \in Nat, c.second \in Nat,
         0 < c.first, c.first < c.second
  PROVE  StripState(h, c, c.first - 1, c.second - 1)
<1>1. /\ c.first - 1 < c.second - 1
      /\ (c.first - 1) + 1 = c.first /\ (c.second - 1) + 1 = c.second
  OBVIOUS
<1> QED
  BY <1>1 DEF StripState

LEMMA StripUp ==
  ASSUME NEW h, NEW c, NEW fn \in Nat, NEW sn \in Nat,
         StripState(h, c, fn, sn), fn % 2 = 1
  PROVE  StripState(h, c, fn \div 2, sn \div 2)
<1>a. PICK hs : /\ Root(hs, 0, sn + 1) = Root(h, 0, c.second)
                /\ Root(hs, 0, fn + 1) = Root(h, 0, c.first)
                /\ Proof(hs, fn + 1, Yes, 0, sn + 1) =
                     Proof(h, c.first, Yes, 0, c.second)
  BY DEF StripState
<1>b. PICK m \in Nat : m = (fn \div 2) + 1
  OBVIOUS
<1>c. PICK g : g = PairUp(hs, sn + 1)
  OBVIOUS
<1>1. fn < sn
  BY DEF StripState
<1>2. /\ m >= 1 /\ fn + 1 = 2 * m /\ 2 * m <= sn + 1 /\ sn + 1 \in Nat
      /\ fn \div 2 < sn \div 2 /\ 2 * 0 = 0 /\ 0 \in Nat /\ 2 * m \in Nat
      /\ Above(2 * m) = m /\ Above(sn + 1) = (sn \div 2) + 1
      /\ Paired(sn + 1, 0, 2 * m) /\ Paired(sn + 1, 0, sn + 1)
  BY <1>b, <1>1 DEF Above, Paired
<1>3. Root(g, 0, (sn \div 2) + 1) = Root(h, 0, c.second)
  BY <1>a, <1>c, ClimbRoot
<1>4. Root(g, 0, m) = Root(h, 0, c.first)
  <2>1. Root(hs, 2 * 0, 2 * m) = Root(PairUp(hs, sn + 1), 0, Above(2 * m))
    BY <1>2, RootPairUp
  <2> QED BY <1>a, <1>c, <1>2, <2>1
<1>5. Proof(g, m, Yes, 0, (sn \div 2) + 1) = Proof(h, c.first, Yes, 0, c.second)
  <2>1. Proof(hs, 2 * m, Yes, 2 * 0, sn + 1) =
          Proof(PairUp(hs, sn + 1), m, Yes, 0, Above(sn + 1))
    BY <1>2, YesIsFlag, ProofPairUp
  <2> QED BY <1>a, <1>c, <1>2, <2>1
<1>6. Cons!IsPowerOf2(m) <=> Cons!IsPowerOf2(c.first)
  <2>1. Cons!IsPowerOf2(2 * m) <=> Cons!IsPowerOf2(m)
    BY <1>2, PowerOf2OfDouble
  <2>2. Cons!IsPowerOf2(fn + 1) <=> Cons!IsPowerOf2(c.first)
    BY DEF StripState
  <2> QED BY <1>2, <2>1, <2>2, Zenon
<1>7. /\ Root(g, 0, (sn \div 2) + 1) = Root(h, 0, c.second)
      /\ Root(g, 0, (fn \div 2) + 1) = Root(h, 0, c.first)
      /\ Proof(g, (fn \div 2) + 1, Yes, 0, (sn \div 2) + 1) =
           Proof(h, c.first, Yes, 0, c.second)
      /\ Cons!IsPowerOf2((fn \div 2) + 1) <=> Cons!IsPowerOf2(c.first)
  BY <1>b, <1>3, <1>4, <1>5, <1>6, Zenon
<1> QED
  BY <1>2, <1>7, Zenon DEF StripState

\* The first element seeds both hashes: it is the last full subtree of the
\* first tree, and what follows is its path in the second.
LEMMA JoinFacts ==
  ASSUME NEW S, NEW e \in S, NEW P \in Seq(S)
  PROVE  /\ Join(<<e>>, P) = Before(e, P)
         /\ Join(<< >>, P) = P
         /\ Join(<< >>, Join(<<e>>, P)) = Before(e, P)
         /\ Join(<<e>>, Join(<< >>, P)) = Before(e, P)
BY DEF Join, Before

SeedLevel(h, c, fn, sn, hs) ==
  /\ Root(hs, 0, sn + 1) = Root(h, 0, c.second)
  /\ Root(hs, 0, fn + 1) = Root(h, 0, c.first)
  /\ GrowthTask(h, c).list = Before(hs[fn + 1], Path(hs, fn, 0, sn + 1))

\* When stripping ends, the generated list starts with the hash the loop
\* stands on.
LEMMA SeedReading ==
  ASSUME NEW h, NEW c, NEW fn \in Nat, NEW sn \in Nat,
         StripState(h, c, fn, sn), fn % 2 = 0
  PROVE  \E hs : SeedLevel(h, c, fn, sn, hs)
<1>a. PICK hs : /\ Root(hs, 0, sn + 1) = Root(h, 0, c.second)
                /\ Root(hs, 0, fn + 1) = Root(h, 0, c.first)
                /\ Proof(hs, fn + 1, Yes, 0, sn + 1) =
                     Proof(h, c.first, Yes, 0, c.second)
  BY DEF StripState
<1>b. PICK m \in Nat : m = fn + 1
  OBVIOUS
<1>c. PICK P : P = Path(hs, fn, 0, sn + 1)
  OBVIOUS
<1>1. /\ m % 2 = 1 /\ m < sn + 1 /\ sn + 1 \in Nat /\ 0 \in Nat /\ m - 1 = fn
      /\ sn + 1 >= 1 /\ fn < sn + 1 /\ 0 + m = fn + 1
  BY <1>b DEF StripState
<1>2. P \in Seq(Nodes(hs)) /\ hs[fn + 1] \in Nodes(hs)
  <2>1. Path(hs, fn, 0, sn + 1) \in Seq(Nodes(hs))
    BY <1>1, PathIsSeq
  <2>2. hs[fn + 1] \in Nodes(hs)
    BY <1>1, LeafIsNode
  <2> QED BY <1>c, <2>1, <2>2
<1>3. Proof(hs, m, Yes, 0, sn + 1) = Join(Seed(hs, m, Yes, 0), P)
  <2>1. Proof(hs, m, Yes, 0, sn + 1) = OddProof(hs, m, Yes, 0, sn + 1)
    BY <1>1, YesIsFlag, ProofOfOdd
  <2>2. OddProof(hs, m, Yes, 0, sn + 1) = Join(Seed(hs, m, Yes, 0), Path(hs, m - 1, 0, sn + 1))
    BY Zenon DEF OddProof
  <2> QED BY <1>1, <1>c, <2>1, <2>2
<1>4. Seed(hs, m, Yes, 0) = IF m = 1 THEN << >> ELSE <<hs[fn + 1]>>
  BY <1>1 DEF Seed, Yes
<1>5. Cons!IsPowerOf2(c.first) <=> m = 1
  BY <1>1, <1>b, PowerOf2OfOdd DEF StripState
<1>6. m = 1 => Root(h, 0, c.first) = hs[fn + 1]
  <2>1. Root(hs, 0, 1) = hs[0 + 1]
    BY RootStep
  <2> QED BY <1>a, <1>b, <1>1, <2>1
<1>7. /\ Join(<<hs[fn + 1]>>, Join(<< >>, P)) = Before(hs[fn + 1], P)
      /\ Join(<< >>, Join(<<hs[fn + 1]>>, P)) = Before(hs[fn + 1], P)
  BY <1>2, JoinFacts
<1>8. GrowthTask(h, c).list =
        Join(Known(c.first, Root(h, 0, c.first)), Join(Seed(hs, m, Yes, 0), P))
  BY <1>a, <1>b, <1>3 DEF GrowthTask, Reading
<1>9. GrowthTask(h, c).list = Before(hs[fn + 1], P)
  <2>1. CASE m = 1
    <3>1. Known(c.first, Root(h, 0, c.first)) = <<hs[fn + 1]>>
      BY <1>5, <1>6, <2>1 DEF Known
    <3> QED BY <1>4, <1>7, <1>8, <2>1, <3>1, Zenon
  <2>2. CASE m # 1
    <3>1. Known(c.first, Root(h, 0, c.first)) = << >>
      BY <1>5, <2>2 DEF Known
    <3> QED BY <1>4, <1>7, <1>8, <2>2, <3>1, Zenon
  <2> QED BY <2>1, <2>2
<1> QED
  BY <1>a, <1>c, <1>9, Zenon DEF SeedLevel

\* Where the fold of the consistency proof starts.
LEMMA StartGrowth ==
  ASSUME NEW h, NEW c, NEW fn \in Nat, NEW sn \in Nat,
         StripState(h, c, fn, sn), fn % 2 = 0
  PROVE  FoldState(GrowthTask(h, c), 1, fn, sn,
                   GrowthTask(h, c).path[1], GrowthTask(h, c).path[1])
<1>a. PICK k : k = GrowthTask(h, c)
  OBVIOUS
<1>d. PICK hs : SeedLevel(h, c, fn, sn, hs)
  BY SeedReading
<1>b. /\ Root(hs, 0, sn + 1) = Root(h, 0, c.second)
      /\ Root(hs, 0, fn + 1) = Root(h, 0, c.first)
      /\ k.list = Before(hs[fn + 1], Path(hs, fn, 0, sn + 1))
  BY <1>a, <1>d, Zenon DEF SeedLevel
<1>c. PICK P : P = Path(hs, fn, 0, sn + 1)
  OBVIOUS
<1>1. fn <= sn /\ sn + 1 \in Nat /\ sn + 1 >= 1 /\ fn < sn + 1 /\ 0 \in Nat
  BY DEF StripState
<1>2. P \in Seq(Nodes(hs)) /\ hs[fn + 1] \in Nodes(hs)
  <2>1. Path(hs, fn, 0, sn + 1) \in Seq(Nodes(hs))
    BY <1>1, PathIsSeq
  <2>2. hs[fn + 1] \in Nodes(hs)
    BY <1>1, LeafIsNode
  <2> QED BY <1>c, <2>1, <2>2
<1>3. Rest(k.list, 0, Before(hs[fn + 1], P))
  <2>a. PICK Q : Q = Before(hs[fn + 1], P)
    OBVIOUS
  <2>1. Q \in Seq(Nodes(hs))
    BY <1>2, <2>a DEF Before
  <2>2. Len(Q) = 0 + Len(Q) /\ \A j \in 1..Len(Q) : 0 + j = j
    BY <2>1
  <2>3. Rest(Q, 0, Q)
    BY <2>2 DEF Rest
  <2> QED BY <1>b, <1>c, <2>a, <2>3, Zenon
<1>4. k.list[1] = hs[fn + 1] /\ Rest(k.list, 1, P)
  <2>1. 0 + 1 = 1 /\ 0 \in Nat
    OBVIOUS
  <2>2. k.list[0 + 1] = hs[fn + 1] /\ Rest(k.list, 0 + 1, P)
    BY <1>2, <1>3, <2>1, RestAfter
  <2> QED BY <2>1, <2>2
<1>5. k.root = Root(h, 0, c.second) /\ k.first = Root(h, 0, c.first)
      /\ k.hash = k.path[1] /\ k.leaf = k.list[1]
  BY <1>a DEF GrowthTask
<1>6. Levels(k, 1, hs, hs, fn, sn)
  BY <1>b, <1>c, <1>4, <1>5, Zenon DEF Levels, RestAt
<1>7. Matches(k, 1, hs, hs, fn, k.path[1], k.path[1])
  <2>1. \A j : j \in 1..1 <=> j = 1
    OBVIOUS
  <2>2. Good(k, 1) <=> k.path[1] = k.list[1]
    BY <1>5, <2>1, Zenon DEF Good
  <2> QED BY <1>4, <2>2, Zenon DEF Matches
<1> QED
  BY <1>1, <1>6, <1>7, <1>a, Zenon DEF FoldState

\* What the verifier reads: the path, with the first root in front of it when
\* the first size is a power of two.
LEMMA ReadingFacts ==
  ASSUME NEW m, NEW r, NEW S, NEW P \in Seq(S)
  PROVE  /\ Len(Reading(m, r, P)) = (IF Cons!IsPowerOf2(m) THEN 1 ELSE 0) + Len(P)
         /\ Cons!IsPowerOf2(m) =>
              /\ Reading(m, r, P)[1] = r
              /\ \A j \in 1..Len(P) : Reading(m, r, P)[j + 1] = P[j]
         /\ ~Cons!IsPowerOf2(m) => Reading(m, r, P) = P
<1>1. CASE Cons!IsPowerOf2(m)
  <2> DEFINE T == S \cup {r}
  <2>1. r \in T /\ P \in Seq(T)
    BY SeqMonotonic
  <2> HIDE DEF T
  <2>2. Reading(m, r, P) = <<r>> \o P
    BY <1>1 DEF Reading, Known, Join
  <2>3. /\ Len(<<r>> \o P) = 1 + Len(P) /\ (<<r>> \o P)[1] = r
        /\ \A j \in 1..Len(P) : (<<r>> \o P)[j + 1] = P[j]
    BY <2>1
  <2> QED BY <1>1, <2>2, <2>3
<1>2. CASE ~Cons!IsPowerOf2(m)
  <2>1. Reading(m, r, P) = << >> \o P
    BY <1>2 DEF Reading, Known, Join
  <2>2. << >> \o P = P
    OBVIOUS
  <2> QED BY <1>2, <2>1, <2>2
<1> QED
  BY <1>1, <1>2

Grows(c) == 0 < c.first /\ c.first < c.second

\* The right answer, known if the caller's second root or the caller's path
\* is right.
Replied(h, c, answer) ==
  /\ answer \in {"True", "False"}
  /\ c.first = c.second =>
       (answer = "True" <=> Len(c.path) = 0 /\ c.first_root = c.second_root)
  /\ c.first # c.second /\ ~Grows(c) => answer = "False"
  /\ Grows(c)
       /\ (c.second_root = GrowthTask(h, c).root \/ Exact(GrowthTask(h, c))) =>
       (answer = "True" <=> /\ Exact(GrowthTask(h, c))
                            /\ c.first_root = GrowthTask(h, c).first
                            /\ c.second_root = GrowthTask(h, c).root)

\* The inductive invariant of a call.
ConsistencyInv(h) ==
  /\ ccall.first \in Nat /\ ccall.second \in Nat
  /\ \E S : ccall.path \in Seq(S)
  /\ cpc \in {"entry", "strip", "loop", "shift", "halve", "returned"}
  /\ cret = "none" <=> cpc # "returned"
  /\ cpc = "entry" => cpath = ccall.path /\ ci = 0
  /\ cpc \in {"strip", "loop", "shift", "halve"} =>
       /\ Grows(ccall)
       /\ cpath = GrowthTask(h, ccall).path
  /\ cpc = "strip" => /\ cfn \in Nat /\ csn \in Nat
                      /\ StripState(h, ccall, cfn, csn)
  /\ cpc \in {"loop", "shift", "halve"} =>
       Climbing(GrowthTask(h, ccall), cpc, ci, cfn, csn, csr, cfr)
  /\ cpc = "returned" => Replied(h, ccall, cret)

\* Between two different sizes no proof is empty, as the early return has it.
LEMMA EmptyIsRefused ==
  ASSUME NEW h, NEW c, c.first \in Nat, c.second \in Nat, Grows(c),
         NEW S, c.path \in Seq(S), Len(c.path) = 0
  PROVE  Replied(h, c, "False")
<1>a. PICK k : k = GrowthTask(h, c)
  OBVIOUS
<1>b. PICK P : P = Proof(h, c.first, Yes, 0, c.second)
  OBVIOUS
<1>1. c.first >= 1 /\ c.first < c.second /\ c.first # c.second
  BY DEF Grows
<1>2. Len(P) > 0
  BY <1>1, <1>b, YesIsFlag, ProofNotEmpty
<1>3. P \in Seq(Nodes(h))
  <2>1. \A l, n \in Nat : n >= 1 /\ l + n <= c.second => Root(h, l, n) \in Nodes(h)
    BY DEF Nodes
  <2>2. 0 \in Nat /\ c.first <= c.second /\ 0 + c.second <= c.second
    BY <1>1
  <2> QED BY <1>1, <1>b, <2>1, <2>2, YesIsFlag, ProofInSlice
<1>4. /\ Len(k.list) = (IF Cons!IsPowerOf2(c.first) THEN 1 ELSE 0) + Len(P)
      /\ Len(k.path) = (IF Cons!IsPowerOf2(c.first) THEN 1 ELSE 0) + Len(c.path)
  BY <1>a, <1>b, <1>3, ReadingFacts DEF GrowthTask
<1>5. ~Exact(k)
  <2>1. Len(P) \in Nat
    BY <1>3
  <2> QED BY <1>2, <1>4, <2>1 DEF Exact
<1> QED
  BY <1>1, <1>5, <1>a, Zenon DEF Replied

\* What the loop answers when it ends.
LEMMA LoopReplies ==
  ASSUME NEW h, NEW c, c.first \in Nat, c.second \in Nat, Grows(c),
         NEW i \in Nat, NEW fn \in Nat, NEW sn \in Nat, NEW s, NEW f,
         FoldState(GrowthTask(h, c), i, fn, sn, s, f)
  PROVE  /\ i < Len(GrowthTask(h, c).path) /\ sn = 0 => Replied(h, c, "False")
         /\ i = Len(GrowthTask(h, c).path) =>
              Replied(h, c, IF f = c.first_root /\ s = c.second_root /\ sn = 0
                              THEN "True" ELSE "False")
<1>a. PICK k : k = GrowthTask(h, c)
  OBVIOUS
<1>2. /\ sn # 0 => Len(k.list) > i
      /\ sn = 0 => /\ Len(k.list) = i
                   /\ s = k.root <=> Good(k, i)
                   /\ Good(k, i) => f = k.first
  BY <1>a, FoldDecides
<1>3. c.first # c.second
  BY DEF Grows
<1>4. ASSUME i < Len(k.path), sn = 0
      PROVE  Replied(h, c, "False")
  <2>1. ~Exact(k)
    BY <1>2, <1>4 DEF Exact
  <2> QED BY <1>a, <1>3, <2>1, Zenon DEF Replied
<1>5. ASSUME i = Len(k.path)
      PROVE  Replied(h, c, IF f = c.first_root /\ s = c.second_root /\ sn = 0
                             THEN "True" ELSE "False")
  <2>1. CASE sn = 0
    <3>1. (Exact(k) <=> s = k.root) /\ (Exact(k) => f = k.first)
      BY <1>2, <1>5, <2>1, Zenon DEF Exact
    <3>2. CASE f = c.first_root /\ s = c.second_root
      <4>1. Replied(h, c, "True")
        BY <1>a, <1>3, <3>1, <3>2, Zenon DEF Replied
      <4> QED BY <2>1, <3>2, <4>1, Zenon
    <3>3. CASE ~(f = c.first_root /\ s = c.second_root)
      <4>1. Replied(h, c, "False")
        BY <1>a, <1>3, <3>1, <3>3, Zenon DEF Replied
      <4> QED BY <3>3, <4>1, Zenon
    <3> QED BY <3>2, <3>3
  <2>2. CASE sn # 0
    <3>1. ~Exact(k)
      BY <1>2, <1>5, <2>2 DEF Exact
    <3>2. Replied(h, c, "False")
      BY <1>a, <1>3, <3>1, Zenon DEF Replied
    <3> QED BY <2>2, <3>2, Zenon
  <2> QED BY <2>1, <2>2
<1> QED
  BY <1>4, <1>5, <1>a

\* Every step of the verifier keeps what was said of the call.
LEMMA ConsistencyStep ==
  ASSUME NEW h, ConsistencyInv(h), Cons!Next
  PROVE  ConsistencyInv(h)'
<1> USE DEF Cons!IsOdd, Cons!Half, Cons!Bool, Cons!NodeHash, Cons!Return
<1>0. /\ ccall.first \in Nat /\ ccall.second \in Nat
      /\ \E S : ccall.path \in Seq(S)
      /\ ccall' = ccall
  BY DEF ConsistencyInv, Cons!Next, Cons!SameSize, Cons!RejectArguments,
         Cons!Enter, Cons!StripLevel, Cons!Seed, Cons!RejectLongPath,
         Cons!FoldBoth, Cons!FoldSecond, Cons!SkipLevel, Cons!EndSkip,
         Cons!NextLevel, Cons!Finish
<1>a. PICK c : c = ccall
  OBVIOUS
<1>b. c' = c /\ ccall' = c
  BY <1>0, <1>a
<1>c. c.first \in Nat /\ c.second \in Nat
  BY <1>0, <1>a
<1>d. PICK k : k = GrowthTask(h, c)
  OBVIOUS
\* What the steps that stay in the loop have to show.
<1>1. ASSUME NEW p \in {"loop", "shift", "halve"},
             cpc' = p, cret' = cret, cret = "none", Grows(c), cpath' = k.path,
             Climbing(k, p, ci', cfn', csn', csr', cfr')
      PROVE  ConsistencyInv(h)'
  <2>1. /\ cpc' \in {"entry", "strip", "loop", "shift", "halve", "returned"}
        /\ cpc' # "entry" /\ cpc' # "strip" /\ cpc' # "returned"
        /\ cret' = "none"
    BY <1>1
  <2>2. /\ Climbing(GrowthTask(h, ccall'), cpc', ci', cfn', csn', csr', cfr')
        /\ Grows(ccall') /\ cpath' = GrowthTask(h, ccall').path
    BY <1>1, <1>b, <1>d
  <2> QED BY <1>0, <2>1, <2>2 DEF ConsistencyInv
\* The steps that return.
<1>2. ASSUME NEW answer, cpc' = "returned", cret' = answer,
             Replied(h, c, answer)
      PROVE  ConsistencyInv(h)'
  <2>1. cret' # "none" /\ Replied(h, ccall', cret')
    BY <1>2, <1>b DEF Replied
  <2> QED BY <1>2, <1>0, <2>1 DEF ConsistencyInv
\* And the steps that strip.
<1>3. ASSUME cpc' = "strip", cret' = "none", Grows(c), cpath' = k.path,
             cfn' \in Nat, csn' \in Nat, StripState(h, c, cfn', csn')
      PROVE  ConsistencyInv(h)'
  <2>1. /\ StripState(h, ccall', cfn', csn')
        /\ Grows(ccall') /\ cpath' = GrowthTask(h, ccall').path
    BY <1>3, <1>b, <1>d
  <2> QED BY <1>0, <1>3, <2>1 DEF ConsistencyInv
<1>4. CASE Cons!SameSize
  <2>1. /\ c.first = c.second /\ cpath = c.path
        /\ cpc' = "returned"
        /\ cret' = IF Len(c.path) = 0 /\ c.first_root = c.second_root
                     THEN "True" ELSE "False"
    BY <1>4, <1>a DEF Cons!SameSize, ConsistencyInv
  <2>2. ~Grows(c)
    BY <1>c, <2>1 DEF Grows
  <2>3. Replied(h, c, cret')
    BY <2>1, <2>2 DEF Replied
  <2> QED BY <1>2, <2>1, <2>3
<1>5. CASE Cons!RejectArguments
  <2>1. /\ c.first # c.second /\ (~Grows(c) \/ Len(c.path) = 0)
        /\ cpc' = "returned" /\ cret' = "False"
    BY <1>5, <1>a DEF Cons!RejectArguments, ConsistencyInv, Grows
  <2>2. Replied(h, c, "False")
    <3>1. CASE ~Grows(c)
      BY <2>1, <3>1, Zenon DEF Replied
    <3>2. CASE Grows(c) /\ Len(c.path) = 0
      BY <3>2, <1>0, <1>a, EmptyIsRefused
    <3> QED BY <2>1, <3>1, <3>2
  <2> QED BY <1>2, <2>1, <2>2
<1>6. CASE Cons!Enter
  <2>1. /\ Grows(c) /\ cpc' = "strip" /\ cret' = "none"
        /\ cfn' = c.first - 1 /\ csn' = c.second - 1
        /\ cpath' = k.path
    BY <1>6, <1>a, <1>d DEF Cons!Enter, ConsistencyInv, Grows, GrowthTask,
       Reading, Known, Join
  <2>2. StripState(h, c, c.first - 1, c.second - 1)
    BY <1>c, <2>1, StartStrip DEF Grows
  <2>3. c.first - 1 \in Nat /\ c.second - 1 \in Nat
    BY <1>c, <2>1 DEF Grows
  <2> QED BY <1>3, <2>1, <2>2, <2>3
<1>7. CASE Cons!StripLevel
  <2>1. /\ Grows(c) /\ cpc' = "strip" /\ cret' = "none" /\ cpath' = k.path
        /\ cfn \in Nat /\ csn \in Nat /\ cfn % 2 = 1
        /\ cfn' = cfn \div 2 /\ csn' = csn \div 2
        /\ StripState(h, c, cfn, csn)
    BY <1>7, <1>a, <1>d DEF Cons!StripLevel, ConsistencyInv
  <2>2. StripState(h, c, cfn \div 2, csn \div 2)
    BY <2>1, StripUp
  <2> QED BY <1>3, <2>1, <2>2
<1>8. CASE Cons!Seed
  <2>1. /\ Grows(c) /\ cpc' = "loop" /\ cret' = cret /\ cret = "none"
        /\ cpath' = k.path
        /\ cfn \in Nat /\ csn \in Nat /\ cfn % 2 = 0
        /\ cfn' = cfn /\ csn' = csn /\ ci' = 1
        /\ cfr' = k.path[1] /\ csr' = k.path[1]
        /\ StripState(h, c, cfn, csn)
    BY <1>8, <1>a, <1>d DEF Cons!Seed, ConsistencyInv
  <2>2. FoldState(k, 1, cfn, csn, k.path[1], k.path[1])
    BY <1>d, <2>1, StartGrowth
  <2>3. Climbing(k, "loop", ci', cfn', csn', csr', cfr')
    BY <2>1, <2>2 DEF Climbing
  <2> QED BY <1>1, <2>1, <2>3
<1>9. ASSUME cpc \in {"loop", "shift", "halve"},
             \/ Cons!RejectLongPath \/ Cons!FoldBoth \/ Cons!FoldSecond
             \/ Cons!SkipLevel \/ Cons!EndSkip \/ Cons!NextLevel \/ Cons!Finish
      PROVE  ConsistencyInv(h)'
  <2>b. Climbing(k, cpc, ci, cfn, csn, csr, cfr)
    BY <1>9, <1>a, <1>d DEF ConsistencyInv
  <2>c. /\ ci \in Nat /\ cfn \in Nat /\ csn \in Nat /\ cpath = k.path
        /\ Grows(c) /\ cret = "none"
    BY <1>9, <1>a, <1>d, <2>b DEF ConsistencyInv, Climbing
  <2>1. CASE Cons!RejectLongPath
    <3>1. FoldState(k, ci, cfn, csn, csr, cfr) /\ ci < Len(k.path) /\ csn = 0
      BY <2>1, <2>b, <2>c DEF Climbing, Cons!RejectLongPath
    <3>2. Replied(h, c, "False")
      BY <1>c, <1>d, <2>c, <3>1, LoopReplies
    <3> QED BY <1>2, <2>1, <3>2 DEF Cons!RejectLongPath
  <2>2. CASE Cons!FoldBoth
    <3>1. /\ FoldState(k, ci, cfn, csn, csr, cfr) /\ csn # 0
          /\ csr' = Node(k.path[ci + 1], csr) /\ cfr' = Node(k.path[ci + 1], cfr)
          /\ ci' = ci /\ cfn' = cfn /\ csn' = csn /\ cret' = cret
          /\ cpath' = k.path
      BY <2>2, <2>b, <2>c DEF Climbing, Cons!FoldBoth, Node
    <3>2. CASE cfn % 2 = 1
      <4>1. FoldState(k, ci + 1, cfn \div 2, csn \div 2, csr', cfr')
        BY <3>1, <3>2, <2>c, FoldOdd
      <4>2. Climbing(k, "halve", ci', cfn', csn', csr', cfr')
        BY <2>c, <3>1, <4>1 DEF Climbing
      <4>3. cpc' = "halve"
        BY <2>2, <3>2 DEF Cons!FoldBoth
      <4> QED BY <1>1, <2>c, <3>1, <4>2, <4>3
    <3>3. CASE cfn % 2 # 1
      <4>1. cfn = csn /\ cpc' = "shift"
        BY <2>2, <3>3 DEF Cons!FoldBoth
      <4>2. SkipState(k, ci, cfn, csn, csr', cfr')
        BY <3>1, <4>1, FoldEdge
      <4>3. Climbing(k, "shift", ci', cfn', csn', csr', cfr')
        BY <2>c, <3>1, <4>2 DEF Climbing
      <4> QED BY <1>1, <2>c, <3>1, <4>1, <4>3
    <3> QED BY <3>2, <3>3
  <2>3. CASE Cons!FoldSecond
    <3>1. /\ FoldState(k, ci, cfn, csn, csr, cfr) /\ csn # 0
          /\ cfn % 2 = 0 /\ cfn # csn
          /\ csr' = Node(csr, k.path[ci + 1]) /\ cfr' = cfr /\ cpc' = "halve"
          /\ ci' = ci /\ cfn' = cfn /\ csn' = csn /\ cret' = cret
          /\ cpath' = k.path
      BY <2>3, <2>b, <2>c DEF Climbing, Cons!FoldSecond, Node
    <3>2. FoldState(k, ci + 1, cfn \div 2, csn \div 2, csr', cfr')
      BY <3>1, <2>c, FoldEven
    <3>3. Climbing(k, "halve", ci', cfn', csn', csr', cfr')
      BY <2>c, <3>1, <3>2 DEF Climbing
    <3> QED BY <1>1, <2>c, <3>1, <3>3
  <2>4. CASE Cons!SkipLevel
    <3>1. /\ SkipState(k, ci, cfn, csn, csr, cfr) /\ cfn % 2 = 0
          /\ cfn' = cfn \div 2 /\ csn' = csn \div 2
          /\ cpc' = "shift" /\ ci' = ci /\ csr' = csr /\ cfr' = cfr
          /\ cret' = cret /\ cpath' = k.path
      BY <2>4, <2>b, <2>c DEF Climbing, Cons!SkipLevel
    <3>2. SkipState(k, ci, cfn \div 2, csn \div 2, csr, cfr)
      BY <3>1, <2>c, SkipUp
    <3>3. Climbing(k, "shift", ci', cfn', csn', csr', cfr')
      BY <2>c, <3>1, <3>2 DEF Climbing
    <3> QED BY <1>1, <2>c, <3>1, <3>3
  <2>5. CASE Cons!EndSkip
    <3>1. /\ SkipState(k, ci, cfn, csn, csr, cfr) /\ cfn % 2 = 1
          /\ cpc' = "halve" /\ ci' = ci /\ csr' = csr /\ cfr' = cfr
          /\ cfn' = cfn /\ csn' = csn /\ cret' = cret /\ cpath' = k.path
      BY <2>5, <2>b, <2>c DEF Climbing, Cons!EndSkip, SkipState
    <3>2. FoldState(k, ci + 1, cfn \div 2, csn \div 2, csr, cfr)
      BY <3>1, <2>c, SkipEnd
    <3>3. Climbing(k, "halve", ci', cfn', csn', csr', cfr')
      BY <2>c, <3>1, <3>2 DEF Climbing
    <3> QED BY <1>1, <2>c, <3>1, <3>3
  <2>6. CASE Cons!NextLevel
    <3>1. /\ FoldState(k, ci + 1, cfn \div 2, csn \div 2, csr, cfr)
          /\ cpc' = "loop" /\ ci' = ci + 1 /\ csr' = csr /\ cfr' = cfr
          /\ cfn' = cfn \div 2 /\ csn' = csn \div 2 /\ cret' = cret
          /\ cpath' = k.path
      BY <2>6, <2>b, <2>c DEF Climbing, Cons!NextLevel
    <3>2. Climbing(k, "loop", ci', cfn', csn', csr', cfr')
      BY <2>c, <3>1 DEF Climbing
    <3> QED BY <1>1, <2>c, <3>1, <3>2
  <2>7. CASE Cons!Finish
    <3>1. FoldState(k, ci, cfn, csn, csr, cfr) /\ ci = Len(k.path)
      BY <2>7, <2>b, <2>c DEF Climbing, Cons!Finish
    <3>2. Replied(h, c, IF cfr = c.first_root /\ csr = c.second_root /\ csn = 0
                          THEN "True" ELSE "False")
      BY <1>c, <1>d, <2>c, <3>1, LoopReplies
    <3> QED BY <1>2, <2>7, <3>2, <1>a DEF Cons!Finish
  <2> QED BY <1>9, <2>1, <2>2, <2>3, <2>4, <2>5, <2>6, <2>7
<1> QED
  BY <1>4, <1>5, <1>6, <1>7, <1>8, <1>9 DEF Cons!Next, Cons!RejectLongPath,
     Cons!FoldBoth, Cons!FoldSecond, Cons!SkipLevel, Cons!EndSkip,
     Cons!NextLevel, Cons!Finish

----------------------------------------------------------------------------
(***************************************************************************)
(* The swapped call.  When the first size is a power of two the later root *)
(* comes first in the list the verifier reads, so both hashes start from   *)
(* it: they are and stay roots of no smaller tree.                         *)
(***************************************************************************)
Swapped(h, c) ==
  /\ Grows(c)
  /\ Cons!IsPowerOf2(c.first)
  /\ Distinct(h, c.second)
  /\ c.first_root = Root(h, 0, c.second)
  /\ c.second_root = Root(h, 0, c.first)

Outgrown(h, n, s) == \A l \in 1..(n - 1) : s # Root(h, 0, l)

SwapInv(h) ==
  /\ cpc \in {"loop", "shift", "halve"} =>
       /\ cpc # "shift"
       /\ cfn = 0
       /\ Outgrown(h, ccall.second, csr)
  /\ cpc = "returned" => cret = "False"

\* The whole root is no smaller root, and no node on top of one that is none
\* becomes one.
LEMMA WholeIsOutgrown ==
  ASSUME NEW h, NEW n \in Nat, n >= 1, Distinct(h, n)
  PROVE  Outgrown(h, n, Root(h, 0, n))
<1> SUFFICES ASSUME NEW l \in 1..(n - 1), Root(h, 0, n) = Root(h, 0, l)
             PROVE  FALSE
  BY DEF Outgrown
<1>1. /\ l \in Nat /\ l >= 1 /\ l # n /\ 0 \in Nat /\ 0 + n <= n /\ 0 + l <= n
  OBVIOUS
<1>2. \A len \in Nat : \A lo, m, k \in Nat :
        /\ len >= 1 /\ lo + len <= n
        /\ k >= 1 /\ m + k <= n
        /\ Root(h, lo, len) = Root(h, m, k)
        => lo = m /\ len = k
  BY RootBinds
<1> QED
  BY <1>1, <1>2

LEMMA OutgrownNode ==
  ASSUME NEW h, NEW n \in Nat, n >= 1, Distinct(h, n),
         NEW s, Outgrown(h, n, s), NEW e
  PROVE  Outgrown(h, n, Node(s, e))
<1> SUFFICES ASSUME NEW l \in 1..(n - 1), Node(s, e) = Root(h, 0, l)
             PROVE  FALSE
  BY DEF Outgrown
<1>1. CASE l = 1
  <2>1. Root(h, 0, 1) = <<0 + 1>>
    BY <1>1, RootOfLeaf
  <2> QED BY <1>1, <2>1, LeafIsNotNode, Zenon
<1>2. CASE l >= 2
  <2>0. l \in Nat /\ l >= 1 /\ 0 \in Nat
    BY <1>2
  <2>1. Root(h, 0, l) = Node(Root(h, 0, Left(l)), Root(h, 0 + Left(l), Right(l)))
    BY <1>2, <2>0, RootStep
  <2>2. s = Root(h, 0, Left(l))
    <3>1. Node(s, e) = Node(Root(h, 0, Left(l)), Root(h, 0 + Left(l), Right(l)))
      BY <2>1, Zenon
    <3> QED BY <3>1, NodeBinds
  <2>3. Left(l) \in 1..(n - 1)
    BY <1>2, HalvesFacts
  <2> QED BY <2>2, <2>3 DEF Outgrown
<1> QED
  BY <1>1, <1>2

\* With the roots exchanged every step keeps the accumulator outgrown.
LEMMA SwapStep ==
  ASSUME NEW h, ConsistencyInv(h), Swapped(h, ccall), SwapInv(h), Cons!Next
  PROVE  SwapInv(h)'
<1> USE DEF Cons!IsOdd, Cons!Half, Cons!Bool, Cons!NodeHash, Cons!Return
<1>0. ccall' = ccall
  BY DEF Cons!Next, Cons!SameSize, Cons!RejectArguments,
         Cons!Enter, Cons!StripLevel, Cons!Seed, Cons!RejectLongPath,
         Cons!FoldBoth, Cons!FoldSecond, Cons!SkipLevel, Cons!EndSkip,
         Cons!NextLevel, Cons!Finish
<1>a. PICK n : n = ccall.second
  OBVIOUS
<1>b. PICK m : m = ccall.first
  OBVIOUS
<1>1. /\ n \in Nat /\ m \in Nat /\ m >= 1 /\ m < n /\ n >= 1
      /\ Distinct(h, n) /\ ccall.first_root = Root(h, 0, n)
      /\ ccall.second_root = Root(h, 0, m) /\ Cons!IsPowerOf2(m)
  BY <1>a, <1>b DEF ConsistencyInv, Swapped, Grows
<1>2. ASSUME cpc' \in {"loop", "halve"}, cfn' = 0, Outgrown(h, n, csr')
      PROVE  SwapInv(h)'
  BY <1>0, <1>2, <1>a DEF SwapInv
<1>3. ASSUME cpc' = "returned", cret' = "False"
      PROVE  SwapInv(h)'
  BY <1>3 DEF SwapInv
<1>4. ASSUME cpc' = "strip"
      PROVE  SwapInv(h)'
  BY <1>4 DEF SwapInv
<1>5. CASE Cons!SameSize
  BY <1>5, <1>1, <1>a, <1>b DEF Cons!SameSize
<1>6. CASE Cons!RejectArguments
  BY <1>3, <1>6 DEF Cons!RejectArguments
<1>7. CASE Cons!Enter
  BY <1>4, <1>7 DEF Cons!Enter
<1>8. CASE Cons!StripLevel
  BY <1>4, <1>8 DEF Cons!StripLevel
<1>9. CASE Cons!Seed
  <2>1. /\ cfn \in Nat /\ cfn % 2 = 0 /\ cfn' = cfn /\ cpc' = "loop"
        /\ csr' = cpath[1] /\ cpath = GrowthTask(h, ccall).path
        /\ StripState(h, ccall, cfn, csn)
    BY <1>9 DEF Cons!Seed, ConsistencyInv
  <2>2. cfn = 0
    <3>1. Cons!IsPowerOf2(cfn + 1)
      BY <1>1, <1>b, <2>1 DEF StripState
    <3>2. cfn + 1 \in Nat /\ (cfn + 1) % 2 = 1
      BY <2>1
    <3>3. cfn + 1 = 1
      BY <3>1, <3>2, PowerOf2OfOdd
    <3> QED BY <2>1, <3>3
  <2>3. cpath[1] = Root(h, 0, n)
    <3>a. PICK S : ccall.path \in Seq(S)
      BY DEF ConsistencyInv
    <3>1. Reading(m, ccall.first_root, ccall.path)[1] = ccall.first_root
      BY <1>1, <3>a, ReadingFacts
    <3> QED BY <1>1, <1>b, <2>1, <3>1 DEF GrowthTask
  <2>4. Outgrown(h, n, csr')
    <3>1. Outgrown(h, n, Root(h, 0, n))
      BY <1>1, WholeIsOutgrown
    <3> QED BY <2>1, <2>3, <3>1
  <2> QED BY <1>2, <2>1, <2>2, <2>4
<1>10. CASE Cons!RejectLongPath
  BY <1>3, <1>10 DEF Cons!RejectLongPath
<1>11. ASSUME cpc \in {"loop", "halve"}
       PROVE  cfn = 0 /\ Outgrown(h, n, csr)
  BY <1>11, <1>a DEF SwapInv
<1>12. CASE Cons!FoldBoth
  BY <1>12, <1>11 DEF Cons!FoldBoth
<1>13. CASE Cons!FoldSecond
  <2>1. /\ cfn = 0 /\ Outgrown(h, n, csr) /\ cfn' = cfn /\ cpc' = "halve"
        /\ csr' = Node(csr, cpath[ci + 1])
    BY <1>13, <1>11 DEF Cons!FoldSecond, Node
  <2>2. Outgrown(h, n, csr')
    BY <1>1, <2>1, OutgrownNode
  <2> QED BY <1>2, <2>1, <2>2
<1>14. CASE Cons!SkipLevel
  BY <1>14 DEF Cons!SkipLevel, SwapInv
<1>15. CASE Cons!EndSkip
  BY <1>15 DEF Cons!EndSkip, SwapInv
<1>16. CASE Cons!NextLevel
  BY <1>2, <1>11, <1>16 DEF Cons!NextLevel
<1>17. CASE Cons!Finish
  <2>1. Outgrown(h, n, csr) /\ cpc' = "returned"
        /\ cret' = IF cfr = ccall.first_root /\ csr = ccall.second_root /\ csn = 0
                     THEN "True" ELSE "False"
    BY <1>17, <1>11 DEF Cons!Finish
  <2>2. m \in 1..(n - 1)
    BY <1>1
  <2>3. csr # ccall.second_root
    BY <1>1, <2>1, <2>2 DEF Outgrown
  <2> QED BY <1>3, <2>1, <2>3
<1> QED
  BY <1>5, <1>6, <1>7, <1>8, <1>9, <1>10, <1>12, <1>13, <1>14, <1>15, <1>16, <1>17
     DEF Cons!Next

----------------------------------------------------------------------------
(***************************************************************************)
(* The calls the vector check makes, and what their answers say.           *)
(***************************************************************************)
\* The path of the tree over g, the tree a fixture claims, against the root
\* of the larger tree over L: refused.
LEMMA FoldOfPartRefused ==
  ASSUME NEW L, NEW N \in Nat, Distinct(L, N),
         NEW g, NEW n \in Nat, Distinct(g, n), n < N,
         NEW c, NEW m \in Nat, c.leaf_index = m, c.tree_size = n, c.lh = L[m + 1],
         c.path = Path(g, m, 0, n), c.root = Root(L, 0, N),
         NEW answer, Answered(g, c, answer)
  PROVE  answer = "False"
<1>a. PICK k : k = Task(g, c)
  OBVIOUS
<1>1. k.path = k.list /\ k.hash = c.lh /\ k.leaf = g[m + 1] /\ k.root = Root(g, 0, n)
  BY <1>a DEF Task
<1>2. CASE m >= n
  BY <1>2 DEF Answered
<1>3. CASE m < n
  <2>1. m + 1 \in 1..N /\ m + 1 \in 1..n
    BY <1>3
  <2>2. L[m + 1] = g[m + 1]
    BY <2>1, Zenon DEF Distinct
  <2>3. Exact(k)
    BY <1>1, <2>2, Zenon DEF Exact, Good
  <2>4. c.root # k.root
    <3>1. /\ 0 \in Nat /\ n >= 1 /\ 0 + n <= n /\ N >= 1 /\ 0 + N <= N /\ n # N
      BY <1>3
    <3>2. \A len \in Nat : \A lo, l, j \in Nat :
            /\ len >= 1 /\ lo + len <= n
            /\ j >= 1 /\ l + j <= N
            /\ Root(g, lo, len) = Root(L, l, j)
            => lo = l /\ len = j
      BY RootBinds
    <3>3. Root(g, 0, n) # Root(L, 0, N)
      BY <3>1, <3>2
    <3> QED BY <1>1, <3>3
  <2>5. answer \in {"True", "False"} /\ answer # "True"
    <3>1. c.leaf_index < c.tree_size
      BY <1>3
    <3> QED BY <1>a, <2>3, <2>4, <3>1, Zenon DEF Answered
  <2> QED BY <2>5
<1> QED
  BY <1>2, <1>3

\* The path of the whole tree against its root: accepted.
LEMMA FoldOfWholeAccepted ==
  ASSUME NEW L, NEW N \in Nat, NEW c, NEW m \in Nat, m < N,
         c.leaf_index = m, c.tree_size = N, c.lh = L[m + 1],
         c.path = Path(L, m, 0, N), c.root = Root(L, 0, N),
         NEW answer, Answered(L, c, answer)
  PROVE  answer = "True"
<1>a. PICK k : k = Task(L, c)
  OBVIOUS
<1>1. /\ k.path = k.list /\ k.hash = c.lh /\ k.leaf = c.lh /\ k.root = c.root
  BY <1>a DEF Task
<1>2. Exact(k) /\ c.leaf_index < c.tree_size
  BY <1>1, Zenon DEF Exact, Good
<1> QED
  BY <1>a, <1>1, <1>2, Zenon DEF Answered

Spoiled(P) == [P EXCEPT ![1] = << 0 >>]

\* A spoiled path differs from the right one in its first element, which is no
\* node.
LEMMA SpoiledDiffers ==
  ASSUME NEW S, NEW P \in Seq(S), P # << >>, << 0 >> \notin S
  PROVE  /\ Len(Spoiled(P)) = Len(P)
         /\ Spoiled(P)[1] = << 0 >>
         /\ 1 \in 1..Len(P)
         /\ P[1] # << 0 >>
         /\ Spoiled(P) \in Seq(S \cup {<< 0 >>})
<1>1. Len(P) \in Nat /\ Len(P) >= 1 /\ DOMAIN P = 1..Len(P)
  OBVIOUS
<1>2. P[1] \in S
  BY <1>1
<1>3. DOMAIN Spoiled(P) = 1..Len(P) /\ Spoiled(P)[1] = << 0 >>
  BY <1>1 DEF Spoiled
<1>4. Spoiled(P) \in Seq(S \cup {<< 0 >>})
  BY <1>1 DEF Spoiled
<1>5. Len(Spoiled(P)) = Len(P)
  BY <1>1, <1>3, <1>4
<1> QED
  BY <1>1, <1>2, <1>3, <1>4, <1>5

\* The hashes of the nodes over the first n leaves.
NodesOver(h, n) ==
  {Root(h, s[1], s[2]) :
     s \in {t \in Nat \X Nat : t[2] >= 1 /\ t[1] + t[2] <= n}}

LEMMA NodesOverFacts ==
  ASSUME NEW h, NEW n \in Nat
  PROVE  /\ \A lo, len \in Nat : len >= 1 /\ lo + len <= n =>
              Root(h, lo, len) \in NodesOver(h, n)
         /\ Distinct(h, n) => << 0 >> \notin NodesOver(h, n)
<1>1. ASSUME NEW lo \in Nat, NEW len \in Nat, len >= 1, lo + len <= n
      PROVE  Root(h, lo, len) \in NodesOver(h, n)
  <2>1. <<lo, len>> \in {t \in Nat \X Nat : t[2] >= 1 /\ t[1] + t[2] <= n}
    BY <1>1
  <2> QED BY <2>1 DEF NodesOver
<1>2. ASSUME Distinct(h, n), << 0 >> \in NodesOver(h, n)
      PROVE  FALSE
  <2>1. PICK lo \in Nat, len \in Nat :
          len >= 1 /\ lo + len <= n /\ << 0 >> = Root(h, lo, len)
    BY <1>2 DEF NodesOver
  <2> QED BY <1>2, <2>1, RootIsNotJunk
<1> QED
  BY <1>1, <1>2

\* What the generators print is made of nodes over the first n leaves.
LEMMA PathOver ==
  ASSUME NEW h, NEW n \in Nat, NEW m \in Nat, m < n
  PROVE  Path(h, m, 0, n) \in Seq(NodesOver(h, n))
<1>1. \A l, k \in Nat : k >= 1 /\ l + k <= n => Root(h, l, k) \in NodesOver(h, n)
  BY NodesOverFacts
<1>2. 0 \in Nat /\ 0 + n <= n
  OBVIOUS
<1>3. \A len \in Nat : \A x, lo \in Nat : x < len /\ lo + len <= n =>
        Path(h, x, lo, len) \in Seq(NodesOver(h, n))
  BY <1>1, PathInSlice
<1> QED
  BY <1>2, <1>3

LEMMA ProofOver ==
  ASSUME NEW h, NEW n \in Nat, NEW m \in Nat, m >= 1, m <= n
  PROVE  Proof(h, m, Yes, 0, n) \in Seq(NodesOver(h, n))
<1>1. \A l, k \in Nat : k >= 1 /\ l + k <= n => Root(h, l, k) \in NodesOver(h, n)
  BY NodesOverFacts
<1>2. 0 \in Nat /\ 0 + n <= n
  OBVIOUS
<1>3. \A len \in Nat : \A x, lo \in Nat : \A b \in Flag :
        x >= 1 /\ x <= len /\ lo + len <= n =>
          Proof(h, x, b, lo, len) \in Seq(NodesOver(h, n))
  BY <1>1, ProofInSlice
<1> QED
  BY <1>2, <1>3, YesIsFlag

\* With its first element spoiled it is refused.
LEMMA FoldOfSpoiledRefused ==
  ASSUME NEW L, NEW N \in Nat, Distinct(L, N), NEW c, NEW m \in Nat, m < N,
         c.leaf_index = m, c.tree_size = N, Path(L, m, 0, N) # << >>,
         c.path = Spoiled(Path(L, m, 0, N)), c.root = Root(L, 0, N),
         NEW answer, Answered(L, c, answer)
  PROVE  answer = "False"
<1>a. PICK k : k = Task(L, c)
  OBVIOUS
<1>b. PICK P : P = Path(L, m, 0, N)
  OBVIOUS
<1>1. k.path = Spoiled(P) /\ k.list = P /\ k.root = c.root
  BY <1>a, <1>b DEF Task
<1>2. P \in Seq(NodesOver(L, N)) /\ << 0 >> \notin NodesOver(L, N) /\ P # << >>
  BY <1>b, PathOver, NodesOverFacts
<1>3. Spoiled(P)[1] = << 0 >> /\ 1 \in 1..Len(P) /\ P[1] # << 0 >>
  BY <1>2, SpoiledDiffers
<1>4. ~Exact(k)
  BY <1>1, <1>3, Zenon DEF Exact, Good
<1>5. c.leaf_index < c.tree_size
  OBVIOUS
<1>6. answer \in {"True", "False"} /\ answer # "True"
  BY <1>a, <1>1, <1>4, <1>5, Zenon DEF Answered
<1> QED
  BY <1>6

\* The generator's proof between the roots of both trees: accepted.
LEMMA GrowthAccepted ==
  ASSUME NEW h, NEW n \in Nat, NEW c, NEW m \in Nat, m >= 1, m < n,
         c.first = m, c.second = n, c.path = Proof(h, m, Yes, 0, n),
         c.first_root = Root(h, 0, m), c.second_root = Root(h, 0, n),
         NEW answer, Replied(h, c, answer)
  PROVE  answer = "True"
<1>a. PICK k : k = GrowthTask(h, c)
  OBVIOUS
<1>1. /\ k.path = k.list /\ k.hash = k.leaf /\ k.root = c.second_root
      /\ k.first = c.first_root
  BY <1>a DEF GrowthTask
<1>2. Exact(k)
  BY <1>1, Zenon DEF Exact, Good
<1>3. Grows(c)
  BY DEF Grows
<1> QED
  BY <1>a, <1>1, <1>2, <1>3, Zenon DEF Replied

\* With its first element spoiled: refused.
LEMMA GrowthOfSpoiledRefused ==
  ASSUME NEW h, NEW n \in Nat, Distinct(h, n), NEW c, NEW m \in Nat, m >= 1, m < n,
         c.first = m, c.second = n, c.path = Spoiled(Proof(h, m, Yes, 0, n)),
         Proof(h, m, Yes, 0, n) # << >>, c.second_root = Root(h, 0, n),
         NEW answer, Replied(h, c, answer)
  PROVE  answer = "False"
<1>a. PICK k : k = GrowthTask(h, c)
  OBVIOUS
<1>b. PICK P : P = Proof(h, m, Yes, 0, n)
  OBVIOUS
<1>c. PICK Q : Q = Spoiled(P)
  OBVIOUS
<1>1. /\ k.path = Reading(m, c.first_root, Q) /\ k.list = Reading(m, Root(h, 0, m), P)
      /\ k.root = c.second_root
  BY <1>a, <1>b, <1>c DEF GrowthTask
<1>2. P \in Seq(NodesOver(h, n)) /\ << 0 >> \notin NodesOver(h, n) /\ P # << >>
  BY <1>b, ProofOver, NodesOverFacts
<1>3. /\ Q[1] = << 0 >> /\ 1 \in 1..Len(P) /\ P[1] # << 0 >>
      /\ Q \in Seq(NodesOver(h, n) \cup {<< 0 >>}) /\ Len(Q) = Len(P)
  BY <1>2, <1>c, SpoiledDiffers
<1>4. ASSUME Exact(k)
      PROVE  FALSE
  <2>1. \A j \in 1..Len(k.list) : k.path[j] = k.list[j]
    BY <1>4 DEF Exact, Good
  <2>2. CASE Cons!IsPowerOf2(m)
    <3>1. /\ Len(k.list) = 1 + Len(P)
          /\ k.path[1 + 1] = Q[1] /\ k.list[1 + 1] = P[1]
      BY <1>1, <1>2, <1>3, <2>2, ReadingFacts
    <3>2. 1 + 1 \in 1..Len(k.list)
      BY <1>3, <3>1
    <3> QED BY <1>3, <2>1, <3>1, <3>2
  <2>3. CASE ~Cons!IsPowerOf2(m)
    <3>1. k.path = Q /\ k.list = P
      BY <1>1, <1>2, <1>3, <2>3, ReadingFacts
    <3> QED BY <1>3, <2>1, <3>1
  <2> QED BY <2>2, <2>3
<1>5. Grows(c)
  BY DEF Grows
<1>6. answer \in {"True", "False"} /\ answer # "True"
  BY <1>a, <1>1, <1>4, <1>5, Zenon DEF Replied
<1> QED
  BY <1>6

\* With the two roots exchanged, when the first size is no power of two:
\* refused.
LEMMA SwapOfOtherRefused ==
  ASSUME NEW h, NEW n \in Nat, Distinct(h, n), NEW c, NEW m \in Nat, m >= 1, m < n,
         ~Cons!IsPowerOf2(m),
         c.first = m, c.second = n, c.path = Proof(h, m, Yes, 0, n),
         c.second_root = Root(h, 0, m),
         NEW answer, Replied(h, c, answer)
  PROVE  answer = "False"
<1>a. PICK k : k = GrowthTask(h, c)
  OBVIOUS
<1>b. PICK P : P = Proof(h, m, Yes, 0, n)
  OBVIOUS
<1>1. /\ k.path = Reading(m, c.first_root, P) /\ k.list = Reading(m, Root(h, 0, m), P)
      /\ k.hash = k.path[1] /\ k.leaf = k.list[1] /\ k.root = Root(h, 0, n)
  BY <1>a, <1>b DEF GrowthTask
<1>2. P \in Seq(NodesOver(h, n))
  BY <1>b, ProofOver
<1>3. k.path = P /\ k.list = P
  BY <1>1, <1>2, ReadingFacts
<1>4. Exact(k)
  BY <1>1, <1>3, Zenon DEF Exact, Good
<1>8. Grows(c)
  BY DEF Grows
<1>5. Root(h, 0, m) # Root(h, 0, n)
  <2>1. \A len \in Nat : \A lo, l, j \in Nat :
          /\ len >= 1 /\ lo + len <= n
          /\ j >= 1 /\ l + j <= n
          /\ Root(h, lo, len) = Root(h, l, j)
          => lo = l /\ len = j
    BY RootBinds
  <2>2. 0 \in Nat /\ 0 + m <= n /\ n >= 1 /\ 0 + n <= n /\ m # n
    OBVIOUS
  <2> QED BY <2>1, <2>2
<1>6. c.second_root # k.root
  BY <1>1, <1>5, Zenon
<1>7. answer \in {"True", "False"} /\ answer # "True"
  BY <1>a, <1>4, <1>6, <1>8, Zenon DEF Replied
<1> QED
  BY <1>7

----------------------------------------------------------------------------
(***************************************************************************)
(* The check of one vector.                                                *)
(***************************************************************************)
\* What the comparison of the pinned path has shown before the first fold.
ComparedPath ==
  /\ vector.proof.present
  /\ Readable({"log_inclusion"})
  /\ vector.proof.m < Size
  /\ vector.proof.path = PATH(vector.proof.m, Prefix(vector.proof.n))

\* What an accepted fold adds: the tree it was for is the whole tree.
WholeTree == vector.proof.m < vector.proof.n /\ Size <= vector.proof.n

\* What the comparison of the pinned proof has shown before the first call.
ComparedProof ==
  /\ Readable({"consistency_path"})
  /\ 0 < vector.proof.m
  /\ vector.proof.m <= Len(Prefix(vector.proof.n))
  /\ vector.proof.path = ConsistencyProof(vector.proof.m, Prefix(vector.proof.n))

InclusionCall(path) ==
  [lh |-> LeafHashes[vector.proof.m + 1],
   leaf_index |-> vector.proof.m, tree_size |-> vector.proof.n,
   path |-> path, root |-> MTH(LeafHashes)]

ConsistencyCall(path, firstRoot, secondRoot) ==
  [first |-> vector.proof.m, second |-> vector.proof.n, path |-> path,
   first_root |-> firstRoot, second_root |-> secondRoot]

Folding == {"fold", "fold tampered"}
Verifying == {"verify", "verify tampered", "verify swapped"}

\* What the leaves branch has compared when it stands at a stage, and what
\* the consistency branch has.
LeavesInv ==
  /\ stage = "start" => leaf = 0
  /\ stage \in {"leaf", "tree", "checkpoint", "assembled", "path"} \cup Folding =>
       /\ vector.branch = "leaves"
       /\ \A k \in 1..leaf : vector.leaves[k]
       /\ leaf > 0 => Readable({"producer_key"})
       /\ stage # "leaf" => leaf = Size
  /\ stage \in {"checkpoint", "assembled", "path"} \cup Folding =>
       ~Deviates("root_hash") /\ ~Deviates("empty_tree_root_hash")
  /\ stage \in {"assembled", "path"} \cup Folding =>
       vector.key = "right" /\ vector.version
  /\ stage \in {"path"} \cup Folding => ~Deviates("log_checkpoint")

GrowthInv ==
  /\ stage \in {"roots", "first root", "second root", "checkpoints", "proof"}
               \cup Verifying =>
       vector.branch = "consistency"
  /\ stage \in {"first root", "second root", "checkpoints", "proof"}
               \cup Verifying =>
       /\ Readable({"leaf_hashes", "tree_sizes"})
       /\ ~Deviates("first_root_hash") /\ ~Deviates("second_root_hash")
  /\ stage \in {"second root", "checkpoints", "proof"} \cup Verifying =>
       Readable({"first_root"}) /\ "first" \in vector.rooted
  /\ stage \in {"checkpoints", "proof"} \cup Verifying =>
       Readable({"second_root"}) /\ vector.rooted = {"first", "second"}
  /\ stage \in {"proof"} \cup Verifying =>
       /\ vector.key = "right" /\ vector.version
       /\ ~Deviates("first_checkpoint_hash")
       /\ ~Deviates("second_checkpoint_hash")

FoldInv ==
  stage \in Folding =>
    /\ ComparedPath
    /\ icall = InclusionCall(IF stage = "fold" THEN vector.proof.path
                             ELSE Tampered(vector.proof.path))
    /\ \E h : h = Prefix(vector.proof.n) /\ InclusionInv(h)
    /\ stage = "fold tampered" => WholeTree /\ vector.proof.path # << >>

VerifyInv ==
  stage \in Verifying =>
    /\ ComparedProof
    /\ ccall = IF stage = "verify swapped"
                 THEN ConsistencyCall(vector.proof.path,
                                      MTH(Prefix(vector.proof.n)),
                                      MTH(Prefix(vector.proof.m)))
               ELSE ConsistencyCall(IF stage = "verify" THEN vector.proof.path
                                    ELSE Tampered(vector.proof.path),
                                    MTH(Prefix(vector.proof.m)),
                                    MTH(Prefix(vector.proof.n)))
    /\ stage # "verify" => vector.proof.path # << >>
    /\ \E h : /\ h = Prefix(vector.proof.n)
              /\ ConsistencyInv(h)
              /\ stage = "verify swapped" /\ Swapped(h, ccall) => SwapInv(h)

\* What AcceptedIsProved promises of the vector.
ProvedVector ==
  /\ vector.key = "right" /\ vector.version
  /\ vector.branch = "leaves" =>
       /\ \A k \in 1..Size : vector.leaves[k]
       /\ Size > 0 => Readable({"producer_key"})
       /\ ~Deviates("root_hash") /\ ~Deviates("log_checkpoint")
       /\ vector.proof.present =>
            /\ Readable({"log_inclusion"})
            /\ vector.proof.m < Size
            /\ vector.proof.path = PATH(vector.proof.m, LeafHashes)
  /\ vector.branch = "consistency" =>
       /\ Readable({"leaf_hashes", "tree_sizes", "first_root",
                    "second_root", "consistency_path"})
       /\ vector.rooted = {"first", "second"}
       /\ 0 < vector.proof.m /\ vector.proof.m < vector.proof.n
       /\ ~Deviates("first_checkpoint_hash")
       /\ ~Deviates("second_checkpoint_hash")

\* The answer value is one the vector deserves.
Outcome(value) ==
  /\ value \in {"True", "False", "raised"}
  /\ Golden => value = "True"
  /\ value = "True" => ProvedVector
  /\ value = "raised" => Fault

\* The inductive invariant.
IInv ==
  /\ vector \in Vectors
  /\ TypeOK
  /\ result = "none" <=> stage # "returned"
  /\ LeavesInv
  /\ GrowthInv
  /\ FoldInv
  /\ VerifyInv
  /\ stage = "returned" => \E value : value = result /\ Outcome(value)

\* The vector never changes, and neither does what is said of it alone.
LEMMA VectorFixed ==
  ASSUME vector' = vector
  PROVE  /\ Size' = Size
         /\ LeafHashes' = LeafHashes
         /\ Prefix(vector.proof.n)' = Prefix(vector.proof.n)
         /\ \A name : Deviates(name)' <=> Deviates(name)
         /\ Golden' <=> Golden
         /\ ProvedVector' <=> ProvedVector
         /\ \A members : Readable(members)' <=> Readable(members)
         /\ Fault' <=> Fault
         /\ ComparedPath' <=> ComparedPath
         /\ ComparedProof' <=> ComparedProof
         /\ WholeTree' <=> WholeTree
<1> USE DEF Size, LeafHashes, Incl!LeafHash, Prefix, Deviates, Pinned, Readable
<1>1. Size' = Size
  OBVIOUS
<1>2. LeafHashes' = LeafHashes
  OBVIOUS
<1>3. Prefix(vector.proof.n)' = Prefix(vector.proof.n)
  OBVIOUS
<1>4. \A name : Deviates(name)' <=> Deviates(name)
  OBVIOUS
<1>5. Golden' <=> Golden
  BY DEF Golden, GoldenProof
<1>6. ProvedVector' <=> ProvedVector
  BY DEF ProvedVector
<1>7. Fault' <=> Fault
  BY DEF Fault, LeavesFault, ConsistencyFault
<1>8. ComparedPath' <=> ComparedPath
  BY DEF ComparedPath
<1>9. ComparedProof' <=> ComparedProof
  BY DEF ComparedProof
<1>10. WholeTree' <=> WholeTree
  BY DEF WholeTree
<1>11. \A members : Readable(members)' <=> Readable(members)
  OBVIOUS
<1> QED
  BY <1>1, <1>2, <1>3, <1>4, <1>5, <1>6, <1>7, <1>8, <1>9, <1>10, <1>11

\* The leaf hashes of a tree of N leaves, and their first n.
Numbered(L, N) == L = [k \in 1..N |-> <<k>>]
Cut(L, n, g) == g = SubSeq(L, 1, IF n < Len(L) THEN n ELSE Len(L))

\* The tree a fixture claims is cut from the one its leaves make.
LEMMA CutFacts ==
  ASSUME NEW N \in Nat, NEW L, Numbered(L, N),
         NEW n \in Nat, NEW g, Cut(L, n, g)
  PROVE  /\ Len(L) = N
         /\ Distinct(L, N)
         /\ n < N => Len(g) = n
         /\ n >= N => g = L
         /\ Len(g) \in Nat /\ Len(g) <= n /\ Len(g) <= N
         /\ \A j \in 1..Len(g) : g[j] = L[j]
         /\ Distinct(g, Len(g))
<1>1. Len(L) = N /\ L \in Seq({<<k>> : k \in 1..N})
  BY DEF Numbered
<1>2. Distinct(L, N)
  BY DEF Numbered, Distinct
<1>3. CASE n < N
  <2>1. g = SubSeq(L, 1, n)
    BY <1>1, <1>3 DEF Cut
  <2>2. Len(g) = n /\ \A j \in 1..n : g[j] = L[j]
    BY <1>1, <1>3, <2>1
  <2>3. \A j \in 1..n : j \in 1..N
    BY <1>3
  <2> QED BY <1>1, <1>2, <1>3, <2>2, <2>3 DEF Distinct
<1>4. CASE n >= N
  <2>1. g = SubSeq(L, 1, N)
    BY <1>1, <1>4 DEF Cut
  <2>2. g = L
    BY <1>1, <2>1
  <2>3. Len(g) = N /\ Distinct(g, Len(g)) /\ \A j \in 1..Len(g) : g[j] = L[j]
    BY <1>1, <1>2, <2>2, Zenon
  <2>4. N <= n /\ N <= N
    BY <1>4
  <2> QED BY <1>1, <1>2, <1>4, <2>2, <2>3, <2>4
<1> QED
  BY <1>3, <1>4

\* The trees of the vector.
LEMMA VectorTrees ==
  ASSUME vector \in Vectors
  PROVE  /\ Size \in Nat /\ vector.proof.m \in Nat /\ vector.proof.n \in Nat
         /\ Len(LeafHashes) = Size
         /\ Distinct(LeafHashes, Size)
         /\ \A n \in Nat :
              /\ n < Size => Len(Prefix(n)) = n
              /\ n >= Size => Prefix(n) = LeafHashes
              /\ Len(Prefix(n)) \in Nat /\ Len(Prefix(n)) <= n
              /\ Len(Prefix(n)) <= Size
              /\ \A j \in 1..Len(Prefix(n)) : Prefix(n)[j] = LeafHashes[j]
              /\ Distinct(Prefix(n), Len(Prefix(n)))
<1>1. Size \in Nat /\ vector.proof.m \in Nat /\ vector.proof.n \in Nat
  BY VectorsAssumption DEF Size
<1>2. LeafHashes = [k \in 1..Size |-> <<k>>]
  BY DEF LeafHashes, Incl!LeafHash, Size
<1>3. \A n \in Nat : Prefix(n) =
        SubSeq(LeafHashes, 1, IF n < Len(LeafHashes) THEN n ELSE Len(LeafHashes))
  BY DEF Prefix
<1>4. ASSUME NEW n \in Nat
      PROVE  /\ Len(LeafHashes) = Size
             /\ Distinct(LeafHashes, Size)
             /\ n < Size => Len(Prefix(n)) = n
             /\ n >= Size => Prefix(n) = LeafHashes
             /\ Len(Prefix(n)) \in Nat /\ Len(Prefix(n)) <= n
             /\ Len(Prefix(n)) <= Size
             /\ \A j \in 1..Len(Prefix(n)) : Prefix(n)[j] = LeafHashes[j]
             /\ Distinct(Prefix(n), Len(Prefix(n)))
  <2>a. PICK N \in Nat : N = Size
    BY <1>1
  <2>b. PICK L : L = LeafHashes
    OBVIOUS
  <2>c. PICK g : g = Prefix(n)
    OBVIOUS
  <2>1. Numbered(L, N) /\ Cut(L, n, g)
    BY <1>2, <1>3, <2>a, <2>b, <2>c DEF Numbered, Cut
  <2>2. /\ Len(L) = N
        /\ Distinct(L, N)
        /\ n < N => Len(g) = n
        /\ n >= N => g = L
        /\ Len(g) \in Nat /\ Len(g) <= n /\ Len(g) <= N
        /\ \A j \in 1..Len(g) : g[j] = L[j]
        /\ Distinct(g, Len(g))
    BY <2>1, CutFacts
  <2> QED BY <2>a, <2>b, <2>c, <2>2
<1>5. 0 \in Nat
  OBVIOUS
<1> QED
  BY <1>1, <1>4, <1>5

\* The roots the check computes are roots of one list.
LEMMA RootsOfPrefix ==
  ASSUME vector \in Vectors, NEW n \in Nat, NEW m \in Nat,
         1 <= m, m <= Len(Prefix(n))
  PROVE  /\ MTH(Prefix(m)) = Root(Prefix(n), 0, m)
         /\ MTH(Prefix(n)) = Root(Prefix(n), 0, Len(Prefix(n)))
<1>a. PICK g : g = Prefix(n)
  OBVIOUS
<1>b. PICK f : f = Prefix(m)
  OBVIOUS
<1>c. PICK l : l = Len(g)
  OBVIOUS
<1>1. /\ l \in Nat /\ l >= 1 /\ m <= l /\ 0 \in Nat /\ 0 + m <= m
      /\ Len(f) = m
      /\ \A j \in 1..m : f[j] = g[j]
  <2>1. l \in Nat /\ l <= Size /\ m <= l
    BY <1>a, <1>c, VectorTrees
  <2>2. Len(f) = m /\ \A j \in 1..m : f[j] = LeafHashes[j]
    <3>1. m < Size \/ m = Size
      BY <2>1, VectorTrees
    <3>2. CASE m < Size
      <4>1. Len(f) = m /\ \A j \in 1..Len(f) : f[j] = LeafHashes[j]
        BY <3>2, <1>b, VectorTrees
      <4> QED BY <4>1
    <3>3. CASE m = Size
      <4>1. f = LeafHashes /\ Len(f) = Size
        BY <3>3, <1>b, VectorTrees
      <4> QED BY <3>3, <4>1
    <3> QED BY <3>1, <3>2, <3>3
  <2>3. \A j \in 1..l : g[j] = LeafHashes[j]
    BY <1>a, <1>c, VectorTrees
  <2>4. \A j \in 1..m : j \in 1..l
    BY <2>1
  <2> QED BY <2>1, <2>2, <2>3, <2>4
<1>2. MTH(f) = Root(f, 0, m)
  BY <1>1 DEF MTH, Root
<1>3. Root(f, 0, m) = Root(g, 0, m)
  <2>1. \A len \in Nat : \A lo \in Nat : len >= 1 /\ lo + len <= m =>
          Root(f, lo, len) = Root(g, lo, len)
    BY <1>1, RootLocal
  <2> QED BY <1>1, <2>1
<1>4. MTH(g) = Root(g, 0, l)
  BY <1>1, <1>c DEF MTH, Root
<1> QED
  BY <1>a, <1>b, <1>c, <1>2, <1>3, <1>4

LEMMA Initial ==
  ASSUME Init
  PROVE  IInv
<1>1. vector \in Vectors /\ stage = "start" /\ leaf = 0 /\ result = "none"
  BY DEF Init
<1>2. Size \in Nat
  BY <1>1, VectorTrees
<1>3. TypeOK
  BY <1>1, <1>2 DEF TypeOK, Size
<1> QED
  BY <1>1, <1>3 DEF IInv, LeavesInv, GrowthInv, FoldInv, VerifyInv, Folding, Verifying

\* A step that returns.
LEMMA Returns ==
  ASSUME IInv, NEW value, Return(value), Outcome(value)
  PROVE  IInv'
<1>1. /\ vector' = vector /\ leaf' = leaf /\ stage' = "returned" /\ result' = value
  BY DEF Return
<1>2. value \in {"True", "False", "raised"}
  BY DEF Outcome
<1>3. TypeOK'
  BY <1>1, <1>2 DEF IInv, TypeOK
<1>4. Outcome(value)'
  BY <1>1, VectorFixed DEF Outcome
<1>5. LeavesInv' /\ GrowthInv' /\ FoldInv' /\ VerifyInv'
  BY <1>1 DEF LeavesInv, GrowthInv, FoldInv, VerifyInv, Folding, Verifying
<1> QED
  BY <1>1, <1>2, <1>3, <1>4, <1>5 DEF IInv

\* A step to the next comparison.
LEMMA Goes ==
  ASSUME IInv, stage # "returned", NEW next, vector' = vector, stage' = next,
         result' = result,
         next \in {"leaf", "tree", "checkpoint", "assembled", "path",
                   "roots", "first root", "second root", "checkpoints", "proof"},
         leaf' \in 0..Size, LeavesInv', GrowthInv'
  PROVE  IInv'
<1>1. TypeOK'
  BY DEF IInv, TypeOK, Size
<1>2. FoldInv' /\ VerifyInv'
  BY DEF FoldInv, VerifyInv, Folding, Verifying
<1>3. result' = "none" /\ stage' # "returned"
  BY DEF IInv
<1> QED
  BY <1>1, <1>2, <1>3 DEF IInv

\* What was compared stays compared while a verifier runs.
LEMMA StaysCompared ==
  ASSUME IInv, vector' = vector, leaf' = leaf,
         \/ stage \in {"path"} \cup Folding /\ stage' \in Folding
         \/ stage \in {"proof"} \cup Verifying /\ stage' \in Verifying
  PROVE  LeavesInv' /\ GrowthInv' /\ stage' \in Folding \cup Verifying
<1>1. \A name : Deviates(name)' <=> Deviates(name)
  BY VectorFixed
<1>2. Size' = Size /\ \A members : Readable(members)' <=> Readable(members)
  BY VectorFixed
<1> QED
  BY <1>1, <1>2 DEF IInv, LeavesInv, GrowthInv, Folding, Verifying

\* A call of a verifier: its locals start anew, the arguments are those of the
\* stage it is made for.
LEMMA Calls ==
  ASSUME IInv, stage # "returned", vector' = vector, leaf' = leaf,
         result' = result, stage' \in Folding \cup Verifying,
         LeavesInv', GrowthInv', FoldInv', VerifyInv'
  PROVE  IInv'
<1>1. TypeOK'
  BY DEF IInv, TypeOK, Folding, Verifying
<1>2. result' = "none" /\ stage' # "returned"
  BY DEF IInv, Folding, Verifying
<1> QED
  BY <1>1, <1>2 DEF IInv

LEMMA CallsInclusion ==
  ASSUME IInv, NEW path, NEW next \in Folding, CallInclusion(path, next),
         stage \in {"path"} \cup Folding,
         ComparedPath,
         path = IF next = "fold" THEN vector.proof.path
                ELSE Tampered(vector.proof.path),
         next = "fold tampered" => WholeTree /\ vector.proof.path # << >>
  PROVE  IInv'
<1>1. /\ vector' = vector /\ leaf' = leaf /\ result' = result /\ stage' = next
      /\ icall' = InclusionCall(path) /\ ipc' = "entry" /\ ii' = 0
      /\ ir' = LeafHashes[vector.proof.m + 1] /\ iret' = "none"
  BY DEF CallInclusion, InclusionCall
<1>2. LeavesInv' /\ GrowthInv' /\ stage # "returned"
  BY <1>1, StaysCompared DEF Folding
<1>3. PICK h : h = Prefix(vector.proof.n)
  OBVIOUS
<1>4. h = Prefix(vector.proof.n)'
  BY <1>1, <1>3, VectorFixed
<1>5. InclusionInv(h)'
  <2>1. vector.proof.m \in Nat /\ vector.proof.n \in Nat
    BY VectorTrees DEF IInv
  <2>2. /\ icall'.leaf_index = vector.proof.m /\ icall'.tree_size = vector.proof.n
        /\ icall'.lh = LeafHashes[vector.proof.m + 1]
    BY <1>1 DEF InclusionCall
  <2> QED BY <1>1, <2>1, <2>2 DEF InclusionInv
<1>6. ComparedPath' /\ (WholeTree' <=> WholeTree)
  BY <1>1, VectorFixed
<1>7. InclusionCall(path)' = InclusionCall(path)
  BY <1>1, VectorFixed DEF InclusionCall
<1>8. FoldInv'
  BY <1>1, <1>4, <1>5, <1>6, <1>7 DEF FoldInv, Tampered
<1>9. VerifyInv'
  BY <1>1 DEF VerifyInv, Folding, Verifying
<1> QED
  BY <1>1, <1>2, <1>8, <1>9, Calls

LEMMA CallsConsistency ==
  ASSUME IInv, NEW path, NEW firstRoot, NEW secondRoot, NEW next \in Verifying,
         CallConsistency(path, firstRoot, secondRoot, next),
         stage \in {"proof"} \cup Verifying,
         ComparedProof, \E S : path \in Seq(S),
         ConsistencyCall(path, firstRoot, secondRoot) =
           IF next = "verify swapped"
             THEN ConsistencyCall(vector.proof.path, MTH(Prefix(vector.proof.n)),
                                  MTH(Prefix(vector.proof.m)))
           ELSE ConsistencyCall(IF next = "verify" THEN vector.proof.path
                                ELSE Tampered(vector.proof.path),
                                MTH(Prefix(vector.proof.m)),
                                MTH(Prefix(vector.proof.n))),
         next # "verify" => vector.proof.path # << >>
  PROVE  IInv'
<1>1. /\ vector' = vector /\ leaf' = leaf /\ result' = result /\ stage' = next
      /\ ccall' = ConsistencyCall(path, firstRoot, secondRoot)
      /\ cpc' = "entry" /\ cpath' = path /\ ci' = 0 /\ cret' = "none"
  BY DEF CallConsistency, ConsistencyCall
<1>2. LeavesInv' /\ GrowthInv' /\ stage # "returned"
  BY <1>1, StaysCompared DEF Verifying
<1>3. PICK h : h = Prefix(vector.proof.n)
  OBVIOUS
<1>4. h = Prefix(vector.proof.n)'
  BY <1>1, <1>3, VectorFixed
<1>5. ConsistencyInv(h)' /\ SwapInv(h)'
  <2>1. vector.proof.m \in Nat /\ vector.proof.n \in Nat
    BY VectorTrees DEF IInv
  <2>2. /\ ccall'.first = vector.proof.m /\ ccall'.second = vector.proof.n
        /\ ccall'.path = path
    BY <1>1 DEF ConsistencyCall
  <2> QED BY <1>1, <2>1, <2>2 DEF ConsistencyInv, SwapInv
<1>6. ComparedProof'
  BY <1>1, VectorFixed
<1>7. VerifyInv'
  <2>1. /\ MTH(Prefix(vector.proof.m))' = MTH(Prefix(vector.proof.m))
        /\ MTH(Prefix(vector.proof.n))' = MTH(Prefix(vector.proof.n))
        /\ Tampered(vector.proof.path)' = Tampered(vector.proof.path)
        /\ vector.proof' = vector.proof
    BY <1>1 DEF Prefix, LeafHashes, Tampered
  <2>2. ccall' =
          (IF stage = "verify swapped"
             THEN ConsistencyCall(vector.proof.path, MTH(Prefix(vector.proof.n)),
                                  MTH(Prefix(vector.proof.m)))
           ELSE ConsistencyCall(IF stage = "verify" THEN vector.proof.path
                                ELSE Tampered(vector.proof.path),
                                MTH(Prefix(vector.proof.m)),
                                MTH(Prefix(vector.proof.n))))'
    BY <1>1, <2>1 DEF ConsistencyCall
  <2> QED BY <1>1, <1>4, <1>5, <1>6, <2>2 DEF VerifyInv
<1>8. FoldInv'
  BY <1>1 DEF FoldInv, Folding, Verifying
<1> QED
  BY <1>1, <1>2, <1>7, <1>8, Calls DEF Folding, Verifying

\* A right vector has every pin right, so a failed comparison refutes it.
LEMMA FailsUngolden ==
  ASSUME ~Golden
  PROVE  Outcome("False")
BY DEF Outcome

\* In a right vector everything can be read, and its proof is not degenerate.
LEMMA GoldenHasNoFault ==
  ASSUME vector \in Vectors, Fault
  PROVE  ~Golden
<1>1. Size \in Nat /\ vector.proof.m \in Nat /\ vector.proof.n \in Nat
  BY VectorTrees
<1>2. SUFFICES ASSUME Golden  PROVE FALSE
  OBVIOUS
<1>3. \A members : Readable(members)
  BY <1>2 DEF Golden, Readable
<1>4. vector.key = "right"
  BY <1>2 DEF Golden
<1>5. CASE vector.branch = "leaves"
  <2>1. vector.proof.present => vector.proof.m < Size /\ vector.proof.n = Size
    BY <1>2, <1>5 DEF Golden, GoldenProof
  <2> QED BY <1>1, <1>3, <1>4, <1>5, <2>1 DEF Fault, LeavesFault
<1>6. CASE vector.branch = "consistency"
  <2>1. /\ 0 < vector.proof.m /\ vector.proof.m < vector.proof.n
        /\ vector.proof.n <= Size
    BY <1>2, <1>6 DEF Golden, GoldenProof
  <2> QED BY <1>1, <1>3, <1>4, <1>6, <2>1 DEF Fault, ConsistencyFault
<1> QED
  BY <1>5, <1>6 DEF Fault

\* A step that raises, and why it may.
LEMMA Raises ==
  ASSUME IInv, Return("raised"), Fault
  PROVE  IInv'
<1>1. Outcome("raised")
  BY GoldenHasNoFault DEF Outcome, IInv
<1> QED
  BY <1>1, Returns

\* One lemma for each action of the check, from the entry to the last answer.
LEMMA StartStep ==
  ASSUME IInv, Start
  PROVE  IInv'
<1>0. vector.branch \in {"leaves", "consistency", "neither"}
  BY VectorsAssumption DEF IInv
<1>1. CASE vector.branch = "leaves"
  <2>1. Goto("leaf")
    BY <1>1 DEF Start
  <2>2. /\ vector' = vector /\ leaf' = 0 /\ stage' = "leaf" /\ result' = result
        /\ stage # "returned"
    BY <2>1 DEF Goto, Start, IInv, LeavesInv
  <2>3. 0 \in 0..Size /\ \A k \in 1..0 : FALSE
    BY VectorTrees DEF IInv
  <2>4. LeavesInv' /\ GrowthInv'
    BY <1>1, <2>2, <2>3 DEF LeavesInv, GrowthInv, Folding, Verifying
  <2> QED BY <2>2, <2>3, <2>4, Goes
<1>2. CASE vector.branch = "consistency"
  <2>1. Goto("roots")
    BY <1>2 DEF Start
  <2>2. /\ vector' = vector /\ leaf' = 0 /\ stage' = "roots" /\ result' = result
        /\ stage # "returned"
    BY <2>1 DEF Goto, Start, IInv, LeavesInv
  <2>3. 0 \in 0..Size
    BY VectorTrees DEF IInv
  <2>4. LeavesInv' /\ GrowthInv'
    BY <1>2, <2>2 DEF LeavesInv, GrowthInv, Folding, Verifying
  <2> QED BY <2>2, <2>3, <2>4, Goes
<1>3. CASE vector.branch = "neither"
  <2>1. Return("False")
    BY <1>3 DEF Start
  <2>2. ~Golden
    BY <1>3 DEF Golden
  <2> QED BY <2>1, <2>2, FailsUngolden, Returns
<1> QED
  BY <1>0, <1>1, <1>2, <1>3

LEMMA CheckLeafStep ==
  ASSUME IInv, CheckLeaf
  PROVE  IInv'
<1>0. /\ stage = "leaf" /\ leaf < Len(vector.leaves) /\ leaf \in 0..Size
      /\ Size \in Nat /\ vector.branch = "leaves"
      /\ \A k \in 1..leaf : vector.leaves[k]
  BY VectorTrees DEF CheckLeaf, IInv, TypeOK, LeavesInv, Size
<1>1. CASE vector.leaves[leaf + 1] /\ Readable({"producer_key"})
  <2>1. /\ leaf' = leaf + 1 /\ vector' = vector /\ stage' = "leaf"
        /\ result' = result
    BY <1>0, <1>1 DEF CheckLeaf
  <2>2. leaf + 1 \in 0..Size /\ \A k \in 1..(leaf + 1) : k \in 1..leaf \/ k = leaf + 1
    BY <1>0 DEF Size
  <2>3. \A k \in 1..(leaf + 1) : vector.leaves[k]
    BY <1>0, <1>1, <2>2, Zenon
  <2>4. Readable({"producer_key"})'
    BY <1>1, <2>1, VectorFixed
  <2>5. LeavesInv' /\ GrowthInv'
    BY <1>0, <2>1, <2>3, <2>4 DEF LeavesInv, GrowthInv, Folding, Verifying
  <2> QED BY <1>0, <2>1, <2>2, <2>5, Goes
<1>2. CASE ~vector.leaves[leaf + 1]
  <2>1. Return("False")
    BY <1>2 DEF CheckLeaf
  <2>2. leaf + 1 \in 1..Size
    BY <1>0 DEF Size
  <2>3. ~Golden
    BY <1>0, <1>2, <2>2, Zenon DEF Golden
  <2> QED BY <2>1, <2>3, FailsUngolden, Returns
<1>3. CASE vector.leaves[leaf + 1] /\ ~Readable({"producer_key"})
  <2>1. Return("raised")
    BY <1>3 DEF CheckLeaf
  <2>2. leaf = 0 /\ Size > 0
    BY <1>0, <1>3 DEF IInv, LeavesInv, Size
  <2>3. Fault
    BY <1>0, <1>3, <2>2 DEF Fault, LeavesFault
  <2> QED BY <2>1, <2>3, Raises
<1> QED
  BY <1>1, <1>2, <1>3

LEMMA LeavesDoneStep ==
  ASSUME IInv, LeavesDone
  PROVE  IInv'
<1>1. /\ stage = "leaf" /\ leaf = Size /\ leaf \in 0..Size
      /\ vector' = vector /\ leaf' = leaf /\ stage' = "tree" /\ result' = result
  BY DEF LeavesDone, Goto, IInv, TypeOK, Size
<1>2. Size' = Size /\ \A members : Readable(members)' <=> Readable(members)
  BY <1>1, VectorFixed
<1>3. LeavesInv' /\ GrowthInv'
  BY <1>1, <1>2 DEF IInv, LeavesInv, GrowthInv, Folding, Verifying
<1> QED
  BY <1>1, <1>3, Goes

\* A comparison that refutes a right vector when it fails, and is at fault
\* when it raises.
LEMMA Checks ==
  ASSUME IInv, NEW at, NEW legible, NEW holds, NEW next,
         Check(at, legible, holds, next), at # "returned",
         next \in {"leaf", "tree", "checkpoint", "assembled", "path",
                   "roots", "first root", "second root", "checkpoints", "proof"},
         ~legible => Fault,
         ~holds => ~Golden,
         legible /\ holds /\ Goto(next) => LeavesInv' /\ GrowthInv'
  PROVE  IInv'
<1>1. CASE legible /\ holds
  <2>1. Goto(next) /\ stage # "returned"
    BY <1>1 DEF Check
  <2>2. /\ vector' = vector /\ leaf' = leaf /\ stage' = next /\ result' = result
    BY <2>1 DEF Goto
  <2>3. leaf' \in 0..Size
    BY <2>2 DEF IInv, TypeOK, Size
  <2>4. LeavesInv' /\ GrowthInv'
    BY <1>1, <2>1
  <2> QED BY <2>1, <2>2, <2>3, <2>4, Goes
<1>2. CASE legible /\ ~holds
  BY <1>2, FailsUngolden, Returns DEF Check
<1>3. CASE ~legible
  BY <1>3, Raises DEF Check
<1> QED
  BY <1>1, <1>2, <1>3

\* Nothing pinned in a right vector deviates.
LEMMA PinsOfGolden ==
  ASSUME Golden
  PROVE  \A name : ~Deviates(name)
BY DEF Golden, Deviates, Pinned

\* What is said of the vector alone survives a step to the next comparison.
MovesTo(next) ==
  /\ vector' = vector /\ leaf' = leaf /\ stage' = next /\ Size' = Size
  /\ \A name : Deviates(name)' <=> Deviates(name)
  /\ \A members : Readable(members)' <=> Readable(members)

LEMMA GoesOn ==
  ASSUME NEW next, Goto(next)
  PROVE  MovesTo(next)
BY VectorFixed DEF Goto, MovesTo

\* The comparisons of the leaves branch that need no verifier.
LEMMA CheckLeavesSteps ==
  ASSUME IInv, CheckTree \/ CheckCheckpoint \/ CheckAssembled
  PROVE  IInv'
<1>1. CASE CheckTree
  <2> DEFINE holds == ~Deviates("root_hash") /\ ~Deviates("empty_tree_root_hash")
  <2>1. Check("tree", TRUE, holds, "checkpoint") /\ stage = "tree"
    BY <1>1 DEF CheckTree, Check
  <2>2. ~holds => ~Golden
    BY PinsOfGolden
  <2>3. ASSUME holds, Goto("checkpoint")
        PROVE  LeavesInv' /\ GrowthInv'
    <3>1. MovesTo("checkpoint")
      BY <2>3, GoesOn
    <3> QED BY <2>1, <2>3, <3>1
               DEF MovesTo, IInv, LeavesInv, GrowthInv, Folding, Verifying
  <2> HIDE DEF holds
  <2> QED BY <2>1, <2>2, <2>3, Checks
<1>2. CASE CheckCheckpoint
  <2> DEFINE holds == CheckpointOK("checkpoint_")
  <2>1. Check("checkpoint", SeedDecodes, holds, "assembled") /\ stage = "checkpoint"
    BY <1>2 DEF CheckCheckpoint, Check
  <2>2. ~holds => ~Golden
    BY PinsOfGolden DEF CheckpointOK, Golden
  <2>3. ASSUME holds, Goto("assembled")
        PROVE  LeavesInv' /\ GrowthInv'
    <3>1. vector.key = "right" /\ vector.version
      BY <2>3 DEF CheckpointOK
    <3>2. MovesTo("assembled")
      BY <2>3, GoesOn
    <3> QED BY <2>1, <2>3, <3>1, <3>2
               DEF MovesTo, IInv, LeavesInv, GrowthInv, Folding, Verifying
  <2>4. ~SeedDecodes => Fault
    BY <2>1 DEF SeedDecodes, Fault, LeavesFault, IInv, LeavesInv
  <2> HIDE DEF holds
  <2> QED BY <2>1, <2>2, <2>3, <2>4, Checks
<1>3. CASE CheckAssembled
  <2> DEFINE holds == ~Deviates("log_checkpoint")
  <2>1. Check("assembled", TRUE, holds, "path") /\ stage = "assembled"
    BY <1>3 DEF CheckAssembled, Check
  <2>2. ~holds => ~Golden
    BY PinsOfGolden
  <2>3. ASSUME holds, Goto("path")
        PROVE  LeavesInv' /\ GrowthInv'
    <3>1. MovesTo("path")
      BY <2>3, GoesOn
    <3> QED BY <2>1, <2>3, <3>1
               DEF MovesTo, IInv, LeavesInv, GrowthInv, Folding, Verifying
  <2> HIDE DEF holds
  <2> QED BY <2>1, <2>2, <2>3, Checks
<1> QED
  BY <1>1, <1>2, <1>3

\* The comparisons of the consistency branch that need no verifier.
LEMMA CheckGrowthSteps ==
  ASSUME IInv,
         CheckRoots \/ CheckFirstRoot \/ CheckSecondRoot \/ CheckCheckpoints
  PROVE  IInv'
<1>1. CASE CheckRoots
  <2> DEFINE legible == Readable({"leaf_hashes", "tree_sizes"})
             holds == ~Deviates("first_root_hash") /\ ~Deviates("second_root_hash")
  <2>1. Check("roots", legible, holds, "first root") /\ stage = "roots"
    BY <1>1 DEF CheckRoots, Check
  <2>2. vector.branch = "consistency"
    BY <2>1 DEF IInv, GrowthInv
  <2>3. ~holds => ~Golden
    BY PinsOfGolden
  <2>4. ~legible => Fault
    BY <2>2 DEF Fault, ConsistencyFault
  <2>5. ASSUME legible, holds, Goto("first root")
        PROVE  LeavesInv' /\ GrowthInv'
    <3>1. MovesTo("first root")
      BY <2>5, GoesOn
    <3> QED BY <2>1, <2>5, <3>1
               DEF MovesTo, IInv, LeavesInv, GrowthInv, Folding, Verifying
  <2> HIDE DEF legible, holds
  <2> QED BY <2>1, <2>3, <2>4, <2>5, Checks
<1>2. CASE CheckFirstRoot
  <2> DEFINE legible == Readable({"first_root"})
             holds == "first" \in vector.rooted
  <2>1. Check("first root", legible, holds, "second root") /\ stage = "first root"
    BY <1>2 DEF CheckFirstRoot, Check
  <2>2. /\ vector.branch = "consistency"
        /\ ~Deviates("first_root_hash") /\ ~Deviates("second_root_hash")
    BY <2>1 DEF IInv, GrowthInv
  <2>3. ~holds => ~Golden
    BY <2>2 DEF Golden, GoldenProof
  <2>4. ~legible => Fault
    BY <2>2 DEF Fault, ConsistencyFault
  <2>5. ASSUME legible, holds, Goto("second root")
        PROVE  LeavesInv' /\ GrowthInv'
    <3>1. MovesTo("second root")
      BY <2>5, GoesOn
    <3> QED BY <2>1, <2>5, <3>1
               DEF MovesTo, IInv, LeavesInv, GrowthInv, Folding, Verifying
  <2> HIDE DEF legible, holds
  <2> QED BY <2>1, <2>3, <2>4, <2>5, Checks
<1>3. CASE CheckSecondRoot
  <2> DEFINE legible == Readable({"second_root"})
             holds == "second" \in vector.rooted
  <2>1. Check("second root", legible, holds, "checkpoints") /\ stage = "second root"
    BY <1>3 DEF CheckSecondRoot, Check
  <2>2. /\ vector.branch = "consistency" /\ "first" \in vector.rooted
        /\ ~Deviates("first_root_hash") /\ ~Deviates("second_root_hash")
        /\ vector.rooted \subseteq {"first", "second"}
    BY <2>1, VectorsAssumption DEF IInv, GrowthInv
  <2>3. ~holds => ~Golden
    BY <2>2 DEF Golden, GoldenProof
  <2>4. ~legible => Fault
    BY <2>2 DEF Fault, ConsistencyFault
  <2>5. ASSUME legible, holds, Goto("checkpoints")
        PROVE  LeavesInv' /\ GrowthInv'
    <3>1. vector.rooted = {"first", "second"}
      BY <2>2, <2>5
    <3>2. MovesTo("checkpoints")
      BY <2>5, GoesOn
    <3> QED BY <2>1, <2>5, <3>1, <3>2
               DEF MovesTo, IInv, LeavesInv, GrowthInv, Folding, Verifying
  <2> HIDE DEF legible, holds
  <2> QED BY <2>1, <2>3, <2>4, <2>5, Checks
<1>4. CASE CheckCheckpoints
  <2> DEFINE holds == CheckpointOK("first_") /\ CheckpointOK("second_")
  <2>1. Check("checkpoints", SeedDecodes, holds, "proof") /\ stage = "checkpoints"
    BY <1>4 DEF CheckCheckpoints, Check
  <2>2. ~holds => ~Golden
    BY PinsOfGolden DEF CheckpointOK, Golden
  <2>3. ASSUME holds, Goto("proof")
        PROVE  LeavesInv' /\ GrowthInv'
    <3>1. /\ vector.key = "right" /\ vector.version
          /\ ~Deviates("first_checkpoint_hash")
          /\ ~Deviates("second_checkpoint_hash")
      BY <2>3 DEF CheckpointOK, CheckpointPins
    <3>2. MovesTo("proof")
      BY <2>3, GoesOn
    <3> QED BY <2>1, <2>3, <3>1, <3>2
               DEF MovesTo, IInv, LeavesInv, GrowthInv, Folding, Verifying
  <2>4. ~SeedDecodes => Fault
    BY <2>1 DEF SeedDecodes, Fault, ConsistencyFault, IInv, GrowthInv
  <2> HIDE DEF holds
  <2> QED BY <2>1, <2>2, <2>3, <2>4, Checks
<1> QED
  BY <1>1, <1>2, <1>3, <1>4

\* What a fold that has returned says of the vector.
LEMMA FoldAnswers ==
  ASSUME IInv, stage \in Folding, iret # "none"
  PROVE  /\ iret \in {"True", "False"}
         /\ stage = "fold" /\ iret = "True" => WholeTree
         /\ stage = "fold" /\ Golden => iret = "True"
         /\ stage = "fold tampered" /\ Golden => iret = "False"
         /\ WholeTree => ProvedVector
<1>a. PICK h : h = Prefix(vector.proof.n) /\ InclusionInv(h)
  BY DEF IInv, FoldInv
<1>b. PICK L : L = LeafHashes
  OBVIOUS
<1>c. PICK N : N = Size
  OBVIOUS
<1>d. PICK m : m = vector.proof.m
  OBVIOUS
<1>e. PICK n : n = vector.proof.n
  OBVIOUS
<1>f. PICK path : path = vector.proof.path
  OBVIOUS
<1>g. PICK c : c = icall
  OBVIOUS
<1>h. PICK answer : answer = iret
  OBVIOUS
<1>1. /\ N \in Nat /\ m \in Nat /\ n \in Nat /\ Len(L) = N /\ Distinct(L, N)
      /\ Distinct(h, Len(h)) /\ Len(h) \in Nat
      /\ n < N => Len(h) = n
      /\ n >= N => h = L
  BY <1>a, <1>b, <1>c, <1>d, <1>e, VectorTrees DEF IInv
<1>2. /\ m < N /\ path = PATH(m, h)
  BY <1>a, <1>c, <1>d, <1>f DEF IInv, FoldInv, ComparedPath
<1>3. /\ c.leaf_index = m /\ c.tree_size = n /\ c.lh = L[m + 1]
      /\ c.root = MTH(L)
      /\ c.path = IF stage = "fold" THEN path ELSE Tampered(path)
  <2>1. PICK p : p = IF stage = "fold" THEN vector.proof.path
                     ELSE Tampered(vector.proof.path)
    OBVIOUS
  <2>2. c = InclusionCall(p)
    BY <1>g, <2>1 DEF IInv, FoldInv
  <2>3. /\ c.leaf_index = vector.proof.m /\ c.tree_size = vector.proof.n
        /\ c.lh = LeafHashes[vector.proof.m + 1]
        /\ c.root = MTH(LeafHashes) /\ c.path = p
    BY <2>2 DEF InclusionCall
  <2>4. c.path = IF stage = "fold" THEN path ELSE Tampered(path)
    BY <1>f, <2>1, <2>3, Zenon
  <2>5. c.leaf_index = m /\ c.tree_size = n /\ c.lh = L[m + 1] /\ c.root = MTH(L)
    BY <1>b, <1>d, <1>e, <2>3
  <2> QED BY <2>4, <2>5
<1>4. Answered(h, c, answer) /\ answer \in {"True", "False"}
  BY <1>a, <1>g, <1>h DEF InclusionInv, Answered
<1>5. MTH(L) = Root(L, 0, N)
  BY <1>1, <1>2 DEF MTH, Root
<1>6. path = Path(h, m, 0, Len(h))
  BY <1>2 DEF PATH, Path
<1>7. stage = "fold" /\ answer = "True" => WholeTree
  <2> SUFFICES ASSUME stage = "fold", answer = "True"
               PROVE  m < n /\ N <= n
    BY <1>c, <1>d, <1>e DEF WholeTree
  <2>1. m < n
    BY <1>1, <1>3, <1>4 DEF Answered
  <2>2. CASE n < N
    <3>1. Len(h) = n /\ c.path = Path(h, m, 0, n) /\ c.root = Root(L, 0, N)
          /\ Distinct(h, n)
      BY <1>1, <1>3, <1>5, <1>6, <2>2
    <3>2. answer = "False"
      BY <1>1, <1>2, <1>3, <1>4, <2>2, <3>1, FoldOfPartRefused
    <3> QED BY <3>2
  <2> QED BY <1>1, <2>1, <2>2
<1>8. Golden => n = N /\ h = L
  <2>1. vector.branch = "leaves" /\ vector.proof.present
    BY DEF IInv, LeavesInv, FoldInv, ComparedPath
  <2> QED BY <1>1, <1>c, <1>e, <2>1 DEF Golden, GoldenProof
<1>9. stage = "fold" /\ Golden => answer = "True"
  <2> SUFFICES ASSUME stage = "fold", n = N, h = L
               PROVE  answer = "True"
    BY <1>8
  <2>1. c.path = Path(L, m, 0, N) /\ c.root = Root(L, 0, N) /\ c.tree_size = N
    BY <1>1, <1>3, <1>5, <1>6
  <2> QED BY <1>1, <1>2, <1>3, <1>4, <2>1, FoldOfWholeAccepted
<1>10. stage = "fold tampered" /\ Golden => answer = "False"
  <2> SUFFICES ASSUME stage = "fold tampered", n = N, h = L
               PROVE  answer = "False"
    BY <1>8
  <2>1. path # << >> /\ path = Path(L, m, 0, N)
    BY <1>1, <1>6, <1>f DEF IInv, FoldInv
  <2>2. c.path = Spoiled(Path(L, m, 0, N)) /\ c.root = Root(L, 0, N) /\ c.tree_size = N
    BY <1>1, <1>3, <1>5, <2>1 DEF Tampered, Spoiled, Incl!LeafHash
  <2> QED BY <1>1, <1>2, <1>3, <1>4, <2>1, <2>2, FoldOfSpoiledRefused
<1>11. WholeTree => ProvedVector
  <2> SUFFICES ASSUME N <= n
               PROVE  ProvedVector
    BY <1>c, <1>e DEF WholeTree
  <2>1. h = L
    BY <1>1
  <2>2. vector.proof.path = PATH(vector.proof.m, LeafHashes) /\ vector.proof.m < Size
    BY <1>2, <1>b, <1>c, <1>d, <1>f, <2>1
  <2>3. /\ vector.branch = "leaves" /\ vector.key = "right" /\ vector.version
        /\ leaf = Size /\ \A k \in 1..leaf : vector.leaves[k]
        /\ leaf > 0 => Readable({"producer_key"})
        /\ Readable({"log_inclusion"})
        /\ ~Deviates("root_hash") /\ ~Deviates("log_checkpoint")
    BY DEF IInv, LeavesInv, FoldInv, ComparedPath, Folding
  <2> QED BY <2>2, <2>3 DEF ProvedVector
<1> QED
  BY <1>4, <1>7, <1>9, <1>10, <1>11, <1>h

LEMMA NoInclusionStep ==
  ASSUME IInv, NoInclusion
  PROVE  IInv'
<1>1. /\ stage = "path" /\ ~vector.proof.present
      /\ vector.branch = "leaves" /\ vector.key = "right" /\ vector.version
      /\ leaf = Size /\ \A k \in 1..leaf : vector.leaves[k]
      /\ leaf > 0 => Readable({"producer_key"})
      /\ ~Deviates("root_hash") /\ ~Deviates("log_checkpoint")
  BY DEF NoInclusion, IInv, LeavesInv
<1>2. Outcome("True")
  BY <1>1 DEF Outcome, ProvedVector
<1> QED
  BY <1>2, Returns DEF NoInclusion

LEMMA ComparePathStep ==
  ASSUME IInv, ComparePath
  PROVE  IInv'
<1>a. PICK m : m = vector.proof.m
  OBVIOUS
<1>b. PICK n : n = vector.proof.n
  OBVIOUS
<1>1. /\ stage = "path" /\ vector.proof.present /\ vector.branch = "leaves"
      /\ Size \in Nat /\ m \in Nat /\ n \in Nat
      /\ Len(LeafHashes) = Size
      /\ n < Size => Len(Prefix(n)) = n
      /\ n >= Size => Prefix(n) = LeafHashes
  BY <1>a, <1>b, VectorTrees DEF ComparePath, IInv, LeavesInv
<1>2. Golden => /\ m < Size /\ n = Size /\ Len(Prefix(n)) # 0
                /\ vector.proof.path = PATH(m, Prefix(n))
  BY <1>1, <1>a, <1>b DEF Golden, GoldenProof
<1>3. \/ ~Readable({"log_inclusion"})
      \/ n = 0
      \/ m >= Size
      => Fault
  <2>1. /\ leaf = Size /\ \A k \in 1..leaf : vector.leaves[k]
        /\ ~Deviates("root_hash") /\ ~Deviates("empty_tree_root_hash")
        /\ vector.key = "right" /\ vector.version /\ ~Deviates("log_checkpoint")
    BY <1>1 DEF IInv, LeavesInv
  <2> QED BY <1>1, <1>a, <1>b, <2>1 DEF Fault, LeavesFault
<1>4. CASE ~Readable({"log_inclusion"})
  BY <1>3, <1>4, Raises DEF ComparePath
<1>5. CASE Readable({"log_inclusion"}) /\ Len(Prefix(n)) = 0
  <2>1. Return("raised") /\ (n = 0 \/ m >= Size)
    BY <1>1, <1>5, <1>b DEF ComparePath
  <2> QED BY <1>3, <2>1, Raises
<1>6. CASE /\ Readable({"log_inclusion"})
           /\ Len(Prefix(n)) # 0 /\ vector.proof.path # PATH(m, Prefix(n))
  <2>1. Return("False")
    BY <1>6, <1>a, <1>b DEF ComparePath
  <2> QED BY <1>2, <1>6, <2>1, FailsUngolden, Returns
<1>7. CASE /\ Readable({"log_inclusion"})
           /\ Len(Prefix(n)) # 0 /\ vector.proof.path = PATH(m, Prefix(n))
           /\ m >= Size
  <2>1. Return("raised")
    BY <1>1, <1>7, <1>a, <1>b DEF ComparePath
  <2> QED BY <1>3, <1>7, <2>1, Raises
<1>8. CASE /\ Readable({"log_inclusion"})
           /\ Len(Prefix(n)) # 0 /\ vector.proof.path = PATH(m, Prefix(n))
           /\ ~(m >= Size)
  <2>1. CallInclusion(vector.proof.path, "fold")
    BY <1>1, <1>8, <1>a, <1>b DEF ComparePath
  <2>2. ComparedPath
    BY <1>1, <1>8, <1>a, <1>b DEF ComparedPath
  <2>3. PICK path : path = vector.proof.path
    OBVIOUS
  <2> QED BY <1>1, <2>1, <2>2, <2>3, CallsInclusion DEF Folding
<1> QED
  BY <1>4, <1>5, <1>6, <1>7, <1>8

LEMMA StepInclusionStep ==
  ASSUME IInv, StepInclusion
  PROVE  IInv'
<1>1. /\ stage \in Folding /\ Incl!Next /\ vector' = vector /\ stage' = stage
      /\ leaf' = leaf /\ result' = result
  BY DEF StepInclusion, Folding
<1>2. PICK h : h = Prefix(vector.proof.n) /\ InclusionInv(h)
  BY <1>1 DEF IInv, FoldInv
<1>3. InclusionInv(h)'
  BY <1>1, <1>2, InclusionStep
<1>4. h = Prefix(vector.proof.n)'
  BY <1>1, <1>2, VectorFixed
<1>5. icall' = icall
  BY <1>1 DEF Incl!Next, Incl!RejectIndex, Incl!Enter, Incl!RejectLongPath,
         Incl!FoldLeftSibling, Incl!FoldRightSibling, Incl!SkipLevel,
         Incl!EndSkip, Incl!NextLevel, Incl!Finish, Incl!Return
<1>6. FoldInv'
  <2>1. ComparedPath' /\ (WholeTree' <=> WholeTree)
    BY <1>1, VectorFixed DEF IInv, FoldInv
  <2>2. PICK path : path = IF stage = "fold" THEN vector.proof.path
                           ELSE Tampered(vector.proof.path)
    OBVIOUS
  <2>3. icall = InclusionCall(path) /\ (stage = "fold tampered" =>
                                          WholeTree /\ vector.proof.path # << >>)
    BY <1>1, <2>2 DEF IInv, FoldInv
  <2>4. InclusionCall(path)' = InclusionCall(path)
    BY <1>1, VectorFixed DEF InclusionCall
  <2>5. path = (IF stage = "fold" THEN vector.proof.path
                ELSE Tampered(vector.proof.path))'
    BY <1>1, <2>2 DEF Tampered
  <2>6. icall' = InclusionCall(path)'
    BY <1>5, <2>3, <2>4
  <2>7. stage' = "fold tampered" => WholeTree' /\ (vector.proof.path # << >>)'
    BY <1>1, <2>1, <2>3
  <2> QED BY <1>3, <1>4, <2>1, <2>5, <2>6, <2>7 DEF FoldInv
<1>7. VerifyInv'
  BY <1>1 DEF VerifyInv, Folding, Verifying
<1>8. LeavesInv' /\ GrowthInv' /\ stage # "returned" /\ stage' \in Folding \cup Verifying
  BY <1>1, StaysCompared DEF Folding
<1> QED
  BY <1>1, <1>6, <1>7, <1>8, Calls

LEMMA FoldReturnedStep ==
  ASSUME IInv, FoldReturned
  PROVE  IInv'
<1>1. stage = "fold" /\ iret # "none" /\ stage \in Folding /\ ComparedPath
  BY DEF FoldReturned, Folding, IInv, FoldInv
<1>2. /\ iret \in {"True", "False"}
      /\ iret = "True" => WholeTree
      /\ Golden => iret = "True"
      /\ WholeTree => ProvedVector
  BY <1>1, FoldAnswers
<1>3. CASE iret = "False"
  BY <1>2, <1>3, FailsUngolden, Returns DEF FoldReturned
<1>4. CASE iret = "True" /\ vector.proof.path = << >>
  <2>1. Outcome("True")
    BY <1>2, <1>4 DEF Outcome
  <2> QED BY <1>4, <2>1, Returns DEF FoldReturned
<1>5. CASE iret = "True" /\ vector.proof.path # << >>
  <2>1. CallInclusion(Tampered(vector.proof.path), "fold tampered")
    BY <1>5 DEF FoldReturned
  <2>2. PICK path : path = Tampered(vector.proof.path)
    OBVIOUS
  <2> QED BY <1>1, <1>2, <1>5, <2>1, <2>2, CallsInclusion DEF Folding
<1> QED
  BY <1>2, <1>3, <1>4, <1>5

LEMMA TamperedFoldReturnedStep ==
  ASSUME IInv, TamperedFoldReturned
  PROVE  IInv'
<1>1. stage = "fold tampered" /\ iret # "none" /\ stage \in Folding /\ WholeTree
  BY DEF TamperedFoldReturned, Folding, IInv, FoldInv
<1>2. /\ iret \in {"True", "False"}
      /\ Golden => iret = "False"
      /\ ProvedVector
  BY <1>1, FoldAnswers
<1>3. CASE iret = "True"
  BY <1>2, <1>3, FailsUngolden, Returns DEF TamperedFoldReturned
<1>4. CASE iret = "False"
  <2>1. Outcome("True")
    BY <1>2 DEF Outcome
  <2> QED BY <1>4, <2>1, Returns DEF TamperedFoldReturned
<1> QED
  BY <1>2, <1>3, <1>4

----------------------------------------------------------------------------
\* The pinned consistency proof, once compared: it is the proof of the first
\* m leaves in the tree of the first l, and has no element only if they are
\* the same tree.
GrowsFrom(h, l, m, n, path) ==
  /\ m \in Nat /\ l \in Nat /\ n \in Nat
  /\ 1 <= m /\ m <= l /\ l <= n /\ l <= Size
  /\ l = n \/ l = Size
  /\ Distinct(h, l)
  /\ path = Proof(h, m, Yes, 0, l)
  /\ path \in Seq(NodesOver(h, l)) /\ << 0 >> \notin NodesOver(h, l)
  /\ path # << >> <=> m < l
  /\ MTH(Prefix(m)) = Root(h, 0, m) /\ MTH(h) = Root(h, 0, l)

\* What the comparison of the pinned proof has shown of the vector.
LEMMA PinnedProof ==
  ASSUME vector \in Vectors, ComparedProof,
         NEW h, h = Prefix(vector.proof.n), NEW l, l = Len(h),
         NEW m, m = vector.proof.m, NEW n, n = vector.proof.n,
         NEW path, path = vector.proof.path
  PROVE  GrowsFrom(h, l, m, n, path)
<1>1. /\ m \in Nat /\ l \in Nat /\ n \in Nat /\ Size \in Nat
      /\ l <= n /\ l <= Size /\ Distinct(h, l) /\ (l = n \/ l = Size)
  <2>1. /\ m \in Nat /\ n \in Nat /\ Size \in Nat /\ Len(LeafHashes) = Size
        /\ h = Prefix(n) /\ l = Len(Prefix(n))
    BY VectorTrees, Zenon
  <2>2. /\ n < Size => Len(Prefix(n)) = n
        /\ n >= Size => Prefix(n) = LeafHashes
        /\ Len(Prefix(n)) \in Nat /\ Len(Prefix(n)) <= n
        /\ Len(Prefix(n)) <= Size /\ Distinct(Prefix(n), Len(Prefix(n)))
    BY <2>1, VectorTrees, Zenon
  <2>3. n < Size \/ n >= Size
    BY <2>1
  <2>4. l = n \/ l = Size
    BY <2>1, <2>2, <2>3, Zenon
  <2> QED BY <2>1, <2>2, <2>4, Zenon
<1>2. 1 <= m /\ m <= l /\ path = ConsistencyProof(m, h)
  BY <1>1 DEF ComparedProof
<1>3. path = Proof(h, m, Yes, 0, l)
  BY <1>2 DEF ConsistencyProof, Proof, Yes
<1>4. path \in Seq(NodesOver(h, l)) /\ << 0 >> \notin NodesOver(h, l)
  BY <1>1, <1>2, <1>3, ProofOver, NodesOverFacts
<1>7. MTH(Prefix(m)) = Root(h, 0, m) /\ MTH(h) = Root(h, 0, l)
  BY <1>1, <1>2, RootsOfPrefix
<1>5. m < l => path # << >>
  BY <1>1, <1>2, <1>3, YesIsFlag, ProofNotEmpty
<1>6. ASSUME m = l
      PROVE  path = << >>
  <2>1. Proof(h, m, Yes, 0, m) = << >>
    <3>1. Yes /\ 0 \in Nat
      BY DEF Yes
    <3>2. m \in Nat /\ m >= 1
      BY <1>1, <1>2
    <3> QED BY <3>1, <3>2, YesIsFlag, ProofWhole, Zenon
  <2> QED BY <1>3, <1>6, <2>1, Zenon
<1> QED
  BY <1>1, <1>2, <1>3, <1>4, <1>5, <1>6, <1>7 DEF GrowsFrom

\* What a right consistency vector pins.
LEMMA GoldenGrowth ==
  ASSUME vector \in Vectors, vector.branch = "consistency", Golden,
         NEW h, h = Prefix(vector.proof.n)
  PROVE  /\ ComparedProof
         /\ vector.proof.m < vector.proof.n
         /\ Len(h) = vector.proof.n
<1>1. /\ 0 < vector.proof.m /\ vector.proof.m < vector.proof.n
      /\ vector.proof.n <= Size
      /\ vector.proof.path = ConsistencyProof(vector.proof.m, Prefix(vector.proof.n))
  BY DEF Golden, GoldenProof
<1>2. /\ vector.proof.m \in Nat /\ vector.proof.n \in Nat /\ Size \in Nat
      /\ Len(h) = vector.proof.n
  <2>1. PICK n : n = vector.proof.n
    OBVIOUS
  <2>2. /\ vector.proof.m \in Nat /\ n \in Nat /\ Size \in Nat
        /\ Len(LeafHashes) = Size
        /\ n < Size => Len(Prefix(n)) = n
        /\ n >= Size => Prefix(n) = LeafHashes
    BY <2>1, VectorTrees
  <2> QED BY <1>1, <2>1, <2>2
<1>3. Readable({"consistency_path"})
  BY DEF Golden, Readable
<1> QED
  BY <1>1, <1>2, <1>3 DEF ComparedProof

\* The three calls of the consistency verifier, as the check makes them.
LEMMA ProofAnswers ==
  ASSUME IInv, stage \in Verifying, cret # "none"
  PROVE  /\ cret \in {"True", "False"}
         /\ Golden => cret = (IF stage = "verify" THEN "True" ELSE "False")
<1>a. PICK h : /\ h = Prefix(vector.proof.n) /\ ConsistencyInv(h)
               /\ stage = "verify swapped" /\ Swapped(h, ccall) => SwapInv(h)
  BY DEF IInv, VerifyInv
<1>b. PICK l : l = Len(h)
  OBVIOUS
<1>c. PICK m : m = vector.proof.m
  OBVIOUS
<1>d. PICK n : n = vector.proof.n
  OBVIOUS
<1>e. PICK path : path = vector.proof.path
  OBVIOUS
<1>f. PICK c : c = ccall
  OBVIOUS
<1>g. PICK answer : answer = cret
  OBVIOUS
<1>h. vector \in Vectors /\ ComparedProof /\ vector.branch = "consistency"
  BY DEF IInv, VerifyInv, GrowthInv
<1>1. /\ m \in Nat /\ l \in Nat /\ n \in Nat /\ 1 <= m
      /\ Distinct(h, l)
      /\ path = Proof(h, m, Yes, 0, l)
      /\ path # << >> <=> m < l
      /\ MTH(Prefix(m)) = Root(h, 0, m) /\ MTH(h) = Root(h, 0, l)
  <2>1. GrowsFrom(h, l, m, n, path)
    BY <1>a, <1>b, <1>c, <1>d, <1>e, <1>h, PinnedProof, Zenon
  <2> QED BY <2>1 DEF GrowsFrom
<1>2. /\ cpc = "returned" /\ Replied(h, c, answer)
      /\ answer \in {"True", "False"}
  BY <1>a, <1>f, <1>g DEF ConsistencyInv, Replied
<1>3. Golden => m < n /\ l = n
  BY <1>a, <1>b, <1>c, <1>d, <1>h, GoldenGrowth
<1>4. ccall = IF stage = "verify swapped"
                THEN ConsistencyCall(vector.proof.path,
                                     MTH(Prefix(vector.proof.n)),
                                     MTH(Prefix(vector.proof.m)))
              ELSE ConsistencyCall(IF stage = "verify" THEN vector.proof.path
                                   ELSE Tampered(vector.proof.path),
                                   MTH(Prefix(vector.proof.m)),
                                   MTH(Prefix(vector.proof.n)))
  BY DEF IInv, VerifyInv
<1>5. CASE stage = "verify" /\ Golden
  <2>1. c = ConsistencyCall(path, Root(h, 0, m), Root(h, 0, l))
    BY <1>a, <1>c, <1>e, <1>f, <1>1, <1>4, <1>5
  <2>2. /\ c.first = m /\ c.second = n /\ c.path = Proof(h, m, Yes, 0, n)
        /\ c.first_root = Root(h, 0, m) /\ c.second_root = Root(h, 0, n)
    BY <1>c, <1>d, <1>1, <1>3, <1>5, <2>1 DEF ConsistencyCall
  <2>3. answer = "True"
    BY <1>1, <1>2, <1>3, <1>5, <2>2, GrowthAccepted
  <2> QED BY <1>g, <1>2, <1>5, <2>3
<1>6. CASE stage = "verify tampered" /\ Golden
  <2>1. c = ConsistencyCall(Tampered(path), Root(h, 0, m), Root(h, 0, l))
    BY <1>a, <1>c, <1>e, <1>f, <1>1, <1>4, <1>6
  <2>2. Tampered(path) = Spoiled(path)
    BY DEF Tampered, Spoiled, Incl!LeafHash
  <2>3. /\ c.first = m /\ c.second = n /\ c.path = Spoiled(Proof(h, m, Yes, 0, n))
        /\ c.second_root = Root(h, 0, n) /\ Proof(h, m, Yes, 0, n) # << >>
    BY <1>c, <1>d, <1>1, <1>3, <1>6, <2>1, <2>2 DEF ConsistencyCall
  <2>4. answer = "False"
    BY <1>1, <1>2, <1>3, <1>6, <2>3, GrowthOfSpoiledRefused
  <2> QED BY <1>g, <1>2, <1>6, <2>4
<1>7. CASE stage = "verify swapped" /\ Golden
  <2>1. c = ConsistencyCall(path, Root(h, 0, l), Root(h, 0, m))
    BY <1>a, <1>c, <1>e, <1>f, <1>1, <1>4, <1>7
  <2>2. /\ c.first = m /\ c.second = n /\ c.path = Proof(h, m, Yes, 0, n)
        /\ c.first_root = Root(h, 0, n) /\ c.second_root = Root(h, 0, m)
    BY <1>c, <1>d, <1>1, <1>3, <1>7, <2>1 DEF ConsistencyCall
  <2>3. CASE Cons!IsPowerOf2(m)
    <3>1. Swapped(h, c)
      <4>1. Grows(c)
        <5>0. m < n /\ l = n
          BY <1>3, <1>7, Zenon
        <5>1. m \in Nat /\ 1 <= m
          BY <1>1
        <5>2. 0 < m
          BY <5>1
        <5> QED BY <2>2, <5>0, <5>2, Zenon DEF Grows
      <4>2. Distinct(h, c.second)
        BY <1>1, <1>3, <1>7, <2>2
      <4> QED BY <2>2, <2>3, <4>1, <4>2, Zenon DEF Swapped
    <3>2. SwapInv(h)
      BY <1>a, <1>f, <1>7, <3>1
    <3> QED BY <1>2, <1>7, <3>2 DEF SwapInv
  <2>4. CASE ~Cons!IsPowerOf2(m)
    <3>1. answer = "False"
      BY <1>1, <1>2, <1>3, <1>7, <2>2, <2>4, SwapOfOtherRefused
    <3> QED BY <1>g, <1>7, <3>1
  <2> QED BY <1>g, <1>2, <1>7, <2>3, <2>4
<1> QED
  BY <1>g, <1>2, <1>5, <1>6, <1>7 DEF Verifying

\* What the answers are worth once the path is known to have an element.
LEMMA ProofShows ==
  ASSUME IInv, stage \in Verifying
  PROVE  /\ vector.proof.path # << >> => ProvedVector
         /\ vector.proof.path = << >> => Fault
<1>a. PICK h : h = Prefix(vector.proof.n)
  OBVIOUS
<1>b. PICK l : l = Len(h)
  OBVIOUS
<1>c. PICK m : m = vector.proof.m
  OBVIOUS
<1>d. PICK n : n = vector.proof.n
  OBVIOUS
<1>1. /\ vector \in Vectors /\ ComparedProof /\ vector.branch = "consistency"
      /\ vector.rooted = {"first", "second"}
      /\ vector.key = "right" /\ vector.version
      /\ ~Deviates("first_root_hash") /\ ~Deviates("second_root_hash")
      /\ ~Deviates("first_checkpoint_hash") /\ ~Deviates("second_checkpoint_hash")
  BY DEF IInv, VerifyInv, GrowthInv
<1>2. /\ m \in Nat /\ l \in Nat /\ n \in Nat /\ Size \in Nat
      /\ 1 <= m /\ m <= l /\ l <= n /\ (l = n \/ l = Size)
      /\ vector.proof.path # << >> <=> m < l
  <2>1. PICK path : path = vector.proof.path
    OBVIOUS
  <2>2. GrowsFrom(h, l, m, n, path)
    BY <1>a, <1>b, <1>c, <1>d, <1>1, <2>1, PinnedProof, Zenon
  <2>3. Size \in Nat
    BY <1>1, VectorTrees
  <2> QED BY <2>1, <2>2, <2>3 DEF GrowsFrom
<1>3. vector.proof.path # << >> => ProvedVector
  <2> SUFFICES ASSUME m < l
               PROVE  ProvedVector
    BY <1>2
  <2>1. 0 < m /\ m < n
    BY <1>2
  <2>2. Readable({"leaf_hashes", "tree_sizes", "first_root", "second_root",
                  "consistency_path"})
    <3>1. /\ Readable({"leaf_hashes", "tree_sizes"}) /\ Readable({"first_root"})
          /\ Readable({"second_root"}) /\ Readable({"consistency_path"})
      BY DEF IInv, VerifyInv, GrowthInv, ComparedProof
    <3> QED BY <3>1 DEF Readable
  <2> QED BY <1>c, <1>d, <1>1, <2>1, <2>2 DEF ProvedVector
<1>4. vector.proof.path = << >> => Fault
  <2> SUFFICES ASSUME ~(m < l)
               PROVE  Fault
    BY <1>2
  <2>1. m >= n \/ m >= Size
    BY <1>2
  <2> QED BY <1>c, <1>d, <1>1, <2>1 DEF Fault, ConsistencyFault
<1> QED
  BY <1>3, <1>4

LEMMA CompareProofStep ==
  ASSUME IInv, CompareProof
  PROVE  IInv'
<1>a. PICK m : m = vector.proof.m
  OBVIOUS
<1>b. PICK n : n = vector.proof.n
  OBVIOUS
<1>c. PICK h : h = Prefix(n)
  OBVIOUS
<1>1. /\ stage = "proof" /\ vector.branch = "consistency" /\ vector \in Vectors
      /\ Size \in Nat /\ m \in Nat /\ n \in Nat /\ Len(h) \in Nat
      /\ n < Size => Len(h) = n
      /\ n >= Size => Len(h) = Size
  BY <1>a, <1>b, <1>c, VectorTrees DEF CompareProof, IInv, GrowthInv
<1>2. Golden => ComparedProof
  BY <1>1, GoldenGrowth
<1>3. CASE ~Readable({"consistency_path"}) \/ ~(0 < m /\ m <= Len(h))
  <2>1. Return("raised")
    BY <1>3, <1>a, <1>b, <1>c DEF CompareProof
  <2>2. \/ ~Readable({"consistency_path"})
        \/ m = 0 \/ m >= n \/ m >= Size
    BY <1>1, <1>3
  <2>3. /\ vector.rooted = {"first", "second"}
        /\ vector.key = "right" /\ vector.version
        /\ ~Deviates("first_root_hash") /\ ~Deviates("second_root_hash")
    BY <1>1 DEF IInv, GrowthInv
  <2>4. Fault
    BY <1>1, <1>a, <1>b, <2>2, <2>3 DEF Fault, ConsistencyFault
  <2> QED BY <2>1, <2>4, Raises
<1>4. CASE /\ Readable({"consistency_path"})
           /\ 0 < m /\ m <= Len(h)
           /\ vector.proof.path # ConsistencyProof(m, h)
  <2>1. Return("False")
    BY <1>4, <1>a, <1>b, <1>c DEF CompareProof
  <2>2. ~Golden
    BY <1>2, <1>4, <1>a, <1>b, <1>c DEF ComparedProof
  <2> QED BY <2>1, <2>2, FailsUngolden, Returns
<1>5. CASE /\ Readable({"consistency_path"})
           /\ 0 < m /\ m <= Len(h)
           /\ vector.proof.path = ConsistencyProof(m, h)
  <2>1. PICK path : path = vector.proof.path
    OBVIOUS
  <2>2. PICK first : first = MTH(Prefix(m))
    OBVIOUS
  <2>3. PICK second : second = MTH(Prefix(n))
    OBVIOUS
  <2>4. CallConsistency(path, first, second, "verify")
    BY <1>5, <1>a, <1>b, <1>c, <2>1, <2>2, <2>3 DEF CompareProof
  <2>5. ComparedProof
    BY <1>5, <1>a, <1>b, <1>c DEF ComparedProof
  <2>6. GrowsFrom(h, Len(h), m, n, path)
    BY <1>a, <1>b, <1>c, <1>1, <2>1, <2>5, PinnedProof
  <2>7. \E S : path \in Seq(S)
    BY <2>6 DEF GrowsFrom
  <2>8. "verify" \in Verifying /\ stage \in {"proof"} \cup Verifying
    BY <1>1 DEF Verifying
  <2>9. ConsistencyCall(path, first, second) =
          ConsistencyCall(vector.proof.path, MTH(Prefix(vector.proof.m)),
                          MTH(Prefix(vector.proof.n)))
    BY <1>a, <1>b, <2>1, <2>2, <2>3
  <2> QED BY <2>4, <2>5, <2>7, <2>8, <2>9, CallsConsistency
<1> QED
  BY <1>3, <1>4, <1>5

LEMMA StepConsistencyStep ==
  ASSUME IInv, StepConsistency
  PROVE  IInv'
<1>1. /\ stage \in Verifying /\ Cons!Next /\ vector' = vector /\ stage' = stage
      /\ leaf' = leaf /\ result' = result
  BY DEF StepConsistency, Verifying
<1>2. PICK h : /\ h = Prefix(vector.proof.n) /\ ConsistencyInv(h)
               /\ stage = "verify swapped" /\ Swapped(h, ccall) => SwapInv(h)
  BY <1>1 DEF IInv, VerifyInv
<1>3. ccall' = ccall
  BY <1>1 DEF Cons!Next, Cons!SameSize, Cons!RejectArguments,
         Cons!Enter, Cons!StripLevel, Cons!Seed, Cons!RejectLongPath,
         Cons!FoldBoth, Cons!FoldSecond, Cons!SkipLevel, Cons!EndSkip,
         Cons!NextLevel, Cons!Finish, Cons!Return
<1>4. ConsistencyInv(h)'
  BY <1>1, <1>2, ConsistencyStep
<1>5. (stage = "verify swapped" /\ Swapped(h, ccall))' => SwapInv(h)'
  <2> SUFFICES ASSUME stage' = "verify swapped", Swapped(h, ccall')
               PROVE  SwapInv(h)'
    BY DEF Swapped
  <2>1. Swapped(h, ccall) /\ SwapInv(h)
    BY <1>1, <1>2, <1>3
  <2> QED BY <1>1, <1>2, <2>1, SwapStep
<1>6. h = Prefix(vector.proof.n)'
  BY <1>1, <1>2, VectorFixed
<1>7. VerifyInv'
  <2>1. ComparedProof'
    BY <1>1, VectorFixed DEF IInv, VerifyInv
  <2>2. PICK call : call = IF stage = "verify swapped"
             THEN ConsistencyCall(vector.proof.path, MTH(Prefix(vector.proof.n)),
                                  MTH(Prefix(vector.proof.m)))
           ELSE ConsistencyCall(IF stage = "verify" THEN vector.proof.path
                                ELSE Tampered(vector.proof.path),
                                MTH(Prefix(vector.proof.m)),
                                MTH(Prefix(vector.proof.n)))
    OBVIOUS
  <2>3. ccall = call /\ (stage # "verify" => vector.proof.path # << >>)
    BY <1>1, <2>2 DEF IInv, VerifyInv
  <2>4. /\ MTH(Prefix(vector.proof.m))' = MTH(Prefix(vector.proof.m))
        /\ MTH(Prefix(vector.proof.n))' = MTH(Prefix(vector.proof.n))
        /\ Tampered(vector.proof.path)' = Tampered(vector.proof.path)
        /\ vector.proof' = vector.proof
    BY <1>1 DEF Prefix, LeafHashes, Tampered
  <2>5. call =
          (IF stage = "verify swapped"
             THEN ConsistencyCall(vector.proof.path, MTH(Prefix(vector.proof.n)),
                                  MTH(Prefix(vector.proof.m)))
           ELSE ConsistencyCall(IF stage = "verify" THEN vector.proof.path
                                ELSE Tampered(vector.proof.path),
                                MTH(Prefix(vector.proof.m)),
                                MTH(Prefix(vector.proof.n))))'
    BY <1>1, <2>2, <2>4 DEF ConsistencyCall
  <2>6. (stage # "verify" => vector.proof.path # << >>)'
    BY <1>1, <2>3, <2>4
  <2>7. ccall' = call
    BY <1>3, <2>3
  <2> QED BY <1>4, <1>5, <1>6, <2>1, <2>5, <2>6, <2>7 DEF VerifyInv
<1>8. FoldInv'
  BY <1>1 DEF FoldInv, Folding, Verifying
<1>9. LeavesInv' /\ GrowthInv' /\ stage # "returned" /\ stage' \in Folding \cup Verifying
  BY <1>1, StaysCompared DEF Verifying
<1> QED
  BY <1>1, <1>7, <1>8, <1>9, Calls

LEMMA ProofReturnedStep ==
  ASSUME IInv, ProofReturned
  PROVE  IInv'
<1>1. stage = "verify" /\ cret # "none" /\ stage \in Verifying /\ ComparedProof
      /\ vector \in Vectors
  BY DEF ProofReturned, Verifying, IInv, VerifyInv
<1>2. /\ cret \in {"True", "False"}
      /\ Golden => cret = "True"
  BY <1>1, ProofAnswers
<1>3. CASE cret = "False"
  BY <1>2, <1>3, FailsUngolden, Returns DEF ProofReturned
<1>4. CASE cret = "True" /\ vector.proof.path = << >>
  <2>1. Fault
    BY <1>1, <1>4, ProofShows
  <2> QED BY <1>4, <2>1, Raises DEF ProofReturned
<1>5. CASE cret = "True" /\ vector.proof.path # << >>
  <2>a. PICK path : path = vector.proof.path
    OBVIOUS
  <2>b. PICK h : h = Prefix(vector.proof.n)
    OBVIOUS
  <2>c. PICK bad : bad = Tampered(path)
    OBVIOUS
  <2>d. PICK first : first = MTH(Prefix(vector.proof.m))
    OBVIOUS
  <2>e. PICK second : second = MTH(Prefix(vector.proof.n))
    OBVIOUS
  <2>1. CallConsistency(bad, first, second, "verify tampered")
    BY <1>5, <2>a, <2>c, <2>d, <2>e DEF ProofReturned
  <2>2. GrowsFrom(h, Len(h), vector.proof.m, vector.proof.n, path)
    BY <1>1, <2>a, <2>b, PinnedProof
  <2>3. \E S : bad \in Seq(S)
    <3>1. bad = Spoiled(path)
      BY <2>c DEF Tampered, Spoiled, Incl!LeafHash
    <3>2. /\ path \in Seq(NodesOver(h, Len(h))) /\ path # << >>
          /\ << 0 >> \notin NodesOver(h, Len(h))
      BY <1>5, <2>a, <2>2 DEF GrowsFrom
    <3> QED BY <3>1, <3>2, SpoiledDiffers
  <2>4. "verify tampered" \in Verifying /\ stage \in {"proof"} \cup Verifying
    BY <1>1 DEF Verifying
  <2>5. ConsistencyCall(bad, first, second) =
          ConsistencyCall(Tampered(vector.proof.path), MTH(Prefix(vector.proof.m)),
                          MTH(Prefix(vector.proof.n)))
    BY <2>a, <2>c, <2>d, <2>e
  <2> QED BY <1>1, <1>5, <2>1, <2>3, <2>4, <2>5, CallsConsistency
<1> QED
  BY <1>2, <1>3, <1>4, <1>5

LEMMA TamperedProofReturnedStep ==
  ASSUME IInv, TamperedProofReturned
  PROVE  IInv'
<1>1. stage = "verify tampered" /\ cret # "none" /\ stage \in Verifying
      /\ ComparedProof /\ vector \in Vectors /\ vector.proof.path # << >>
  BY DEF TamperedProofReturned, Verifying, IInv, VerifyInv
<1>2. /\ cret \in {"True", "False"}
      /\ Golden => cret = "False"
  BY <1>1, ProofAnswers
<1>3. CASE cret = "True"
  BY <1>2, <1>3, FailsUngolden, Returns DEF TamperedProofReturned
<1>4. CASE cret = "False"
  <2>a. PICK path : path = vector.proof.path
    OBVIOUS
  <2>b. PICK h : h = Prefix(vector.proof.n)
    OBVIOUS
  <2>c. PICK first : first = MTH(Prefix(vector.proof.m))
    OBVIOUS
  <2>d. PICK second : second = MTH(Prefix(vector.proof.n))
    OBVIOUS
  <2>1. CallConsistency(path, second, first, "verify swapped")
    BY <1>4, <2>a, <2>c, <2>d DEF TamperedProofReturned
  <2>2. GrowsFrom(h, Len(h), vector.proof.m, vector.proof.n, path)
    BY <1>1, <2>a, <2>b, PinnedProof
  <2>3. \E S : path \in Seq(S)
    BY <2>2 DEF GrowsFrom
  <2>4. "verify swapped" \in Verifying /\ stage \in {"proof"} \cup Verifying
    BY <1>1 DEF Verifying
  <2>5. ConsistencyCall(path, second, first) =
          ConsistencyCall(vector.proof.path, MTH(Prefix(vector.proof.n)),
                          MTH(Prefix(vector.proof.m)))
    BY <2>a, <2>c, <2>d
  <2> QED BY <1>1, <2>1, <2>3, <2>4, <2>5, CallsConsistency
<1> QED
  BY <1>2, <1>3, <1>4

LEMMA SwappedProofReturnedStep ==
  ASSUME IInv, SwappedProofReturned
  PROVE  IInv'
<1>1. stage = "verify swapped" /\ cret # "none" /\ stage \in Verifying
      /\ vector.proof.path # << >>
  BY DEF SwappedProofReturned, Verifying, IInv, VerifyInv
<1>2. /\ cret \in {"True", "False"}
      /\ Golden => cret = "False"
      /\ ProvedVector
  BY <1>1, ProofAnswers, ProofShows
<1>3. CASE cret = "True"
  BY <1>2, <1>3, FailsUngolden, Returns DEF SwappedProofReturned
<1>4. CASE cret = "False"
  <2>1. Outcome("True")
    BY <1>2 DEF Outcome
  <2> QED BY <1>4, <2>1, Returns DEF SwappedProofReturned
<1> QED
  BY <1>2, <1>3, <1>4
----------------------------------------------------------------------------
\* A step that changes nothing.
LEMMA StutteringStep ==
  ASSUME IInv, UNCHANGED vars
  PROVE  IInv'
<1>1. /\ vector' = vector /\ stage' = stage /\ leaf' = leaf /\ result' = result
      /\ icall' = icall /\ ipc' = ipc /\ ii' = ii /\ ifn' = ifn /\ isn' = isn
      /\ ir' = ir /\ iret' = iret
      /\ ccall' = ccall /\ cpc' = cpc /\ cpath' = cpath /\ ci' = ci /\ cfn' = cfn
      /\ csn' = csn /\ cfr' = cfr /\ csr' = csr /\ cret' = cret
  BY DEF vars, ivars, cvars
<1>2. /\ Size' = Size
      /\ Prefix(vector.proof.n)' = Prefix(vector.proof.n)
      /\ \A name : Deviates(name)' <=> Deviates(name)
      /\ \A members : Readable(members)' <=> Readable(members)
      /\ ComparedPath' <=> ComparedPath
      /\ ComparedProof' <=> ComparedProof
      /\ WholeTree' <=> WholeTree
  BY <1>1, VectorFixed
<1>3. TypeOK'
  BY <1>1 DEF IInv, TypeOK
<1>4. LeavesInv' /\ GrowthInv'
  BY <1>1, <1>2 DEF IInv, LeavesInv, GrowthInv
<1>5. FoldInv'
  BY <1>1 DEF IInv, FoldInv, ComparedPath, InclusionCall, Tampered, Prefix,
              LeafHashes, InclusionInv, WholeTree, Size, Readable
<1>6. VerifyInv'
  <2>1. \A h : ConsistencyInv(h)' <=> ConsistencyInv(h)
    BY <1>1 DEF ConsistencyInv
  <2>2. \A h : SwapInv(h)' <=> SwapInv(h)
    BY <1>1 DEF SwapInv
  <2>3. \A h : Swapped(h, ccall)' <=> Swapped(h, ccall)
    BY <1>1 DEF Swapped
  <2>4. \A path, r, s : ConsistencyCall(path, r, s)' = ConsistencyCall(path, r, s)
    BY <1>1 DEF ConsistencyCall
  <2>5. \A n : Prefix(n)' = Prefix(n)
    BY <1>1 DEF Prefix, LeafHashes, Size
  <2> QED BY <1>1, <1>2, <2>1, <2>2, <2>3, <2>4, <2>5 DEF IInv, VerifyInv, Tampered
<1>7. (stage = "returned")' => \E value : value = result' /\ Outcome(value)'
  <2>1. \A value : Outcome(value) => Outcome(value)'
    BY <1>1, VectorFixed DEF Outcome
  <2> QED BY <1>1, <2>1 DEF IInv
<1> QED
  BY <1>1, <1>3, <1>4, <1>5, <1>6, <1>7 DEF IInv

\* The invariant holds of every behaviour: the base case, the actions and the
\* stutter, each by its lemma above.
LEMMA Invariance == Spec => []IInv
<1>1. Init => IInv
  BY Initial
<1>2. IInv /\ [Next]_vars => IInv'
  <2> SUFFICES ASSUME IInv, [Next]_vars
               PROVE  IInv'
    OBVIOUS
  <2>1. CASE Next
    BY <2>1, StartStep, CheckLeafStep, LeavesDoneStep, CheckLeavesSteps,
       CheckGrowthSteps,
       NoInclusionStep, ComparePathStep, StepInclusionStep, FoldReturnedStep,
       TamperedFoldReturnedStep, CompareProofStep, StepConsistencyStep,
       ProofReturnedStep, TamperedProofReturnedStep, SwappedProofReturnedStep
       DEF Next
  <2>2. CASE UNCHANGED vars
    BY <2>2, StutteringStep
  <2> QED BY <2>1, <2>2
<1> QED
  BY <1>1, <1>2, PTL DEF Spec

\* A vector whose every member is right passes check_log_vector, whatever the
\* size of its tree and whichever proof it carries: the generator's path or
\* proof is accepted, the tampered one and the exchanged roots are refused.
THEOREM GoldenVectorAccepted == Spec => []GoldenAccepted
<1>1. IInv => GoldenAccepted
  BY DEF IInv, TypeOK, Outcome, GoldenAccepted
<1> QED
  BY <1>1, Invariance, PTL

\* A vector check_log_vector accepts shows what it claims: its path is the one
\* of that leaf in the whole tree, though the check compares it with the path
\* in the tree cut at the size the vector names; its consistency proof lies
\* between two different sizes.
THEOREM AcceptedVectorProved == Spec => []AcceptedIsProved
<1>1. IInv => AcceptedIsProved
  BY DEF IInv, TypeOK, Outcome, ProvedVector, AcceptedIsProved
<1> QED
  BY <1>1, Invariance, PTL

\* check_log_vector raises, and so ends the whole run, only at a member it
\* cannot read or a proof that is degenerate, in the branch it took, and only
\* when everything it compares before is right.
THEOREM OnlyFaultsRaise == Spec => []RaisesOnlyOnFault
<1>1. IInv => RaisesOnlyOnFault
  BY DEF IInv, TypeOK, Outcome, RaisesOnlyOnFault
<1> QED
  BY <1>1, Invariance, PTL

----------------------------------------------------------------------------
(***************************************************************************)
(* The two verifiers on their own, called with any arguments for the tree  *)
(* over Hashes: they implement Decision.                                   *)
(***************************************************************************)
CONSTANTS
  Hash,             \* what may stand in a path
  Hashes            \* the leaf hashes of the tree whose root is passed

InclusionClaim ==
  /\ icall.leaf_index < icall.tree_size
  /\ icall.lh = Hashes[icall.leaf_index + 1]
  /\ icall.path = PATH(icall.leaf_index, Hashes)

InclusionArguments ==
  /\ icall.leaf_index \in Nat
  /\ icall.tree_size = Len(Hashes)
  /\ icall.path \in Seq(Hash)
  /\ icall.root = MTH(Hashes)

InclusionRun == InclusionArguments /\ Incl!Locals /\ [][Incl!Next]_(Incl!vars)

InclusionPromise ==
  INSTANCE Decision WITH right <- Incl!Bool(InclusionClaim), answer <- iret

\* Read as a claim about the arguments, an exact path is the generator's.
LEMMA ExactIsGenerated ==
  ASSUME Hashes \in Seq(Hash), NEW c, c.leaf_index \in Nat, c.tree_size = Len(Hashes),
         c.leaf_index < c.tree_size, c.path \in Seq(Hash)
  PROVE  Exact(Task(Hashes, c)) <=> /\ c.lh = Hashes[c.leaf_index + 1]
                                    /\ c.path = PATH(c.leaf_index, Hashes)
<1>a. PICK k : k = Task(Hashes, c)
  OBVIOUS
<1>b. PICK P : P = PATH(c.leaf_index, Hashes)
  OBVIOUS
<1>1. /\ k.path = c.path /\ k.list = P /\ k.hash = c.lh
      /\ k.leaf = Hashes[c.leaf_index + 1]
  BY <1>a, <1>b DEF Task, PATH, Path
<1>2. PICK T : c.path \in Seq(T) /\ P \in Seq(T)
  <2>1. Len(Hashes) \in Nat /\ P = Path(Hashes, c.leaf_index, 0, Len(Hashes))
    BY <1>b DEF PATH, Path
  <2>2. P \in Seq(NodesOver(Hashes, Len(Hashes)))
    BY <2>1, PathOver
  <2>3. PICK T : T = Hash \cup NodesOver(Hashes, Len(Hashes))
    OBVIOUS
  <2>4. c.path \in Seq(T) /\ P \in Seq(T)
    BY <2>2, <2>3, SeqMonotonic
  <2> QED BY <2>4
<1>3. ASSUME Len(c.path) = Len(P), \A j \in 1..Len(P) : c.path[j] = P[j]
      PROVE  c.path = P
  BY <1>2, <1>3, SeqEqual
<1>4. Exact(k) <=> c.lh = Hashes[c.leaf_index + 1] /\ c.path = P
  BY <1>1, <1>3, Zenon DEF Exact, Good
<1> QED
  BY <1>a, <1>b, <1>4

InclusionRunInv == InclusionArguments /\ InclusionInv(Hashes)

\* The answer of a call that has returned is the one its arguments deserve.
LEMMA InclusionAnswer ==
  ASSUME Hashes \in Seq(Hash), NEW c, NEW answer, Answered(Hashes, c, answer),
         c.leaf_index \in Nat, c.tree_size = Len(Hashes), c.path \in Seq(Hash),
         c.root = MTH(Hashes)
  PROVE  answer = Incl!Bool(/\ c.leaf_index < c.tree_size
                            /\ c.lh = Hashes[c.leaf_index + 1]
                            /\ c.path = PATH(c.leaf_index, Hashes))
<1>0. c.tree_size \in Nat
  OBVIOUS
<1>1. CASE c.leaf_index < c.tree_size
  <2>1. c.root = Task(Hashes, c).root
    <3>1. Len(Hashes) # 0
      BY <1>0, <1>1
    <3> QED BY <3>1 DEF MTH, Task, Root
  <2>2. Exact(Task(Hashes, c)) <=> /\ c.lh = Hashes[c.leaf_index + 1]
                                   /\ c.path = PATH(c.leaf_index, Hashes)
    BY <1>1, ExactIsGenerated
  <2>3. /\ answer \in {"True", "False"}
        /\ answer = "True" <=> Exact(Task(Hashes, c))
    BY <1>1, <2>1, Zenon DEF Answered
  <2> QED BY <1>1, <2>2, <2>3 DEF Incl!Bool
<1>2. CASE ~(c.leaf_index < c.tree_size)
  <2>1. c.leaf_index >= c.tree_size
    BY <1>0, <1>2
  <2>2. answer = "False"
    BY <2>1, Zenon DEF Answered
  <2> QED BY <1>2, <2>2, Zenon DEF Incl!Bool
<1> QED
  BY <1>1, <1>2

\* _log_verify_inclusion decides: for every tree, every index, leaf hash and
\* path, the folding loop answers at most once, and it answers True exactly
\* for the leaf at that index with the path _log_inclusion_path generates for
\* it.
THEOREM InclusionDecided ==
  ASSUME Hashes \in Seq(Hash)
  PROVE  InclusionRun => InclusionPromise!Safety
<1>1. InclusionArguments /\ Incl!Locals => InclusionRunInv /\ InclusionPromise!Init
  <2> SUFFICES ASSUME InclusionArguments, Incl!Locals
               PROVE  InclusionRunInv /\ InclusionPromise!Init
    OBVIOUS
  <2>1. Len(Hashes) \in Nat
    OBVIOUS
  <2> QED BY <2>1 DEF InclusionArguments, Incl!Locals, InclusionRunInv,
                      InclusionInv, InclusionPromise!Init
<1>2. InclusionRunInv /\ [Incl!Next]_(Incl!vars) =>
        /\ InclusionRunInv'
        /\ [InclusionPromise!Decide]_<<Incl!Bool(InclusionClaim), iret>>
  <2> SUFFICES ASSUME InclusionRunInv, [Incl!Next]_(Incl!vars)
               PROVE  /\ InclusionRunInv'
                      /\ [InclusionPromise!Decide]_<<Incl!Bool(InclusionClaim), iret>>
    OBVIOUS
  <2>1. CASE Incl!Next
    <3>1. icall' = icall /\ iret = "none"
      BY <2>1 DEF Incl!Next, Incl!RejectIndex, Incl!Enter, Incl!RejectLongPath,
         Incl!FoldLeftSibling, Incl!FoldRightSibling, Incl!SkipLevel,
         Incl!EndSkip, Incl!NextLevel, Incl!Finish, Incl!Return,
         InclusionRunInv, InclusionInv
    <3>2. InclusionInv(Hashes)' /\ InclusionArguments'
      BY <2>1, <3>1, InclusionStep DEF InclusionRunInv, InclusionArguments
    <3>3. Incl!Bool(InclusionClaim)' = Incl!Bool(InclusionClaim)
      BY <3>1 DEF InclusionClaim, Incl!Bool
    <3>4. iret' # "none" => iret' = Incl!Bool(InclusionClaim)
      <4> SUFFICES ASSUME iret' # "none"
                   PROVE  iret' = Incl!Bool(InclusionClaim)
        OBVIOUS
      <4>1. Answered(Hashes, icall, iret')
        BY <3>1, <3>2 DEF InclusionInv, Answered
      <4>2. /\ icall.leaf_index \in Nat /\ icall.tree_size = Len(Hashes)
            /\ icall.path \in Seq(Hash) /\ icall.root = MTH(Hashes)
        BY DEF InclusionRunInv, InclusionArguments
      <4>3. PICK c : c = icall
        OBVIOUS
      <4>4. PICK answer : answer = iret'
        OBVIOUS
      <4>5. answer = Incl!Bool(/\ c.leaf_index < c.tree_size
                               /\ c.lh = Hashes[c.leaf_index + 1]
                               /\ c.path = PATH(c.leaf_index, Hashes))
        BY <4>1, <4>2, <4>3, <4>4, InclusionAnswer
      <4> QED BY <4>3, <4>4, <4>5 DEF InclusionClaim
    <3>5. CASE iret' = "none"
      BY <3>1, <3>2, <3>3, <3>5 DEF InclusionRunInv
    <3>6. CASE iret' # "none"
      BY <3>1, <3>2, <3>3, <3>4, <3>6 DEF InclusionRunInv, InclusionPromise!Decide
    <3> QED BY <3>5, <3>6
  <2>2. CASE UNCHANGED Incl!vars
    <3>1. /\ icall' = icall /\ ipc' = ipc /\ ii' = ii /\ ifn' = ifn /\ isn' = isn
          /\ ir' = ir /\ iret' = iret
      BY <2>2 DEF Incl!vars
    <3> QED BY <3>1 DEF InclusionRunInv, InclusionInv, InclusionArguments,
                        InclusionClaim, Incl!Bool
  <2> QED BY <2>1, <2>2
<1> QED
  BY <1>1, <1>2, PTL DEF InclusionRun, InclusionPromise!Safety

----------------------------------------------------------------------------
ConsistencyClaim ==
  /\ 0 < ccall.first /\ ccall.first <= ccall.second
  /\ ccall.first_root = MTH(SubSeq(Hashes, 1, ccall.first))
  /\ ccall.path = ConsistencyProof(ccall.first, Hashes)

ConsistencyArguments ==
  /\ ccall.first \in Nat
  /\ ccall.second = Len(Hashes)
  /\ ccall.path \in Seq(Hash)
  /\ ccall.second_root = MTH(Hashes)

ConsistencyRun ==
  ConsistencyArguments /\ Cons!Locals /\ [][Cons!Next]_(Cons!vars)

ConsistencyPromise ==
  INSTANCE Decision WITH right <- Cons!Bool(ConsistencyClaim), answer <- cret

\* The root of the first m leaves.
LEMMA RootOfCut ==
  ASSUME Hashes \in Seq(Hash), NEW m \in Nat, 1 <= m, m <= Len(Hashes)
  PROVE  MTH(SubSeq(Hashes, 1, m)) = Root(Hashes, 0, m)
<1>1. PICK g : g = SubSeq(Hashes, 1, m)
  OBVIOUS
<1>2. Len(g) = m /\ \A j \in 1..m : g[j] = Hashes[j]
  <2>1. Len(Hashes) \in Nat
    OBVIOUS
  <2> QED BY <1>1, <2>1
<1>3. \A len \in Nat : \A lo \in Nat : len >= 1 /\ lo + len <= m =>
        Root(g, lo, len) = Root(Hashes, lo, len)
  BY <1>2, RootLocal
<1>4. 0 \in Nat /\ 0 + m <= m
  OBVIOUS
<1>5. Root(g, 0, m) = Root(Hashes, 0, m)
  BY <1>3, <1>4
<1>6. MTH(g) = Root(g, 0, m)
  BY <1>2 DEF MTH, Root
<1> QED
  BY <1>1, <1>5, <1>6

\* Read as a claim about the arguments, an exact proof is the generator's.
LEMMA ExactIsGrown ==
  ASSUME Hashes \in Seq(Hash), NEW c, c.first \in Nat, c.second = Len(Hashes),
         Grows(c), c.path \in Seq(Hash), c.first_root = GrowthTask(Hashes, c).first
  PROVE  Exact(GrowthTask(Hashes, c)) <=> c.path = ConsistencyProof(c.first, Hashes)
<1>a. PICK k : k = GrowthTask(Hashes, c)
  OBVIOUS
<1>b. PICK P : P = Proof(Hashes, c.first, Yes, 0, c.second)
  OBVIOUS
<1>c. PICK m : m = c.first
  OBVIOUS
<1>d. PICK r : r = c.first_root
  OBVIOUS
<1>1. /\ k.path = Reading(m, r, c.path) /\ k.list = Reading(m, r, P)
      /\ k.hash = k.path[1] /\ k.leaf = k.list[1]
  BY <1>a, <1>b, <1>c, <1>d DEF GrowthTask
<1>2. P = ConsistencyProof(m, Hashes)
  BY <1>b, <1>c DEF ConsistencyProof, Proof, Yes
<1>3. PICK T : c.path \in Seq(T) /\ P \in Seq(T)
  <2>1. c.second \in Nat /\ m \in Nat /\ m >= 1 /\ m <= c.second
    BY <1>c DEF Grows
  <2>2. P \in Seq(NodesOver(Hashes, c.second))
    BY <1>b, <1>c, <2>1, ProofOver
  <2>3. PICK T : T = Hash \cup NodesOver(Hashes, c.second)
    OBVIOUS
  <2>4. c.path \in Seq(T) /\ P \in Seq(T)
    BY <2>2, <2>3, SeqMonotonic
  <2> QED BY <2>4
<1>4. c.path = P => Exact(k)
  BY <1>1, Zenon DEF Exact, Good
<1>5. ASSUME Exact(k)
      PROVE  c.path = P
  <2>1. Len(k.path) = Len(k.list) /\ \A j \in 1..Len(k.list) : k.path[j] = k.list[j]
    BY <1>5 DEF Exact, Good
  <2>2. CASE Cons!IsPowerOf2(m)
    <3>1. /\ Len(k.list) = 1 + Len(P) /\ Len(k.path) = 1 + Len(c.path)
          /\ \A j \in 1..Len(P) : k.list[j + 1] = P[j]
          /\ \A j \in 1..Len(c.path) : k.path[j + 1] = c.path[j]
      BY <1>1, <1>3, <2>2, ReadingFacts
    <3>2. Len(P) \in Nat /\ Len(c.path) \in Nat
      BY <1>3
    <3>3. Len(c.path) = Len(P)
      BY <2>1, <3>1, <3>2
    <3>4. ASSUME NEW j \in 1..Len(P)
          PROVE  c.path[j] = P[j]
      <4>1. j \in 1..Len(c.path) /\ j + 1 \in 1..Len(k.list)
        BY <3>1, <3>2, <3>3
      <4> QED BY <2>1, <3>1, <4>1
    <3> QED BY <1>3, <3>3, <3>4, SeqEqual
  <2>3. CASE ~Cons!IsPowerOf2(m)
    <3>1. k.path = c.path /\ k.list = P
      BY <1>1, <1>3, <2>3, ReadingFacts
    <3>2. Len(c.path) = Len(P) /\ \A j \in 1..Len(P) : c.path[j] = P[j]
      BY <2>1, <3>1
    <3> QED BY <1>3, <3>2, SeqEqual
  <2> QED BY <2>2, <2>3
<1> QED
  BY <1>a, <1>c, <1>2, <1>4, <1>5

\* The answer of a call that has returned is the one its arguments deserve.
LEMMA ConsistencyAnswer ==
  ASSUME Hashes \in Seq(Hash), Hashes # << >>,
         NEW c, NEW answer, Replied(Hashes, c, answer),
         c.first \in Nat, c.second = Len(Hashes), c.path \in Seq(Hash),
         c.second_root = MTH(Hashes)
  PROVE  answer = Cons!Bool(/\ 0 < c.first /\ c.first <= c.second
                            /\ c.first_root = MTH(SubSeq(Hashes, 1, c.first))
                            /\ c.path = ConsistencyProof(c.first, Hashes))
<1>a. PICK n : n = c.second
  OBVIOUS
<1>b. PICK m : m = c.first
  OBVIOUS
<1>0. n \in Nat /\ m \in Nat /\ n >= 1 /\ n = Len(Hashes) /\ n # 0
  BY <1>a, <1>b
<1>1. MTH(Hashes) = Root(Hashes, 0, n)
  BY <1>0 DEF MTH, Root
<1>2. answer \in {"True", "False"}
  BY DEF Replied
<1>3. CASE Grows(c)
  <2>1. 1 <= m /\ m <= n /\ 0 < m
    BY <1>0, <1>3, <1>a, <1>b DEF Grows
  <2>2. MTH(SubSeq(Hashes, 1, m)) = GrowthTask(Hashes, c).first
    <3>1. MTH(SubSeq(Hashes, 1, m)) = Root(Hashes, 0, m)
      BY <1>0, <2>1, RootOfCut
    <3> QED BY <3>1, <1>b DEF GrowthTask
  <2>3. c.second_root = GrowthTask(Hashes, c).root
    BY <1>1, <1>a DEF GrowthTask
  <2>4. answer = "True" <=> /\ Exact(GrowthTask(Hashes, c))
                            /\ c.first_root = GrowthTask(Hashes, c).first
    BY <1>3, <2>3, Zenon DEF Replied
  <2>5. c.first_root = GrowthTask(Hashes, c).first =>
          (Exact(GrowthTask(Hashes, c)) <=> c.path = ConsistencyProof(c.first, Hashes))
    BY <1>3, ExactIsGrown
  <2>6. answer = "True" <=> /\ c.first_root = MTH(SubSeq(Hashes, 1, m))
                            /\ c.path = ConsistencyProof(c.first, Hashes)
    BY <2>2, <2>4, <2>5, Zenon
  <2> QED BY <1>2, <1>a, <1>b, <2>1, <2>6 DEF Cons!Bool
<1>4. CASE c.first = c.second
  <2>0. m = n /\ c.first = n
    BY <1>4, <1>a, <1>b
  <2>1. 0 < n /\ n <= n
    BY <1>0
  <2>2. MTH(SubSeq(Hashes, 1, n)) = MTH(Hashes)
    <3>1. MTH(SubSeq(Hashes, 1, n)) = Root(Hashes, 0, n)
      BY <1>0, <2>1, RootOfCut
    <3> QED BY <3>1, <1>1
  <2>3. ConsistencyProof(n, Hashes) = << >>
    <3>1. 0 \in Nat /\ Yes
      BY DEF Yes
    <3>2. Proof(Hashes, n, Yes, 0, n) = << >>
      BY <1>0, <3>1, YesIsFlag, ProofWhole
    <3> QED BY <1>0, <3>2 DEF ConsistencyProof, Proof, Yes
  <2>4. Len(c.path) = 0 <=> c.path = << >>
    OBVIOUS
  <2>5. answer = "True" <=> Len(c.path) = 0 /\ c.first_root = c.second_root
    BY <1>4, Zenon DEF Replied
  <2>6. answer = "True" <=> /\ c.first_root = MTH(SubSeq(Hashes, 1, n))
                            /\ c.path = ConsistencyProof(n, Hashes)
    BY <2>2, <2>3, <2>4, <2>5, Zenon
  <2> QED BY <1>2, <1>a, <2>0, <2>1, <2>6 DEF Cons!Bool
<1>5. CASE c.first # c.second /\ ~Grows(c)
  <2>1. answer = "False"
    BY <1>5, Zenon DEF Replied
  <2>2. ~(0 < m /\ m <= n)
    BY <1>0, <1>5, <1>a, <1>b DEF Grows
  <2> QED BY <1>a, <1>b, <2>1, <2>2, Zenon DEF Cons!Bool
<1> QED
  BY <1>3, <1>4, <1>5

ConsistencyRunInv == ConsistencyArguments /\ ConsistencyInv(Hashes)

\* _log_verify_consistency decides: for every tree that is not empty, every
\* first size, first root and path, the loop answers at most once, and it
\* answers True exactly for the root of the first leaves with the path
\* _log_consistency_proof generates for them.
THEOREM ConsistencyDecided ==
  ASSUME Hashes \in Seq(Hash), Hashes # << >>
  PROVE  ConsistencyRun => ConsistencyPromise!Safety
<1>1. ConsistencyArguments /\ Cons!Locals =>
        ConsistencyRunInv /\ ConsistencyPromise!Init
  <2> SUFFICES ASSUME ConsistencyArguments, Cons!Locals
               PROVE  ConsistencyRunInv /\ ConsistencyPromise!Init
    OBVIOUS
  <2>1. Len(Hashes) \in Nat
    OBVIOUS
  <2> QED BY <2>1 DEF ConsistencyArguments, Cons!Locals, ConsistencyRunInv,
                      ConsistencyInv, ConsistencyPromise!Init
<1>2. ConsistencyRunInv /\ [Cons!Next]_(Cons!vars) =>
        /\ ConsistencyRunInv'
        /\ [ConsistencyPromise!Decide]_<<Cons!Bool(ConsistencyClaim), cret>>
  <2> SUFFICES ASSUME ConsistencyRunInv, [Cons!Next]_(Cons!vars)
               PROVE  /\ ConsistencyRunInv'
                      /\ [ConsistencyPromise!Decide]_<<Cons!Bool(ConsistencyClaim), cret>>
    OBVIOUS
  <2>1. CASE Cons!Next
    <3>1. ccall' = ccall /\ cret = "none"
      BY <2>1 DEF Cons!Next, Cons!SameSize, Cons!RejectArguments,
         Cons!Enter, Cons!StripLevel, Cons!Seed, Cons!RejectLongPath,
         Cons!FoldBoth, Cons!FoldSecond, Cons!SkipLevel, Cons!EndSkip,
         Cons!NextLevel, Cons!Finish, Cons!Return,
         ConsistencyRunInv, ConsistencyInv
    <3>2. ConsistencyInv(Hashes)' /\ ConsistencyArguments'
      BY <2>1, <3>1, ConsistencyStep DEF ConsistencyRunInv, ConsistencyArguments
    <3>3. Cons!Bool(ConsistencyClaim)' = Cons!Bool(ConsistencyClaim)
      BY <3>1 DEF ConsistencyClaim, Cons!Bool
    <3>4. cret' # "none" => cret' = Cons!Bool(ConsistencyClaim)
      <4> SUFFICES ASSUME cret' # "none"
                   PROVE  cret' = Cons!Bool(ConsistencyClaim)
        OBVIOUS
      <4>1. Replied(Hashes, ccall, cret')
        BY <3>1, <3>2 DEF ConsistencyInv, Replied
      <4>2. /\ ccall.first \in Nat /\ ccall.second = Len(Hashes)
            /\ ccall.path \in Seq(Hash) /\ ccall.second_root = MTH(Hashes)
        BY DEF ConsistencyRunInv, ConsistencyArguments
      <4>3. PICK c : c = ccall
        OBVIOUS
      <4>4. PICK answer : answer = cret'
        OBVIOUS
      <4>5. answer = Cons!Bool(/\ 0 < c.first /\ c.first <= c.second
                               /\ c.first_root = MTH(SubSeq(Hashes, 1, c.first))
                               /\ c.path = ConsistencyProof(c.first, Hashes))
        BY <4>1, <4>2, <4>3, <4>4, ConsistencyAnswer
      <4> QED BY <4>3, <4>4, <4>5 DEF ConsistencyClaim
    <3>5. CASE cret' = "none"
      BY <3>1, <3>2, <3>3, <3>5 DEF ConsistencyRunInv
    <3>6. CASE cret' # "none"
      BY <3>1, <3>2, <3>3, <3>4, <3>6 DEF ConsistencyRunInv, ConsistencyPromise!Decide
    <3> QED BY <3>5, <3>6
  <2>2. CASE UNCHANGED Cons!vars
    <3>1. /\ ccall' = ccall /\ cpc' = cpc /\ cpath' = cpath /\ ci' = ci /\ cfn' = cfn
          /\ csn' = csn /\ cfr' = cfr /\ csr' = csr /\ cret' = cret
      BY <2>2 DEF Cons!vars
    <3>2. ConsistencyInv(Hashes)' /\ ConsistencyArguments'
      BY <3>1 DEF ConsistencyRunInv, ConsistencyInv, ConsistencyArguments
    <3>3. Cons!Bool(ConsistencyClaim)' = Cons!Bool(ConsistencyClaim)
      BY <3>1 DEF ConsistencyClaim, Cons!Bool
    <3> QED BY <3>1, <3>2, <3>3 DEF ConsistencyRunInv
  <2> QED BY <2>1, <2>2
<1> QED
  BY <1>1, <1>2, PTL DEF ConsistencyRun, ConsistencyPromise!Safety
=============================================================================
