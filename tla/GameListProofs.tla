---------------------------- MODULE GameListProofs ----------------------------
(***************************************************************************)
(* What the operators of GameList do to any list, whatever set E its       *)
(* entries are of: sorting, emptying and filling it, and finding a game in *)
(* it. The theorems about GameLists and about GameGrid rest on these.      *)
(***************************************************************************)
EXTENDS GameList, FiniteSetTheorems, WellFoundedInduction, TLAPS

(* No entry is twice in the list.                                          *)
Distinct(list) == \A i, j \in 1 .. Len(list) : list[i] = list[j] => i = j

(* The lists with the entries of this one in another order.                *)
Shuffles(E, list) ==
  {l \in Seq(E) : /\ Len(l) = Len(list) /\ ToSet(l) = ToSet(list)
                  /\ Distinct(list) => Distinct(l)}

-----------------------------------------------------------------------------
(* Recursive functions over 0 .. m, by the least element of a set.         *)

\* The least element of a set of naturals.
LEMMA SmallestOf ==
  ASSUME NEW T \in SUBSET Nat, T # {}
  PROVE  \E n \in T : \A m \in T : n <= m
<1>1. PICK n \in T : \A m \in T : ~ (<<m, n>> \in OpToRel(<, Nat))
  BY WFMin, NatLessThanWellFounded
<1>2. \A m \in T : ~ (m < n)
  BY <1>1 DEF OpToRel
<1> QED
  BY <1>2

\* Induction, over a set: what holds of 0 and goes on to n + 1 holds up to m.
LEMMA UpTo ==
  ASSUME NEW m \in Nat, NEW T, 0 \in T, \A n \in 0 .. m - 1 : n \in T => n + 1 \in T
  PROVE  \A n \in 0 .. m : n \in T
<1>1. SUFFICES ASSUME NEW k \in 0 .. m, k \notin T PROVE FALSE
  OBVIOUS
<1> DEFINE U == {n \in 0 .. m : n \notin T}
<1>2. U \in SUBSET Nat /\ U # {}
  BY <1>1
<1>3. PICK n \in U : \A i \in U : n <= i
  BY <1>2, SmallestOf
<1>4. n \in 0 .. m /\ n \notin T /\ n # 0
  BY <1>3
<1>5. n - 1 \in 0 .. m - 1 /\ n - 1 \notin U
  BY <1>3, <1>4
<1>6. n - 1 \in T /\ (n - 1) + 1 = n
  BY <1>4, <1>5
<1> QED
  BY <1>4, <1>5, <1>6

\* Any function whose values follow from each other by F, as long as they
\* stay in the sets S, does stay in them.
LEMMA IteratesStay ==
  ASSUME NEW m \in Nat, NEW S, NEW F, NEW f, f[0] \in S[0],
         \A i \in 1 .. m : \A x \in S[i - 1] : F[<<i, x>>] \in S[i],
         \A i \in 1 .. m : f[i - 1] \in S[i - 1] => f[i] = F[<<i, f[i - 1]>>]
  PROVE  \A i \in 0 .. m : f[i] \in S[i]
<1> DEFINE T == {i \in 0 .. m : f[i] \in S[i]}
<1>1. 0 \in T
  OBVIOUS
<1>2. ASSUME NEW n \in 0 .. m - 1, n \in T
      PROVE  n + 1 \in T
  <2>1. n + 1 \in 1 .. m /\ (n + 1) - 1 = n /\ f[n] \in S[n]
    BY <1>2
  <2>2. f[n + 1] = F[<<n + 1, f[n]>>] /\ F[<<n + 1, f[n]>>] \in S[n + 1]
    BY <2>1
  <2> QED
    BY <2>1, <2>2
<1>3. \A n \in 0 .. m : n \in T
  <2> HIDE DEF T
  <2> QED
    BY <1>1, <1>2, UpTo
<1> QED
  BY <1>3

\* And there is one.
IsIterates(g, m, b, F) == g = [i \in 0 .. m |-> IF i = 0 THEN b ELSE F[<<i, g[i - 1]>>]]
LEMMA IteratesExist ==
  ASSUME NEW m \in Nat, NEW S, NEW F, NEW b \in S[0],
         \A i \in 1 .. m : \A x \in S[i - 1] : F[<<i, x>>] \in S[i]
  PROVE  \E g : /\ IsIterates(g, m, b, F)
                /\ \A i \in 0 .. m : g[i] \in S[i]
<1> DEFINE Is(g, n) == g = [i \in 0 .. n |-> IF i = 0 THEN b ELSE F[<<i, g[i - 1]>>]]
           T == {n \in 0 .. m : \E g : Is(g, n)}
<1>1. 0 \in T
  <2> DEFINE z == [i \in 0 .. 0 |-> b]
  <2>1. z = [i \in 0 .. 0 |-> IF i = 0 THEN b ELSE F[<<i, z[i - 1]>>]]
    OBVIOUS
  <2>2. Is(z, 0)
    BY <2>1
  <2>3. 0 \in 0 .. m
    OBVIOUS
  <2> HIDE DEF z
  <2>4. \E g : Is(g, 0)
    BY <2>2
  <2> QED
    BY <2>3, <2>4
<1>2. ASSUME NEW n \in 0 .. m - 1, n \in T
      PROVE  n + 1 \in T
  <2>1. PICK g : Is(g, n)
    BY <1>2
  <2> DEFINE h == [i \in 0 .. n + 1 |-> IF i = n + 1 THEN F[<<n + 1, g[n]>>] ELSE g[i]]
  <2>2. \A i \in 0 .. n + 1 : h[i] = IF i = 0 THEN b ELSE F[<<i, h[i - 1]>>]
    <3>1. ASSUME NEW i \in 0 .. n + 1
          PROVE  h[i] = IF i = 0 THEN b ELSE F[<<i, h[i - 1]>>]
      <4>1. CASE i = n + 1
        <5>1. h[i] = F[<<n + 1, g[n]>>] /\ h[n] = g[n] /\ i - 1 = n /\ i # 0
          BY <4>1
        <5> QED
          BY <4>1, <5>1
      <4>2. CASE i = 0
        <5>1. h[0] = g[0] /\ g[0] = b
          BY <2>1
        <5> QED
          BY <4>2, <5>1
      <4>3. CASE i \in 1 .. n
        <5>1. i \in 0 .. n /\ i # n + 1 /\ i - 1 \in 0 .. n /\ i - 1 # n + 1 /\ i # 0
          BY <4>3
        <5>2. h[i] = g[i] /\ h[i - 1] = g[i - 1] /\ g[i] = F[<<i, g[i - 1]>>]
          BY <2>1, <5>1
        <5> QED
          BY <5>1, <5>2
      <4> QED
        BY <4>1, <4>2, <4>3
    <3> QED
      BY <3>1
  <2>3. Is(h, n + 1)
    BY <2>2
  <2> HIDE DEF h
  <2> QED
    BY <2>3
<1>3. m \in T
  <2>1. \A n \in 0 .. m : n \in T
    <3> HIDE DEF T
    <3> QED
      BY <1>1, <1>2, UpTo
  <2> QED
    BY <2>1
<1>4. PICK g : g = [i \in 0 .. m |-> IF i = 0 THEN b ELSE F[<<i, g[i - 1]>>]]
  BY <1>3
<1>5. g[0] = b /\ \A i \in 1 .. m : g[i] = F[<<i, g[i - 1]>>]
  BY <1>4
<1>6. \A i \in 0 .. m : g[i] \in S[i]
  BY <1>5, IteratesStay
<1> QED
  BY <1>4, <1>6 DEF IsIterates

-----------------------------------------------------------------------------
(* Sorting.                                                                *)

\* Exchanging two entries shuffles a list.
LEMMA ExchangeShuffles ==
  ASSUME NEW E, NEW list \in Seq(E), NEW l \in Shuffles(E, list),
         NEW n \in 1 .. Len(list), NEW k \in 1 .. Len(list)
  PROVE  Exchange(l, n, k) \in Shuffles(E, list)
<1> DEFINE x == Exchange(l, n, k)
<1>1. l \in Seq(E) /\ Len(l) = Len(list) /\ ToSet(l) = ToSet(list) /\ Len(list) \in Nat
  BY DEF Shuffles
<1>2. x \in Seq(E) /\ Len(x) = Len(l)
  BY <1>1 DEF Exchange
<1>3. \A i \in 1 .. Len(l) : x[i] = IF i = k THEN l[n] ELSE IF i = n THEN l[k] ELSE l[i]
  BY <1>1 DEF Exchange
<1>4. DOMAIN x = 1 .. Len(l) /\ DOMAIN l = 1 .. Len(l)
  BY <1>1, <1>2
<1> HIDE DEF x
<1>5. ToSet(x) = ToSet(l)
  <2>1. \A i \in 1 .. Len(l) : x[i] \in ToSet(l)
    BY <1>1, <1>3, <1>4 DEF ToSet
  <2>2. \A i \in 1 .. Len(l) : l[i] \in ToSet(x)
    <3>1. x[n] = l[k] /\ x[k] = l[n]
      BY <1>1, <1>3
    <3>2. \A i \in 1 .. Len(l) : i # n /\ i # k => x[i] = l[i]
      BY <1>3
    <3> QED
      BY <1>1, <1>4, <3>1, <3>2 DEF ToSet
  <2> QED
    BY <1>4, <2>1, <2>2 DEF ToSet
<1>6. Distinct(l) => Distinct(x)
  <2>1. SUFFICES ASSUME Distinct(l), NEW i \in 1 .. Len(l), NEW j \in 1 .. Len(l), x[i] = x[j]
                 PROVE  i = j
    BY <1>2 DEF Distinct
  <2>2. \A a, b \in 1 .. Len(l) : l[a] = l[b] => a = b
    BY <2>1 DEF Distinct
  <2>3. n \in 1 .. Len(l) /\ k \in 1 .. Len(l)
    BY <1>1
  <2>4. x[i] = IF i = k THEN l[n] ELSE IF i = n THEN l[k] ELSE l[i]
    BY <1>3
  <2>5. x[j] = IF j = k THEN l[n] ELSE IF j = n THEN l[k] ELSE l[j]
    BY <1>3
  <2> QED
    BY <2>1, <2>2, <2>3, <2>4, <2>5
<1>7. Distinct(list) => Distinct(l)
  BY DEF Shuffles
<1>8. Len(x) = Len(list) /\ ToSet(x) = ToSet(list) /\ (Distinct(list) => Distinct(x))
  BY <1>1, <1>2, <1>5, <1>6, <1>7
<1> QED
  BY <1>2, <1>8 DEF Shuffles, x

\* A list shuffles itself.
LEMMA ShufflesItself ==
  ASSUME NEW E, NEW list \in Seq(E)
  PROVE  list \in Shuffles(E, list)
BY DEF Shuffles

\* What the comparisons of one entry with the later ones make of a list.
LEMMA PassesAre ==
  ASSUME NEW E, NEW list \in Seq(E), NEW l0 \in Shuffles(E, list), NEW n \in 1 .. Len(list),
         NEW mode, NEW hb
  PROVE  LET f == Passes(l0, n, mode, hb)
             m == Len(l0) - n
         IN  /\ f[0] = l0
             /\ \A k \in 1 .. m : f[k] = IF MustSwap(f[k - 1][n], f[k - 1][n + k], n = 1, mode, hb)
                                         THEN Exchange(f[k - 1], n, n + k) ELSE f[k - 1]
             /\ \A k \in 0 .. m : f[k] \in Shuffles(E, list)
             /\ m \in Nat /\ SettleEntry(l0, n, mode, hb) = f[m]
<1> DEFINE m == Len(l0) - n
           Once(k, l) == IF MustSwap(l[n], l[n + k], n = 1, mode, hb) THEN Exchange(l, n, n + k) ELSE l
           S == [k \in 0 .. m |-> Shuffles(E, list)]
           F == [p \in (1 .. m) \X Shuffles(E, list) |-> Once(p[1], p[2])]
           Is(g) == g = [k \in 0 .. m |-> IF k = 0 THEN l0 ELSE Once(k, g[k - 1])]
           f == Passes(l0, n, mode, hb)
<1>1. m \in Nat /\ Len(l0) = Len(list) /\ Len(list) \in Nat
  BY DEF Shuffles
<1>2. ASSUME NEW k \in 1 .. m, NEW l \in Shuffles(E, list)
      PROVE  F[<<k, l>>] = Once(k, l) /\ Once(k, l) \in Shuffles(E, list)
  <2>1. n + k \in 1 .. Len(list)
    BY <1>1
  <2>2. Exchange(l, n, n + k) \in Shuffles(E, list)
    BY <2>1, ExchangeShuffles
  <2> QED
    BY <2>2
<1> HIDE DEF F, Once, m
<1>3. \A k \in 1 .. m : \A l \in S[k - 1] : F[<<k, l>>] \in S[k]
  <2>1. ASSUME NEW k \in 1 .. m PROVE S[k - 1] = Shuffles(E, list) /\ S[k] = Shuffles(E, list)
    BY <1>1
  <2> HIDE DEF S
  <2> QED
    BY <1>2, <2>1
<1>4. l0 \in S[0]
  BY <1>1
<1>5. PICK g : /\ IsIterates(g, m, l0, F)
               /\ \A k \in 0 .. m : g[k] \in S[k]
  <2> HIDE DEF S
  <2> QED
    BY <1>1, <1>3, <1>4, IteratesExist
<1>6. \A k \in 1 .. m : F[<<k, g[k - 1]>>] = Once(k, g[k - 1])
  BY <1>1, <1>2, <1>5
<1>7. Is(g)
  <2>1. g = [k \in 0 .. m |-> IF k = 0 THEN l0 ELSE F[<<k, g[k - 1]>>]]
    BY <1>5 DEF IsIterates
  <2>2. \A k \in 0 .. m : (IF k = 0 THEN l0 ELSE F[<<k, g[k - 1]>>])
                            = (IF k = 0 THEN l0 ELSE Once(k, g[k - 1]))
    BY <1>1, <1>6
  <2> QED
    BY <2>1, <2>2
<1>8. f = CHOOSE h : Is(h)
  BY DEF Passes, m, Once
<1>9. Is(f)
  BY <1>7, <1>8, Zenon
<1> HIDE DEF f
<1>10. f[0] = l0 /\ \A k \in 1 .. m : f[k] = Once(k, f[k - 1])
  BY <1>1, <1>9
<1>11. \A k \in 1 .. m : f[k - 1] \in S[k - 1] => f[k] = F[<<k, f[k - 1]>>]
  BY <1>1, <1>2, <1>10
<1>12. \A k \in 0 .. m : f[k] \in S[k]
  <2> HIDE DEF S
  <2> QED
    BY <1>1, <1>3, <1>4, <1>10, <1>11, IteratesStay
<1>13. \A k \in 0 .. m : f[k] \in Shuffles(E, list)
  BY <1>12
<1>14. \A k \in 1 .. m : f[k] = IF MustSwap(f[k - 1][n], f[k - 1][n + k], n = 1, mode, hb)
                                THEN Exchange(f[k - 1], n, n + k) ELSE f[k - 1]
  BY <1>10 DEF Once
<1>15. SettleEntry(l0, n, mode, hb) = f[m]
  BY DEF SettleEntry, f, m
<1> QED
  BY <1>1, <1>10, <1>13, <1>14, <1>15 DEF f, m

\* Settling one entry shuffles a list.
LEMMA SettleShuffles ==
  ASSUME NEW E, NEW list \in Seq(E), NEW l0 \in Shuffles(E, list), NEW n \in 1 .. Len(list),
         NEW mode, NEW hb
  PROVE  SettleEntry(l0, n, mode, hb) \in Shuffles(E, list)
<1> DEFINE f == Passes(l0, n, mode, hb)
           m == Len(l0) - n
<1>1. m \in Nat /\ SettleEntry(l0, n, mode, hb) = f[m] /\ \A k \in 0 .. m : f[k] \in Shuffles(E, list)
  BY PassesAre
<1> HIDE DEF f, m
<1> QED
  BY <1>1

\* What settling one entry after the other makes of a list.
LEMMA SettlingIs ==
  ASSUME NEW E, NEW list \in Seq(E), NEW mode, NEW hb
  PROVE  LET f == Settling(list, mode, hb)
             m == Len(list)
         IN  /\ f[0] = list
             /\ \A n \in 1 .. m : f[n] = SettleEntry(f[n - 1], n, mode, hb)
             /\ \A n \in 0 .. m : f[n] \in Shuffles(E, list)
             /\ sort_entries2(list, mode, hb) = f[m]
<1> DEFINE m == Len(list)
           Once(n, l) == SettleEntry(l, n, mode, hb)
           S == [n \in 0 .. m |-> Shuffles(E, list)]
           F == [p \in (1 .. m) \X Shuffles(E, list) |-> Once(p[1], p[2])]
           Is(g) == g = [n \in 0 .. m |-> IF n = 0 THEN list ELSE Once(n, g[n - 1])]
           f == Settling(list, mode, hb)
<1>1. m \in Nat
  OBVIOUS
<1>2. ASSUME NEW n \in 1 .. m, NEW l \in Shuffles(E, list)
      PROVE  F[<<n, l>>] = Once(n, l) /\ Once(n, l) \in Shuffles(E, list)
  BY SettleShuffles
<1> HIDE DEF F, Once, m
<1>3. \A n \in 1 .. m : \A l \in S[n - 1] : F[<<n, l>>] \in S[n]
  <2>1. ASSUME NEW n \in 1 .. m PROVE S[n - 1] = Shuffles(E, list) /\ S[n] = Shuffles(E, list)
    BY <1>1
  <2> HIDE DEF S
  <2> QED
    BY <1>2, <2>1
<1>4. list \in S[0]
  BY <1>1, ShufflesItself
<1>5. PICK g : /\ IsIterates(g, m, list, F)
               /\ \A n \in 0 .. m : g[n] \in S[n]
  <2> HIDE DEF S
  <2> QED
    BY <1>1, <1>3, <1>4, IteratesExist
<1>6. \A n \in 1 .. m : F[<<n, g[n - 1]>>] = Once(n, g[n - 1])
  BY <1>1, <1>2, <1>5
<1>7. Is(g)
  <2>1. g = [n \in 0 .. m |-> IF n = 0 THEN list ELSE F[<<n, g[n - 1]>>]]
    BY <1>5 DEF IsIterates
  <2>2. \A n \in 0 .. m : (IF n = 0 THEN list ELSE F[<<n, g[n - 1]>>])
                            = (IF n = 0 THEN list ELSE Once(n, g[n - 1]))
    BY <1>1, <1>6
  <2> QED
    BY <2>1, <2>2
<1>8. f = CHOOSE h : Is(h)
  BY DEF Settling, m, Once
<1>9. Is(f)
  BY <1>7, <1>8, Zenon
<1> HIDE DEF f
<1>10. f[0] = list /\ \A n \in 1 .. m : f[n] = Once(n, f[n - 1])
  BY <1>1, <1>9
<1>11. \A n \in 1 .. m : f[n - 1] \in S[n - 1] => f[n] = F[<<n, f[n - 1]>>]
  BY <1>1, <1>2, <1>10
<1>12. \A n \in 0 .. m : f[n] \in S[n]
  <2> HIDE DEF S
  <2> QED
    BY <1>1, <1>3, <1>4, <1>10, <1>11, IteratesStay
<1>13. \A n \in 0 .. m : f[n] \in Shuffles(E, list)
  BY <1>12
<1>14. sort_entries2(list, mode, hb) = f[m]
  BY DEF sort_entries2, f, m
<1> QED
  BY <1>10, <1>13, <1>14 DEF f, m, Once

\* Sorting shuffles a list: no entry is lost or made, none becomes two.
LEMMA SortShuffles ==
  ASSUME NEW E, NEW list \in Seq(E), NEW mode, NEW hb
  PROVE  sort_entries2(list, mode, hb) \in Shuffles(E, list)
<1> DEFINE f == Settling(list, mode, hb)
<1>1. sort_entries2(list, mode, hb) = f[Len(list)] /\ \A n \in 0 .. Len(list) : f[n] \in Shuffles(E, list)
  BY SettlingIs
<1>2. Len(list) \in 0 .. Len(list)
  OBVIOUS
<1> HIDE DEF f
<1> QED
  BY <1>1, <1>2

-----------------------------------------------------------------------------
(* Emptying a list of a device.                                            *)

\* Dropping entry n and putting the last one in its place.
LEMMA DropTakesOne ==
  ASSUME NEW E, NEW list \in Seq(E), NEW n \in 1 .. Len(list)
  PROVE  LET x == DropLast([list EXCEPT ![n] = list[Len(list)]])
         IN  /\ x \in Seq(E) /\ Len(x) = Len(list) - 1
             /\ \A i \in 1 .. Len(list) - 1 : x[i] = IF i = n THEN list[Len(list)] ELSE list[i]
             /\ ToSet(x) \subseteq ToSet(list)
             /\ \A i \in 1 .. Len(list) : i # n => list[i] \in ToSet(x)
             /\ Distinct(list) => Distinct(x)
<1> DEFINE L == Len(list)
           y == [list EXCEPT ![n] = list[L]]
           x == SubSeq(y, 1, L - 1)
<1>1. L \in Nat \ {0} /\ n \in 1 .. L /\ y \in Seq(E) /\ Len(y) = L
  OBVIOUS
<1>2. x \in Seq(E) /\ Len(x) = L - 1 /\ \A i \in 1 .. L - 1 : x[i] = y[i]
  BY <1>1
<1>3. \A i \in 1 .. L - 1 : x[i] = IF i = n THEN list[L] ELSE list[i]
  BY <1>2
<1>4. DOMAIN x = 1 .. L - 1 /\ DOMAIN list = 1 .. L
  BY <1>2
<1> HIDE DEF x, y
<1>5. ToSet(x) \subseteq ToSet(list)
  BY <1>1, <1>3, <1>4 DEF ToSet
<1>6. ASSUME NEW i \in 1 .. L, i # n
      PROVE  list[i] \in ToSet(x)
  <2>1. CASE i = L
    <3>1. n \in 1 .. L - 1 /\ x[n] = list[i]
      BY <1>1, <1>3, <1>6, <2>1
    <3> QED
      BY <1>4, <3>1 DEF ToSet
  <2>2. CASE i # L
    <3>1. i \in 1 .. L - 1 /\ x[i] = list[i]
      BY <1>1, <1>3, <1>6, <2>2
    <3> QED
      BY <1>4, <3>1 DEF ToSet
  <2> QED
    BY <2>1, <2>2
<1>7. Distinct(list) => Distinct(x)
  <2>1. SUFFICES ASSUME Distinct(list), NEW i \in 1 .. L - 1, NEW j \in 1 .. L - 1, x[i] = x[j]
                 PROVE  i = j
    BY <1>2 DEF Distinct
  <2>2. \A a, b \in 1 .. L : list[a] = list[b] => a = b
    BY <2>1 DEF Distinct
  <2>3. i \in 1 .. L /\ j \in 1 .. L /\ i # L /\ j # L /\ L \in 1 .. L
    BY <1>1
  <2>4. (x[i] = IF i = n THEN list[L] ELSE list[i]) /\ (x[j] = IF j = n THEN list[L] ELSE list[j])
    BY <1>3
  <2> QED
    BY <2>1, <2>2, <2>3, <2>4
<1>8. x = DropLast([list EXCEPT ![n] = list[Len(list)]])
  <2>1. Len(y) = L
    BY <1>1
  <2> QED
    BY <2>1 DEF DropLast, x, y
<1> QED
  BY <1>2, <1>3, <1>5, <1>6, <1>7, <1>8

\* What is known after k looks at a list.
Looked(E, list, dev, k) ==
  {l \in [list : Seq(E), n : Nat \ {0}] :
     /\ l.n + (Len(list) - k) = Len(l.list) + 1
     /\ \A i \in 1 .. l.n - 1 : l.list[i].dev # dev
     /\ ToSet(l.list) \subseteq ToSet(list)
     /\ \A e \in ToSet(list) : e.dev # dev => e \in ToSet(l.list)
     /\ Distinct(list) => Distinct(l.list)
     /\ Len(l.list) <= Len(list)
     /\ Len(l.list) = Len(list) => l.list = list}

LEMMA LookKeeps ==
  ASSUME NEW E, NEW list \in Seq(E), NEW dev, NEW k \in 1 .. Len(list),
         NEW l \in Looked(E, list, dev, k - 1)
  PROVE  (IF l.list[l.n].dev = dev THEN DropEntry(l) ELSE KeepEntry(l)) \in Looked(E, list, dev, k)
<1>1. /\ l \in [list : Seq(E), n : Nat \ {0}]
      /\ l.n + (Len(list) - (k - 1)) = Len(l.list) + 1
      /\ \A i \in 1 .. l.n - 1 : l.list[i].dev # dev
      /\ ToSet(l.list) \subseteq ToSet(list)
      /\ \A e \in ToSet(list) : e.dev # dev => e \in ToSet(l.list)
      /\ Distinct(list) => Distinct(l.list)
      /\ Len(l.list) <= Len(list)
      /\ Len(l.list) = Len(list) => l.list = list
  BY DEF Looked
<1>2. l.list \in Seq(E) /\ l.n \in Nat \ {0} /\ Len(l.list) \in Nat /\ Len(list) \in Nat
  BY <1>1
<1>3. l.n \in 1 .. Len(l.list)
  BY <1>1, <1>2
<1>4. CASE l.list[l.n].dev = dev
  <2> DEFINE x == DropLast([l.list EXCEPT ![l.n] = l.list[Len(l.list)]])
  <2>1. /\ x \in Seq(E) /\ Len(x) = Len(l.list) - 1
        /\ \A i \in 1 .. Len(l.list) - 1 : x[i] = IF i = l.n THEN l.list[Len(l.list)] ELSE l.list[i]
        /\ ToSet(x) \subseteq ToSet(l.list)
        /\ \A i \in 1 .. Len(l.list) : i # l.n => l.list[i] \in ToSet(x)
        /\ Distinct(l.list) => Distinct(x)
    BY <1>2, <1>3, DropTakesOne
  <2>2. DropEntry(l) = [list |-> x, n |-> l.n]
    <3>1. l = [list |-> l.list, n |-> l.n]
      BY <1>1
    <3>2. DropEntry(l) = [l EXCEPT !.list = x]
      BY DEF DropEntry
    <3> HIDE DEF x
    <3> QED
      BY <3>1, <3>2
  <2> HIDE DEF x
  <2>3. l.n + (Len(list) - k) = Len(x) + 1
    BY <1>1, <1>2, <2>1
  <2>4. \A i \in 1 .. l.n - 1 : x[i].dev # dev
    <3>1. ASSUME NEW i \in 1 .. l.n - 1 PROVE x[i].dev # dev
      <4>1. i \in 1 .. Len(l.list) - 1 /\ i # l.n
        BY <1>2, <1>3
      <4>2. x[i] = l.list[i]
        BY <2>1, <4>1
      <4> QED
        BY <1>1, <4>2
    <3> QED
      BY <3>1
  <2>5. ToSet(x) \subseteq ToSet(list)
    BY <1>1, <2>1
  <2>6. \A e \in ToSet(list) : e.dev # dev => e \in ToSet(x)
    <3>1. SUFFICES ASSUME NEW e \in ToSet(list), e.dev # dev
                   PROVE  e \in ToSet(x)
      OBVIOUS
    <3>2. e \in ToSet(l.list)
      BY <1>1, <3>1
    <3>3. PICK i \in 1 .. Len(l.list) : e = l.list[i]
      BY <1>2, <3>2 DEF ToSet
    <3>4. i # l.n
      BY <1>4, <3>1, <3>3
    <3> QED
      BY <2>1, <3>3, <3>4
  <2>7. Distinct(list) => Distinct(x)
    BY <1>1, <2>1
  <2>8. Len(x) <= Len(list) /\ Len(x) # Len(list)
    BY <1>1, <1>2, <2>1
  <2> DEFINE r == [list |-> x, n |-> l.n]
  <2>9. r \in [list : Seq(E), n : Nat \ {0}] /\ r.list = x /\ r.n = l.n
    BY <1>2, <2>1
  <2> HIDE DEF r
  <2>10. r \in Looked(E, list, dev, k)
    BY <2>3, <2>4, <2>5, <2>6, <2>7, <2>8, <2>9 DEF Looked
  <2> QED
    BY <1>4, <2>2, <2>10 DEF r
<1>5. CASE l.list[l.n].dev # dev
  <2> DEFINE r == KeepEntry(l)
  <2>1. r \in [list : Seq(E), n : Nat \ {0}] /\ r.list = l.list /\ r.n = l.n + 1
    BY SMTT(30), <1>1 DEF KeepEntry
  <2> HIDE DEF r
  <2>2. r.n + (Len(list) - k) = Len(r.list) + 1
    BY <1>1, <1>2, <2>1
  <2>3. \A i \in 1 .. r.n - 1 : r.list[i].dev # dev
    BY SMTT(30), <1>1, <1>2, <1>5, <2>1
  <2>4. r \in Looked(E, list, dev, k)
    BY <1>1, <2>1, <2>2, <2>3 DEF Looked
  <2> QED
    BY <1>5, <2>4 DEF r
<1> QED
  BY <1>4, <1>5

\* What is left of a list are the entries of the other devices, each as
\* often as before; nothing moves when nothing is deleted.
LEMMA DeleteEntries ==
  ASSUME NEW E, NEW list \in Seq(E), NEW dev
  PROVE  LET left == delete_entries(list, dev)
         IN  /\ left \in Seq(E) /\ Len(left) <= Len(list)
             /\ ToSet(left) = {e \in ToSet(list) : e.dev # dev}
             /\ Distinct(list) => Distinct(left)
             /\ Len(left) = Len(list) => left = list
<1> DEFINE m == Len(list)
           first == [list |-> list, n |-> 1]
           Once(l) == IF l.list[l.n].dev = dev THEN DropEntry(l) ELSE KeepEntry(l)
           S == [k \in 0 .. m |-> Looked(E, list, dev, k)]
           U == [list : Seq(E), n : Nat \ {0}]
           F == [p \in (1 .. m) \X U |-> Once(p[2])]
           Is(g) == g = [k \in 0 .. m |-> IF k = 0 THEN first ELSE Once(g[k - 1])]
           f == Looks(list, dev)
<1>1. m \in Nat /\ m = Len(list)
  OBVIOUS
<1>2. ASSUME NEW k \in 1 .. m, NEW l \in Looked(E, list, dev, k - 1)
      PROVE  F[<<k, l>>] = Once(l) /\ Once(l) \in Looked(E, list, dev, k)
  <2>1. l \in U
    BY DEF Looked
  <2>2. Once(l) \in Looked(E, list, dev, k)
    BY LookKeeps
  <2> HIDE DEF Once, U
  <2> QED
    BY <2>1, <2>2
<1>3. first \in Looked(E, list, dev, 0)
  BY <1>1 DEF Looked
<1> HIDE DEF F, Once, m, first
<1>4. \A k \in 0 .. m : S[k] = Looked(E, list, dev, k)
  BY <1>1
<1> HIDE DEF S
<1>5. \A k \in 1 .. m : \A l \in S[k - 1] : F[<<k, l>>] \in S[k]
  <2>1. ASSUME NEW k \in 1 .. m, NEW l \in S[k - 1] PROVE F[<<k, l>>] \in S[k]
    <3>1. S[k - 1] = Looked(E, list, dev, k - 1) /\ S[k] = Looked(E, list, dev, k)
      BY <1>1, <1>4
    <3> QED
      BY <1>2, <2>1, <3>1
  <2> QED
    BY <2>1
<1>6. first \in S[0]
  BY <1>1, <1>3, <1>4
<1>7. PICK g : /\ IsIterates(g, m, first, F)
               /\ \A k \in 0 .. m : g[k] \in S[k]
  BY <1>1, <1>5, <1>6, IteratesExist
<1>8. ASSUME NEW k \in 1 .. m, NEW l \in S[k - 1]
      PROVE  F[<<k, l>>] = Once(l)
  <2>1. S[k - 1] = Looked(E, list, dev, k - 1)
    BY <1>1, <1>4
  <2> QED
    BY <1>2, <1>8, <2>1
<1>9. Is(g)
  <2>1. g = [k \in 0 .. m |-> IF k = 0 THEN first ELSE F[<<k, g[k - 1]>>]]
    BY <1>7 DEF IsIterates
  <2>2. \A k \in 0 .. m : (IF k = 0 THEN first ELSE F[<<k, g[k - 1]>>])
                            = (IF k = 0 THEN first ELSE Once(g[k - 1]))
    BY <1>1, <1>7, <1>8
  <2> QED
    BY <2>1, <2>2
<1>10. f = CHOOSE h : Is(h)
  BY DEF Looks, m, Once, first
<1>11. Is(f)
  BY <1>9, <1>10, Zenon
<1> HIDE DEF f
<1>12. f[0] = first /\ \A k \in 1 .. m : f[k] = Once(f[k - 1])
  BY <1>1, <1>11
<1>13. \A k \in 1 .. m : f[k - 1] \in S[k - 1] => f[k] = F[<<k, f[k - 1]>>]
  BY <1>1, <1>8, <1>12
<1>14. \A k \in 0 .. m : f[k] \in S[k]
  <2>1. f[0] \in S[0]
    BY <1>6, <1>12
  <2>2. m \in Nat
    BY <1>1
  <2> QED
    BY <1>5, <1>13, <2>1, <2>2, IteratesStay
<1> DEFINE l == f[m]
<1>15. l \in Looked(E, list, dev, m)
  BY <1>1, <1>4, <1>14
<1>16. l.list = delete_entries(list, dev)
  BY DEF delete_entries, f, m
<1> HIDE DEF l
<1>17. /\ l \in [list : Seq(E), n : Nat \ {0}]
       /\ l.n = Len(l.list) + 1
       /\ \A i \in 1 .. l.n - 1 : l.list[i].dev # dev
       /\ ToSet(l.list) \subseteq ToSet(list)
       /\ \A e \in ToSet(list) : e.dev # dev => e \in ToSet(l.list)
       /\ Distinct(list) => Distinct(l.list)
       /\ Len(l.list) <= Len(list)
       /\ Len(l.list) = Len(list) => l.list = list
  BY <1>1, <1>15 DEF Looked
<1>18. \A e \in ToSet(l.list) : e.dev # dev
  BY <1>17 DEF ToSet
<1>19. ToSet(l.list) = {e \in ToSet(list) : e.dev # dev}
  BY <1>17, <1>18
<1>20. l.list \in Seq(E)
  BY <1>17
<1> QED
  BY <1>16, <1>17, <1>19, <1>20

-----------------------------------------------------------------------------
(* Filling a list.                                                         *)

\* The entries made of the files of a device: one for each file of the
\* kinds asked for.
LEMMA EntriesOfFiles ==
  ASSUME NEW files, IsFiniteSet(files), NEW dev, NEW kinds,
         \A f \in files : f = [id |-> f.id, kind |-> f.kind],
         NEW E, \A f \in files : f.kind \in kinds => [id |-> f.id, dev |-> dev, kind |-> f.kind] \in E
  PROVE  LET new == EntriesOf(files, dev, kinds)
         IN  /\ new \in Seq(E) /\ Distinct(new)
             /\ ToSet(new) = {[id |-> f.id, dev |-> dev, kind |-> f.kind] :
                                f \in {g \in files : g.kind \in kinds}}
<1> DEFINE T == {f \in files : f.kind \in kinds}
           s == SetToSeq(T)
           Made(f) == [id |-> f.id, dev |-> dev, kind |-> f.kind]
           new == [i \in DOMAIN s |-> Made(s[i])]
<1>1. IsFiniteSet(T)
  BY FS_Subset
<1> DEFINE n == Cardinality(T)
<1>2. n \in Nat /\ ExistsBijection(1 .. n, T)
  BY <1>1, FS_CardinalityType
<1>3. PICK h : h \in [1 .. n -> T] /\ IsInjective(h) /\ \A f \in T : \E i \in 1 .. n : h[i] = f
  BY <1>2 DEF ExistsBijection, Bijection, Injection, Surjection, IsInjective
<1>4. s \in [1 .. n -> T] /\ IsInjective(s)
  BY <1>3 DEF SetToSeq
<1>5. \A f \in T : \E i \in 1 .. n : s[i] = f
  <2>1. s \in Injection(1 .. n, T) /\ IsFiniteSet(T)
    BY <1>1, <1>4 DEF Injection
  <2>2. Cardinality(1 .. n) = Cardinality(T)
    BY <1>2, FS_Interval
  <2>3. s \in Surjection(1 .. n, T)
    BY <2>1, <2>2, FS_Injection
  <2> QED
    BY <2>3 DEF Surjection
<1> HIDE DEF s, n
<1>6. DOMAIN s = 1 .. n
  BY <1>4
<1>7. \A i \in 1 .. n : s[i] \in T /\ new[i] = Made(s[i]) /\ Made(s[i]) \in E
  BY <1>4, <1>6
<1>8. new \in Seq(E) /\ Len(new) = n /\ DOMAIN new = 1 .. n
  <2>1. new \in [1 .. n -> E]
    BY <1>6, <1>7
  <2> QED
    BY <1>2, <2>1
<1>9. ToSet(new) = {Made(f) : f \in T}
  <2> HIDE DEF Made, new, T
  <2>1. ToSet(new) = {new[i] : i \in 1 .. n}
    BY <1>8 DEF ToSet
  <2> QED
    BY <1>5, <1>7, <2>1
<1>10. Distinct(new)
  <2>1. SUFFICES ASSUME NEW i \in 1 .. n, NEW j \in 1 .. n, new[i] = new[j]
                 PROVE  i = j
    BY <1>8 DEF Distinct
  <2>2. Made(s[i]) = Made(s[j])
    BY <1>7, <2>1
  <2>3. s[i].id = s[j].id /\ s[i].kind = s[j].kind
    BY <2>2
  <2>4. s[i] = s[j]
    BY <1>7, <2>3
  <2> QED
    BY <1>4, <1>6, <2>4 DEF IsInjective
<1>11. new = EntriesOf(files, dev, kinds)
  BY DEF EntriesOf, s
<1> QED
  BY <1>8, <1>9, <1>10, <1>11

\* The first entries of a list.
LEMMA FrontOf ==
  ASSUME NEW E, NEW new \in Seq(E), NEW k \in Int, k <= Len(new)
  PROVE  LET x == SubSeq(new, 1, k)
         IN  /\ x \in Seq(E) /\ Len(x) = (IF k > 0 THEN k ELSE 0)
             /\ \A i \in 1 .. k : x[i] = new[i]
             /\ ToSet(x) \subseteq ToSet(new) /\ (Distinct(new) => Distinct(x))
             /\ k = Len(new) => x = new
<1> DEFINE x == SubSeq(new, 1, k)
<1>1. x \in Seq(E) /\ Len(x) = (IF k > 0 THEN k ELSE 0) /\ \A i \in 1 .. k : x[i] = new[i]
  OBVIOUS
<1>2. DOMAIN x = 1 .. k /\ DOMAIN new = 1 .. Len(new) /\ Len(new) \in Nat
  BY <1>1
<1>3. k = Len(new) => x = new
  BY <1>1, <1>2
<1> HIDE DEF x
<1>4. ToSet(x) \subseteq ToSet(new)
  BY <1>1, <1>2 DEF ToSet
<1>5. Distinct(new) => Distinct(x)
  BY <1>1, <1>2 DEF Distinct
<1> QED
  BY <1>1, <1>3, <1>4, <1>5 DEF x

\* One list after another.
LEMMA Joined ==
  ASSUME NEW E, NEW a \in Seq(E), NEW b \in Seq(E)
  PROVE  /\ a \o b \in Seq(E) /\ Len(a \o b) = Len(a) + Len(b)
         /\ ToSet(a \o b) = ToSet(a) \cup ToSet(b)
         /\ Distinct(a) /\ Distinct(b) /\ ToSet(a) \cap ToSet(b) = {} => Distinct(a \o b)
<1> DEFINE x == a \o b
<1>1. x \in Seq(E) /\ Len(x) = Len(a) + Len(b) /\ Len(a) \in Nat /\ Len(b) \in Nat
  OBVIOUS
<1>2. \A i \in 1 .. Len(x) : x[i] = IF i <= Len(a) THEN a[i] ELSE b[i - Len(a)]
  OBVIOUS
<1>3. DOMAIN x = 1 .. Len(x) /\ DOMAIN a = 1 .. Len(a) /\ DOMAIN b = 1 .. Len(b)
  BY <1>1
<1> HIDE DEF x
<1>4. ToSet(x) = ToSet(a) \cup ToSet(b)
  <2>1. ASSUME NEW i \in 1 .. Len(x) PROVE x[i] \in ToSet(a) \cup ToSet(b)
    <3>1. i <= Len(a) => i \in 1 .. Len(a)
      BY <1>1
    <3>2. ~(i <= Len(a)) => i - Len(a) \in 1 .. Len(b)
      BY <1>1
    <3> QED
      BY <1>2, <1>3, <3>1, <3>2 DEF ToSet
  <2>2. ASSUME NEW i \in 1 .. Len(a) PROVE a[i] \in ToSet(x)
    <3>1. i \in 1 .. Len(x) /\ x[i] = a[i]
      BY <1>1, <1>2
    <3> QED
      BY <1>3, <3>1 DEF ToSet
  <2>3. ASSUME NEW i \in 1 .. Len(b) PROVE b[i] \in ToSet(x)
    <3>1. Len(a) + i \in 1 .. Len(x) /\ ~(Len(a) + i <= Len(a)) /\ (Len(a) + i) - Len(a) = i
      BY <1>1
    <3>2. x[Len(a) + i] = b[i]
      BY <1>2, <3>1
    <3> QED
      BY <1>3, <3>1, <3>2 DEF ToSet
  <2> QED
    BY <1>3, <2>1, <2>2, <2>3 DEF ToSet
<1>5. Distinct(a) /\ Distinct(b) /\ ToSet(a) \cap ToSet(b) = {} => Distinct(x)
  <2>1. SUFFICES ASSUME Distinct(a), Distinct(b), ToSet(a) \cap ToSet(b) = {},
                        NEW i \in 1 .. Len(x), NEW j \in 1 .. Len(x), x[i] = x[j]
                 PROVE  i = j
    BY <1>1 DEF Distinct
  <2>2. /\ \A k \in 1 .. Len(a) : a[k] \in ToSet(a)
        /\ \A k \in 1 .. Len(b) : b[k] \in ToSet(b)
    BY <1>3 DEF ToSet
  <2>3. CASE i <= Len(a) /\ j <= Len(a)
    <3>1. i \in 1 .. Len(a) /\ j \in 1 .. Len(a) /\ a[i] = a[j]
      BY <1>1, <1>2, <2>1, <2>3
    <3> QED
      BY <2>1, <3>1 DEF Distinct
  <2>4. CASE i > Len(a) /\ j > Len(a)
    <3>1. i - Len(a) \in 1 .. Len(b) /\ j - Len(a) \in 1 .. Len(b)
      BY <1>1, <2>4
    <3>2. b[i - Len(a)] = b[j - Len(a)]
      BY <1>1, <1>2, <2>1, <2>4
    <3>3. i - Len(a) = j - Len(a)
      BY <2>1, <3>1, <3>2 DEF Distinct
    <3> QED
      BY <1>1, <3>3
  <2>5. CASE i <= Len(a) /\ j > Len(a)
    <3>1. i \in 1 .. Len(a) /\ j - Len(a) \in 1 .. Len(b)
      BY <1>1, <2>5
    <3>2. a[i] = b[j - Len(a)]
      BY <1>1, <1>2, <2>1, <2>5
    <3> QED
      BY <2>1, <2>2, <3>1, <3>2
  <2>6. CASE i > Len(a) /\ j <= Len(a)
    <3>1. j \in 1 .. Len(a) /\ i - Len(a) \in 1 .. Len(b)
      BY <1>1, <2>6
    <3>2. a[j] = b[i - Len(a)]
      BY <1>1, <1>2, <2>1, <2>6
    <3> QED
      BY <2>1, <2>2, <3>1, <3>2
  <2> QED
    BY <1>1, <2>3, <2>4, <2>5, <2>6
<1> QED
  BY <1>1, <1>4, <1>5 DEF x

\* Images are added as long as there is room.
LEMMA FillIso ==
  ASSUME NEW E, NEW list \in Seq(E), NEW new \in Seq(E)
  PROVE  LET x == fill_iso(list, new)
         IN  /\ x \in Seq(E) /\ Len(list) <= Len(x)
             /\ Len(x) <= Capacity \/ x = list
             /\ ToSet(list) \subseteq ToSet(x) /\ ToSet(x) \subseteq ToSet(list) \cup ToSet(new)
             /\ Distinct(list) /\ Distinct(new) /\ ToSet(list) \cap ToSet(new) = {} => Distinct(x)
             /\ Len(x) < Capacity => ToSet(x) = ToSet(list) \cup ToSet(new)
<1> DEFINE k == Lesser(Len(new), Capacity - Len(list))
           y == SubSeq(new, 1, k)
           x == list \o y
<1>1. /\ Len(new) \in Nat /\ Len(list) \in Nat /\ Capacity \in Nat
      /\ k \in Int /\ k <= Len(new) /\ k <= Capacity - Len(list)
      /\ k = Len(new) \/ k = Capacity - Len(list)
  BY CapacityAssumption DEF Lesser
<1> HIDE DEF k
<1>2. /\ y \in Seq(E) /\ Len(y) = (IF k > 0 THEN k ELSE 0)
      /\ ToSet(y) \subseteq ToSet(new) /\ (Distinct(new) => Distinct(y))
      /\ k = Len(new) => y = new
  BY <1>1, FrontOf
<1>3. k <= 0 => y = << >>
  BY <1>2
<1> HIDE DEF y
<1>4. /\ x \in Seq(E) /\ Len(x) = Len(list) + Len(y)
      /\ ToSet(x) = ToSet(list) \cup ToSet(y)
      /\ Distinct(list) /\ Distinct(y) /\ ToSet(list) \cap ToSet(y) = {} => Distinct(x)
  BY <1>2, Joined
<1>5. k <= 0 => x = list
  BY <1>3
<1> HIDE DEF x
<1>6. Len(x) <= Capacity \/ x = list
  BY <1>1, <1>2, <1>4, <1>5
<1>7. Len(x) < Capacity => k = Len(new)
  BY <1>1, <1>2, <1>4
<1>8. Len(list) <= Len(x)
  BY <1>1, <1>2, <1>4
<1>9. x = fill_iso(list, new)
  BY DEF fill_iso, x, y, k
<1>10. ToSet(list) \subseteq ToSet(x) /\ ToSet(x) \subseteq ToSet(list) \cup ToSet(new)
  BY <1>2, <1>4
<1>11. Distinct(list) /\ Distinct(new) /\ ToSet(list) \cap ToSet(new) = {} => Distinct(x)
  BY <1>2, <1>4
<1>12. Len(x) < Capacity => ToSet(x) = ToSet(list) \cup ToSet(new)
  BY <1>2, <1>4, <1>7
<1> QED
  BY <1>4, <1>6, <1>8, <1>9, <1>10, <1>11, <1>12

\* PSX folders may be one more than there is room for.
LEMMA FillPsx ==
  ASSUME NEW E, NEW list \in Seq(E), NEW new \in Seq(E)
  PROVE  LET x == fill_psx(list, new)
         IN  /\ x \in Seq(E) /\ Len(list) <= Len(x)
             /\ Len(x) <= Capacity \/ x = list \/ (Len(x) = Len(list) + 1 /\ x[Len(x)] \in ToSet(new))
             /\ ToSet(list) \subseteq ToSet(x) /\ ToSet(x) \subseteq ToSet(list) \cup ToSet(new)
             /\ Distinct(list) /\ Distinct(new) /\ ToSet(list) \cap ToSet(new) = {} => Distinct(x)
             /\ Len(x) < Capacity => ToSet(x) = ToSet(list) \cup ToSet(new)
<1> DEFINE k == Lesser(Len(new), Greater(1, Capacity - Len(list)))
           y == SubSeq(new, 1, k)
           x == list \o y
<1>1. /\ Len(new) \in Nat /\ Len(list) \in Nat /\ Capacity \in Nat
      /\ k \in Nat /\ k <= Len(new)
      /\ k <= 1 \/ k <= Capacity - Len(list)
      /\ k = Len(new) \/ k >= Capacity - Len(list)
  BY CapacityAssumption DEF Lesser, Greater
<1> HIDE DEF k
<1>2. /\ y \in Seq(E) /\ Len(y) = (IF k > 0 THEN k ELSE 0)
      /\ \A i \in 1 .. k : y[i] = new[i]
      /\ ToSet(y) \subseteq ToSet(new) /\ (Distinct(new) => Distinct(y))
      /\ k = Len(new) => y = new
  BY <1>1, FrontOf
<1>3. k = 0 => y = << >>
  BY <1>2
<1>4. \A i \in 1 .. k : y[i] \in ToSet(new)
  BY <1>1, <1>2 DEF ToSet
<1> HIDE DEF y
<1>5. /\ x \in Seq(E) /\ Len(x) = Len(list) + Len(y)
      /\ ToSet(x) = ToSet(list) \cup ToSet(y)
      /\ Distinct(list) /\ Distinct(y) /\ ToSet(list) \cap ToSet(y) = {} => Distinct(x)
  BY <1>2, Joined
<1>6. k = 0 => x = list
  BY <1>3
<1>7. k = 1 => x[Len(x)] = y[1]
  <2>1. SUFFICES ASSUME k = 1 PROVE x[Len(x)] = y[1]
    OBVIOUS
  <2>2. Len(y) = 1 /\ Len(x) = Len(list) + 1
    BY <1>2, <1>5, <2>1
  <2> QED
    BY <1>1, <1>2, <2>2
<1> HIDE DEF x
<1>8. Len(x) <= Capacity \/ x = list \/ (Len(x) = Len(list) + 1 /\ x[Len(x)] \in ToSet(new))
  <2>1. CASE k = 0
    BY <1>6, <2>1
  <2>2. CASE k = 1
    BY <1>2, <1>4, <1>5, <1>7, <2>2
  <2>3. CASE k > 1
    BY <1>1, <1>2, <1>5, <2>3
  <2> QED
    BY <1>1, <2>1, <2>2, <2>3
<1>9. Len(x) < Capacity => k = Len(new)
  BY <1>1, <1>2, <1>5
<1>10. Len(list) <= Len(x)
  BY <1>1, <1>2, <1>5
<1>11. x = fill_psx(list, new)
  BY DEF fill_psx, x, y, k
<1>12. ToSet(list) \subseteq ToSet(x) /\ ToSet(x) \subseteq ToSet(list) \cup ToSet(new)
  BY <1>2, <1>5
<1>13. Distinct(list) /\ Distinct(new) /\ ToSet(list) \cap ToSet(new) = {} => Distinct(x)
  BY <1>2, <1>5
<1>14. Len(x) < Capacity => ToSet(x) = ToSet(list) \cup ToSet(new)
  BY <1>2, <1>5, <1>9
<1> QED
  BY <1>5, <1>8, <1>10, <1>11, <1>12, <1>13, <1>14

-----------------------------------------------------------------------------
(* Finding a game in a list.                                               *)

\* Where a favourite is found its game is, and it is not found only where
\* there is none.
LEMMA FavouriteFound ==
  ASSUME NEW E, NEW list \in Seq(E), NEW fav
  PROVE  LET p == IndexOfFavourite(fav, list)
         IN  /\ p \in -1 .. Len(list) - 1
             /\ p >= 0 => fav.id # 0 /\ list[p + 1].id = fav.id
             /\ p = -1 => fav.id = 0 \/ \A i \in 1 .. Len(list) : list[i].id # fav.id
<1> DEFINE m == Len(list)
           Game(i) == fav.id # 0 /\ list[i].id = fav.id
           Once(n, b) == IF fav.id # 0 /\ list[n].id = fav.id /\ (b = -1 \/ Replaces(list[n], list[b + 1]))
                          THEN n - 1 ELSE b
           SoFar(n) == {b \in -1 .. n - 1 : /\ b >= 0 => Game(b + 1)
                                            /\ b = -1 => \A i \in 1 .. n : ~Game(i)}
           S == [n \in 0 .. m |-> SoFar(n)]
           F == [p \in (1 .. m) \X (-1 .. m) |-> Once(p[1], p[2])]
           Is(g) == g = [n \in 0 .. m |-> IF n = 0 THEN -1 ELSE Once(n, g[n - 1])]
           f == FindingFavourite(fav, list)
<1>1. m \in Nat
  OBVIOUS
<1>2. ASSUME NEW n \in 1 .. m, NEW b \in SoFar(n - 1)
      PROVE  F[<<n, b>>] = Once(n, b) /\ Once(n, b) \in SoFar(n)
  <2>1. /\ b \in -1 .. n - 2 /\ b \in -1 .. m
        /\ b >= 0 => Game(b + 1)
        /\ b = -1 => \A i \in 1 .. n - 1 : ~Game(i)
    BY <1>1
  <2>2. Once(n, b) = n - 1 \/ Once(n, b) = b
    OBVIOUS
  <2>3. Once(n, b) \in SoFar(n)
    <3>1. CASE Game(n) /\ (b = -1 \/ Replaces(list[n], list[b + 1]))
      <4>1. Once(n, b) = n - 1
        BY <3>1
      <4>2. n - 1 \in -1 .. n - 1 /\ n - 1 >= 0 /\ n - 1 # -1 /\ (n - 1) + 1 = n
        BY <1>1
      <4>3. n - 1 \in SoFar(n)
        <5> HIDE DEF Game
        <5> QED
          BY <3>1, <4>2
      <4> QED
        BY <4>1, <4>3
    <3>2. CASE ~(Game(n) /\ (b = -1 \/ Replaces(list[n], list[b + 1])))
      <4>1. Once(n, b) = b
        BY <3>2
      <4>2. b = -1 => \A i \in 1 .. n : ~Game(i)
        <5> HIDE DEF Game
        <5>1. ASSUME b = -1, NEW i \in 1 .. n PROVE ~Game(i)
          <6>1. i = n \/ i \in 1 .. n - 1
            BY <1>1
          <6> QED
            BY <2>1, <3>2, <5>1, <6>1
        <5> QED
          BY <5>1
      <4>3. b \in SoFar(n)
        <5> HIDE DEF Game
        <5> QED
          BY <1>1, <2>1, <4>2
      <4> QED
        BY <4>1, <4>3
    <3> QED
      BY <3>1, <3>2
  <2>4. F[<<n, b>>] = Once(n, b)
    <3> HIDE DEF Once
    <3> QED
      BY <2>1
  <2> QED
    BY <2>3, <2>4
<1>3. -1 \in SoFar(0)
  BY <1>1
<1> HIDE DEF F, Once, m, SoFar
<1>4. \A n \in 0 .. m : S[n] = SoFar(n)
  BY <1>1
<1> HIDE DEF S
<1>5. ASSUME NEW n \in 1 .. m, NEW b \in S[n - 1]
      PROVE  F[<<n, b>>] = Once(n, b) /\ F[<<n, b>>] \in S[n]
  <2>1. S[n - 1] = SoFar(n - 1) /\ S[n] = SoFar(n)
    BY <1>1, <1>4
  <2> QED
    BY <1>2, <1>5, <2>1
<1>6. -1 \in S[0]
  BY <1>1, <1>3, <1>4
<1>7. PICK g : /\ IsIterates(g, m, -1, F)
               /\ \A n \in 0 .. m : g[n] \in S[n]
  BY <1>1, <1>5, <1>6, IteratesExist
<1>8. Is(g)
  <2>1. g = [n \in 0 .. m |-> IF n = 0 THEN -1 ELSE F[<<n, g[n - 1]>>]]
    BY <1>7 DEF IsIterates
  <2>2. \A n \in 0 .. m : (IF n = 0 THEN -1 ELSE F[<<n, g[n - 1]>>])
                            = (IF n = 0 THEN -1 ELSE Once(n, g[n - 1]))
    BY <1>1, <1>5, <1>7
  <2> QED
    BY <2>1, <2>2
<1>9. f = CHOOSE h : Is(h)
  BY DEF FindingFavourite, m, Once
<1>10. Is(f)
  BY <1>8, <1>9, Zenon
<1> HIDE DEF f
<1>11. f[0] = -1 /\ \A n \in 1 .. m : f[n] = Once(n, f[n - 1])
  BY <1>1, <1>10
<1>12. \A n \in 1 .. m : f[n - 1] \in S[n - 1] => f[n] = F[<<n, f[n - 1]>>]
  BY <1>1, <1>5, <1>11
<1>13. \A n \in 0 .. m : f[n] \in S[n]
  <2>1. f[0] \in S[0]
    BY <1>6, <1>11
  <2> QED
    BY <1>1, <1>5, <1>12, <2>1, IteratesStay
<1>14. f[m] \in SoFar(m)
  BY <1>1, <1>4, <1>13
<1>15. IndexOfFavourite(fav, list) = f[m]
  BY DEF IndexOfFavourite, f, m
<1> QED
  BY <1>14, <1>15 DEF SoFar, m

\* And so is the last game.
LEMMA LastGameFound ==
  ASSUME NEW E, NEW list \in Seq(E), NEW last
  PROVE  LET p == LastGamePosition(list, last)
         IN  /\ p \in -1 .. Len(list) - 1
             /\ p >= 0 => list[p + 1].id = last.id
             /\ p = -1 <=> SameGame(list, last) = {}
<1> DEFINE m == Len(list)
           Game(i) == list[i].id = last.id
           Once(n, b) == IF list[n].id = last.id /\ (b = -1 \/ PrefersTo(list[n], list[b + 1]))
                          THEN n - 1 ELSE b
           SoFar(n) == {b \in -1 .. n - 1 : /\ b >= 0 => Game(b + 1)
                                            /\ b = -1 => \A i \in 1 .. n : ~Game(i)}
           S == [n \in 0 .. m |-> SoFar(n)]
           F == [p \in (1 .. m) \X (-1 .. m) |-> Once(p[1], p[2])]
           Is(g) == g = [n \in 0 .. m |-> IF n = 0 THEN -1 ELSE Once(n, g[n - 1])]
           f == FindingLastGame(list, last)
<1>1. m \in Nat
  OBVIOUS
<1>2. ASSUME NEW n \in 1 .. m, NEW b \in SoFar(n - 1)
      PROVE  F[<<n, b>>] = Once(n, b) /\ Once(n, b) \in SoFar(n)
  <2>1. /\ b \in -1 .. n - 2 /\ b \in -1 .. m
        /\ b >= 0 => Game(b + 1)
        /\ b = -1 => \A i \in 1 .. n - 1 : ~Game(i)
    BY <1>1
  <2>3. Once(n, b) \in SoFar(n)
    <3>1. CASE Game(n) /\ (b = -1 \/ PrefersTo(list[n], list[b + 1]))
      <4>1. Once(n, b) = n - 1
        BY <3>1
      <4>2. n - 1 \in -1 .. n - 1 /\ n - 1 >= 0 /\ n - 1 # -1 /\ (n - 1) + 1 = n
        BY <1>1
      <4>3. n - 1 \in SoFar(n)
        <5> HIDE DEF Game
        <5> QED
          BY <3>1, <4>2
      <4> QED
        BY <4>1, <4>3
    <3>2. CASE ~(Game(n) /\ (b = -1 \/ PrefersTo(list[n], list[b + 1])))
      <4>1. Once(n, b) = b
        BY <3>2
      <4>2. b = -1 => \A i \in 1 .. n : ~Game(i)
        <5> HIDE DEF Game
        <5>1. ASSUME b = -1, NEW i \in 1 .. n PROVE ~Game(i)
          <6>1. i = n \/ i \in 1 .. n - 1
            BY <1>1
          <6> QED
            BY <2>1, <3>2, <5>1, <6>1
        <5> QED
          BY <5>1
      <4>3. b \in SoFar(n)
        <5> HIDE DEF Game
        <5> QED
          BY <1>1, <2>1, <4>2
      <4> QED
        BY <4>1, <4>3
    <3> QED
      BY <3>1, <3>2
  <2>4. F[<<n, b>>] = Once(n, b)
    <3> HIDE DEF Once
    <3> QED
      BY <2>1
  <2> QED
    BY <2>3, <2>4
<1>3. -1 \in SoFar(0)
  BY <1>1
<1> HIDE DEF F, Once, m, SoFar
<1>4. \A n \in 0 .. m : S[n] = SoFar(n)
  BY <1>1
<1> HIDE DEF S
<1>5. ASSUME NEW n \in 1 .. m, NEW b \in S[n - 1]
      PROVE  F[<<n, b>>] = Once(n, b) /\ F[<<n, b>>] \in S[n]
  <2>1. S[n - 1] = SoFar(n - 1) /\ S[n] = SoFar(n)
    BY <1>1, <1>4
  <2> QED
    BY <1>2, <1>5, <2>1
<1>6. -1 \in S[0]
  BY <1>1, <1>3, <1>4
<1>7. PICK g : /\ IsIterates(g, m, -1, F)
               /\ \A n \in 0 .. m : g[n] \in S[n]
  BY <1>1, <1>5, <1>6, IteratesExist
<1>8. Is(g)
  <2>1. g = [n \in 0 .. m |-> IF n = 0 THEN -1 ELSE F[<<n, g[n - 1]>>]]
    BY <1>7 DEF IsIterates
  <2>2. \A n \in 0 .. m : (IF n = 0 THEN -1 ELSE F[<<n, g[n - 1]>>])
                            = (IF n = 0 THEN -1 ELSE Once(n, g[n - 1]))
    BY <1>1, <1>5, <1>7
  <2> QED
    BY <2>1, <2>2
<1>9. f = CHOOSE h : Is(h)
  BY DEF FindingLastGame, m, Once
<1>10. Is(f)
  BY <1>8, <1>9, Zenon
<1> HIDE DEF f
<1>11. f[0] = -1 /\ \A n \in 1 .. m : f[n] = Once(n, f[n - 1])
  BY <1>1, <1>10
<1>12. \A n \in 1 .. m : f[n - 1] \in S[n - 1] => f[n] = F[<<n, f[n - 1]>>]
  BY <1>1, <1>5, <1>11
<1>13. \A n \in 0 .. m : f[n] \in S[n]
  <2>1. f[0] \in S[0]
    BY <1>6, <1>11
  <2> QED
    BY <1>1, <1>5, <1>12, <2>1, IteratesStay
<1>14. f[m] \in SoFar(m)
  BY <1>1, <1>4, <1>13
<1>15. SameGame(list, last) = {n \in 1 .. m : Game(n)}
  BY DEF SameGame, m
<1>16. CASE SameCopy(list, last) # {}
  <2> DEFINE C == SameCopy(list, last)
  <2>1. C \in SUBSET Nat /\ C \subseteq SameGame(list, last) /\ C # {}
    BY <1>1, <1>15, <1>16 DEF SameCopy
  <2>2. PICK n \in C : \A k \in C : n <= k
    <3> HIDE DEF C
    <3> QED
      BY <2>1, SmallestOf
  <2>3. Min(C) \in C
    BY <2>2 DEF Min
  <2>4. LastGamePosition(list, last) = Min(C) - 1
    BY <1>16 DEF LastGamePosition
  <2>5. Min(C) \in 1 .. m /\ Game(Min(C))
    BY <1>15, <2>1, <2>3
  <2> DEFINE q == Min(C)
  <2>6. q \in 1 .. m /\ Game(q) /\ LastGamePosition(list, last) = q - 1 /\ SameGame(list, last) # {}
    BY <1>16, <2>4, <2>5 DEF SameCopy
  <2> HIDE DEF q, C, Game
  <2>7. (q - 1) + 1 = q /\ q - 1 \in -1 .. m - 1 /\ q - 1 >= 0
    BY <1>1, <2>6
  <2> QED
    BY <2>6, <2>7 DEF m, Game
<1>17. CASE SameCopy(list, last) = {}
  <2>1. LastGamePosition(list, last) = f[m]
    BY <1>17 DEF LastGamePosition, f, m
  <2>2. /\ f[m] \in -1 .. m - 1
        /\ f[m] >= 0 => Game(f[m] + 1)
        /\ f[m] = -1 => \A i \in 1 .. m : ~Game(i)
    BY <1>14 DEF SoFar
  <2> DEFINE q == f[m]
  <2> HIDE DEF q
  <2>3. /\ q \in -1 .. m - 1
        /\ q >= 0 => Game(q + 1)
        /\ q = -1 => \A i \in 1 .. m : ~Game(i)
    BY <2>2 DEF q
  <2>4. q = -1 <=> SameGame(list, last) = {}
    <3>1. q # -1 => q >= 0 /\ q + 1 \in 1 .. m
      BY <1>1, <2>3
    <3> HIDE DEF Game
    <3> QED
      BY <1>15, <2>3, <3>1
  <2> QED
    BY <2>1, <2>3, <2>4 DEF q, m
<1> QED
  BY <1>16, <1>17

\* The elements of a list.
LEMMA InToSet ==
  ASSUME NEW E, NEW list \in Seq(E)
  PROVE  /\ ToSet(list) = {list[i] : i \in 1 .. Len(list)} /\ ToSet(list) \subseteq E
         /\ Len(list) \in Nat
BY DEF ToSet

\* A list without repetitions is as long as it has entries.
LEMMA LenIsCardinality ==
  ASSUME NEW E, NEW list \in Seq(E), Distinct(list)
  PROVE  IsFiniteSet(ToSet(list)) /\ Cardinality(ToSet(list)) = Len(list)
<1> DEFINE f == [i \in 1 .. Len(list) |-> list[i]]
<1>1. Len(list) \in Nat /\ ToSet(list) = {list[i] : i \in 1 .. Len(list)}
  BY InToSet
<1>2. f \in Bijection(1 .. Len(list), ToSet(list))
  <2>1. f \in [1 .. Len(list) -> ToSet(list)]
    BY <1>1
  <2>2. \A i, j \in 1 .. Len(list) : f[i] = f[j] => i = j
    BY DEF Distinct
  <2>3. \A e \in ToSet(list) : \E i \in 1 .. Len(list) : f[i] = e
    BY <1>1
  <2> HIDE DEF f
  <2>4. IsInjective(f)
    BY <2>1, <2>2 DEF IsInjective
  <2> QED
    BY <2>1, <2>3, <2>4 DEF Bijection, Injection, Surjection
<1> HIDE DEF f
<1>3. ExistsBijection(1 .. Len(list), ToSet(list))
  BY <1>2 DEF ExistsBijection
<1>4. IsFiniteSet(1 .. Len(list)) /\ Cardinality(1 .. Len(list)) = Len(list)
  BY SMTT(30), <1>1, FS_Interval
<1> QED
  BY <1>3, <1>4, FS_Bijection

-----------------------------------------------------------------------------
(* Sorted by title, the disc is first.                                     *)

OneDisc(list) == \A i, j \in 1 .. Len(list) : IsDisc(list[i]) /\ IsDisc(list[j]) => i = j
DiscOnTop(list) == \A i \in 1 .. Len(list) : IsDisc(list[i]) => i = 1

\* Whatever the order of the entries, there is one disc.
LEMMA ShuffledDisc ==
  ASSUME NEW E, NEW list \in Seq(E), Distinct(list), OneDisc(list), NEW l \in Shuffles(E, list)
  PROVE  OneDisc(l) /\ l \in Seq(E) /\ Len(l) = Len(list)
<1>1. /\ l \in Seq(E) /\ Len(l) = Len(list) /\ ToSet(l) = ToSet(list) /\ Distinct(l)
  BY DEF Shuffles
<1>2. \A i \in 1 .. Len(l) : \E j \in 1 .. Len(list) : l[i] = list[j]
  <2>1. ToSet(l) = {l[i] : i \in 1 .. Len(l)} /\ ToSet(list) = {list[i] : i \in 1 .. Len(list)}
    BY <1>1, InToSet
  <2> QED
    BY <1>1, <2>1
<1>3. \A i, j \in 1 .. Len(l) : IsDisc(l[i]) /\ IsDisc(l[j]) => l[i] = l[j]
  BY <1>2 DEF OneDisc
<1> QED
  BY <1>1, <1>3 DEF OneDisc, Distinct

\* Settling the first entry brings the disc to the top, and settling the
\* others leaves it there.
LEMMA DiscSettles ==
  ASSUME NEW E, NEW list \in Seq(E), Distinct(list), OneDisc(list),
         NEW l0 \in Shuffles(E, list), NEW n \in 1 .. Len(list), n = 1 \/ DiscOnTop(l0)
  PROVE  DiscOnTop(SettleEntry(l0, n, 0, GAMEBASE_MODE))
<1> DEFINE f == Passes(l0, n, 0, GAMEBASE_MODE)
           m == Len(l0) - n
           D(l, k) == \A j \in 1 .. Len(list) : IsDisc(l[j]) /\ (n = 1 => j <= 1 + k) => j = 1
           T == {k \in 0 .. m : D(f[k], k)}
<1>1. /\ f[0] = l0 /\ m \in Nat /\ SettleEntry(l0, n, 0, GAMEBASE_MODE) = f[m]
      /\ \A k \in 0 .. m : f[k] \in Shuffles(E, list)
  BY PassesAre
<1>2. \A k \in 1 .. m : f[k] = IF MustSwap(f[k - 1][n], f[k - 1][n + k], n = 1, 0, GAMEBASE_MODE)
                               THEN Exchange(f[k - 1], n, n + k) ELSE f[k - 1]
  BY PassesAre
<1>3. Len(list) \in Nat /\ Len(l0) = Len(list) /\ n + m = Len(list) /\ n \in Nat /\ n >= 1
  BY ShuffledDisc
<1> HIDE DEF f, m
<1>4. 0 \in T
  BY <1>1, <1>3 DEF DiscOnTop
<1>5. ASSUME NEW k0 \in 0 .. m - 1, k0 \in T
      PROVE  k0 + 1 \in T
  <2> DEFINE k == k0 + 1
             l == f[k0]
             x == f[k]
             p == n + k
             a == l[n]
             b == l[p]
             swap == MustSwap(a, b, n = 1, 0, GAMEBASE_MODE)
  <2>1. k \in 1 .. m /\ k - 1 = k0 /\ p \in 1 .. Len(list) /\ p > n
        /\ k0 \in 0 .. m /\ k \in 0 .. m /\ p \in Int /\ (n = 1 => p = 1 + k)
    BY <1>1, <1>3
  <2>2. D(l, k0)
    BY <1>5
  <2>3. x = IF swap THEN Exchange(l, n, p) ELSE l
    BY <1>2, <2>1
  <2>4. OneDisc(l) /\ l \in Seq(E) /\ Len(l) = Len(list)
    BY <1>1, <2>1, ShuffledDisc
  <2>5. swap <=> (IsDisc(b) /\ n = 1) \/ (a.id > b.id /\ ~IsDisc(a) /\ ~IsDisc(b))
    BY DEF MustSwap, DiscFirst, ByTitle
  <2> HIDE DEF l, x
  <2>6. ~(IsDisc(a) /\ IsDisc(b))
    BY <1>3, <2>1, <2>4 DEF OneDisc
  <2>7. swap => \A j \in 1 .. Len(list) : x[j] = IF j = p THEN a ELSE IF j = n THEN b ELSE l[j]
    BY <2>1, <2>3, <2>4 DEF Exchange
  <2>8. ~swap => x = l
    BY <2>3
  <2> HIDE DEF swap
  <2>9. ASSUME NEW j \in 1 .. Len(list), IsDisc(x[j]), n = 1 => j <= 1 + k
        PROVE  j = 1
    <3>1. CASE swap
      <4>1. CASE j = p
        BY <2>1, <2>5, <2>6, <2>7, <2>9, <3>1, <4>1
      <4>2. CASE j = n
        BY <2>1, <2>5, <2>7, <2>9, <3>1, <4>2
      <4>3. CASE j # p /\ j # n
        BY <1>3, <2>1, <2>2, <2>7, <2>9, <3>1, <4>3
      <4> QED
        BY <4>1, <4>2, <4>3
    <3>2. CASE ~swap
      <4>1. CASE n = 1 /\ j = p
        BY <2>5, <2>8, <2>9, <3>2, <4>1
      <4>2. CASE ~(n = 1 /\ j = p)
        BY <1>3, <2>1, <2>2, <2>8, <2>9, <3>2, <4>2
      <4> QED
        BY <4>1, <4>2
    <3> QED
      BY <3>1, <3>2
  <2> QED
    BY <2>1, <2>9 DEF x
<1>6. \A k \in 0 .. m : k \in T
  <2> HIDE DEF T
  <2> QED
    BY <1>1, <1>4, <1>5, UpTo
<1>7. D(f[m], m)
  BY <1>1, <1>6
<1>8. Len(f[m]) = Len(list)
  BY <1>1, ShuffledDisc
<1> QED
  BY <1>1, <1>3, <1>7, <1>8 DEF DiscOnTop

\* sort_entries puts the disc first.
LEMMA DiscComesFirst ==
  ASSUME NEW E, NEW list \in Seq(E), Distinct(list), OneDisc(list)
  PROVE  DiscOnTop(sort_entries(list))
<1> DEFINE f == Settling(list, 0, GAMEBASE_MODE)
           m == Len(list)
           T == {n \in 0 .. m : n >= 1 => DiscOnTop(f[n])}
<1>1. /\ \A n \in 1 .. m : f[n] = SettleEntry(f[n - 1], n, 0, GAMEBASE_MODE)
      /\ \A n \in 0 .. m : f[n] \in Shuffles(E, list)
      /\ sort_entries(list) = f[m] /\ f[0] = list
  BY SettlingIs DEF sort_entries
<1>2. m \in Nat
  OBVIOUS
<1> HIDE DEF f
<1>3. 0 \in T
  BY <1>2
<1>4. ASSUME NEW k \in 0 .. m - 1, k \in T
      PROVE  k + 1 \in T
  <2>1. k + 1 \in 1 .. m /\ (k + 1) - 1 = k /\ k \in 0 .. m /\ k + 1 \in 0 .. m
    BY <1>2
  <2>2. f[k + 1] = SettleEntry(f[k], k + 1, 0, GAMEBASE_MODE)
    BY <1>1, <2>1
  <2>3. f[k] \in Shuffles(E, list) /\ (k + 1 = 1 \/ DiscOnTop(f[k]))
    BY <1>1, <1>4, <2>1
  <2>4. DiscOnTop(f[k + 1])
    BY <2>1, <2>2, <2>3, DiscSettles
  <2> QED
    BY <2>1, <2>4
<1>5. \A n \in 0 .. m : n \in T
  <2> HIDE DEF T
  <2> QED
    BY <1>2, <1>3, <1>4, UpTo
<1>6. CASE m = 0
  BY <1>1, <1>6 DEF DiscOnTop
<1>7. CASE m >= 1
  BY <1>1, <1>2, <1>5, <1>7
<1> QED
  BY <1>2, <1>6, <1>7
=============================================================================
