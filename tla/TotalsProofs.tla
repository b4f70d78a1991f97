---------------------------- MODULE TotalsProofs ----------------------------
(***************************************************************************)
(* Facts about Running and Total.  Induction over the row number is done   *)
(* through the well-foundedness of < on Nat (a least counterexample), so   *)
(* every lemma below is first order.                                       *)
(***************************************************************************)
EXTENDS Totals, Functions, FiniteSetTheorems, WellFoundedInduction, TLAPS

\* A set that holds 0 and is closed under successor holds every natural.
LEMMA Induction ==
  ASSUME NEW S, 0 \in S, \A n \in Nat : n \in S => n + 1 \in S
  PROVE  \A n \in Nat : n \in S
<1>. DEFINE T == {n \in Nat : n \notin S}
            R == {ss \in Nat \X Nat : ss[1] < ss[2]}
<1>0. IsWellFoundedOn(R, Nat)
  BY NatLessThanWellFounded DEF OpToRel
<1>1. SUFFICES ASSUME T # {} PROVE FALSE
  OBVIOUS
<1>2. PICK m \in T : \A y \in T : ~(<<y, m>> \in R)
  <2>. HIDE DEF R
  <2>. QED BY <1>0, <1>1, WFMin, T \subseteq Nat
<1>3. m \in Nat /\ m # 0
  BY <1>2
<1>4. m - 1 \in Nat /\ <<m - 1, m>> \in R
  BY <1>3
<1>5. m - 1 \notin T
  BY <1>2, <1>4
<1>6. m - 1 \in S
  BY <1>4, <1>5
<1>7. (m - 1) + 1 \in S
  BY <1>4, <1>6
<1>. QED
  BY <1>2, <1>3, <1>7

\* g is the function of running sums of f.
IsRunning(g, f, n) ==
  g = [k \in 0..n |-> IF k = 0 THEN 0 ELSE g[k-1] + f[k]]

\* The recursion of Running has a solution, an integer at every row.
LEMMA RunningExists ==
  ASSUME NEW n \in Nat, NEW f \in [1..n -> Int]
  PROVE  \E g \in [0..n -> Int] : IsRunning(g, f, n)
<1>. DEFINE S == {m \in Nat : m <= n => \E g \in [0..m -> Int] : IsRunning(g, f, m)}
<1>1. 0 \in S
  <2>. DEFINE g == [k \in 0..0 |-> 0]
  <2>1. g \in [0..0 -> Int] /\ IsRunning(g, f, 0)
    BY DEF IsRunning
  <2>. QED BY <2>1
<1>2. ASSUME NEW m \in Nat, m \in S PROVE m + 1 \in S
  <2>. SUFFICES ASSUME m + 1 <= n
                PROVE  \E g \in [0..(m+1) -> Int] : IsRunning(g, f, m+1)
    OBVIOUS
  <2>1. PICK h \in [0..m -> Int] : IsRunning(h, f, m)
    BY <1>2
  <2>. DEFINE g == [k \in 0..(m+1) |-> IF k = m+1 THEN h[m] + f[m+1] ELSE h[k]]
  <2>2. g \in [0..(m+1) -> Int]
    OBVIOUS
  <2>3. ASSUME NEW k \in 0..(m+1) PROVE g[k] = IF k = 0 THEN 0 ELSE g[k-1] + f[k]
    BY <2>1 DEF IsRunning
  <2>4. IsRunning(g, f, m+1)
    BY <2>2, <2>3 DEF IsRunning
  <2>. QED BY <2>2, <2>4
<1>3. n \in S
  BY <1>1, <1>2, Induction, Zenon
<1>. QED BY <1>3

\* It has only one.
LEMMA RunningUnique ==
  ASSUME NEW f, NEW n \in Nat, NEW g, NEW h, IsRunning(g, f, n), IsRunning(h, f, n)
  PROVE  g = h
<1>. DEFINE S == {m \in Nat : m <= n => g[m] = h[m]}
<1>1. 0 \in S
  BY DEF IsRunning
<1>2. ASSUME NEW m \in Nat, m \in S PROVE m + 1 \in S
  BY <1>2 DEF IsRunning
<1>3. \A m \in Nat : m \in S
  BY <1>1, <1>2, Induction, Zenon
<1>4. \A m \in 0..n : g[m] = h[m]
  BY <1>3
<1>. QED BY <1>4 DEF IsRunning

\* What Running computes: its recursion equation and its type.
LEMMA RunningDef ==
  ASSUME NEW n \in Nat, NEW f \in [1..n -> Int]
  PROVE  /\ IsRunning(Running(f, n), f, n)
         /\ Running(f, n) \in [0..n -> Int]
<1>1. PICK g \in [0..n -> Int] : IsRunning(g, f, n)
  BY RunningExists
<1>2. IsRunning(Running(f, n), f, n)
  BY <1>1 DEF Running, IsRunning
<1>3. Running(f, n) = g
  BY <1>1, <1>2, RunningUnique
<1>. QED BY <1>1, <1>2, <1>3

LEMMA TotalType ==
  ASSUME NEW n \in Nat, NEW f \in [1..n -> Int]
  PROVE  Total(f, n) \in Int
BY RunningDef DEF Total

\* Changing one row by d changes the total by d.
LEMMA TotalOneRow ==
  ASSUME NEW n \in Nat, NEW f \in [1..n -> Int], NEW h \in [1..n -> Int],
         NEW j \in 1..n, NEW d \in Int,
         h[j] = f[j] + d, \A k \in 1..n \ {j} : h[k] = f[k]
  PROVE  Total(h, n) = Total(f, n) + d
<1>. DEFINE g == Running(f, n)
            e == [k \in 0..n |-> IF k >= j THEN g[k] + d ELSE g[k]]
<1>1. IsRunning(g, f, n) /\ g \in [0..n -> Int]
  BY RunningDef
<1>2. ASSUME NEW k \in 0..n PROVE e[k] = IF k = 0 THEN 0 ELSE e[k-1] + h[k]
  <2>. HIDE DEF g
  <2>1. g[k] = IF k = 0 THEN 0 ELSE g[k-1] + f[k]
    BY <1>1 DEF IsRunning
  <2>2. CASE k = 0
    BY <2>1, <2>2
  <2>3. CASE k # 0 /\ k = j
    BY <1>1, <2>1, <2>3
  <2>4. CASE k # 0 /\ k # j
    <3>1. k \in 1..n /\ k - 1 \in 0..n
      BY <2>4
    <3>2. h[k] = f[k] /\ f[k] \in Int /\ g[k-1] \in Int
      BY <1>1, <2>4, <3>1
    <3>3. g[k] = g[k-1] + h[k]
      BY <2>1, <2>4, <3>2
    <3>4. (k >= j) <=> (k - 1 >= j)
      BY <2>4
    <3>5. e[k-1] = IF k - 1 >= j THEN g[k-1] + d ELSE g[k-1]
      BY <3>1
    <3>6. e[k] = IF k >= j THEN g[k] + d ELSE g[k]
      OBVIOUS
    <3>7. e[k] = e[k-1] + h[k]
      <4>. HIDE DEF e
      <4>. QED BY <3>2, <3>3, <3>4, <3>5, <3>6
    <3>. QED
      <4>. HIDE DEF e
      <4>. QED BY <2>4, <3>7
  <2>. QED BY <2>2, <2>3, <2>4
<1>3. IsRunning(e, h, n)
  BY <1>2 DEF IsRunning
<1>4. Running(h, n) = e
  BY <1>3, RunningDef, RunningUnique
<1>. QED BY <1>1, <1>4 DEF Total

\* Totals add row by row.
LEMMA TotalPlus ==
  ASSUME NEW n \in Nat, NEW f \in [1..n -> Int], NEW e \in [1..n -> Int],
         NEW h \in [1..n -> Int], \A k \in 1..n : h[k] = f[k] + e[k]
  PROVE  Total(h, n) = Total(f, n) + Total(e, n)
<1>. DEFINE g1 == Running(f, n)
            g2 == Running(e, n)
            g == [k \in 0..n |-> g1[k] + g2[k]]
<1>1. IsRunning(g1, f, n) /\ g1 \in [0..n -> Int] /\ IsRunning(g2, e, n) /\ g2 \in [0..n -> Int]
  BY RunningDef
<1>2. ASSUME NEW k \in 0..n PROVE g[k] = IF k = 0 THEN 0 ELSE g[k-1] + h[k]
  <2>. HIDE DEF g1, g2
  <2>1. /\ g1[k] = IF k = 0 THEN 0 ELSE g1[k-1] + f[k]
        /\ g2[k] = IF k = 0 THEN 0 ELSE g2[k-1] + e[k]
    BY <1>1 DEF IsRunning
  <2>2. CASE k = 0
    BY <2>1, <2>2
  <2>3. CASE k # 0
    <3>1. k \in 1..n /\ k - 1 \in 0..n
      BY <2>3
    <3>2. /\ h[k] = f[k] + e[k] /\ f[k] \in Int /\ e[k] \in Int
          /\ g1[k-1] \in Int /\ g2[k-1] \in Int
      BY <1>1, <3>1
    <3>3. g[k-1] = g1[k-1] + g2[k-1]
      BY <3>1
    <3>4. g1[k] = g1[k-1] + f[k] /\ g2[k] = g2[k-1] + e[k]
      BY <2>1, <2>3
    <3>5. g[k] = g1[k] + g2[k]
      OBVIOUS
    <3>6. g[k] = g[k-1] + h[k]
      <4>. HIDE DEF g
      <4>. QED BY <3>2, <3>3, <3>4, <3>5
    <3>. QED
      <4>. HIDE DEF g
      <4>. QED BY <2>3, <3>6
  <2>. QED BY <2>2, <2>3
<1>3. IsRunning(g, h, n)
  BY <1>2 DEF IsRunning
<1>4. Running(h, n) = g
  BY <1>3, RunningDef, RunningUnique
<1>. QED BY <1>1, <1>4 DEF Total

\* A column of zeros adds up to zero.
LEMMA TotalZero ==
  ASSUME NEW n \in Nat
  PROVE  Total([k \in 1..n |-> 0], n) = 0
<1>. DEFINE f == [k \in 1..n |-> 0]
            g == [k \in 0..n |-> 0]
<1>1. IsRunning(g, f, n)
  BY DEF IsRunning
<1>2. Running(f, n) = g
  BY <1>1, RunningDef, RunningUnique
<1>. QED BY <1>2 DEF Total

\* A column of naturals adds up to a natural that no row exceeds.
LEMMA TotalNat ==
  ASSUME NEW n \in Nat, NEW f \in [1..n -> Nat]
  PROVE  /\ Total(f, n) \in Nat
         /\ \A j \in 1..n : f[j] <= Total(f, n)
<1>. DEFINE g == Running(f, n)
            S == {m \in Nat : m <= n => g[m] \in Nat /\ \A j \in 1..m : f[j] <= g[m]}
<1>1. IsRunning(g, f, n) /\ g \in [0..n -> Int]
  BY RunningDef
<1>2. 0 \in S
  BY <1>1 DEF IsRunning
<1>3. ASSUME NEW m \in Nat, m \in S PROVE m + 1 \in S
  <2>. HIDE DEF g
  <2>. SUFFICES ASSUME m + 1 <= n
                PROVE  g[m+1] \in Nat /\ \A j \in 1..(m+1) : f[j] <= g[m+1]
    OBVIOUS
  <2>1. g[m+1] = g[m] + f[m+1]
    BY <1>1 DEF IsRunning
  <2>2. g[m] \in Nat /\ \A j \in 1..m : f[j] <= g[m]
    BY <1>3
  <2>. QED BY <2>1, <2>2
<1>4. n \in S
  <2>. HIDE DEF S
  <2>. QED BY <1>2, <1>3, Induction, Zenon
<1>. QED BY <1>4 DEF Total

\* A column below another, row by row, has the smaller total.
LEMMA TotalMonotone ==
  ASSUME NEW n \in Nat, NEW f \in [1..n -> Int], NEW h \in [1..n -> Int],
         \A k \in 1..n : f[k] <= h[k]
  PROVE  Total(f, n) <= Total(h, n)
<1>. DEFINE e == [k \in 1..n |-> h[k] - f[k]]
<1>1. e \in [1..n -> Nat] /\ e \in [1..n -> Int] /\ \A k \in 1..n : h[k] = f[k] + e[k]
  OBVIOUS
<1>. HIDE DEF e
<1>2. Total(h, n) = Total(f, n) + Total(e, n)
  BY <1>1, TotalPlus
<1>3. Total(e, n) \in Nat /\ Total(f, n) \in Int
  BY <1>1, TotalNat, TotalType
<1>. QED BY <1>2, <1>3

-----------------------------------------------------------------------------
(***************************************************************************)
(* Sums over finite sets (SumFunctionOnSet of the community module), by    *)
(* induction on the number of elements.                                    *)
(***************************************************************************)

\* The element that the sum takes out of s first.
One(s) == CHOOSE x \in s : TRUE

LEMMA NotEmpty ==
  ASSUME NEW s, NEW m \in Nat, Cardinality(s) = m + 1 PROVE s # {}
<1>1. Cardinality({}) = 0
  BY FS_EmptySet
<1> QED BY <1>1

\* g is the sum of f on each of the sets of C.
IsSumming(g, f, C) ==
  g = [s \in C |-> IF s = {} THEN 0 ELSE f[One(s)] + g[s \ {One(s)}]]

\* The subsets of S with at most n elements.
UpTo(S, n) == {s \in SUBSET S : Cardinality(s) <= n}

LEMMA OneOf ==
  ASSUME NEW s, s # {}, IsFiniteSet(s)
  PROVE  /\ One(s) \in s
         /\ IsFiniteSet(s \ {One(s)}) /\ Cardinality(s \ {One(s)}) = Cardinality(s) - 1
<1>1. One(s) \in s
  BY DEF One
<1> QED BY <1>1, FS_RemoveElement

LEMMA SumsExist ==
  ASSUME NEW S, IsFiniteSet(S), NEW f, \A x \in S : f[x] \in Int, NEW n \in Nat
  PROVE  \E g \in [UpTo(S, n) -> Int] : IsSumming(g, f, UpTo(S, n))
<1> DEFINE N == {m \in Nat : \E g \in [UpTo(S, m) -> Int] : IsSumming(g, f, UpTo(S, m))}
<1>0. \A s \in SUBSET S : IsFiniteSet(s) /\ Cardinality(s) \in Nat
  BY FS_Subset, FS_CardinalityType
<1>1. 0 \in N
  <2> DEFINE g == [s \in UpTo(S, 0) |-> 0]
  <2>1. \A s \in UpTo(S, 0) : s = {}
    <3> SUFFICES ASSUME NEW s \in SUBSET S, Cardinality(s) <= 0 PROVE s = {}
      BY DEF UpTo
    <3> QED BY <1>0, FS_EmptySet
  <2>2. g = [s \in UpTo(S, 0) |-> IF s = {} THEN 0 ELSE f[One(s)] + g[s \ {One(s)}]]
    BY <2>1
  <2>3. IsSumming(g, f, UpTo(S, 0)) /\ g \in [UpTo(S, 0) -> Int]
    BY <2>2 DEF IsSumming
  <2> HIDE DEF g
  <2> QED BY <2>3
<1>2. ASSUME NEW m \in Nat, m \in N PROVE m + 1 \in N
  <2>1. PICK h \in [UpTo(S, m) -> Int] : IsSumming(h, f, UpTo(S, m))
    BY <1>2
  <2> DEFINE C == UpTo(S, m + 1)
             g == [s \in C |-> IF s = {} THEN 0 ELSE f[One(s)] + h[s \ {One(s)}]]
  <2>2. ASSUME NEW s \in C, s # {} PROVE One(s) \in S /\ s \ {One(s)} \in UpTo(S, m)
    BY <1>0, <2>2, OneOf DEF UpTo
  <2>3. \A s \in UpTo(S, m) : h[s] = IF s = {} THEN 0 ELSE f[One(s)] + h[s \ {One(s)}]
    BY <2>1 DEF IsSumming
  <2>4. UpTo(S, m) \subseteq C
    BY <1>0 DEF UpTo
  <2>5. \A s \in UpTo(S, m) : g[s] = h[s]
    BY <2>3, <2>4
  <2>6. g \in [C -> Int]
    BY <2>2
  <2>7. \A s \in C : g[s] = IF s = {} THEN 0 ELSE f[One(s)] + g[s \ {One(s)}]
    BY <2>2, <2>5
  <2>8. IsSumming(g, f, C)
    BY <2>6, <2>7 DEF IsSumming
  <2> HIDE DEF g, C
  <2>9. \E k \in [C -> Int] : IsSumming(k, f, C)
    BY <2>6, <2>8
  <2> QED BY <2>9 DEF C
<1> HIDE DEF N
<1>3. n \in N
  BY <1>1, <1>2, Induction
<1> QED BY <1>3 DEF N

LEMMA SumsUnique ==
  ASSUME NEW S, IsFiniteSet(S), NEW f, NEW g, NEW h,
         IsSumming(g, f, SUBSET S), NEW T \in SUBSET S, IsSumming(h, f, SUBSET T)
  PROVE  \A s \in SUBSET T : h[s] = g[s]
<1> DEFINE N == {m \in Nat : \A s \in SUBSET T : Cardinality(s) = m => h[s] = g[s]}
<1>0. \A s \in SUBSET S : IsFiniteSet(s) /\ Cardinality(s) \in Nat
  BY FS_Subset, FS_CardinalityType
<1>1. \A s \in SUBSET T : /\ h[s] = IF s = {} THEN 0 ELSE f[One(s)] + h[s \ {One(s)}]
                          /\ g[s] = IF s = {} THEN 0 ELSE f[One(s)] + g[s \ {One(s)}]
  BY DEF IsSumming
<1>2. 0 \in N
  <2> SUFFICES ASSUME NEW s \in SUBSET T, Cardinality(s) = 0 PROVE h[s] = g[s]
    OBVIOUS
  <2>1. s = {}
    BY <1>0, FS_EmptySet
  <2> QED BY <1>1, <2>1
<1>3. ASSUME NEW m \in Nat, m \in N PROVE m + 1 \in N
  <2> SUFFICES ASSUME NEW s \in SUBSET T, Cardinality(s) = m + 1 PROVE h[s] = g[s]
    OBVIOUS
  <2>1. s # {}
    BY NotEmpty
  <2>2. s \ {One(s)} \in SUBSET T /\ Cardinality(s \ {One(s)}) = m
    BY <1>0, <2>1, OneOf
  <2> QED BY <1>1, <1>3, <2>1, <2>2
<1>4. \A m \in Nat : m \in N
  <2> HIDE DEF N
  <2> QED BY <1>2, <1>3, Induction
<1> QED BY <1>0, <1>4

\* The sums over the subsets of S, as one function.
Sums(g, f, S) ==
  /\ g \in [SUBSET S -> Int] /\ IsSumming(g, f, SUBSET S)
  /\ \A T \in SUBSET S : SumFunctionOnSet(f, T) = g[T]

LEMMA SumsOf ==
  ASSUME NEW S, IsFiniteSet(S), NEW f, \A x \in S : f[x] \in Int
  PROVE  \E g : Sums(g, f, S)
<1>1. \E g \in [SUBSET S -> Int] : IsSumming(g, f, SUBSET S)
  <2>1. Cardinality(S) \in Nat /\ \A s \in SUBSET S : Cardinality(s) <= Cardinality(S)
    BY FS_Subset, FS_CardinalityType
  <2> PICK n \in Nat : n = Cardinality(S)
    BY <2>1
  <2>2. UpTo(S, n) = SUBSET S
    BY <2>1 DEF UpTo
  <2>3. \E g \in [UpTo(S, n) -> Int] : IsSumming(g, f, UpTo(S, n))
    BY SumsExist, Zenon
  <2> QED BY <2>2, <2>3
<1>2. PICK g \in [SUBSET S -> Int] : IsSumming(g, f, SUBSET S)
  BY <1>1
<1>3. ASSUME NEW T \in SUBSET S PROVE SumFunctionOnSet(f, T) = g[T]
  <2> DEFINE h == CHOOSE k : IsSumming(k, f, SUBSET T)
             r == [s \in SUBSET T |-> g[s]]
  <2>1. IsSumming(r, f, SUBSET T)
    <3>1. \A s \in SUBSET T : r[s] = IF s = {} THEN 0 ELSE f[One(s)] + r[s \ {One(s)}]
      BY <1>2 DEF IsSumming
    <3> QED BY <3>1 DEF IsSumming
  <2>2. IsSumming(h, f, SUBSET T)
    BY <2>1
  <2>3. SumFunctionOnSet(f, T) = h[T]
    BY DEF SumFunctionOnSet, FoldFunctionOnSet, MapThenFoldSet, IsSumming, One
  <2> HIDE DEF h
  <2>4. \A s \in SUBSET T : h[s] = g[s]
    <3>1. IsSumming(g, f, SUBSET S)
      BY <1>2
    <3> HIDE DEF r
    <3> QED BY <2>2, <3>1, SumsUnique
  <2> QED BY <2>3, <2>4
<1> QED BY <1>2, <1>3 DEF Sums

LEMMA SumEmpty ==
  ASSUME NEW f PROVE SumFunctionOnSet(f, {}) = 0
<1>1. PICK g : Sums(g, f, {})
  BY SumsOf, FS_EmptySet
<1> QED BY <1>1 DEF Sums, IsSumming

LEMMA SumType ==
  ASSUME NEW S, IsFiniteSet(S), NEW f, \A x \in S : f[x] \in Int
  PROVE  SumFunctionOnSet(f, S) \in Int
<1>1. PICK g : Sums(g, f, S)
  BY SumsOf, Zenon
<1> QED BY <1>1 DEF Sums

\* Any element may be taken out first.
LEMMA SumTake ==
  ASSUME NEW S, IsFiniteSet(S), NEW f, \A x \in S : f[x] \in Int, NEW x \in S
  PROVE  SumFunctionOnSet(f, S) = f[x] + SumFunctionOnSet(f, S \ {x})
<1>1. PICK g : Sums(g, f, S)
  BY SumsOf, Zenon
<1>2. \A s \in SUBSET S : g[s] \in Int /\ (s # {} => g[s] = f[One(s)] + g[s \ {One(s)}])
  BY <1>1 DEF Sums, IsSumming
<1>3. \A s \in SUBSET S : IsFiniteSet(s) /\ Cardinality(s) \in Nat
  BY FS_Subset, FS_CardinalityType
<1> DEFINE N == {m \in Nat : \A s \in SUBSET S : Cardinality(s) = m =>
                               \A y \in s : g[s] = f[y] + g[s \ {y}]}
<1>4. 0 \in N
  BY <1>3, FS_EmptySet
<1>5. ASSUME NEW m \in Nat, m \in N PROVE m + 1 \in N
  <2> SUFFICES ASSUME NEW s \in SUBSET S, Cardinality(s) = m + 1, NEW y \in s
               PROVE  g[s] = f[y] + g[s \ {y}]
    OBVIOUS
  <2>0. \A r \in SUBSET S : Cardinality(r) = m => \A u \in r : g[r] = f[u] + g[r \ {u}]
    BY <1>5
  <2> HIDE DEF N
  <2> PICK z : z = One(s)
    OBVIOUS
  <2>1. z \in s /\ g[s] = f[z] + g[s \ {z}]
    BY <1>2, <1>3, OneOf
  <2>2. CASE y # z
    <3>1. Cardinality(s \ {y}) = m /\ Cardinality(s \ {z}) = m
      <4>1. Cardinality(s \ {y}) = Cardinality(s) - 1 /\ Cardinality(s \ {z}) = Cardinality(s) - 1
        BY <1>3, <2>1, FS_RemoveElement, Zenon
      <4> QED BY <4>1
    <3>0. PICK w : w = (s \ {z}) \ {y}
      OBVIOUS
    <3>2. g[s \ {z}] = f[y] + g[w] /\ g[s \ {y}] = f[z] + g[w]
      <4>1. (s \ {y}) \ {z} = w
        BY <3>0
      <4>2. g[s \ {z}] = f[y] + g[(s \ {z}) \ {y}]
        <5>1. s \ {z} \in SUBSET S /\ y \in s \ {z}
          BY <2>2
        <5> QED BY <2>0, <3>1, <5>1
      <4>3. g[s \ {y}] = f[z] + g[(s \ {y}) \ {z}]
        <5>1. s \ {y} \in SUBSET S /\ z \in s \ {y}
          BY <2>1, <2>2
        <5> QED BY <2>0, <3>1, <5>1
      <4> QED BY <3>0, <4>1, <4>2, <4>3
    <3>3. w \in SUBSET S
      BY <3>0
    <3> PICK a, b, c : a = f[y] /\ b = f[z] /\ c = g[w]
      OBVIOUS
    <3>4. a \in Int /\ b \in Int /\ c \in Int
      BY <1>2, <2>1, <3>3
    <3>5. g[s] = b + (a + c) /\ g[s \ {y}] = b + c
      BY <2>1, <3>2
    <3> QED BY <3>4, <3>5
  <2> QED BY <2>1, <2>2
<1>6. Cardinality(S) \in N
  <2> HIDE DEF N
  <2>1. \A m \in Nat : m \in N
    BY <1>4, <1>5, Induction
  <2> QED BY <1>3, <2>1
<1> QED BY <1>1, <1>6 DEF Sums

LEMMA SumPut ==
  ASSUME NEW S, IsFiniteSet(S), NEW x, x \notin S, NEW f, \A y \in S \cup {x} : f[y] \in Int
  PROVE  SumFunctionOnSet(f, S \cup {x}) = f[x] + SumFunctionOnSet(f, S)
<1>1. IsFiniteSet(S \cup {x}) /\ (S \cup {x}) \ {x} = S
  BY FS_AddElement
<1> QED BY <1>1, SumTake

\* A sum depends on the values of its elements only.
LEMMA SumSame ==
  ASSUME NEW S, IsFiniteSet(S), NEW f, NEW h, \A x \in S : f[x] \in Int /\ h[x] = f[x]
  PROVE  SumFunctionOnSet(h, S) = SumFunctionOnSet(f, S)
<1> DEFINE N == {m \in Nat : \A s \in SUBSET S :
                   Cardinality(s) = m => SumFunctionOnSet(h, s) = SumFunctionOnSet(f, s)}
<1>1. \A s \in SUBSET S : IsFiniteSet(s) /\ Cardinality(s) \in Nat
  BY FS_Subset, FS_CardinalityType
<1>2. 0 \in N
  BY <1>1, FS_EmptySet, SumEmpty
<1>3. ASSUME NEW m \in Nat, m \in N PROVE m + 1 \in N
  <2> SUFFICES ASSUME NEW s \in SUBSET S, Cardinality(s) = m + 1
               PROVE  SumFunctionOnSet(h, s) = SumFunctionOnSet(f, s)
    OBVIOUS
  <2>1. PICK x \in s : TRUE
    BY NotEmpty
  <2>2. Cardinality(s \ {x}) = m /\ IsFiniteSet(s) /\ s \ {x} \in SUBSET S
    BY <1>1, FS_RemoveElement
  <2>3. SumFunctionOnSet(h, s \ {x}) = SumFunctionOnSet(f, s \ {x})
    BY <1>3, <2>2
  <2>4. SumFunctionOnSet(f, s) = f[x] + SumFunctionOnSet(f, s \ {x})
    BY <2>2, SumTake
  <2>5. SumFunctionOnSet(h, s) = h[x] + SumFunctionOnSet(h, s \ {x})
    BY <2>2, SumTake
  <2> QED BY <2>3, <2>4, <2>5
<1>4. Cardinality(S) \in N
  <2> HIDE DEF N
  <2>1. \A m \in Nat : m \in N
    BY <1>2, <1>3, Induction
  <2> QED BY <1>1, <2>1
<1> QED BY <1>4

LEMMA SumUnion ==
  ASSUME NEW S, IsFiniteSet(S), NEW T, IsFiniteSet(T), S \cap T = {},
         NEW f, \A x \in S \cup T : f[x] \in Int
  PROVE  SumFunctionOnSet(f, S \cup T) = SumFunctionOnSet(f, S) + SumFunctionOnSet(f, T)
<1> DEFINE N == {m \in Nat : \A s \in SUBSET T : Cardinality(s) = m =>
                   SumFunctionOnSet(f, S \cup s) = SumFunctionOnSet(f, S) + SumFunctionOnSet(f, s)}
<1>1. \A s \in SUBSET T : IsFiniteSet(s) /\ Cardinality(s) \in Nat /\ IsFiniteSet(S \cup s)
  BY FS_Subset, FS_CardinalityType, FS_Union
<1>2. \A s \in SUBSET T : SumFunctionOnSet(f, s) \in Int /\ SumFunctionOnSet(f, S) \in Int
  BY <1>1, SumType
<1>3. 0 \in N
  <2> SUFFICES ASSUME NEW s \in SUBSET T, Cardinality(s) = 0
               PROVE  SumFunctionOnSet(f, S \cup s) = SumFunctionOnSet(f, S) + SumFunctionOnSet(f, s)
    OBVIOUS
  <2>1. s = {} /\ S \cup s = S
    BY <1>1, FS_EmptySet
  <2> QED BY <1>2, <2>1, SumEmpty
<1>4. ASSUME NEW m \in Nat, m \in N PROVE m + 1 \in N
  <2> SUFFICES ASSUME NEW s \in SUBSET T, Cardinality(s) = m + 1
               PROVE  SumFunctionOnSet(f, S \cup s) = SumFunctionOnSet(f, S) + SumFunctionOnSet(f, s)
    OBVIOUS
  <2>1. PICK x \in s : TRUE
    BY NotEmpty
  <2> PICK t : t = s \ {x}
    OBVIOUS
  <2>0. \A r \in SUBSET T : Cardinality(r) = m =>
          SumFunctionOnSet(f, S \cup r) = SumFunctionOnSet(f, S) + SumFunctionOnSet(f, r)
    BY <1>4
  <2> HIDE DEF N
  <2>2. Cardinality(t) = m /\ t \in SUBSET T /\ x \notin S /\ x \notin t /\ s = t \cup {x}
    <3>1. Cardinality(s \ {x}) = Cardinality(s) - 1
      BY <1>1, <2>1, FS_RemoveElement, Zenon
    <3> QED BY <2>1, <3>1
  <2>3. SumFunctionOnSet(f, S \cup t) = SumFunctionOnSet(f, S) + SumFunctionOnSet(f, t)
    BY <2>0, <2>2
  <2>4. SumFunctionOnSet(f, s) = f[x] + SumFunctionOnSet(f, t)
    BY <1>1, <2>2, SumPut
  <2>5. SumFunctionOnSet(f, S \cup s) = f[x] + SumFunctionOnSet(f, S \cup t)
    <3>1. S \cup s = (S \cup t) \cup {x} /\ x \notin S \cup t /\ IsFiniteSet(S \cup t)
      BY <1>1, <2>2
    <3>2. \A y \in (S \cup t) \cup {x} : f[y] \in Int
      BY <2>2
    <3> QED BY <3>1, <3>2, SumPut
  <2>6. f[x] \in Int
    BY <2>1
  <2> QED BY <1>2, <2>2, <2>3, <2>4, <2>5, <2>6
<1>5. Cardinality(T) \in N
  <2> HIDE DEF N
  <2>1. \A m \in Nat : m \in N
    BY <1>3, <1>4, Induction
  <2> QED BY <1>1, <2>1
<1> QED BY <1>5

\* What is never negative adds up to something that is not.
LEMMA SumNat ==
  ASSUME NEW S, IsFiniteSet(S), NEW f, \A x \in S : f[x] \in Nat
  PROVE  SumFunctionOnSet(f, S) \in Nat
<1> DEFINE N == {m \in Nat : \A s \in SUBSET S :
                   Cardinality(s) = m => SumFunctionOnSet(f, s) \in Nat}
<1>1. \A s \in SUBSET S : IsFiniteSet(s) /\ Cardinality(s) \in Nat
  BY FS_Subset, FS_CardinalityType
<1>2. 0 \in N
  BY <1>1, FS_EmptySet, SumEmpty
<1>3. ASSUME NEW m \in Nat, m \in N PROVE m + 1 \in N
  <2> SUFFICES ASSUME NEW s \in SUBSET S, Cardinality(s) = m + 1
               PROVE  SumFunctionOnSet(f, s) \in Nat
    OBVIOUS
  <2>1. PICK x \in s : TRUE
    BY NotEmpty
  <2>2. Cardinality(s \ {x}) = m /\ IsFiniteSet(s) /\ s \ {x} \in SUBSET S
    BY <1>1, FS_RemoveElement
  <2>3. SumFunctionOnSet(f, s \ {x}) \in Nat
    BY <1>3, <2>2
  <2>4. \A y \in s : f[y] \in Int
    OBVIOUS
  <2>5. SumFunctionOnSet(f, s) = f[x] + SumFunctionOnSet(f, s \ {x})
    BY <2>2, <2>4, SumTake
  <2> QED BY <2>3, <2>5
<1>4. Cardinality(S) \in N
  <2> HIDE DEF N
  <2>1. \A m \in Nat : m \in N
    BY <1>2, <1>3, Induction
  <2> QED BY <1>1, <2>1
<1> QED BY <1>4


-----------------------------------------------------------------------------
(***************************************************************************)
(* Sums over finite sets, MapThenSumSet's recursion.                       *)
(***************************************************************************)

Some(s) == CHOOSE x \in s : TRUE

\* g gives every part of U the sum of f over it.
IsSum(g, f, U) == g = [s \in SUBSET U |-> IF s = {} THEN 0 ELSE f[Some(s)] + g[s \ {Some(s)}]]

\* A set of one element more than n loses one of them.
LEMMA OneFewer ==
  ASSUME NEW U, IsFiniteSet(U), NEW S \in SUBSET U, NEW x \in S
  PROVE  /\ IsFiniteSet(S) /\ Cardinality(S) \in Nat
         /\ S \ {x} \in SUBSET U /\ Cardinality(S \ {x}) = Cardinality(S) - 1
<1>1. IsFiniteSet(S)
  BY FS_Subset
<1> QED BY <1>1, FS_CardinalityType, FS_RemoveElement

LEMMA SizeOfParts ==
  ASSUME NEW U, IsFiniteSet(U), NEW S \in SUBSET U
  PROVE  Cardinality(S) \in Nat /\ (Cardinality(S) = 0 <=> S = {})
BY FS_Subset, FS_CardinalityType, FS_EmptySet

\* What holds of the parts of U of every size holds of every part.
LEMMA PartsInduction ==
  ASSUME NEW U, IsFiniteSet(U), NEW P \in SUBSET (SUBSET U),
         \A S \in SUBSET U : (\A x \in S : S \ {x} \in P) => S \in P
  PROVE  P = SUBSET U
<1> DEFINE N == {n \in Nat : \A S \in SUBSET U : Cardinality(S) = n => S \in P}
<1>1. 0 \in N
  BY SizeOfParts
<1>2. ASSUME NEW n \in Nat, n \in N PROVE n + 1 \in N
  <2> SUFFICES ASSUME NEW S \in SUBSET U, Cardinality(S) = n + 1 PROVE S \in P
    OBVIOUS
  <2>1. \A x \in S : S \ {x} \in SUBSET U /\ Cardinality(S \ {x}) = n
    BY OneFewer
  <2> QED BY <1>2, <2>1
<1>3. \A n \in Nat : n \in N
  <2> HIDE DEF N
  <2> QED BY <1>1, <1>2, Induction, Zenon
<1> QED BY <1>3, SizeOfParts

\* The recursion has a solution, a natural number on every part.
LEMMA SumExists ==
  ASSUME NEW U, IsFiniteSet(U), NEW f \in [U -> Nat]
  PROVE  \E g \in [SUBSET U -> Nat] : IsSum(g, f, U)
<1> DEFINE Upto(n) == {s \in SUBSET U : Cardinality(s) <= n}
           Solves(g, n) == \A s \in Upto(n) : g[s] = IF s = {} THEN 0 ELSE f[Some(s)] + g[s \ {Some(s)}]
           N == {n \in Nat : \E g \in [SUBSET U -> Nat] : Solves(g, n)}
<1>0. \A s \in SUBSET U : s # {} =>
        /\ Some(s) \in s /\ f[Some(s)] \in Nat
        /\ s \ {Some(s)} \in SUBSET U /\ Cardinality(s \ {Some(s)}) = Cardinality(s) - 1
  BY OneFewer DEF Some
<1>1. 0 \in N
  <2> DEFINE g == [s \in SUBSET U |-> 0]
  <2>1. Solves(g, 0)
    BY SizeOfParts
  <2> QED BY <2>1
<1>2. ASSUME NEW n \in Nat, n \in N PROVE n + 1 \in N
  <2>1. PICK g \in [SUBSET U -> Nat] : Solves(g, n)
    BY <1>2
  <2> DEFINE h == [s \in SUBSET U |-> IF s = {} THEN 0 ELSE f[Some(s)] + g[s \ {Some(s)}]]
  <2>2. h \in [SUBSET U -> Nat]
    <3>1. ASSUME NEW s \in SUBSET U, s # {} PROVE f[Some(s)] + g[s \ {Some(s)}] \in Nat
      <4>1. f[Some(s)] \in Nat /\ g[s \ {Some(s)}] \in Nat
        BY <1>0, <3>1
      <4> QED BY <4>1
    <3>2. \A s \in SUBSET U : (IF s = {} THEN 0 ELSE f[Some(s)] + g[s \ {Some(s)}]) \in Nat
      BY <3>1
    <3> QED BY <3>2, Zenon
  <2>3. \A s \in Upto(n) : h[s] = g[s]
    BY <2>1
  <2>4. ASSUME NEW s \in Upto(n + 1) PROVE h[s] = IF s = {} THEN 0 ELSE f[Some(s)] + h[s \ {Some(s)}]
    <3>1. CASE s = {}
      BY <3>1
    <3>2. CASE s # {}
      <4>1. s \ {Some(s)} \in Upto(n)
        BY <1>0, <3>2, SizeOfParts
      <4>2. h[s] = f[Some(s)] + g[s \ {Some(s)}]
        BY <3>2
      <4> HIDE DEF h, Upto
      <4> QED BY <2>3, <3>2, <4>1, <4>2
    <3> QED BY <3>1, <3>2
  <2>5. Solves(h, n + 1)
    <3> HIDE DEF h, Upto
    <3> QED BY <2>4
  <2> HIDE DEF h, Solves
  <2> QED BY <2>2, <2>5
<1>3. Cardinality(U) \in N
  <2>1. Cardinality(U) \in Nat
    BY FS_CardinalityType
  <2> HIDE DEF N
  <2> QED BY <1>1, <1>2, <2>1, Induction, Zenon
<1>4. PICK g \in [SUBSET U -> Nat] : Solves(g, Cardinality(U))
  BY <1>3
<1>5. \A s \in SUBSET U : s \in Upto(Cardinality(U))
  BY FS_Subset
<1>6. \A s \in SUBSET U : g[s] = IF s = {} THEN 0 ELSE f[Some(s)] + g[s \ {Some(s)}]
  <2> HIDE DEF Upto
  <2> QED BY <1>4, <1>5
<1>7. IsSum(g, f, U)
  BY <1>6 DEF IsSum
<1> QED BY <1>7

\* The order in which the elements are taken does not matter.
LEMMA SumStep ==
  ASSUME NEW U, IsFiniteSet(U), NEW f \in [U -> Nat], NEW g \in [SUBSET U -> Nat], IsSum(g, f, U)
  PROVE  g[{}] = 0 /\ \A S \in SUBSET U : \A x \in S : g[S] = f[x] + g[S \ {x}]
<1> DEFINE P == {S \in SUBSET U : \A x \in S : g[S] = f[x] + g[S \ {x}]}
<1>0. \A s \in SUBSET U : g[s] = IF s = {} THEN 0 ELSE f[Some(s)] + g[s \ {Some(s)}]
  BY DEF IsSum
<1>1. ASSUME NEW S \in SUBSET U, \A x \in S : S \ {x} \in P, NEW x \in S
      PROVE  g[S] = f[x] + g[S \ {x}]
  <2> PICK c : c = Some(S)
    OBVIOUS
  <2>1. c \in S /\ g[S] = f[c] + g[S \ {c}]
    BY <1>0 DEF Some
  <2>2. CASE c = x
    BY <2>1, <2>2
  <2>3. CASE c # x
    <3>1. S \ {c} \in P /\ S \ {x} \in P /\ x \in S \ {c} /\ c \in S \ {x}
      BY <1>1, <2>1, <2>3
    <3>2. g[S \ {c}] = f[x] + g[(S \ {c}) \ {x}] /\ g[S \ {x}] = f[c] + g[(S \ {x}) \ {c}]
      BY <3>1
    <3>3. (S \ {c}) \ {x} = (S \ {x}) \ {c}
      OBVIOUS
    <3>4. PICK rest \in Nat : rest = g[(S \ {x}) \ {c}]
      OBVIOUS
    <3>5. PICK i \in Nat, j \in Nat : i = f[x] /\ j = f[c]
      BY <2>1
    <3>6. g[S] = j + (i + rest) /\ f[x] + g[S \ {x}] = i + (j + rest)
      BY <2>1, <3>2, <3>3, <3>4, <3>5, Zenon
    <3> QED BY <3>4, <3>5, <3>6
  <2> QED BY <2>2, <2>3
<1>2. P = SUBSET U
  <2>1. \A S \in SUBSET U : (\A x \in S : S \ {x} \in P) => S \in P
    BY <1>1
  <2>2. P \in SUBSET (SUBSET U)
    OBVIOUS
  <2> HIDE DEF P
  <2> QED BY <2>1, <2>2, PartsInduction
<1> QED BY <1>0, <1>2

\* A part of a set sums to no more than the set.
LEMMA SumMonotone ==
  ASSUME NEW U, IsFiniteSet(U), NEW f \in [U -> Nat], NEW g \in [SUBSET U -> Nat], IsSum(g, f, U)
  PROVE  \A S \in SUBSET U : \A T \in SUBSET S : g[T] <= g[S]
<1>0. \A S \in SUBSET U : \A x \in S : g[S] = f[x] + g[S \ {x}]
  <2>1. g[{}] = 0 /\ \A S \in SUBSET U : \A x \in S : g[S] = f[x] + g[S \ {x}]
    BY SumStep
  <2> QED BY <2>1
<1> DEFINE P == {S \in SUBSET U : \A T \in SUBSET S : g[T] <= g[S]}
<1>1. ASSUME NEW S \in SUBSET U, \A x \in S : S \ {x} \in P, NEW T \in SUBSET S PROVE g[T] <= g[S]
  <2>1. CASE T = S
    BY <2>1
  <2>2. CASE T # S
    <3>1. PICK x \in S : x \notin T
      BY <2>2
    <3>2. g[T] <= g[S \ {x}]
      BY <1>1, <3>1
    <3>3. g[S] = f[x] + g[S \ {x}]
      BY <1>0
    <3>4. g[T] \in Nat /\ f[x] \in Nat /\ g[S \ {x}] \in Nat
      OBVIOUS
    <3> QED BY <3>2, <3>3, <3>4
  <2> QED BY <2>1, <2>2
<1>2. P = SUBSET U
  <2>1. \A S \in SUBSET U : (\A x \in S : S \ {x} \in P) => S \in P
    BY <1>1
  <2>2. P \in SUBSET (SUBSET U)
    OBVIOUS
  <2> HIDE DEF P
  <2> QED BY <2>1, <2>2, PartsInduction
<1> QED BY <1>2

\* A sum depends on what is summed only.
LEMMA SumAgrees ==
  ASSUME NEW S, IsFiniteSet(S), NEW U, NEW V, S \in SUBSET U, S \in SUBSET V, NEW f, NEW h, NEW g, NEW k,
         IsSum(g, f, U), IsSum(k, h, V), \A x \in S : f[x] = h[x]
  PROVE  g[S] = k[S]
<1> DEFINE P == {T \in SUBSET S : g[T] = k[T]}
<1>1. ASSUME NEW T \in SUBSET S, \A x \in T : T \ {x} \in P PROVE g[T] = k[T]
  <2>1. g[T] = (IF T = {} THEN 0 ELSE f[Some(T)] + g[T \ {Some(T)}])
        /\ k[T] = (IF T = {} THEN 0 ELSE h[Some(T)] + k[T \ {Some(T)}])
    BY DEF IsSum
  <2>2. CASE T = {}
    BY <2>1, <2>2
  <2>3. CASE T # {}
    <3>1. Some(T) \in T
      BY <2>3 DEF Some
    <3>2. f[Some(T)] = h[Some(T)] /\ g[T \ {Some(T)}] = k[T \ {Some(T)}]
      BY <1>1, <3>1
    <3> QED BY <2>1, <2>3, <3>2
  <2> QED BY <2>2, <2>3
<1>2. P = SUBSET S
  <2>1. \A T \in SUBSET S : (\A x \in T : T \ {x} \in P) => T \in P
    BY <1>1
  <2>2. P \in SUBSET (SUBSET S)
    OBVIOUS
  <2> HIDE DEF P
  <2> QED BY <2>1, <2>2, PartsInduction
<1> QED BY <1>2
=============================================================================
