-------------------------------- MODULE Sums --------------------------------
(***************************************************************************)
(* Sums over finite sets, for proofs: what MapThenSumSet computes, by      *)
(* induction over the subsets of the set that is summed.                   *)
(***************************************************************************)
EXTENDS Integers, FiniteSets, FiniteSetsExt, Functions, FiniteSetTheorems, WellFoundedInduction, TLAPS

\* Induction over the subsets of a finite set, with the set of the good ones in
\* place of a predicate.
LEMMA SubsetInduction ==
  ASSUME NEW S, IsFiniteSet(S), NEW G,
         \A T \in SUBSET S : (\A U \in SUBSET T : U # T => U \in G) => T \in G
  PROVE  \A T \in SUBSET S : T \in G
<1> DEFINE B == (SUBSET S) \ G
<1> SUFFICES ASSUME B # {} PROVE FALSE
  OBVIOUS
<1>1. IsWellFoundedOn(StrictSubsetOrdering(S), SUBSET S)
  <2>1. FiniteSubsetsOf(S) = SUBSET S
    BY FS_FiniteSubsetsOfFinite
  <2>2. IsWellFoundedOn(StrictSubsetOrdering(S), FiniteSubsetsOf(S))
    BY FS_StrictSubsetOrderingWellFounded
  <2> QED
    BY <2>1, <2>2
<1>2. PICK T \in B : \A U \in B : ~(<<U, T>> \in StrictSubsetOrdering(S))
  <2> HIDE DEF B
  <2>1. B \subseteq SUBSET S /\ B # {}
    BY DEF B
  <2> QED
    BY <1>1, <2>1, WFMin
<1>3. ASSUME NEW U \in SUBSET T, U # T PROVE U \in G
  <2>1. U \in SUBSET S /\ <<U, T>> \in StrictSubsetOrdering(S)
    BY <1>3 DEF StrictSubsetOrdering
  <2> QED
    BY <2>1, <1>2
<1> QED
  BY <1>2, <1>3

\* Induction over the naturals, with a set in place of a predicate.
LEMMA NatSetInduction ==
  ASSUME NEW G, 0 \in G, \A n \in Nat : n \in G => n + 1 \in G
  PROVE  \A n \in Nat : n \in G
<1> DEFINE B == Nat \ G
<1> SUFFICES ASSUME B # {} PROVE FALSE
  OBVIOUS
<1> DEFINE R == OpToRel(<, Nat)
<1>0. \A m, n \in Nat : m < n => <<m, n>> \in R
  BY DEF OpToRel
<1> HIDE DEF R
<1>1. PICK n \in B : \A m \in B : ~(<<m, n>> \in R)
  <2> HIDE DEF B
  <2>1. B \subseteq Nat /\ B # {}
    BY DEF B
  <2> QED
    BY <2>1, NatLessThanWellFounded, WFMin DEF R
<1>2. n # 0 /\ n - 1 \in Nat
  OBVIOUS
<1>3. n - 1 \in B
  BY <1>2
<1>4. <<n - 1, n>> \in R
  BY <1>0, <1>2
<1> QED
  BY <1>1, <1>3, <1>4

Some(s) == CHOOSE x \in s : TRUE

\* h holds the sums of f over the subsets of S, one element at a time.
IsTable(h, f, S) ==
  h = [s \in SUBSET S |-> IF s = {} THEN 0 ELSE f[Some(s)] + h[s \ {Some(s)}]]

\* The sum of f over S.
Total(f, S) == (CHOOSE h : IsTable(h, f, S))[S]

\* CHOOSE takes an element of a set that has one.
LEMMA SomeIn == ASSUME NEW s, s # {} PROVE Some(s) \in s
  BY DEF Some

\* Tables up to a size.
UpTo(S, n) == {s \in SUBSET S : Cardinality(s) <= n}

\* A set without one of its elements is smaller by one.
LEMMA SmallerSet ==
  ASSUME NEW S, IsFiniteSet(S), NEW s \in SUBSET S, NEW x \in s
  PROVE  /\ Cardinality(s) \in Nat
         /\ Cardinality(s) # 0
         /\ s \ {x} \in SUBSET S
         /\ Cardinality(s \ {x}) = Cardinality(s) - 1
  BY FS_Subset, FS_RemoveElement, FS_CardinalityType, FS_EmptySet

\* The table exists.
LEMMA TableExists ==
  ASSUME NEW S, IsFiniteSet(S), NEW f
  PROVE  \E h : IsTable(h, f, S)
<1> DEFINE Part(n, h) == h = [s \in UpTo(S, n) |-> IF s = {} THEN 0 ELSE f[Some(s)] + h[s \ {Some(s)}]]
           G == {n \in Nat : \E h : Part(n, h)}
<1>1. 0 \in G
  <2> DEFINE h0 == [s \in UpTo(S, 0) |-> 0]
  <2>1. \A s \in UpTo(S, 0) : s = {}
    BY FS_Subset, FS_EmptySet, FS_CardinalityType DEF UpTo
  <2>2. Part(0, h0)
    BY <2>1
  <2> QED
    BY <2>2
<1>2. ASSUME NEW n \in G PROVE n + 1 \in G
  <2>1. PICK h : Part(n, h)
    OBVIOUS
  <2> DEFINE k == [s \in UpTo(S, n + 1) |-> IF s = {} THEN 0 ELSE f[Some(s)] + h[s \ {Some(s)}]]
  <2>2. ASSUME NEW s \in UpTo(S, n + 1), s # {}
        PROVE  s \ {Some(s)} \in UpTo(S, n)
    BY <2>2, SomeIn, SmallerSet DEF UpTo
  <2>3. ASSUME NEW s \in UpTo(S, n) PROVE s \in UpTo(S, n + 1) /\ h[s] = k[s]
    <3>1. s \in UpTo(S, n + 1)
      BY FS_Subset, FS_CardinalityType DEF UpTo
    <3> QED
      BY <3>1, <2>1
  <2>4. k = [s \in UpTo(S, n + 1) |-> IF s = {} THEN 0 ELSE f[Some(s)] + k[s \ {Some(s)}]]
    <3> HIDE DEF k
    <3>1. ASSUME NEW s \in UpTo(S, n + 1), s # {} PROVE h[s \ {Some(s)}] = k[s \ {Some(s)}]
      BY <2>2, <2>3, <3>1
    <3> QED
      BY <3>1 DEF k
  <2>5. Part(n + 1, k)
    BY <2>4
  <2> HIDE DEF k
  <2> QED
    BY <2>5
<1>3. Cardinality(S) \in G
  <2> HIDE DEF G
  <2>1. G \subseteq Nat
    BY DEF G
  <2> QED
    BY <1>1, <1>2, <2>1, FS_CardinalityType, NatSetInduction
<1>4. UpTo(S, Cardinality(S)) = SUBSET S
  BY FS_Subset DEF UpTo
<1> QED
  BY <1>3, <1>4 DEF IsTable

\* The chosen table is one.
LEMMA TotalTable ==
  ASSUME NEW S, IsFiniteSet(S), NEW f
  PROVE  \E h : IsTable(h, f, S) /\ Total(f, S) = h[S]
<1> DEFINE h == CHOOSE k : IsTable(k, f, S)
<1>1. IsTable(h, f, S)
  BY TableExists
<1>2. Total(f, S) = h[S]
  BY DEF Total
<1> QED
  BY <1>1, <1>2

\* The sum of nothing.
LEMMA TableEmpty ==
  ASSUME NEW S, NEW f, NEW h, IsTable(h, f, S)
  PROVE  h[{}] = 0
  BY DEF IsTable

\* Tables of functions that agree agree.
LEMMA TablesAgree ==
  ASSUME NEW S, IsFiniteSet(S), NEW f, NEW h, IsTable(h, f, S),
         NEW T, S \subseteq T, NEW g, NEW k, IsTable(k, g, T),
         \A x \in S : f[x] = g[x]
  PROVE  \A s \in SUBSET S : h[s] = k[s]
<1> DEFINE G == {s \in SUBSET S : h[s] = k[s]}
<1>1. ASSUME NEW s \in SUBSET S, \A U \in SUBSET s : U # s => U \in G
      PROVE  s \in G
  <2>1. CASE s = {}
    <3>1. h[{}] = 0
      BY TableEmpty
    <3>2. k[{}] = 0
      BY TableEmpty
    <3> QED
      BY <2>1, <3>1, <3>2
  <2>2. CASE s # {}
    <3>1. Some(s) \in s
      BY <2>2, SomeIn
    <3>2. s \ {Some(s)} \in G
      BY <1>1, <3>1
    <3>3. h[s] = f[Some(s)] + h[s \ {Some(s)}]
      BY <2>2 DEF IsTable
    <3>4. k[s] = g[Some(s)] + k[s \ {Some(s)}]
      BY <2>2 DEF IsTable
    <3> QED
      BY <3>1, <3>2, <3>3, <3>4
  <2> QED
    BY <2>1, <2>2
<1> HIDE DEF G
<1>2. \A s \in SUBSET S : s \in G
  BY <1>1, SubsetInduction
<1> QED
  BY <1>2 DEF G

\* Any element may be the one that is added last.
LEMMA TableRemove ==
  ASSUME NEW S, IsFiniteSet(S), NEW f, \A x \in S : f[x] \in Int,
         NEW h, IsTable(h, f, S)
  PROVE  \A s \in SUBSET S : /\ h[s] \in Int
                             /\ \A x \in s : h[s] = f[x] + h[s \ {x}]
<1> DEFINE G == {s \in SUBSET S : h[s] \in Int /\ \A x \in s : h[s] = f[x] + h[s \ {x}]}
<1>1. ASSUME NEW s \in SUBSET S, \A U \in SUBSET s : U # s => U \in G
      PROVE  s \in G
  <2>1. CASE s = {}
    <3>1. h[{}] = 0
      BY TableEmpty
    <3> QED
      BY <2>1, <3>1
  <2>2. CASE s # {}
    <3> DEFINE y == Some(s)
    <3>1. y \in s
      BY <2>2, SomeIn
    <3> HIDE DEF y
    <3>2. s \ {y} \in G
      BY <1>1, <3>1
    <3>3. h[s] = f[y] + h[s \ {y}]
      BY <2>2 DEF y, IsTable
    <3>4. h[s] \in Int /\ f[y] \in Int
      BY <3>1, <3>2, <3>3
    <3>5. ASSUME NEW x \in s, x # y PROVE h[s] = f[x] + h[s \ {x}]
      <4>1. s \ {x} \in G /\ y \in s \ {x}
        BY <1>1, <3>1, <3>5
      <4>2. h[s \ {y}] = f[x] + h[(s \ {y}) \ {x}]
        BY <3>2, <3>5
      <4>3. h[s \ {x}] = f[y] + h[(s \ {x}) \ {y}]
        BY <4>1
      <4>4. (s \ {y}) \ {x} = (s \ {x}) \ {y}
        OBVIOUS
      <4>5. (s \ {x}) \ {y} \in G
        BY <1>1, <3>1, <3>5
      <4>6. f[x] \in Int /\ h[(s \ {x}) \ {y}] \in Int
        BY <4>5
      <4>7. h[s \ {y}] = f[x] + h[(s \ {x}) \ {y}]
        BY <4>2, <4>4
      <4> QED
        BY <3>3, <3>4, <4>3, <4>6, <4>7
    <3> QED
      BY <3>3, <3>4, <3>5
  <2> QED
    BY <2>1, <2>2
<1> HIDE DEF G
<1>2. \A s \in SUBSET S : s \in G
  BY <1>1, SubsetInduction
<1> QED
  BY <1>2 DEF G

-----------------------------------------------------------------------------
\* The empty sum.
LEMMA TotalEmpty == ASSUME NEW f PROVE Total(f, {}) = 0
<1>1. PICK h : IsTable(h, f, {}) /\ Total(f, {}) = h[{}]
  BY TotalTable, FS_EmptySet
<1> QED
  BY <1>1, TableEmpty

\* Whatever table shows it, the sum is the same.
LEMMA TotalIs ==
  ASSUME NEW S, IsFiniteSet(S), NEW f, NEW h, IsTable(h, f, S)
  PROVE  Total(f, S) = h[S]
<1>1. PICK k : IsTable(k, f, S) /\ Total(f, S) = k[S]
  BY TotalTable
<1>2. h[S] = k[S]
  BY <1>1, TablesAgree
<1> QED
  BY <1>1, <1>2

\* A sum of integers is an integer.
LEMMA TotalInt ==
  ASSUME NEW S, IsFiniteSet(S), NEW f, \A x \in S : f[x] \in Int
  PROVE  Total(f, S) \in Int
<1>1. PICK h : IsTable(h, f, S) /\ Total(f, S) = h[S]
  BY TotalTable
<1> QED
  BY <1>1, TableRemove

\* The sum depends on the summands alone.
LEMMA TotalAgree ==
  ASSUME NEW S, IsFiniteSet(S), NEW f, NEW g, \A x \in S : f[x] = g[x]
  PROVE  Total(f, S) = Total(g, S)
<1>1. PICK h : IsTable(h, f, S) /\ Total(f, S) = h[S]
  BY TotalTable
<1>2. PICK k : IsTable(k, g, S) /\ Total(g, S) = k[S]
  BY TotalTable
<1>3. h[S] = k[S]
  BY <1>1, <1>2, TablesAgree
<1> QED
  BY <1>1, <1>2, <1>3

\* One summand taken out.
LEMMA TotalRemove ==
  ASSUME NEW S, IsFiniteSet(S), NEW f, \A x \in S : f[x] \in Int, NEW x \in S
  PROVE  Total(f, S) = Total(f, S \ {x}) + f[x]
<1>1. PICK h : IsTable(h, f, S) /\ Total(f, S) = h[S]
  BY TotalTable
<1>2. IsFiniteSet(S \ {x})
  BY FS_RemoveElement
<1>3. PICK k : IsTable(k, f, S \ {x}) /\ Total(f, S \ {x}) = k[S \ {x}]
  BY <1>2, TotalTable
<1>4. k[S \ {x}] = h[S \ {x}]
  <2>1. S \ {x} \subseteq S
    OBVIOUS
  <2> QED
    BY <1>1, <1>2, <1>3, <2>1, TablesAgree
<1>5. h[S] = f[x] + h[S \ {x}] /\ h[S \ {x}] \in Int
  BY <1>1, TableRemove
<1> QED
  BY <1>1, <1>3, <1>4, <1>5

\* One summand added.
LEMMA TotalAdd ==
  ASSUME NEW S, IsFiniteSet(S), NEW f, NEW x, x \notin S, \A y \in S \cup {x} : f[y] \in Int
  PROVE  Total(f, S \cup {x}) = Total(f, S) + f[x]
<1>1. IsFiniteSet(S \cup {x})
  BY FS_AddElement
<1>2. (S \cup {x}) \ {x} = S
  OBVIOUS
<1>3. Total(f, S \cup {x}) = Total(f, (S \cup {x}) \ {x}) + f[x]
  BY <1>1, TotalRemove
<1> QED
  BY <1>2, <1>3

\* The sum of one.
LEMMA TotalOne ==
  ASSUME NEW x, NEW f, f[x] \in Int
  PROVE  Total(f, {x}) = f[x]
<1>1. IsFiniteSet({}) /\ x \notin {} /\ \A y \in {} \cup {x} : f[y] \in Int
  BY FS_EmptySet
<1>2. Total(f, {} \cup {x}) = Total(f, {}) + f[x]
  BY <1>1, TotalAdd
<1>3. {} \cup {x} = {x} /\ Total(f, {}) = 0
  BY TotalEmpty
<1> QED
  BY <1>2, <1>3

\* A change of one summand is the change of the sum.
LEMMA TotalChange ==
  ASSUME NEW S, IsFiniteSet(S), NEW f, NEW g, NEW x \in S,
         \A y \in S : f[y] \in Int /\ g[y] \in Int,
         \A y \in S \ {x} : f[y] = g[y]
  PROVE  Total(g, S) = Total(f, S) + (g[x] - f[x])
<1>1. IsFiniteSet(S \ {x})
  BY FS_RemoveElement
<1>2. Total(f, S \ {x}) = Total(g, S \ {x})
  BY <1>1, TotalAgree
<1>3. Total(f, S) = Total(f, S \ {x}) + f[x]
  BY TotalRemove
<1>4. Total(g, S) = Total(g, S \ {x}) + g[x]
  BY TotalRemove
<1>5. Total(f, S \ {x}) \in Int
  BY <1>1, TotalInt
<1> QED
  BY <1>2, <1>3, <1>4, <1>5

\* What one summand gains another loses.
LEMMA TotalTransfer ==
  ASSUME NEW S, IsFiniteSet(S), NEW f, NEW g, NEW b \in S, NEW s \in S, b # s,
         \A y \in S : f[y] \in Int /\ g[y] \in Int,
         \A y \in S \ {b, s} : f[y] = g[y],
         f[b] + f[s] = g[b] + g[s]
  PROVE  Total(f, S) = Total(g, S)
<1> DEFINE T == S \ {b}
           U == T \ {s}
<1>1. s \in T /\ IsFiniteSet(T) /\ IsFiniteSet(U)
  BY FS_RemoveElement
<1>2. Total(f, S) = Total(f, T) + f[b] /\ Total(g, S) = Total(g, T) + g[b]
  BY TotalRemove
<1>3. \A y \in T : f[y] \in Int /\ g[y] \in Int
  OBVIOUS
<1>4. \A y \in U : f[y] = g[y]
  OBVIOUS
<1>5. \A y \in U : f[y] \in Int
  OBVIOUS
<1> HIDE DEF T
<1>6. Total(f, T) = Total(f, U) + f[s] /\ Total(g, T) = Total(g, U) + g[s]
  BY <1>1, <1>3, TotalRemove
<1> HIDE DEF U
<1>7. Total(f, U) = Total(g, U)
  BY <1>1, <1>4, TotalAgree
<1>8. Total(f, U) \in Int
  BY <1>1, <1>5, TotalInt
<1> QED
  BY <1>2, <1>6, <1>7, <1>8

\* The sum of naturals is a natural, and no summand is above it.
LEMMA TotalNat ==
  ASSUME NEW S, IsFiniteSet(S), NEW f, \A x \in S : f[x] \in Nat
  PROVE  Total(f, S) \in Nat /\ \A x \in S : f[x] <= Total(f, S)
<1> DEFINE G == {T \in SUBSET S : Total(f, T) \in Nat}
<1>1. ASSUME NEW T \in SUBSET S, \A U \in SUBSET T : U # T => U \in G
      PROVE  T \in G
  <2>1. CASE T = {}
    BY <2>1, TotalEmpty
  <2>2. CASE T # {}
    <3>1. PICK x \in T : TRUE
      BY <2>2
    <3>2. T \ {x} \in G
      BY <1>1
    <3>3. IsFiniteSet(T)
      BY FS_Subset
    <3>4. Total(f, T) = Total(f, T \ {x}) + f[x]
      BY <3>3, TotalRemove
    <3> QED
      BY <3>2, <3>4
  <2> QED
    BY <2>1, <2>2
<1> HIDE DEF G
<1>2. \A T \in SUBSET S : T \in G
  BY <1>1, SubsetInduction
<1>3. Total(f, S) \in Nat
  BY <1>2 DEF G
<1>4. ASSUME NEW x \in S PROVE f[x] <= Total(f, S)
  <2>1. Total(f, S \ {x}) \in Nat
    BY <1>2 DEF G
  <2>2. Total(f, S) = Total(f, S \ {x}) + f[x]
    BY TotalRemove
  <2> QED
    BY <2>1, <2>2
<1> QED
  BY <1>3, <1>4

\* Zeros add nothing.
LEMMA TotalZeros ==
  ASSUME NEW S, IsFiniteSet(S), NEW T \in SUBSET S, NEW f,
         \A x \in S : f[x] \in Int, \A x \in S \ T : f[x] = 0
  PROVE  Total(f, S) = Total(f, T)
<1> DEFINE G == {U \in SUBSET S : Total(f, U) = Total(f, U \cap T)}
<1>1. ASSUME NEW U \in SUBSET S, \A V \in SUBSET U : V # U => V \in G
      PROVE  U \in G
  <2>1. CASE U \subseteq T
    <3>1. U \cap T = U
      BY <2>1
    <3> QED
      BY <3>1
  <2>2. CASE ~(U \subseteq T)
    <3>1. PICK x \in U : x \notin T
      BY <2>2
    <3>2. U \ {x} \in G
      BY <1>1
    <3>3. IsFiniteSet(U) /\ IsFiniteSet(U \ {x})
      BY FS_Subset
    <3>4. Total(f, U) = Total(f, U \ {x}) + f[x]
      BY <3>3, TotalRemove
    <3>5. Total(f, U \ {x}) \in Int
      BY <3>3, TotalInt
    <3>6. (U \ {x}) \cap T = U \cap T
      BY <3>1
    <3>7. f[x] = 0
      BY <3>1
    <3>8. Total(f, U) = Total(f, U \ {x})
      BY <3>4, <3>5, <3>7
    <3>9. Total(f, U \ {x}) = Total(f, (U \ {x}) \cap T)
      BY <3>2
    <3> QED
      BY <3>6, <3>8, <3>9
  <2> QED
    BY <2>1, <2>2
<1> HIDE DEF G
<1>2. \A U \in SUBSET S : U \in G
  BY <1>1, SubsetInduction
<1>3. Total(f, S) = Total(f, S \cap T)
  BY <1>2 DEF G
<1>4. S \cap T = T
  OBVIOUS
<1> QED
  BY <1>3, <1>4

\* A sum of zeros.
LEMMA TotalNothing ==
  ASSUME NEW S, IsFiniteSet(S), NEW f, \A x \in S : f[x] = 0
  PROVE  Total(f, S) = 0
<1>1. {} \in SUBSET S /\ (\A x \in S : f[x] \in Int) /\ \A x \in S \ {} : f[x] = 0
  OBVIOUS
<1>2. Total(f, S) = Total(f, {})
  BY <1>1, TotalZeros
<1> QED
  BY <1>2, TotalEmpty

\* The sum of sums.
LEMMA TotalPlus ==
  ASSUME NEW S, IsFiniteSet(S), NEW f, NEW g, NEW h,
         \A x \in S : f[x] \in Int /\ g[x] \in Int /\ h[x] = f[x] + g[x]
  PROVE  Total(h, S) = Total(f, S) + Total(g, S)
<1> DEFINE G == {T \in SUBSET S : Total(h, T) = Total(f, T) + Total(g, T)}
<1>1. ASSUME NEW T \in SUBSET S, \A U \in SUBSET T : U # T => U \in G
      PROVE  T \in G
  <2>1. CASE T = {}
    <3>1. Total(f, {}) = 0 /\ Total(g, {}) = 0 /\ Total(h, {}) = 0
      BY TotalEmpty
    <3> QED
      BY <2>1, <3>1
  <2>2. CASE T # {}
    <3>1. PICK x \in T : TRUE
      BY <2>2
    <3>2. T \ {x} \in G
      BY <1>1
    <3>3. IsFiniteSet(T) /\ IsFiniteSet(T \ {x})
      BY FS_Subset
    <3>4. Total(f, T) = Total(f, T \ {x}) + f[x]
      BY <3>3, TotalRemove
    <3>5. Total(g, T) = Total(g, T \ {x}) + g[x]
      BY <3>3, TotalRemove
    <3>6. Total(h, T) = Total(h, T \ {x}) + h[x]
      <4>1. \A y \in T : h[y] \in Int
        OBVIOUS
      <4> QED
        BY <3>3, <4>1, TotalRemove
    <3>7. Total(f, T \ {x}) \in Int /\ Total(g, T \ {x}) \in Int
      BY <3>3, TotalInt
    <3>8. f[x] \in Int /\ g[x] \in Int /\ h[x] = f[x] + g[x]
      OBVIOUS
    <3>9. Total(h, T \ {x}) = Total(f, T \ {x}) + Total(g, T \ {x})
      BY <3>2
    <3> QED
      BY <3>4, <3>5, <3>6, <3>7, <3>8, <3>9
  <2> QED
    BY <2>1, <2>2
<1> HIDE DEF G
<1>2. \A T \in SUBSET S : T \in G
  BY <1>1, SubsetInduction
<1> QED
  BY <1>2 DEF G

\* Fewer and smaller summands make a smaller sum.
LEMMA TotalAtMost ==
  ASSUME NEW S, IsFiniteSet(S), NEW T \in SUBSET S, NEW f, NEW g,
         \A x \in T : f[x] \in Int /\ f[x] <= g[x], \A x \in S : g[x] \in Nat
  PROVE  Total(f, T) <= Total(g, S)
<1> DEFINE low  == [x \in S |-> IF x \in T THEN f[x] ELSE 0]
           rest == [x \in S |-> g[x] - low[x]]
<1>1. \A x \in S : low[x] \in Int /\ rest[x] \in Nat /\ g[x] = low[x] + rest[x]
  OBVIOUS
<1>2. (\A x \in S \ T : low[x] = 0) /\ \A x \in T : f[x] = low[x]
  OBVIOUS
<1> HIDE DEF low, rest
<1>3. \A x \in S : low[x] \in Int /\ rest[x] \in Int /\ g[x] = low[x] + rest[x]
  BY <1>1
<1>4. Total(g, S) = Total(low, S) + Total(rest, S)
  BY <1>3, TotalPlus
<1>5. Total(rest, S) \in Nat /\ Total(low, S) \in Int
  BY <1>1, <1>3, TotalNat, TotalInt
<1>6. \A x \in S : low[x] \in Int
  BY <1>1
<1>7. Total(low, S) = Total(low, T)
  BY <1>2, <1>6, TotalZeros
<1>8. IsFiniteSet(T)
  BY FS_Subset
<1>9. Total(f, T) = Total(low, T)
  BY <1>2, <1>8, TotalAgree
<1> QED BY <1>4, <1>5, <1>7, <1>9

\* A sum over other elements is not smaller if those it has more are not negative
\* and those it has less are not positive.
LEMMA TotalGains ==
  ASSUME NEW S, IsFiniteSet(S), NEW T \in SUBSET S, NEW U \in SUBSET S, NEW f,
         \A x \in S : f[x] \in Int,
         \A x \in T \ U : f[x] <= 0, \A x \in U \ T : f[x] >= 0
  PROVE  Total(f, T) <= Total(f, U)
<1> DEFINE low  == [x \in S |-> IF x \in T THEN f[x] ELSE 0]
           high == [x \in S |-> IF x \in U THEN f[x] ELSE 0]
           rest == [x \in S |-> high[x] - low[x]]
<1>1. \A x \in S : /\ low[x] \in Int /\ high[x] \in Int /\ rest[x] \in Nat
                   /\ high[x] = low[x] + rest[x]
  OBVIOUS
<1>2. /\ (\A x \in S \ T : low[x] = 0) /\ \A x \in T : f[x] = low[x]
      /\ (\A x \in S \ U : high[x] = 0) /\ \A x \in U : f[x] = high[x]
  OBVIOUS
<1> HIDE DEF low, high, rest
<1>3. \A x \in S : low[x] \in Int /\ rest[x] \in Int /\ high[x] = low[x] + rest[x]
  BY <1>1
<1>4. Total(high, S) = Total(low, S) + Total(rest, S)
  BY <1>3, TotalPlus
<1>5. Total(rest, S) \in Nat /\ Total(low, S) \in Int
  BY <1>1, <1>3, TotalNat, TotalInt
<1>6. (\A x \in S : low[x] \in Int) /\ \A x \in S : high[x] \in Int
  BY <1>1
<1>7. Total(low, S) = Total(low, T) /\ Total(high, S) = Total(high, U)
  BY <1>2, <1>6, TotalZeros
<1>8. IsFiniteSet(T) /\ IsFiniteSet(U)
  BY FS_Subset
<1>9. Total(f, T) = Total(low, T) /\ Total(f, U) = Total(high, U)
  BY <1>2, <1>8, TotalAgree
<1> QED BY <1>4, <1>5, <1>7, <1>9

\* The community modules fold a function by the same table.
LEMMA FoldedIs ==
  ASSUME NEW S, IsFiniteSet(S), NEW f
  PROVE  FoldFunctionOnSet(+, 0, f, S) = Total(f, S)
<1> DEFINE P(h) == h = [s \in SUBSET S |-> IF s = {} THEN 0 ELSE f[Some(s)] + h[s \ {Some(s)}]]
<1>1. \A h : IsTable(h, f, S) <=> P(h)
  BY DEF IsTable
<1>2. FoldFunctionOnSet(+, 0, f, S) = (CHOOSE h : P(h))[S]
  BY DEF FoldFunctionOnSet, MapThenFoldSet, Some
<1>3. \E h : P(h)
  BY <1>1, TableExists
<1>4. PICK h : P(h) /\ FoldFunctionOnSet(+, 0, f, S) = h[S]
  BY <1>2, <1>3
<1>5. IsTable(h, f, S)
  BY <1>1, <1>4
<1> QED BY <1>4, <1>5, TotalIs
=============================================================================
