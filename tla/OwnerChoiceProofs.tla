--------------------------- MODULE OwnerChoiceProofs ---------------------------
(***************************************************************************)
(* Facts about OwnerChoice: sums of loads, least keys, and the one rank    *)
(* that is next.                                                           *)
(***************************************************************************)
EXTENDS OwnerChoice, FiniteSetTheorems, WellFoundedInduction, TLAPS

----------------------------------------------------------------------------
(* Induction over the subsets of a finite set, with the subsets that have  *)
(* the property as a set.                                                  *)

\* What holds of a set whenever it holds of the set without any one of its
\* elements holds of every finite set.
LEMMA SubsetInduction ==
  ASSUME NEW S, IsFiniteSet(S), NEW Q,
         \A T \in SUBSET S : (\A x \in T : T \ {x} \in Q) => T \in Q
  PROVE  \A T \in SUBSET S : T \in Q
<1> DEFINE R == StrictSubsetOrdering(S)
           Bad == {T \in SUBSET S : T \notin Q}
<1>1. ASSUME Bad # {} PROVE FALSE
  <2>1. Bad \subseteq FiniteSubsetsOf(S)
    BY FS_Subset DEF FiniteSubsetsOf
  <2>2. IsWellFoundedOn(R, FiniteSubsetsOf(S))
    BY FS_StrictSubsetOrderingWellFounded
  <2>3. PICK T \in Bad : \A U \in Bad : <<U, T>> \notin R
    <3> HIDE DEF R, Bad
    <3> QED BY <1>1, <2>1, <2>2, WFMin
  <2>4. PICK x \in T : T \ {x} \notin Q
    OBVIOUS
  <2>5. T \ {x} \in Bad /\ <<T \ {x}, T>> \in R
    BY <2>4 DEF StrictSubsetOrdering
  <2> QED
    BY <2>3, <2>5
<1> QED
  BY <1>1

----------------------------------------------------------------------------
(* Sums. *)

Any(s) == CHOOSE x \in s : TRUE
\* What the recursion of a sum of f over the subsets of S computes.
Adds(g, f, S) == g = [s \in SUBSET S |-> IF s = {} THEN 0 ELSE f[Any(s)] + g[s \ {Any(s)}]]

\* A sum is the recursion's result, whichever function satisfies it.
LEMMA SumIsSome ==
  ASSUME NEW f, NEW S
  PROVE  SumFunctionOnSet(f, S) = (CHOOSE g : Adds(g, f, S))[S]
BY DEF SumFunctionOnSet, FoldFunctionOnSet, MapThenFoldSet, Adds, Any

LEMMA AddsUnique ==
  ASSUME NEW f, NEW S, IsFiniteSet(S), NEW g, NEW h, NEW U, S \subseteq U,
         Adds(g, f, S), Adds(h, f, U)
  PROVE  \A T \in SUBSET S : g[T] = h[T]
<1> DEFINE Q == {T \in SUBSET S : g[T] = h[T]}
<1>1. ASSUME NEW T \in SUBSET S, \A x \in T : T \ {x} \in Q
      PROVE  T \in Q
  <2>1. g[T] = IF T = {} THEN 0 ELSE f[Any(T)] + g[T \ {Any(T)}]
    BY DEF Adds
  <2>2. h[T] = IF T = {} THEN 0 ELSE f[Any(T)] + h[T \ {Any(T)}]
    BY DEF Adds
  <2>3. T # {} => Any(T) \in T
    BY DEF Any
  <2> QED
    BY <1>1, <2>1, <2>2, <2>3
<1>2. \A T \in SUBSET S : T \in Q
  <2> HIDE DEF Q
  <2> QED BY <1>1, SubsetInduction
<1> QED
  BY <1>2

LEMMA SumWithAdds ==
  ASSUME NEW f, NEW S, IsFiniteSet(S), NEW h, Adds(h, f, S), NEW T \in SUBSET S,
         \E g : Adds(g, f, T)
  PROVE  SumFunctionOnSet(f, T) = h[T]
<1> DEFINE g == CHOOSE k : Adds(k, f, T)
<1>1. Adds(g, f, T)
  OBVIOUS
<1>2. SumFunctionOnSet(f, T) = g[T]
  BY SumIsSome
<1>3. IsFiniteSet(T)
  BY FS_Subset
<1> HIDE DEF g
<1>4. g[T] = h[T]
  BY <1>1, <1>3, AddsUnique
<1> QED
  BY <1>2, <1>4

LEMMA AddsExists ==
  ASSUME NEW f, NEW S, IsFiniteSet(S)
  PROVE  \A T \in SUBSET S : \E g : Adds(g, f, T)
<1> DEFINE Q == {T \in SUBSET S : \A U \in SUBSET T : \E g : Adds(g, f, U)}
<1>1. ASSUME NEW T \in SUBSET S, \A x \in T : T \ {x} \in Q
      PROVE  T \in Q
  <2>1. \A U \in SUBSET T : U # T => \E g : Adds(g, f, U)
    <3> SUFFICES ASSUME NEW U \in SUBSET T, U # T PROVE \E g : Adds(g, f, U)
      OBVIOUS
    <3>1. PICK x \in T : x \notin U
      OBVIOUS
    <3> QED
      BY <1>1, <3>1
  <2> DEFINE Sum(u) == SumFunctionOnSet(f, u)
             g == [s \in SUBSET T |-> IF s = {} THEN 0 ELSE f[Any(s)] + Sum(s \ {Any(s)})]
  <2>2. ASSUME NEW u \in SUBSET T, u # T
        PROVE  Sum(u) = IF u = {} THEN 0 ELSE f[Any(u)] + Sum(u \ {Any(u)})
    <3>1. PICK h : Adds(h, f, u)
      BY <2>1, <2>2
    <3>2. IsFiniteSet(u)
      BY FS_Subset
    <3>3. Sum(u) = h[u]
      BY <3>1, <3>2, SumWithAdds
    <3>4. u \ {Any(u)} \in SUBSET u /\ u \ {Any(u)} \in SUBSET T
      OBVIOUS
    <3>5. u # {} => Any(u) \in u
      BY DEF Any
    <3>6. u # {} => \E k : Adds(k, f, u \ {Any(u)})
      BY <2>1, <3>4, <3>5
    <3>7. ASSUME u # {} PROVE Sum(u \ {Any(u)}) = h[u \ {Any(u)}]
      <4> DEFINE v == u \ {Any(u)}
      <4>1. v \in SUBSET u /\ \E k : Adds(k, f, v)
        BY <3>4, <3>6, <3>7
      <4> HIDE DEF v
      <4>2. SumFunctionOnSet(f, v) = h[v]
        BY <3>1, <3>2, <4>1, SumWithAdds
      <4> QED
        BY <4>2 DEF v
    <3>8. h[u] = IF u = {} THEN 0 ELSE f[Any(u)] + h[u \ {Any(u)}]
      BY <3>1 DEF Adds
    <3> QED
      BY <3>3, <3>7, <3>8
  <2>3. \A s \in SUBSET T : s # {} => Any(s) \in s /\ s \ {Any(s)} \in SUBSET T /\ s \ {Any(s)} # T
    BY DEF Any
  <2>4. \A u \in SUBSET T : u # T => g[u] = Sum(u)
    BY <2>2
  <2>5. \A s \in SUBSET T : g[s] = IF s = {} THEN 0 ELSE f[Any(s)] + g[s \ {Any(s)}]
    <3> SUFFICES ASSUME NEW s \in SUBSET T PROVE g[s] = IF s = {} THEN 0 ELSE f[Any(s)] + g[s \ {Any(s)}]
      OBVIOUS
    <3>1. g[s] = IF s = {} THEN 0 ELSE f[Any(s)] + Sum(s \ {Any(s)})
      OBVIOUS
    <3> HIDE DEF g, Sum
    <3> QED
      BY <2>3, <2>4, <3>1
  <2>6. g = [s \in SUBSET T |-> g[s]]
    OBVIOUS
  <2> HIDE DEF g
  <2>7. Adds(g, f, T)
    BY <2>5, <2>6 DEF Adds
  <2> QED
    BY <2>1, <2>7
<1>2. \A T \in SUBSET S : T \in Q
  <2> HIDE DEF Q
  <2> QED BY <1>1, SubsetInduction
<1> QED
  BY <1>2

LEMMA SumEquation ==
  ASSUME NEW f, NEW S, IsFiniteSet(S)
  PROVE  /\ SumFunctionOnSet(f, {}) = 0
         /\ S # {} => Any(S) \in S /\ SumFunctionOnSet(f, S) = f[Any(S)] + SumFunctionOnSet(f, S \ {Any(S)})
<1>1. PICK h : Adds(h, f, S)
  BY AddsExists
<1>2. \A T \in SUBSET S : SumFunctionOnSet(f, T) = h[T]
  <2> SUFFICES ASSUME NEW T \in SUBSET S PROVE SumFunctionOnSet(f, T) = h[T]
    OBVIOUS
  <2>1. \E g : Adds(g, f, T)
    BY AddsExists
  <2> QED
    BY <1>1, <2>1, SumWithAdds
<1>3. \A T \in SUBSET S : h[T] = IF T = {} THEN 0 ELSE f[Any(T)] + h[T \ {Any(T)}]
  BY <1>1 DEF Adds
<1>4. S # {} => Any(S) \in S
  BY DEF Any
<1> QED
  BY <1>2, <1>3, <1>4

\* A sum depends on the numbers summed only.
LEMMA SumSame ==
  ASSUME NEW f, NEW g, NEW S, IsFiniteSet(S), \A x \in S : f[x] = g[x]
  PROVE  SumFunctionOnSet(f, S) = SumFunctionOnSet(g, S)
<1> DEFINE Q == {T \in SUBSET S : SumFunctionOnSet(f, T) = SumFunctionOnSet(g, T)}
<1>1. ASSUME NEW T \in SUBSET S, \A x \in T : T \ {x} \in Q
      PROVE  T \in Q
  <2>1. IsFiniteSet(T)
    BY FS_Subset
  <2>2. /\ SumFunctionOnSet(f, {}) = 0 /\ SumFunctionOnSet(g, {}) = 0
        /\ T # {} => /\ Any(T) \in T
                     /\ SumFunctionOnSet(f, T) = f[Any(T)] + SumFunctionOnSet(f, T \ {Any(T)})
                     /\ SumFunctionOnSet(g, T) = g[Any(T)] + SumFunctionOnSet(g, T \ {Any(T)})
    BY <2>1, SumEquation
  <2> QED
    BY <1>1, <2>2
<1>2. \A T \in SUBSET S : T \in Q
  <2> HIDE DEF Q
  <2> QED BY <1>1, SubsetInduction
<1> QED
  BY <1>2

LEMMA SumOfNone ==
  ASSUME NEW f
  PROVE  SumFunctionOnSet(f, {}) = 0
BY SumEquation, FS_EmptySet

LEMMA SumTyped ==
  ASSUME NEW S, IsFiniteSet(S), NEW f, \A x \in S : f[x] \in Nat
  PROVE  SumFunctionOnSet(f, S) \in Nat
<1> DEFINE Q == {T \in SUBSET S : SumFunctionOnSet(f, T) \in Nat}
<1>1. ASSUME NEW T \in SUBSET S, \A x \in T : T \ {x} \in Q
      PROVE  T \in Q
  <2>1. IsFiniteSet(T)
    BY FS_Subset
  <2>2. /\ SumFunctionOnSet(f, {}) = 0
        /\ T # {} => /\ Any(T) \in T
                     /\ SumFunctionOnSet(f, T) = f[Any(T)] + SumFunctionOnSet(f, T \ {Any(T)})
    BY <2>1, SumEquation
  <2> QED
    BY <1>1, <2>2
<1>2. \A T \in SUBSET S : T \in Q
  <2> HIDE DEF Q
  <2> QED BY <1>1, SubsetInduction
<1> QED
  BY <1>2

\* Any element may be taken out first.
LEMMA SumWithout ==
  ASSUME NEW S, IsFiniteSet(S), NEW f, \A x \in S : f[x] \in Nat
  PROVE  \A x \in S : SumFunctionOnSet(f, S) = SumFunctionOnSet(f, S \ {x}) + f[x]
<1> DEFINE Sum(T) == SumFunctionOnSet(f, T)
           Q == {T \in SUBSET S : \A x \in T : Sum(T) = Sum(T \ {x}) + f[x]}
<1>1. \A T \in SUBSET S : IsFiniteSet(T) /\ Sum(T) \in Nat
  BY FS_Subset, SumTyped
<1>2. \A T \in SUBSET S : T # {} => Any(T) \in T /\ Sum(T) = f[Any(T)] + Sum(T \ {Any(T)})
  BY <1>1, SumEquation
<1> HIDE DEF Sum
<1>3. ASSUME NEW T \in SUBSET S, \A x \in T : T \ {x} \in Q
      PROVE  T \in Q
  <2> SUFFICES ASSUME NEW x \in T PROVE Sum(T) = Sum(T \ {x}) + f[x]
    OBVIOUS
  <2> DEFINE a == Any(T)
  <2>1. a \in T /\ Sum(T) = f[a] + Sum(T \ {a})
    BY <1>2
  <2> HIDE DEF a
  <2>2. CASE a = x
    BY <1>1, <2>1, <2>2
  <2>3. CASE a # x
    <3> DEFINE U == (T \ {a}) \ {x}
    <3>1. x \in T \ {a} /\ a \in T \ {x} /\ (T \ {x}) \ {a} = U
      BY <2>1, <2>3
    <3>2. Sum(T \ {a}) = Sum(U) + f[x]
      BY <1>3, <2>1, <3>1
    <3>3. Sum(T \ {x}) = Sum(U) + f[a]
      BY <1>3, <2>1, <3>1
    <3>4. Sum(U) \in Nat /\ f[a] \in Nat /\ f[x] \in Nat
      BY <1>1, <2>1
    <3> HIDE DEF U
    <3> QED
      BY <2>1, <3>2, <3>3, <3>4
  <2> QED
    BY <2>2, <2>3
<1>4. \A T \in SUBSET S : T \in Q
  <2> HIDE DEF Q
  <2> QED BY <1>3, SubsetInduction
<1> QED
  BY <1>4 DEF Sum

LEMMA SumWith ==
  ASSUME NEW S, IsFiniteSet(S), NEW f, NEW x, x \notin S, \A y \in S \cup {x} : f[y] \in Nat
  PROVE  SumFunctionOnSet(f, S \cup {x}) = SumFunctionOnSet(f, S) + f[x]
<1> DEFINE T == S \cup {x}
<1>1. IsFiniteSet(T) /\ x \in T /\ T \ {x} = S
  BY FS_AddElement
<1> HIDE DEF T
<1>2. \A y \in T : f[y] \in Nat
  BY DEF T
<1>3. SumFunctionOnSet(f, T) = SumFunctionOnSet(f, T \ {x}) + f[x]
  BY <1>1, <1>2, SumWithout
<1> QED
  BY <1>1, <1>3 DEF T

\* One number that grows makes the sum grow by as much.
LEMMA SumGrows ==
  ASSUME NEW S, IsFiniteSet(S), NEW f, NEW g, NEW x \in S, NEW d \in Nat,
         \A y \in S : f[y] \in Nat,
         g[x] = f[x] + d, \A y \in S \ {x} : g[y] = f[y]
  PROVE  SumFunctionOnSet(g, S) = SumFunctionOnSet(f, S) + d
<1>1. IsFiniteSet(S \ {x})
  BY FS_RemoveElement
<1>2. \A y \in S : g[y] \in Nat
  OBVIOUS
<1>3. SumFunctionOnSet(f, S) = SumFunctionOnSet(f, S \ {x}) + f[x]
  BY SumWithout
<1>4. SumFunctionOnSet(g, S) = SumFunctionOnSet(g, S \ {x}) + g[x]
  BY <1>2, SumWithout
<1>5. SumFunctionOnSet(f, S \ {x}) = SumFunctionOnSet(g, S \ {x})
  BY <1>1, SumSame
<1>6. SumFunctionOnSet(f, S \ {x}) \in Nat
  BY <1>1, SumTyped
<1> QED
  BY <1>3, <1>4, <1>5, <1>6

LEMMA SumOfSums ==
  ASSUME NEW S, IsFiniteSet(S), NEW f, NEW g, NEW h,
         \A x \in S : f[x] \in Nat /\ g[x] \in Nat /\ h[x] = f[x] + g[x]
  PROVE  SumFunctionOnSet(h, S) = SumFunctionOnSet(f, S) + SumFunctionOnSet(g, S)
<1> DEFINE Q == {T \in SUBSET S : SumFunctionOnSet(h, T) = SumFunctionOnSet(f, T) + SumFunctionOnSet(g, T)}
<1>1. ASSUME NEW T \in SUBSET S, \A x \in T : T \ {x} \in Q
      PROVE  T \in Q
  <2>1. IsFiniteSet(T) /\ \A x \in T : f[x] \in Nat /\ g[x] \in Nat /\ h[x] \in Nat
    BY FS_Subset
  <2>2. CASE T = {}
    BY <2>2, SumOfNone
  <2>3. CASE T # {}
    <3>1. PICK x \in T : TRUE
      BY <2>3
    <3>2. IsFiniteSet(T \ {x})
      BY <2>1, FS_RemoveElement
    <3>3. /\ SumFunctionOnSet(f, T) = SumFunctionOnSet(f, T \ {x}) + f[x]
          /\ SumFunctionOnSet(g, T) = SumFunctionOnSet(g, T \ {x}) + g[x]
          /\ SumFunctionOnSet(h, T) = SumFunctionOnSet(h, T \ {x}) + h[x]
      BY <2>1, SumWithout
    <3>4. /\ SumFunctionOnSet(f, T \ {x}) \in Nat
          /\ SumFunctionOnSet(g, T \ {x}) \in Nat
      BY <2>1, <3>2, SumTyped
    <3>5. SumFunctionOnSet(h, T \ {x}) = SumFunctionOnSet(f, T \ {x}) + SumFunctionOnSet(g, T \ {x})
      BY <1>1
    <3>6. h[x] = f[x] + g[x] /\ f[x] \in Nat /\ g[x] \in Nat
      OBVIOUS
    <3> QED
      BY <3>3, <3>4, <3>5, <3>6
  <2> QED
    BY <2>2, <2>3
<1>2. \A T \in SUBSET S : T \in Q
  <2> HIDE DEF Q
  <2> QED BY <1>1, SubsetInduction
<1> QED
  BY <1>2

LEMMA SumOfZeros ==
  ASSUME NEW S, IsFiniteSet(S), NEW f, \A x \in S : f[x] = 0
  PROVE  SumFunctionOnSet(f, S) = 0
<1> DEFINE Q == {T \in SUBSET S : SumFunctionOnSet(f, T) = 0}
<1>1. ASSUME NEW T \in SUBSET S, \A x \in T : T \ {x} \in Q
      PROVE  T \in Q
  <2>1. IsFiniteSet(T)
    BY FS_Subset
  <2>2. /\ SumFunctionOnSet(f, {}) = 0
        /\ T # {} => /\ Any(T) \in T
                     /\ SumFunctionOnSet(f, T) = f[Any(T)] + SumFunctionOnSet(f, T \ {Any(T)})
    BY <2>1, SumEquation
  <2> QED
    BY <1>1, <2>2
<1>2. \A T \in SUBSET S : T \in Q
  <2> HIDE DEF Q
  <2> QED BY <1>1, SubsetInduction
<1> QED
  BY <1>2

----------------------------------------------------------------------------
(* Least keys and greatest numbers. *)

IsKey(k) == k[1] \in Int /\ k[2] \in Int /\ k[3] \in Int /\ k[4] \in Int
LeastOf(S, key) == {x \in S : \A y \in S : ~Precedes(key[y], key[x])}

LEMMA PrecedesOrders ==
  ASSUME NEW a, NEW b, NEW c, IsKey(a), IsKey(b), IsKey(c)
  PROVE  /\ ~Precedes(a, a)
         /\ ~Precedes(a, b) /\ ~Precedes(b, c) => ~Precedes(a, c)
         /\ Precedes(a, b) => ~Precedes(b, a)
         /\ ~Precedes(a, b) /\ ~Precedes(b, a) =>
              a[1] = b[1] /\ a[2] = b[2] /\ a[3] = b[3] /\ a[4] = b[4]
<1> DEFINE a1 == a[1]  a2 == a[2]  a3 == a[3]  a4 == a[4]
           b1 == b[1]  b2 == b[2]  b3 == b[3]  b4 == b[4]
           c1 == c[1]  c2 == c[2]  c3 == c[3]  c4 == c[4]
<1>1. /\ a1 \in Int /\ a2 \in Int /\ a3 \in Int /\ a4 \in Int
      /\ b1 \in Int /\ b2 \in Int /\ b3 \in Int /\ b4 \in Int
      /\ c1 \in Int /\ c2 \in Int /\ c3 \in Int /\ c4 \in Int
  BY DEF IsKey
<1>2. /\ Precedes(a, a) <=> FALSE
      /\ Precedes(a, b) <=> \/ a1 < b1
                            \/ a1 = b1 /\ a2 < b2
                            \/ a1 = b1 /\ a2 = b2 /\ a3 < b3
                            \/ a1 = b1 /\ a2 = b2 /\ a3 = b3 /\ a4 < b4
      /\ Precedes(b, a) <=> \/ b1 < a1
                            \/ b1 = a1 /\ b2 < a2
                            \/ b1 = a1 /\ b2 = a2 /\ b3 < a3
                            \/ b1 = a1 /\ b2 = a2 /\ b3 = a3 /\ b4 < a4
      /\ Precedes(b, c) <=> \/ b1 < c1
                            \/ b1 = c1 /\ b2 < c2
                            \/ b1 = c1 /\ b2 = c2 /\ b3 < c3
                            \/ b1 = c1 /\ b2 = c2 /\ b3 = c3 /\ b4 < c4
      /\ Precedes(a, c) <=> \/ a1 < c1
                            \/ a1 = c1 /\ a2 < c2
                            \/ a1 = c1 /\ a2 = c2 /\ a3 < c3
                            \/ a1 = c1 /\ a2 = c2 /\ a3 = c3 /\ a4 < c4
  BY <1>1 DEF Precedes
<1> HIDE DEF a1, a2, a3, a4, b1, b2, b3, b4, c1, c2, c3, c4
<1>3. /\ ~Precedes(a, a)
      /\ ~Precedes(a, b) /\ ~Precedes(b, c) => ~Precedes(a, c)
      /\ Precedes(a, b) => ~Precedes(b, a)
      /\ ~Precedes(a, b) /\ ~Precedes(b, a) => a1 = b1 /\ a2 = b2 /\ a3 = b3 /\ a4 = b4
  BY <1>1, <1>2
<1> QED
  BY <1>3 DEF a1, a2, a3, a4, b1, b2, b3, b4

\* Finitely many keys have a least one.
LEMMA SomeLeast ==
  ASSUME NEW S, IsFiniteSet(S), S # {}, NEW key, \A x \in S : IsKey(key[x])
  PROVE  LeastOf(S, key) # {}
<1> DEFINE Q == {T \in SUBSET S : T # {} => \E x \in T : \A y \in T : ~Precedes(key[y], key[x])}
<1>1. ASSUME NEW T \in SUBSET S, \A x \in T : T \ {x} \in Q
      PROVE  T \in Q
  <2> SUFFICES ASSUME T # {} PROVE \E x \in T : \A y \in T : ~Precedes(key[y], key[x])
    OBVIOUS
  <2>1. PICK x \in T : TRUE
    OBVIOUS
  <2>2. CASE T \ {x} = {}
    <3>1. \A y \in T : y = x
      BY <2>2
    <3> QED
      BY <3>1, PrecedesOrders
  <2>3. CASE T \ {x} # {}
    <3>1. PICK m \in T \ {x} : \A y \in T \ {x} : ~Precedes(key[y], key[m])
      BY <1>1, <2>3
    <3>2. CASE ~Precedes(key[x], key[m])
      BY <3>1, <3>2
    <3>3. CASE Precedes(key[x], key[m])
      <4>1. ~Precedes(key[m], key[x]) /\ ~Precedes(key[x], key[x])
        BY <3>3, PrecedesOrders
      <4>2. \A y \in T \ {x} : ~Precedes(key[y], key[x])
        BY <3>1, <4>1, PrecedesOrders
      <4> QED
        BY <4>1, <4>2
    <3> QED
      BY <3>2, <3>3
  <2> QED
    BY <2>2, <2>3
<1>2. \A T \in SUBSET S : T \in Q
  <2> HIDE DEF Q
  <2> QED BY <1>1, SubsetInduction
<1> QED
  BY <1>2 DEF LeastOf

\* Keys that tell elements apart have one least.
LEMMA OneLeast ==
  ASSUME NEW S, IsFiniteSet(S), S # {}, NEW key, \A x \in S : IsKey(key[x]),
         \A x, y \in S : key[x][3] = key[y][3] /\ key[x][4] = key[y][4] => x = y
  PROVE  \E x \in S : LeastOf(S, key) = {x}
<1>1. PICK x \in LeastOf(S, key) : TRUE
  BY SomeLeast
<1>2. \A y \in LeastOf(S, key) : y = x
  <2> SUFFICES ASSUME NEW y \in LeastOf(S, key) PROVE y = x
    OBVIOUS
  <2>1. ~Precedes(key[y], key[x]) /\ ~Precedes(key[x], key[y])
    BY DEF LeastOf
  <2>2. key[x][3] = key[y][3] /\ key[x][4] = key[y][4]
    BY <2>1, PrecedesOrders DEF LeastOf
  <2> QED
    BY <2>2 DEF LeastOf
<1> QED
  BY <1>2 DEF LeastOf

LEMMA GreatestNumber ==
  ASSUME NEW S, IsFiniteSet(S), S # {}, S \subseteq Nat
  PROVE  Max(S) \in S /\ \A x \in S : x <= Max(S)
<1> DEFINE key == [x \in S |-> <<-x, 0, 0, 0>>]
<1>1. \A x \in S : IsKey(key[x])
  BY DEF IsKey
<1>2. PICK x \in LeastOf(S, key) : TRUE
  <2> HIDE DEF key
  <2> QED BY <1>1, SomeLeast
<1>3. x \in S /\ \A y \in S : ~(-y < -x)
  BY <1>2 DEF LeastOf, Precedes
<1>4. \E z \in S : \A y \in S : z >= y
  BY <1>3
<1>5. Max(S) \in S /\ \A y \in S : Max(S) >= y
  BY <1>4 DEF Max
<1> QED
  BY <1>5

----------------------------------------------------------------------------
(* The order 0, 2, 4, ..., 1, 3, .... *)

LEMMA EvenFirstPlaces ==
  ASSUME NEW count \in Nat, NEW i \in 0 .. count - 1
  PROVE  /\ EvenFirst(count, i) \in Nat
         /\ EvenFirst(count, i) < (count + 1) \div 2 <=> i % 2 = 0
         /\ \A j \in 0 .. count - 1 : EvenFirst(count, i) = EvenFirst(count, j) => i = j
BY DEF EvenFirst

----------------------------------------------------------------------------
(* Hosts and their ranks. *)

LEMMA HostsFinite ==
  ASSUME NEW hosts \in Seq(Nat)
  PROVE  /\ IsFiniteSet(DOMAIN hosts)
         /\ IsFiniteSet(HostsOf(hosts))
         /\ Cardinality(HostsOf(hosts)) \in Nat
         /\ \A r \in DOMAIN hosts : r \in Nat /\ hosts[r] \in HostsOf(hosts) /\ r \in Members(hosts, hosts[r])
         /\ \A h : IsFiniteSet(Members(hosts, h))
<1>1. DOMAIN hosts = 1 .. Len(hosts) /\ Len(hosts) \in Nat
  OBVIOUS
<1>2. IsFiniteSet(DOMAIN hosts)
  BY <1>1, FS_Interval
<1>3. hosts \in Surjection(DOMAIN hosts, HostsOf(hosts))
  BY DEF Surjection, HostsOf
<1>4. IsFiniteSet(HostsOf(hosts))
  BY <1>2, <1>3, FS_Surjection
<1>5. \A h : IsFiniteSet(Members(hosts, h))
  BY <1>2, FS_Subset DEF Members
<1>6. Cardinality(HostsOf(hosts)) \in Nat
  BY <1>4, FS_CardinalityType
<1>7. \A r \in DOMAIN hosts : r \in Nat /\ hosts[r] \in HostsOf(hosts) /\ r \in Members(hosts, hosts[r])
  BY <1>1 DEF HostsOf, Members
<1> QED
  BY <1>2, <1>4, <1>5, <1>6, <1>7

LEMMA HostPositions ==
  ASSUME NEW hosts, AreHosts(hosts), NEW g \in HostsOf(hosts)
  PROVE  /\ HostPosition(hosts, g) \in Nat
         /\ HostPosition(hosts, g) < (Cardinality(HostsOf(hosts)) + 1) \div 2 <=> g % 2 = 0
         /\ \A h \in HostsOf(hosts) : HostPosition(hosts, g) = HostPosition(hosts, h) => g = h
<1>1. Cardinality(HostsOf(hosts)) \in Nat
  BY HostsFinite DEF AreHosts
<1> QED
  BY <1>1, EvenFirstPlaces DEF HostPosition, AreHosts

LEMMA RankPositions ==
  ASSUME NEW hosts \in Seq(Nat), NEW r \in DOMAIN hosts
  PROVE  /\ RankPosition(hosts, r) \in Nat
         /\ \A s \in DOMAIN hosts :
              hosts[r] = hosts[s] /\ RankPosition(hosts, r) = RankPosition(hosts, s) => r = s
<1> DEFINE mates == Members(hosts, hosts[r])
           count == Cardinality(mates)
           before(q) == {p \in mates : p < q}
           place(q) == Cardinality(before(q))
<1>1. IsFiniteSet(mates) /\ r \in mates /\ \A q \in mates : q \in Nat
  BY HostsFinite DEF Members
<1>2. count \in Nat
  BY <1>1, FS_CardinalityType
<1>3. ASSUME NEW q \in mates
      PROVE  place(q) \in 0 .. count - 1
  <2>1. before(q) \in SUBSET mates /\ q \notin before(q)
    BY <1>1, <1>3
  <2> HIDE DEF before
  <2>2. IsFiniteSet(before(q)) /\ place(q) <= count /\ (count = place(q) => before(q) = mates)
    BY <1>1, <2>1, FS_Subset
  <2>3. place(q) \in Nat
    BY <2>2, FS_CardinalityType
  <2> QED
    BY <1>2, <1>3, <2>1, <2>2, <2>3
<1>4. ASSUME NEW p \in mates, NEW q \in mates, p < q
      PROVE  place(p) # place(q)
  <2>1. before(p) \in SUBSET before(q) /\ p \in before(q) /\ p \notin before(p)
    BY <1>1, <1>4
  <2>2. before(q) \in SUBSET mates
    OBVIOUS
  <2> HIDE DEF before
  <2>3. IsFiniteSet(before(q))
    BY <1>1, <2>2, FS_Subset
  <2>4. Cardinality(before(q)) = Cardinality(before(p)) => before(q) = before(p)
    BY <2>1, <2>3, FS_Subset
  <2> QED
    BY <2>1, <2>4
<1>5. \A q \in mates : RankPosition(hosts, q) = EvenFirst(count, place(q))
  BY DEF RankPosition, Members
<1> HIDE DEF before, count, place
<1>6. RankPosition(hosts, r) \in Nat
  BY <1>1, <1>2, <1>3, <1>5, EvenFirstPlaces
<1>7. ASSUME NEW s \in mates, RankPosition(hosts, r) = RankPosition(hosts, s)
      PROVE  r = s
  <2>1. place(r) = place(s)
    BY <1>1, <1>2, <1>3, <1>5, <1>7, EvenFirstPlaces
  <2> QED
    BY <1>1, <1>4, <2>1
<1>8. \A s \in DOMAIN hosts : hosts[r] = hosts[s] => s \in mates
  BY DEF Members
<1> QED
  BY <1>6, <1>7, <1>8

----------------------------------------------------------------------------
(* Tallies. *)

IsTally(t, hosts) ==
  /\ DOMAIN t = {"primary", "secondary", "carried", "hostPrimary", "hostSecondary",
                 "hostCarried", "taken"}
  /\ t.primary \in [DOMAIN hosts -> Nat] /\ t.hostPrimary \in [HostsOf(hosts) -> Nat]
  /\ t.secondary \in [DOMAIN hosts -> Nat] /\ t.hostSecondary \in [HostsOf(hosts) -> Nat]
  /\ t.carried \in [DOMAIN hosts -> Nat] /\ t.hostCarried \in [HostsOf(hosts) -> Nat]

\* An empty tally loads nobody.
LEMMA NewTallyIsEmpty ==
  ASSUME NEW hosts \in Seq(Nat), NEW carried \in [DOMAIN hosts -> Nat]
  PROVE  /\ IsTally(NewTally(hosts, carried), hosts)
         /\ \A r \in DOMAIN hosts : /\ NewTally(hosts, carried).primary[r] = 0
                                    /\ NewTally(hosts, carried).secondary[r] = 0
         /\ \A h \in HostsOf(hosts) :
              /\ NewTally(hosts, carried).hostPrimary[h] = 0
              /\ NewTally(hosts, carried).hostSecondary[h] = 0
              /\ NewTally(hosts, carried).hostCarried[h] = SumFunctionOnSet(carried, Members(hosts, h))
         /\ NewTally(hosts, carried).carried = carried
         /\ NewTally(hosts, carried).taken = {}
<1> DEFINE t == NewTally(hosts, carried)
           sums == [h \in HostsOf(hosts) |-> SumFunctionOnSet(carried, Members(hosts, h))]
<1>1. /\ t.primary = Zeros(DOMAIN hosts) /\ t.hostPrimary = Zeros(HostsOf(hosts))
      /\ t.secondary = Zeros(DOMAIN hosts) /\ t.hostSecondary = Zeros(HostsOf(hosts))
      /\ t.carried = carried /\ t.hostCarried = sums /\ t.taken = {}
      /\ DOMAIN t = {"primary", "secondary", "carried", "hostPrimary", "hostSecondary",
                     "hostCarried", "taken"}
  BY DEF NewTally
<1>2. sums \in [HostsOf(hosts) -> Nat]
  <2>1. ASSUME NEW h \in HostsOf(hosts)
        PROVE  SumFunctionOnSet(carried, Members(hosts, h)) \in Nat
    <3>1. IsFiniteSet(Members(hosts, h)) /\ \A r \in Members(hosts, h) : carried[r] \in Nat
      BY HostsFinite DEF Members
    <3> QED
      BY <3>1, SumTyped
  <2> QED
    BY <2>1
<1>3. Zeros(DOMAIN hosts) \in [DOMAIN hosts -> Nat] /\ Zeros(HostsOf(hosts)) \in [HostsOf(hosts) -> Nat]
  BY DEF Zeros
<1> HIDE DEF t
<1>4. IsTally(t, hosts)
  BY <1>1, <1>2, <1>3 DEF IsTally
<1> QED
  BY <1>1, <1>4 DEF Zeros, t

\* A load changes its rank's tally and that of the rank's host.
LEMMA AssignAdds ==
  ASSUME NEW hosts, NEW t, IsTally(t, hosts), NEW r \in DOMAIN hosts,
         NEW load, load.primary \in Nat, load.secondary \in Nat
  PROVE  /\ IsTally(Assign(t, hosts, load, r), hosts)
         /\ Assign(t, hosts, load, r).primary = [t.primary EXCEPT ![r] = @ + load.primary]
         /\ Assign(t, hosts, load, r).secondary = [t.secondary EXCEPT ![r] = @ + load.secondary]
         /\ Assign(t, hosts, load, r).hostPrimary = [t.hostPrimary EXCEPT ![hosts[r]] = @ + load.primary]
         /\ Assign(t, hosts, load, r).hostSecondary = [t.hostSecondary EXCEPT ![hosts[r]] = @ + load.secondary]
         /\ Assign(t, hosts, load, r).carried = t.carried
         /\ Assign(t, hosts, load, r).hostCarried = t.hostCarried
         /\ Assign(t, hosts, load, r).taken = t.taken \cup {r}
<1> DEFINE u == Assign(t, hosts, load, r)
<1>1. hosts[r] \in HostsOf(hosts)
  BY DEF HostsOf
<1>2. /\ DOMAIN u = DOMAIN t
      /\ u.primary = [t.primary EXCEPT ![r] = @ + load.primary]
      /\ u.secondary = [t.secondary EXCEPT ![r] = @ + load.secondary]
      /\ u.hostPrimary = [t.hostPrimary EXCEPT ![hosts[r]] = @ + load.primary]
      /\ u.hostSecondary = [t.hostSecondary EXCEPT ![hosts[r]] = @ + load.secondary]
      /\ u.carried = t.carried /\ u.hostCarried = t.hostCarried /\ u.taken = t.taken \cup {r}
  BY DEF Assign, IsTally
<1>3. /\ [t.primary EXCEPT ![r] = @ + load.primary] \in [DOMAIN hosts -> Nat]
      /\ [t.hostPrimary EXCEPT ![hosts[r]] = @ + load.primary] \in [HostsOf(hosts) -> Nat]
  BY <1>1 DEF IsTally
<1>4. /\ [t.secondary EXCEPT ![r] = @ + load.secondary] \in [DOMAIN hosts -> Nat]
      /\ [t.hostSecondary EXCEPT ![hosts[r]] = @ + load.secondary] \in [HostsOf(hosts) -> Nat]
  BY <1>1 DEF IsTally
<1> HIDE DEF u
<1>5. IsTally(u, hosts)
  BY <1>2, <1>3, <1>4 DEF IsTally
<1> QED
  BY <1>2, <1>5 DEF u

LEMMA KeysTyped ==
  ASSUME NEW hosts, AreHosts(hosts), NEW t, IsTally(t, hosts)
  PROVE  /\ \A h \in HostsOf(hosts) : IsKey(HostKey(t, hosts, h))
         /\ \A r \in DOMAIN hosts : IsKey(RankKey(t, hosts, r))
<1>1. \A h \in HostsOf(hosts) : HostPosition(hosts, h) \in Nat
  BY HostPositions
<1>2. \A r \in DOMAIN hosts : RankPosition(hosts, r) \in Nat
  BY RankPositions DEF AreHosts
<1>3. \A h \in HostsOf(hosts) : IsKey(HostKey(t, hosts, h))
  BY <1>1 DEF IsKey, HostKey, IsTally
<1>4. \A r \in DOMAIN hosts : IsKey(RankKey(t, hosts, r))
  BY <1>2 DEF IsKey, RankKey, IsTally
<1> QED
  BY <1>3, <1>4

\* Exactly one of the open ranks is next.
LEMMA OneIsChosen ==
  ASSUME NEW hosts, AreHosts(hosts), NEW t, IsTally(t, hosts), NEW one,
         OpenRanks(t, hosts, one) # {}
  PROVE  \E r \in DOMAIN hosts : {q \in DOMAIN hosts : Chosen(t, hosts, one, q)} = {r}
<1> DEFINE ranks == OpenRanks(t, hosts, one)
           openHosts == OpenHosts(t, hosts, one)
           hostKey == [h \in openHosts |-> HostKey(t, hosts, h)]
<1>1. /\ ranks \subseteq DOMAIN hosts /\ ranks # {}
      /\ openHosts \subseteq HostsOf(hosts) /\ openHosts # {}
      /\ \A h \in openHosts : \E r \in ranks : hosts[r] = h
      /\ \A r \in ranks : hosts[r] \in openHosts
  BY DEF OpenRanks, OpenHosts, HostsOf
<1>2. /\ hosts \in Seq(Nat) /\ IsFiniteSet(openHosts) /\ IsFiniteSet(ranks)
  BY <1>1, HostsFinite, FS_Subset DEF AreHosts
<1>3. PICK h \in openHosts : LeastOf(openHosts, hostKey) = {h}
  <2>1. \A g \in openHosts : IsKey(hostKey[g])
    BY <1>1, KeysTyped
  <2>2. \A f, g \in openHosts : hostKey[f][3] = hostKey[g][3] /\ hostKey[f][4] = hostKey[g][4] => f = g
    BY <1>1, HostPositions DEF HostKey
  <2> HIDE DEF openHosts, hostKey
  <2> QED
    BY <1>1, <1>2, <2>1, <2>2, OneLeast
<1> DEFINE mates == {r \in ranks : hosts[r] = h}
           rankKey == [r \in mates |-> RankKey(t, hosts, r)]
<1>4. PICK r \in mates : LeastOf(mates, rankKey) = {r}
  <2>1. mates # {} /\ IsFiniteSet(mates)
    BY <1>1, <1>2, <1>3, FS_Subset
  <2>2. \A q \in mates : IsKey(rankKey[q])
    BY <1>1, KeysTyped
  <2>3. \A p, q \in mates : rankKey[p][3] = rankKey[q][3] /\ rankKey[p][4] = rankKey[q][4] => p = q
    BY <1>1, <1>2, RankPositions DEF RankKey
  <2> HIDE DEF mates, rankKey
  <2> QED
    BY <2>1, <2>2, <2>3, OneLeast
<1>5. \A q \in DOMAIN hosts : Chosen(t, hosts, one, q) <=>
        q \in ranks /\ hosts[q] \in LeastOf(openHosts, hostKey) /\
        \A p \in ranks : hosts[p] = hosts[q] => ~Precedes(RankKey(t, hosts, p), RankKey(t, hosts, q))
  BY <1>1 DEF Chosen, LeastOf
<1>6. \A q \in DOMAIN hosts : Chosen(t, hosts, one, q) <=> q \in LeastOf(mates, rankKey)
  BY <1>1, <1>3, <1>5 DEF LeastOf
<1> QED
  BY <1>1, <1>4, <1>6

\* The chosen rank's host has the least load of all, and the rank the least on it.
LEMMA ChosenIsLeast ==
  ASSUME NEW hosts, NEW t, IsTally(t, hosts), NEW r \in DOMAIN hosts, Chosen(t, hosts, FALSE, r)
  PROVE  /\ \A h \in HostsOf(hosts) : t.hostPrimary[hosts[r]] <= t.hostPrimary[h]
         /\ \A q \in DOMAIN hosts : hosts[q] = hosts[r] => t.primary[r] <= t.primary[q]
<1>1. OpenRanks(t, hosts, FALSE) = DOMAIN hosts /\ OpenHosts(t, hosts, FALSE) = HostsOf(hosts)
  BY DEF OpenRanks, OpenHosts, HostsOf
<1>2. hosts[r] \in HostsOf(hosts)
  BY DEF HostsOf
<1>3. ASSUME NEW h \in HostsOf(hosts)
      PROVE  t.hostPrimary[hosts[r]] <= t.hostPrimary[h]
  <2>1. ~Precedes(HostKey(t, hosts, h), HostKey(t, hosts, hosts[r]))
    BY <1>1 DEF Chosen
  <2>2. ~(t.hostPrimary[h] < t.hostPrimary[hosts[r]])
    BY <2>1 DEF Precedes, HostKey
  <2>3. t.hostPrimary[h] \in Nat /\ t.hostPrimary[hosts[r]] \in Nat
    BY <1>2 DEF IsTally
  <2> QED
    BY <2>2, <2>3
<1>4. ASSUME NEW q \in DOMAIN hosts, hosts[q] = hosts[r]
      PROVE  t.primary[r] <= t.primary[q]
  <2>1. ~Precedes(RankKey(t, hosts, q), RankKey(t, hosts, r))
    BY <1>1, <1>4 DEF Chosen
  <2>2. ~(t.primary[q] < t.primary[r])
    BY <2>1 DEF Precedes, RankKey
  <2>3. t.primary[q] \in Nat /\ t.primary[r] \in Nat
    BY DEF IsTally
  <2> QED
    BY <2>2, <2>3
<1> QED
  BY <1>3, <1>4
===============================================================================
