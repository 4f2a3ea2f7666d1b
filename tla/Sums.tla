-------------------------------- MODULE Sums --------------------------------
(***************************************************************************)
(* Facts about the sum of a function over a finite set of its arguments    *)
(* (SumFunctionOnSet), by induction on the size of the set.                *)
(***************************************************************************)
EXTENDS Integers, FiniteSets, Functions, FiniteSetTheorems, WellFoundedInduction, TLAPS

\* The element a sum takes first, and one step of the recursion over the subsets of S.
Pick(s) == CHOOSE x \in s : TRUE
Body(f, S, g) ==
    [s \in SUBSET S |-> IF s = {} THEN 0 ELSE f[Pick(s)] + g[s \ {Pick(s)}]]

\* The library's definition of a sum, as the solution of this recursion.
LEMMA Unfold ==
    ASSUME NEW f, NEW S, NEW g, g = CHOOSE h : h = Body(f, S, h)
    PROVE  SumFunctionOnSet(f, S) = g[S]
  BY Zenon DEF SumFunctionOnSet, FoldFunctionOnSet, MapThenFoldSet, Body, Pick

\* A set of natural numbers that has zero, and with a number its successor, has all.
LEMMA Induct ==
    ASSUME NEW T \in SUBSET Nat, 0 \in T, \A n \in T : n + 1 \in T
    PROVE  T = Nat
<1> SUFFICES ASSUME T # Nat PROVE FALSE
  OBVIOUS
<1> DEFINE Left == Nat \ T
<1>1. PICK m \in Left : \A k \in Left : ~(<<k, m>> \in OpToRel(<, Nat))
  <2>1. Left # {} /\ Left \in SUBSET Nat
    OBVIOUS
  <2> HIDE DEF Left
  <2> QED
    BY <2>1, NatLessThanWellFounded, WFMin
<1>2. m \in Nat /\ m # 0 /\ m \notin T
  OBVIOUS
<1>3. m - 1 \in Nat /\ m - 1 < m
  BY <1>2
<1>4. m - 1 \in T
  BY <1>1, <1>2, <1>3 DEF OpToRel
<1>5. (m - 1) + 1 = m
  BY <1>2
<1> QED
  BY <1>2, <1>4, <1>5

\* Taking an element leaves a set one smaller.
LEMMA PickSmaller ==
    ASSUME NEW S, IsFiniteSet(S), NEW s \in SUBSET S, s # {}
    PROVE  /\ Pick(s) \in s /\ s \ {Pick(s)} \in SUBSET S
           /\ Cardinality(s) \in Nat \ {0}
           /\ Cardinality(s \ {Pick(s)}) = Cardinality(s) - 1
<1>1. IsFiniteSet(s) /\ Pick(s) \in s
  BY FS_Subset DEF Pick
<1>2. Cardinality(s) \in Nat /\ Cardinality(s) # 0
  BY <1>1, FS_CardinalityType, FS_EmptySet
<1> QED
  BY <1>1, <1>2, FS_RemoveElement

\* The recursion has a solution.
LEMMA Solved ==
    ASSUME NEW f, NEW S, IsFiniteSet(S)
    PROVE  \E g : g = Body(f, S, g)
<1> DEFINE Step(g, s) == IF s = {} THEN 0 ELSE f[Pick(s)] + g[s \ {Pick(s)}]
           Upto(n, g) == /\ g = [s \in SUBSET S |-> g[s]]
                         /\ \A s \in SUBSET S : Cardinality(s) <= n => g[s] = Step(g, s)
           T == {n \in Nat : \E g : Upto(n, g)}
<1>1. 0 \in T
  <2> DEFINE g == [s \in SUBSET S |-> 0]
  <2>1. \A s \in SUBSET S : Cardinality(s) <= 0 => s = {}
    <3> SUFFICES ASSUME NEW s \in SUBSET S, s # {} PROVE ~(Cardinality(s) <= 0)
      OBVIOUS
    <3>1. Cardinality(s) \in Nat \ {0}
      BY PickSmaller
    <3> QED
      BY <3>1
  <2>2. Upto(0, g)
    BY <2>1
  <2> QED
    BY <2>2
<1>2. ASSUME NEW n \in T PROVE n + 1 \in T
  <2>1. n \in Nat /\ \E g : Upto(n, g)
    OBVIOUS
  <2>2. PICK g : Upto(n, g)
    BY <2>1
  <2> DEFINE h == [s \in SUBSET S |-> IF Cardinality(s) = n + 1 THEN Step(g, s) ELSE g[s]]
  <2>3. \A s \in SUBSET S : Cardinality(s) <= n => g[s] = Step(g, s)
    BY <2>2
  <2>4. \A s \in SUBSET S : h[s] = IF Cardinality(s) = n + 1 THEN Step(g, s) ELSE g[s]
    OBVIOUS
  <2>5. h = [s \in SUBSET S |-> h[s]]
    OBVIOUS
  <2> HIDE DEF h
  <2>6. ASSUME NEW s \in SUBSET S, Cardinality(s) <= n + 1 PROVE h[s] = Step(h, s)
    <3>1. CASE s = {}
      <4>1. Cardinality(s) = 0
        BY <3>1, FS_EmptySet
      <4>2. Cardinality(s) <= n /\ Cardinality(s) # n + 1
        BY <2>1, <4>1
      <4>3. h[s] = g[s] /\ g[s] = 0
        BY <2>3, <2>4, <3>1, <4>2
      <4> QED
        BY <3>1, <4>3
    <3>2. CASE s # {}
      <4> DEFINE r == s \ {Pick(s)}
      <4>1. r \in SUBSET S /\ Cardinality(s) \in Nat /\ Cardinality(r) = Cardinality(s) - 1
        BY <3>2, PickSmaller
      <4>2. Cardinality(r) # n + 1
        BY <2>1, <2>6, <4>1
      <4>3. h[r] = g[r]
        BY <2>4, <4>1, <4>2
      <4>4. Cardinality(s) = n + 1 \/ Cardinality(s) <= n
        BY <2>1, <2>6, <4>1
      <4>5. h[s] = Step(g, s)
        BY <2>3, <2>4, <4>4
      <4> QED
        BY <3>2, <4>3, <4>5
    <3> QED
      BY <3>1, <3>2
  <2>7. Upto(n + 1, h)
    BY <2>5, <2>6
  <2>8. \E k : Upto(n + 1, k)
    BY <2>7
  <2> HIDE DEF Upto
  <2> QED
    BY <2>1, <2>8
<1>3. T = Nat
  <2> HIDE DEF T
  <2>1. T \in SUBSET Nat
    BY DEF T
  <2> QED
    BY <1>1, <1>2, <2>1, Induct
<1>4. Cardinality(S) \in Nat /\ \A s \in SUBSET S : Cardinality(s) <= Cardinality(S)
  BY FS_CardinalityType, FS_Subset
<1>5. PICK g : Upto(Cardinality(S), g)
  BY <1>3, <1>4
<1>6. g = Body(f, S, g)
  BY <1>4, <1>5 DEF Body
<1> QED
  BY <1>6
\* Two solutions agree where both are defined.
LEMMA Determined ==
    ASSUME NEW f, NEW S, NEW T, IsFiniteSet(S), IsFiniteSet(T), NEW g, NEW h,
           g = Body(f, S, g), h = Body(f, T, h)
    PROVE  \A s \in (SUBSET S) \cap (SUBSET T) : g[s] = h[s]
<1> DEFINE Both == (SUBSET S) \cap (SUBSET T)
           U == {n \in Nat : \A s \in Both : Cardinality(s) <= n => g[s] = h[s]}
<1>1. /\ \A s \in SUBSET S : g[s] = IF s = {} THEN 0 ELSE f[Pick(s)] + g[s \ {Pick(s)}]
      /\ \A s \in SUBSET T : h[s] = IF s = {} THEN 0 ELSE f[Pick(s)] + h[s \ {Pick(s)}]
  BY DEF Body
<1>2. \A s \in Both : s # {} => /\ s \ {Pick(s)} \in Both
                                /\ Cardinality(s) \in Nat \ {0}
                                /\ Cardinality(s \ {Pick(s)}) = Cardinality(s) - 1
  BY PickSmaller
<1>3. 0 \in U
  <2>1. ASSUME NEW s \in Both, s # {} PROVE ~(Cardinality(s) <= 0)
    <3>1. Cardinality(s) \in Nat \ {0}
      BY <1>2, <2>1
    <3> QED
      BY <3>1
  <2> QED
    BY <1>1, <2>1
<1>4. ASSUME NEW n \in U PROVE n + 1 \in U
  <2>1. n \in Nat /\ \A s \in Both : Cardinality(s) <= n => g[s] = h[s]
    OBVIOUS
  <2>2. ASSUME NEW s \in Both, Cardinality(s) <= n + 1 PROVE g[s] = h[s]
    <3>1. CASE s = {}
      BY <1>1, <3>1
    <3>2. CASE s # {}
      <4> DEFINE r == s \ {Pick(s)}
      <4>1. r \in Both /\ Cardinality(r) <= n
        BY <1>2, <2>1, <2>2, <3>2
      <4>2. g[r] = h[r]
        BY <2>1, <4>1
      <4> QED
        BY <1>1, <3>2, <4>2
    <3> QED
      BY <3>1, <3>2
  <2> QED
    BY <2>1, <2>2
<1>5. U = Nat
  <2>1. U \in SUBSET Nat
    OBVIOUS
  <2> HIDE DEF U
  <2> QED
    BY <1>3, <1>4, <2>1, Induct
<1> SUFFICES ASSUME NEW s \in Both PROVE g[s] = h[s]
  OBVIOUS
<1>6. Cardinality(s) \in Nat
  BY FS_Subset, FS_CardinalityType
<1>7. Cardinality(s) \in U
  BY <1>5, <1>6
<1> QED
  BY <1>6, <1>7

\* A sum is its first element and the sum of the others.
LEMMA SumPick ==
    ASSUME NEW f, NEW S, IsFiniteSet(S)
    PROVE  SumFunctionOnSet(f, S) =
              IF S = {} THEN 0 ELSE f[Pick(S)] + SumFunctionOnSet(f, S \ {Pick(S)})
<1> DEFINE g == CHOOSE h : h = Body(f, S, h)
           R == S \ {Pick(S)}
           k == CHOOSE h : h = Body(f, R, h)
<1>1. IsFiniteSet(R)
  BY FS_Subset
<1>2. g = Body(f, S, g) /\ k = Body(f, R, k)
  <2>1. (\E h : h = Body(f, S, h)) /\ (\E h : h = Body(f, R, h))
    <3> HIDE DEF R
    <3> QED
      BY <1>1, Solved
  <2> HIDE DEF R
  <2> QED
    BY <2>1, Zenon
<1>3. SumFunctionOnSet(f, S) = g[S] /\ SumFunctionOnSet(f, R) = k[R]
  <2> HIDE DEF R
  <2> QED
    BY Unfold
<1> HIDE DEF g, k
<1>4. g[R] = k[R]
  <2>1. R \in (SUBSET S) \cap (SUBSET R)
    OBVIOUS
  <2> HIDE DEF R
  <2> QED
    BY <1>1, <1>2, <2>1, Determined
<1>5. g[S] = IF S = {} THEN 0 ELSE f[Pick(S)] + g[R]
  BY <1>2 DEF Body
<1> QED
  BY <1>3, <1>4, <1>5

-----------------------------------------------------------------------------
(* Induction on the subsets of a finite set, and what follows for sums. *)

\* What the empty set has, and a set has if it has it without any one of its elements, a
\* finite set has.
LEMMA SetInduct ==
    ASSUME NEW S, IsFiniteSet(S), NEW P \in SUBSET (SUBSET S), {} \in P,
           \A s \in SUBSET S : s # {} /\ (\A x \in s : s \ {x} \in P) => s \in P
    PROVE  S \in P
<1> DEFINE T == {n \in Nat : \A s \in SUBSET S : Cardinality(s) <= n => s \in P}
<1>1. 0 \in T
  <2>1. ASSUME NEW s \in SUBSET S, s # {} PROVE ~(Cardinality(s) <= 0)
    <3>1. Cardinality(s) \in Nat \ {0}
      BY <2>1, PickSmaller
    <3> QED
      BY <3>1
  <2> QED
    BY <2>1
<1>2. ASSUME NEW n \in T PROVE n + 1 \in T
  <2>1. n \in Nat /\ \A s \in SUBSET S : Cardinality(s) <= n => s \in P
    OBVIOUS
  <2>2. ASSUME NEW s \in SUBSET S, Cardinality(s) <= n + 1, s # {} PROVE s \in P
    <3>1. ASSUME NEW x \in s PROVE s \ {x} \in P
      <4>1. IsFiniteSet(s)
        BY FS_Subset
      <4>2. Cardinality(s) \in Nat /\ Cardinality(s \ {x}) = Cardinality(s) - 1
        BY <4>1, FS_CardinalityType, FS_RemoveElement
      <4> QED
        BY <2>1, <2>2, <4>2
    <3> QED
      BY <2>2, <3>1
  <2>3. \A s \in SUBSET S : Cardinality(s) <= n + 1 => s \in P
    BY <2>2
  <2> QED
    BY <2>1, <2>3
<1>3. T = Nat
  <2>1. T \in SUBSET Nat
    OBVIOUS
  <2> HIDE DEF T
  <2> QED
    BY <1>1, <1>2, <2>1, Induct
<1>4. Cardinality(S) \in T
  BY <1>3, FS_CardinalityType
<1>5. Cardinality(S) <= Cardinality(S)
  BY FS_CardinalityType
<1> QED
  BY <1>4, <1>5

\* A sum of naturals is one.
LEMMA SumType ==
    ASSUME NEW f, NEW S, IsFiniteSet(S), \A x \in S : f[x] \in Nat
    PROVE  SumFunctionOnSet(f, S) \in Nat
<1> DEFINE P == {s \in SUBSET S : SumFunctionOnSet(f, s) \in Nat}
<1>1. \A s \in SUBSET S : IsFiniteSet(s)
  BY FS_Subset
<1>2. {} \in P
  <2>1. IsFiniteSet({})
    BY FS_EmptySet
  <2>2. SumFunctionOnSet(f, {}) = 0
    BY <2>1, SumPick
  <2> QED
    BY <2>2
<1>3. ASSUME NEW s \in SUBSET S, s # {}, \A x \in s : s \ {x} \in P PROVE s \in P
  <2>1. Pick(s) \in s
    BY <1>3 DEF Pick
  <2>2. SumFunctionOnSet(f, s) = f[Pick(s)] + SumFunctionOnSet(f, s \ {Pick(s)})
    BY <1>1, <1>3, SumPick
  <2> QED
    BY <1>3, <2>1, <2>2
<1>4. S \in P
  <2>1. P \in SUBSET (SUBSET S)
    OBVIOUS
  <2> HIDE DEF P
  <2> QED
    BY <1>2, <1>3, <2>1, SetInduct
<1> QED
  BY <1>4

\* Any element may be taken out first.
LEMMA SumRemove ==
    ASSUME NEW f, NEW S, IsFiniteSet(S), \A x \in S : f[x] \in Nat, NEW x \in S
    PROVE  SumFunctionOnSet(f, S) = f[x] + SumFunctionOnSet(f, S \ {x})
<1> DEFINE Sum(s) == SumFunctionOnSet(f, s)
           P == {s \in SUBSET S : \A y \in s : Sum(s) = f[y] + Sum(s \ {y})}
<1>1. \A s \in SUBSET S :
         Sum(s) \in Nat /\ (s # {} => Sum(s) = f[Pick(s)] + Sum(s \ {Pick(s)}))
  <2> SUFFICES ASSUME NEW s \in SUBSET S
               PROVE  Sum(s) \in Nat /\ (s # {} => Sum(s) = f[Pick(s)] + Sum(s \ {Pick(s)}))
    OBVIOUS
  <2>1. IsFiniteSet(s) /\ \A y \in s : f[y] \in Nat
    BY FS_Subset
  <2> QED
    BY <2>1, SumPick, SumType
<1> HIDE DEF Sum
<1>2. {} \in P
  OBVIOUS
<1>3. ASSUME NEW s \in SUBSET S, s # {}, \A y \in s : s \ {y} \in P PROVE s \in P
  <2>1. Pick(s) \in s
    BY <1>3 DEF Pick
  <2>2. Sum(s) = f[Pick(s)] + Sum(s \ {Pick(s)})
    BY <1>1, <1>3
  <2>3. ASSUME NEW y \in s, y # Pick(s) PROVE Sum(s) = f[y] + Sum(s \ {y})
    <3> DEFINE p == Pick(s)
               r == s \ {p, y}
    <3>1. p \in s \ {y} /\ y \in s \ {p} /\ (s \ {y}) \ {p} = r /\ (s \ {p}) \ {y} = r
          /\ r \in SUBSET S
      BY <2>1, <2>3
    <3>2. s \ {y} \in P /\ s \ {p} \in P
      BY <1>3, <2>1
    <3> HIDE DEF p, r
    <3>3. Sum(s \ {y}) = f[p] + Sum(r) /\ Sum(s \ {p}) = f[y] + Sum(r)
      BY <3>1, <3>2
    <3>4. f[y] \in Nat /\ f[p] \in Nat /\ Sum(r) \in Nat
      BY <1>1, <2>1, <3>1 DEF p
    <3>5. Sum(s) = f[p] + Sum(s \ {p})
      BY <2>2 DEF p
    <3> QED
      BY <3>3, <3>4, <3>5
  <2> QED
    BY <2>2, <2>3
<1>4. S \in P
  <2>1. P \in SUBSET (SUBSET S)
    OBVIOUS
  <2> HIDE DEF P
  <2> QED
    BY <1>2, <1>3, <2>1, SetInduct
<1> QED
  BY <1>4 DEF Sum

\* A larger set and larger values have a larger sum.
LEMMA SumMonotone ==
    ASSUME NEW f, NEW g, NEW S, NEW T, IsFiniteSet(T), S \subseteq T,
           \A x \in T : g[x] \in Nat, \A x \in S : f[x] \in Nat /\ f[x] <= g[x]
    PROVE  SumFunctionOnSet(f, S) <= SumFunctionOnSet(g, T)
<1> DEFINE F(s) == SumFunctionOnSet(f, s \cap S)
           G(s) == SumFunctionOnSet(g, s)
           P == {s \in SUBSET T : F(s) <= G(s)}
<1>1. ASSUME NEW s \in SUBSET T
      PROVE  /\ F(s) \in Nat /\ G(s) \in Nat
             /\ s = {} => F(s) = 0 /\ G(s) = 0
             /\ \A x \in s : /\ G(s) = g[x] + G(s \ {x})
                             /\ x \in S => F(s) = f[x] + F(s \ {x})
                             /\ x \notin S => F(s) = F(s \ {x})
  <2>1. IsFiniteSet(s) /\ IsFiniteSet(s \cap S)
    BY FS_Subset
  <2>2. F(s) \in Nat /\ G(s) \in Nat
    BY <2>1, SumType
  <2>3. s = {} => F(s) = 0 /\ G(s) = 0
    BY <2>1, SumPick
  <2>4. ASSUME NEW x \in s PROVE G(s) = g[x] + G(s \ {x})
    BY <2>1, SumRemove
  <2>5. ASSUME NEW x \in s, x \in S PROVE F(s) = f[x] + F(s \ {x})
    <3>1. (s \cap S) \ {x} = (s \ {x}) \cap S /\ x \in s \cap S
      BY <2>5
    <3>2. \A y \in s \cap S : f[y] \in Nat
      OBVIOUS
    <3>3. SumFunctionOnSet(f, s \cap S) = f[x] + SumFunctionOnSet(f, (s \cap S) \ {x})
      BY <2>1, <3>1, <3>2, SumRemove
    <3> QED
      BY <3>1, <3>3
  <2>6. ASSUME NEW x \in s, x \notin S PROVE F(s) = F(s \ {x})
    <3>1. s \cap S = (s \ {x}) \cap S
      BY <2>6
    <3> QED
      BY <3>1
  <2> HIDE DEF F, G
  <2> QED
    BY <2>2, <2>3, <2>4, <2>5, <2>6
<1> HIDE DEF F, G
<1>2. {} \in P
  BY <1>1
<1>3. ASSUME NEW s \in SUBSET T, s # {}, \A x \in s : s \ {x} \in P PROVE s \in P
  <2>1. PICK x \in s : TRUE
    BY <1>3
  <2> DEFINE r == s \ {x}
  <2>2. r \in SUBSET T /\ F(r) <= G(r)
    BY <1>3
  <2>3. F(s) \in Nat /\ G(s) \in Nat /\ F(r) \in Nat /\ G(r) \in Nat /\ g[x] \in Nat
    BY <1>1, <2>2
  <2>4. /\ G(s) = g[x] + G(r)
        /\ x \in S => F(s) = f[x] + F(r)
        /\ x \notin S => F(s) = F(r)
    BY <1>1
  <2>5. x \in S => f[x] \in Nat /\ f[x] <= g[x]
    OBVIOUS
  <2> HIDE DEF r
  <2>6. F(s) <= G(s)
    BY <2>2, <2>3, <2>4, <2>5
  <2> QED
    BY <2>6
<1>4. T \in P
  <2>1. P \in SUBSET (SUBSET T)
    OBVIOUS
  <2> HIDE DEF P
  <2> QED
    BY <1>2, <1>3, <2>1, SetInduct
<1>5. T \cap S = S
  OBVIOUS
<1> QED
  BY <1>4, <1>5 DEF F, G

\* The sum of a union of sets with nothing in common.
LEMMA SumUnion ==
    ASSUME NEW f, NEW S, NEW T, IsFiniteSet(S), IsFiniteSet(T), S \cap T = {},
           \A x \in S \cup T : f[x] \in Nat
    PROVE  SumFunctionOnSet(f, S \cup T) = SumFunctionOnSet(f, S) + SumFunctionOnSet(f, T)
<1> DEFINE Sum(s) == SumFunctionOnSet(f, s)
           P == {s \in SUBSET S : Sum(s \cup T) = Sum(s) + Sum(T)}
<1>1. \A s \in SUBSET (S \cup T) :
         /\ Sum(s) \in Nat /\ (s = {} => Sum(s) = 0)
         /\ \A x \in s : Sum(s) = f[x] + Sum(s \ {x})
  <2> SUFFICES ASSUME NEW s \in SUBSET (S \cup T)
               PROVE  /\ Sum(s) \in Nat /\ (s = {} => Sum(s) = 0)
                      /\ \A x \in s : Sum(s) = f[x] + Sum(s \ {x})
    OBVIOUS
  <2>1. IsFiniteSet(S \cup T)
    BY FS_Union
  <2>2. IsFiniteSet(s) /\ \A x \in s : f[x] \in Nat
    BY <2>1, FS_Subset
  <2>3. Sum(s) \in Nat
    BY <2>2, SumType
  <2>4. s = {} => Sum(s) = 0
    BY <2>2, SumPick
  <2>5. \A x \in s : Sum(s) = f[x] + Sum(s \ {x})
    BY <2>2, SumRemove
  <2> QED
    BY <2>3, <2>4, <2>5
<1> HIDE DEF Sum
<1>2. {} \in P
  <2>1. {} \in SUBSET (S \cup T) /\ T \in SUBSET (S \cup T) /\ {} \cup T = T
    OBVIOUS
  <2>2. Sum({}) = 0 /\ Sum(T) \in Nat
    BY <1>1, <2>1
  <2> QED
    BY <2>1, <2>2
<1>3. ASSUME NEW s \in SUBSET S, s # {}, \A x \in s : s \ {x} \in P PROVE s \in P
  <2>1. PICK x \in s : TRUE
    BY <1>3
  <2> DEFINE r == s \ {x}
  <2>2. r \in SUBSET S /\ Sum(r \cup T) = Sum(r) + Sum(T)
    BY <1>3
  <2>3. (s \cup T) \ {x} = r \cup T /\ x \in s \cup T
    OBVIOUS
  <2>4. /\ s \cup T \in SUBSET (S \cup T) /\ s \in SUBSET (S \cup T)
        /\ r \in SUBSET (S \cup T) /\ T \in SUBSET (S \cup T)
    OBVIOUS
  <2>5. Sum(s \cup T) = f[x] + Sum(r \cup T) /\ Sum(s) = f[x] + Sum(r)
    BY <1>1, <2>3, <2>4
  <2>6. f[x] \in Nat /\ Sum(r) \in Nat /\ Sum(T) \in Nat
    BY <1>1, <2>4
  <2> HIDE DEF r
  <2> QED
    BY <2>2, <2>5, <2>6
<1>4. S \in P
  <2>1. P \in SUBSET (SUBSET S)
    OBVIOUS
  <2> HIDE DEF P
  <2> QED
    BY <1>2, <1>3, <2>1, SetInduct
<1> QED
  BY <1>4 DEF Sum

\* What the three lemmas above say of the sums over the subsets of a set, together.
LEMMA SumSubsets ==
    ASSUME NEW f, NEW S, IsFiniteSet(S), \A x \in S : f[x] \in Nat, NEW s \in SUBSET S
    PROVE  /\ SumFunctionOnSet(f, s) \in Nat
           /\ s = {} => SumFunctionOnSet(f, s) = 0
           /\ \A x \in s : SumFunctionOnSet(f, s) = f[x] + SumFunctionOnSet(f, s \ {x})
<1>1. IsFiniteSet(s) /\ \A x \in s : f[x] \in Nat
  BY FS_Subset
<1>2. s = {} => SumFunctionOnSet(f, s) = 0
  BY <1>1, SumPick
<1>3. \A x \in s : SumFunctionOnSet(f, s) = f[x] + SumFunctionOnSet(f, s \ {x})
  BY <1>1, SumRemove
<1> QED
  BY <1>1, <1>2, <1>3, SumType

\* Functions that agree on a set have the same sum.
LEMMA SumSame ==
    ASSUME NEW f, NEW g, NEW S, IsFiniteSet(S), \A x \in S : f[x] \in Nat /\ g[x] = f[x]
    PROVE  SumFunctionOnSet(g, S) = SumFunctionOnSet(f, S)
<1>1. SumFunctionOnSet(f, S) \in Nat /\ SumFunctionOnSet(g, S) \in Nat
  BY SumType
<1>2. SumFunctionOnSet(f, S) <= SumFunctionOnSet(g, S)
  <2>1. S \subseteq S /\ \A x \in S : f[x] \in Nat /\ f[x] <= g[x] /\ g[x] \in Nat
    OBVIOUS
  <2> QED
    BY <2>1, SumMonotone
<1>3. SumFunctionOnSet(g, S) <= SumFunctionOnSet(f, S)
  <2>1. S \subseteq S /\ \A x \in S : g[x] \in Nat /\ g[x] <= f[x] /\ f[x] \in Nat
    OBVIOUS
  <2> QED
    BY <2>1, SumMonotone
<1> QED
  BY <1>1, <1>2, <1>3

\* Summing group by group, and then the groups, is summing all: g has the sums of f over the
\* groups into which p divides S.
LEMMA SumGroups ==
    ASSUME NEW f, NEW S, IsFiniteSet(S), \A x \in S : f[x] \in Nat,
           NEW p, NEW G, G = {p[x] : x \in S},
           NEW part, \A y \in G : \A x : x \in part[y] <=> x \in S /\ p[x] = y,
           NEW g, \A y \in G : g[y] = SumFunctionOnSet(f, part[y])
    PROVE  SumFunctionOnSet(g, G) = SumFunctionOnSet(f, S)
<1> DEFINE In(s) == {x \in S : p[x] \in s}
           Sum(s) == SumFunctionOnSet(f, s)
           P == {s \in SUBSET G : SumFunctionOnSet(g, s) = Sum(In(s))}
<1>1. IsFiniteSet(G)
  <2>1. [x \in S |-> p[x]] \in Surjection(S, G)
    BY DEF Surjection
  <2> QED
    BY <2>1, FS_Surjection
<1>2. \A s \in SUBSET S : Sum(s) \in Nat /\ (s = {} => Sum(s) = 0)
  BY SumSubsets
<1>3. \A y \in G : g[y] \in Nat
  <2>1. \A y \in G : part[y] \in SUBSET S
    OBVIOUS
  <2> QED
    BY <1>2, <2>1
<1>4. ASSUME NEW s \in SUBSET G
      PROVE  \A y \in s : SumFunctionOnSet(g, s) = g[y] + SumFunctionOnSet(g, s \ {y})
  <2>1. IsFiniteSet(s) /\ \A y \in s : g[y] \in Nat
    BY <1>1, <1>3, FS_Subset
  <2> QED
    BY <2>1, SumRemove
<1>5. {} \in P
  <2>1. SumFunctionOnSet(g, {}) = 0
    BY <1>1, <1>3, SumSubsets
  <2>2. In({}) = {}
    OBVIOUS
  <2> QED
    BY <1>2, <2>1, <2>2
<1>6. ASSUME NEW s \in SUBSET G, s # {}, \A y \in s : s \ {y} \in P PROVE s \in P
  <2>1. PICK y \in s : TRUE
    BY <1>6
  <2>2. SumFunctionOnSet(g, s) = g[y] + SumFunctionOnSet(g, s \ {y})
    BY <1>4
  <2> DEFINE A == part[y]
             B == In(s \ {y})
  <2>3. g[y] = Sum(A) /\ SumFunctionOnSet(g, s \ {y}) = Sum(B)
    BY <1>6
  <2>4. Sum(A \cup B) = Sum(A) + Sum(B)
    <3>1. A \in SUBSET S /\ B \in SUBSET S /\ A \cap B = {}
      OBVIOUS
    <3>2. IsFiniteSet(A) /\ IsFiniteSet(B) /\ \A x \in A \cup B : f[x] \in Nat
      BY <3>1, FS_Subset
    <3> QED
      BY <3>1, <3>2, SumUnion
  <2>5. In(s) = A \cup B
    OBVIOUS
  <2> QED
    BY <2>2, <2>3, <2>4, <2>5
<1>7. G \in P
  <2>1. P \in SUBSET (SUBSET G)
    OBVIOUS
  <2> HIDE DEF P
  <2> QED
    BY <1>1, <1>5, <1>6, <2>1, SetInduct
<1>8. In(G) = S
  OBVIOUS
<1> QED
  BY <1>7, <1>8

\* What is at most twice as much for each is so for the sum.
LEMMA SumTwice ==
    ASSUME NEW f, NEW g, NEW S, IsFiniteSet(S),
           \A x \in S : f[x] \in Nat /\ g[x] \in Nat /\ g[x] <= 2 * f[x]
    PROVE  SumFunctionOnSet(g, S) <= 2 * SumFunctionOnSet(f, S)
<1> DEFINE F(s) == SumFunctionOnSet(f, s)
           H(s) == SumFunctionOnSet(g, s)
           P == {s \in SUBSET S : H(s) <= 2 * F(s)}
<1>1. ASSUME NEW s \in SUBSET S
      PROVE  /\ F(s) \in Nat /\ H(s) \in Nat /\ (s = {} => F(s) = 0 /\ H(s) = 0)
             /\ \A x \in s : F(s) = f[x] + F(s \ {x}) /\ H(s) = g[x] + H(s \ {x})
  BY SumSubsets
<1> HIDE DEF F, H
<1>2. {} \in P
  <2>1. {} \in SUBSET S
    OBVIOUS
  <2> QED
    BY <1>1, <2>1
<1>3. ASSUME NEW s \in SUBSET S, s # {}, \A x \in s : s \ {x} \in P PROVE s \in P
  <2>1. PICK x \in s : TRUE
    BY <1>3
  <2>2. /\ F(s) = f[x] + F(s \ {x}) /\ H(s) = g[x] + H(s \ {x})
        /\ F(s \ {x}) \in Nat /\ H(s \ {x}) \in Nat /\ H(s \ {x}) <= 2 * F(s \ {x})
    BY <1>1, <1>3
  <2>3. f[x] \in Nat /\ g[x] \in Nat /\ g[x] <= 2 * f[x]
    OBVIOUS
  <2>4. H(s) <= 2 * F(s)
    BY <2>2, <2>3
  <2> QED
    BY <2>4
<1>4. S \in P
  <2>1. P \in SUBSET (SUBSET S)
    OBVIOUS
  <2> HIDE DEF P
  <2> QED
    BY <1>2, <1>3, <2>1, SetInduct
<1> QED
  BY <1>4 DEF F, H
=============================================================================
