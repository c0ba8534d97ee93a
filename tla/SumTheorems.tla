---------------------------- MODULE SumTheorems ----------------------------
(***************************************************************************)
(* Sums of a function over a finite set.  The community operator           *)
(* SumFunctionOnSet takes the elements in the order CHOOSE finds them; the *)
(* lemmas below say that the order does not matter and what one changed,   *)
(* added or removed term does to a sum.  They are what the theorems about  *)
(* ledgers and the records they add up to rest on.                         *)
(*                                                                         *)
(* The induction theorems of the library take an operator, which no        *)
(* backend instantiates, so induction is stated here about sets of         *)
(* numbers, from the well-foundedness of < on the naturals.                *)
(***************************************************************************)
EXTENDS Integers, Functions, FiniteSetTheorems, WellFoundedInduction, TLAPS

\* A set of numbers that holds zero and every successor holds them all: a
\* least number outside it would have a predecessor inside.
LEMMA SetInduction ==
    ASSUME NEW N, 0 \in N, \A n \in Nat : n \in N => n + 1 \in N
    PROVE  \A n \in Nat : n \in N
<1> DEFINE Less == {p \in Nat \X Nat : p[1] < p[2]}
           Missing == Nat \ N
<1>1. IsWellFoundedOn(Less, Nat)
  BY NatLessThanWellFounded DEF OpToRel
<1>2. ASSUME Missing # {} PROVE FALSE
  <2>1. PICK x \in Missing : \A y \in Missing : <<y, x>> \notin Less
    <3>1. Missing \subseteq Nat
      OBVIOUS
    <3> HIDE DEF Less, Missing
    <3> QED BY <1>1, <1>2, <3>1, WFMin
  <2>2. x \in Nat /\ x # 0
    OBVIOUS
  <2>3. x - 1 \in Nat /\ <<x - 1, x>> \in Less
    BY <2>2
  <2>4. x - 1 \notin N
    BY <2>2, <2>3
  <2> QED BY <2>1, <2>3, <2>4
<1> QED BY <1>2

-----------------------------------------------------------------------------
(* The recursive function behind a sum exists and is unique.               *)

First(s) == CHOOSE x \in s : TRUE

\* g[s] is the sum of f over s, for every member s of D, a set of sets closed
\* under taking the first element out.
SumsOn(g, f, D) ==
    /\ g = [s \in D |-> g[s]]
    /\ \A s \in D : g[s] = IF s = {} THEN 0 ELSE f[First(s)] + g[s \ {First(s)}]

\* Taking the first element out of a finite set.
LEMMA FirstOut ==
    ASSUME NEW s, IsFiniteSet(s), s # {}
    PROVE  /\ First(s) \in s
           /\ IsFiniteSet(s \ {First(s)})
           /\ Cardinality(s) \in Nat /\ Cardinality(s) > 0
           /\ Cardinality(s \ {First(s)}) = Cardinality(s) - 1
<1>1. First(s) \in s
  BY DEF First
<1>2. Cardinality(s) \in Nat /\ Cardinality(s) # 0
  BY FS_CardinalityType, FS_EmptySet
<1> QED BY <1>1, <1>2, FS_RemoveElement

\* Two functions that are sums of f agree on every set both are defined on.
LEMMA SumsUnique ==
    ASSUME NEW f, NEW g, NEW h, NEW S, NEW T \in SUBSET S, IsFiniteSet(T),
           SumsOn(g, f, SUBSET S), SumsOn(h, f, SUBSET T)
    PROVE  g[T] = h[T]
<1> DEFINE N == {n \in Nat : \A s \in SUBSET T : Cardinality(s) = n => g[s] = h[s]}
<1>0. \A s \in SUBSET T : IsFiniteSet(s) /\ Cardinality(s) \in Nat
  BY FS_Subset, FS_CardinalityType
<1>1. 0 \in N
  BY <1>0, FS_EmptySet DEF SumsOn
<1>2. ASSUME NEW n \in Nat, n \in N PROVE n + 1 \in N
  <2>1. SUFFICES ASSUME NEW s \in SUBSET T, Cardinality(s) = n + 1
                 PROVE  g[s] = h[s]
    OBVIOUS
  <2>2. s # {}
    <3>1. Cardinality({}) = 0 /\ n + 1 # 0
      BY FS_EmptySet
    <3> QED BY <2>1, <3>1
  <2>3. PICK x : x = First(s)
    OBVIOUS
  <2>4. s \ {x} \in SUBSET T /\ Cardinality(s \ {x}) = n
    BY <1>0, <2>1, <2>2, <2>3, FirstOut
  <2>5. g[s \ {x}] = h[s \ {x}]
    BY <1>2, <2>4
  <2> QED BY <2>2, <2>3, <2>5 DEF SumsOn
<1>3. \A n \in Nat : n \in N
  <2> HIDE DEF N
  <2> QED BY <1>1, <1>2, SetInduction
<1> QED BY <1>0, <1>3

\* Such a function exists for every finite set.
LEMMA SumsExist ==
    ASSUME NEW f, NEW S, IsFiniteSet(S)
    PROVE  \E g : SumsOn(g, f, SUBSET S)
<1> DEFINE D(n) == {s \in SUBSET S : Cardinality(s) <= n}
           N == {n \in Nat : \E g : SumsOn(g, f, D(n))}
<1>0. \A s \in SUBSET S : IsFiniteSet(s) /\ Cardinality(s) \in Nat
  BY FS_Subset, FS_CardinalityType
<1>1. 0 \in N
  <2> DEFINE g == [s \in D(0) |-> 0]
  <2>1. \A s \in D(0) : s = {}
    BY <1>0, FS_EmptySet
  <2>2. SumsOn(g, f, D(0))
    BY <2>1 DEF SumsOn
  <2> QED BY <2>2
<1>2. ASSUME NEW n \in Nat, n \in N PROVE n + 1 \in N
  <2>1. PICK g : SumsOn(g, f, D(n))
    BY <1>2
  <2> DEFINE h == [s \in D(n + 1) |-> IF s \in D(n) THEN g[s]
                                      ELSE f[First(s)] + g[s \ {First(s)}]]
  <2>2. \A s \in D(n) : s \in D(n + 1)
    BY <1>0
  <2>3. ASSUME NEW s \in D(n + 1), s # {}
        PROVE  s \ {First(s)} \in D(n)
    <3>1. s \in SUBSET S /\ Cardinality(s) <= n + 1 /\ IsFiniteSet(s)
      BY <1>0
    <3>2. PICK x : x = First(s)
      OBVIOUS
    <3>3. s \ {x} \in SUBSET S /\ Cardinality(s \ {x}) <= n
      BY <2>3, <3>1, <3>2, FirstOut
    <3> QED BY <3>2, <3>3
  <2>4. {} \in D(n)
    BY FS_EmptySet
  <2>5. ASSUME NEW s \in D(n + 1)
        PROVE  h[s] = IF s = {} THEN 0 ELSE f[First(s)] + h[s \ {First(s)}]
    <3> HIDE DEF D
    <3>1. CASE s = {}
      BY <2>1, <2>4, <2>2, <3>1 DEF SumsOn
    <3>2. CASE s # {}
      <4>1. PICK t : t = s \ {First(s)}
        OBVIOUS
      <4>2. t \in D(n) /\ h[t] = g[t]
        BY <2>2, <2>3, <3>2, <4>1
      <4>3. h[s] = f[First(s)] + g[t]
        BY <2>1, <3>2, <4>1 DEF SumsOn
      <4> QED BY <3>2, <4>1, <4>2, <4>3
    <3> QED BY <3>1, <3>2
  <2>6. SumsOn(h, f, D(n + 1))
    <3>1. h = [s \in D(n + 1) |-> h[s]]
      OBVIOUS
    <3> HIDE DEF D, h
    <3> QED BY <2>5, <3>1 DEF SumsOn
  <2> QED BY <2>6
<1>3. \A n \in Nat : n \in N
  <2> HIDE DEF N
  <2> QED BY <1>1, <1>2, SetInduction
<1>4. PICK n \in Nat : n = Cardinality(S)
  BY FS_CardinalityType
<1>5. D(n) = SUBSET S
  BY <1>4, FS_Subset
<1>6. n \in N
  BY <1>3
<1> QED BY <1>5, <1>6

-----------------------------------------------------------------------------
(* Facts about SumFunctionOnSet.                                           *)

\* The sum over a set is what such a function gives for it.
LEMMA SumIs ==
    ASSUME NEW f, NEW S, IsFiniteSet(S), NEW g, SumsOn(g, f, SUBSET S)
    PROVE  SumFunctionOnSet(f, S) = g[S]
<1> DEFINE Eq(h) ==
      h = [s \in SUBSET S |-> IF s = {} THEN 0 ELSE f[First(s)] + h[s \ {First(s)}]]
<1>1. SumFunctionOnSet(f, S) = (CHOOSE h : Eq(h))[S]
  BY Zenon DEF SumFunctionOnSet, FoldFunctionOnSet, MapThenFoldSet, First
<1>2. Eq(g)
  BY DEF SumsOn
<1>3. PICK h : h = (CHOOSE k : Eq(k)) /\ Eq(h)
  <2> HIDE DEF Eq
  <2> QED BY <1>2
<1>4. SumsOn(h, f, SUBSET S)
  <2>1. \A s \in SUBSET S : h[s] = IF s = {} THEN 0 ELSE f[First(s)] + h[s \ {First(s)}]
    BY <1>3
  <2>2. h = [s \in SUBSET S |-> h[s]]
    BY <1>3
  <2> QED BY <2>1, <2>2 DEF SumsOn
<1>5. h[S] = g[S]
  BY <1>4, SumsUnique
<1> QED BY <1>1, <1>3, <1>5

\* The sum over the empty set, and the recursion of the others.
LEMMA SumUnfold ==
    ASSUME NEW f, NEW S, IsFiniteSet(S)
    PROVE  /\ S = {} => SumFunctionOnSet(f, S) = 0
           /\ S # {} => SumFunctionOnSet(f, S) =
                          f[First(S)] + SumFunctionOnSet(f, S \ {First(S)})
<1>1. PICK g : SumsOn(g, f, SUBSET S)
  BY SumsExist
<1>2. SumFunctionOnSet(f, S) = g[S]
  BY <1>1, SumIs
<1>3. ASSUME S # {}
      PROVE  SumFunctionOnSet(f, S \ {First(S)}) = g[S \ {First(S)}]
  <2>1. PICK T : T = S \ {First(S)}
    OBVIOUS
  <2>2. IsFiniteSet(T) /\ T \in SUBSET S
    BY <2>1, <1>3, FirstOut
  <2>3. PICK h : SumsOn(h, f, SUBSET T)
    BY <2>2, SumsExist
  <2>4. SumFunctionOnSet(f, T) = h[T]
    BY <2>2, <2>3, SumIs
  <2>5. g[T] = h[T]
    BY <1>1, <2>2, <2>3, SumsUnique
  <2> QED BY <2>1, <2>4, <2>5
<1> QED BY <1>1, <1>2, <1>3 DEF SumsOn

\* A sum of integers is an integer, one of naturals a natural.
LEMMA SumType ==
    ASSUME NEW f, NEW S, IsFiniteSet(S), NEW V, V = Int \/ V = Nat,
           \A x \in S : f[x] \in V
    PROVE  SumFunctionOnSet(f, S) \in V
<1> DEFINE N == {n \in Nat : \A s \in SUBSET S :
                                Cardinality(s) = n => SumFunctionOnSet(f, s) \in V}
<1>0. \A s \in SUBSET S : IsFiniteSet(s) /\ Cardinality(s) \in Nat
  BY FS_Subset, FS_CardinalityType
<1>1. 0 \in N
  <2>1. ASSUME NEW s \in SUBSET S, Cardinality(s) = 0
        PROVE  SumFunctionOnSet(f, s) \in V
    <3>1. s = {} /\ IsFiniteSet(s)
      BY <1>0, <2>1, FS_EmptySet
    <3>2. SumFunctionOnSet(f, s) = 0
      BY <3>1, SumUnfold
    <3> QED BY <3>2
  <2> QED BY <2>1
<1>2. ASSUME NEW n \in Nat, n \in N PROVE n + 1 \in N
  <2>1. SUFFICES ASSUME NEW s \in SUBSET S, Cardinality(s) = n + 1
                 PROVE  SumFunctionOnSet(f, s) \in V
    OBVIOUS
  <2>2. s # {} /\ IsFiniteSet(s)
    <3>1. Cardinality({}) = 0 /\ n + 1 # 0
      BY FS_EmptySet
    <3> QED BY <1>0, <2>1, <3>1
  <2>3. PICK x, t : x = First(s) /\ t = s \ {x}
    OBVIOUS
  <2>4. x \in S /\ t \in SUBSET S /\ Cardinality(t) = n
    BY <2>1, <2>2, <2>3, FirstOut
  <2>5. SumFunctionOnSet(f, s) = f[x] + SumFunctionOnSet(f, t)
    BY <2>2, <2>3, SumUnfold
  <2>6. SumFunctionOnSet(f, t) \in V
    BY <1>2, <2>4
  <2> QED BY <2>4, <2>5, <2>6
<1>3. \A n \in Nat : n \in N
  <2> HIDE DEF N
  <2> QED BY <1>1, <1>2, SetInduction
<1> QED BY <1>0, <1>3

\* The order of the elements does not matter: any of them can be taken out
\* first.
LEMMA SumRemove ==
    ASSUME NEW f, NEW S, IsFiniteSet(S), \A x \in S : f[x] \in Int, NEW x \in S
    PROVE  SumFunctionOnSet(f, S) = f[x] + SumFunctionOnSet(f, S \ {x})
<1> DEFINE OK(s) == \A e \in s : SumFunctionOnSet(f, s)
                                   = f[e] + SumFunctionOnSet(f, s \ {e})
           N == {n \in Nat : \A s \in SUBSET S : Cardinality(s) = n => OK(s)}
<1>0. \A s \in SUBSET S : IsFiniteSet(s) /\ Cardinality(s) \in Nat
  BY FS_Subset, FS_CardinalityType
<1>1. 0 \in N
  BY <1>0, FS_EmptySet
<1>2. ASSUME NEW n \in Nat, n \in N PROVE n + 1 \in N
  <2>1. SUFFICES ASSUME NEW s \in SUBSET S, Cardinality(s) = n + 1, NEW e \in s
                 PROVE  SumFunctionOnSet(f, s) = f[e] + SumFunctionOnSet(f, s \ {e})
    OBVIOUS
  <2>2. s # {} /\ IsFiniteSet(s)
    BY <1>0
  <2>3. PICK y : y = First(s)
    OBVIOUS
  <2>4. \A z \in s : s \ {z} \in SUBSET S /\ Cardinality(s \ {z}) = n
    BY <1>0, <2>1, <2>2, FS_RemoveElement
  <2>5. \A z \in s : OK(s \ {z})
    <3> HIDE DEF OK
    <3> QED BY <1>2, <2>4
  <2>6. y \in s /\ SumFunctionOnSet(f, s) = f[y] + SumFunctionOnSet(f, s \ {y})
    BY <2>2, <2>3, SumUnfold, FirstOut
  <2>7. CASE e # y
    <3>1. PICK t : t = s \ {e, y}
      OBVIOUS
    <3>2. (s \ {e}) \ {y} = t /\ (s \ {y}) \ {e} = t
      BY <3>1
    <3>3. SumFunctionOnSet(f, s \ {y}) = f[e] + SumFunctionOnSet(f, t)
      BY <2>5, <2>6, <2>7, <3>2
    <3>4. SumFunctionOnSet(f, s \ {e}) = f[y] + SumFunctionOnSet(f, t)
      BY <2>5, <2>6, <2>7, <3>2
    <3>5. SumFunctionOnSet(f, t) \in Int
      <4>1. IsFiniteSet(t) /\ \A z \in t : f[z] \in Int
        BY <1>0, <3>1
      <4> QED BY <4>1, SumType
    <3>6. f[e] \in Int /\ f[y] \in Int
      BY <2>6
    <3> QED BY <2>6, <3>3, <3>4, <3>5, <3>6
  <2> QED BY <2>6, <2>7
<1>3. \A n \in Nat : n \in N
  <2> HIDE DEF N
  <2> QED BY <1>1, <1>2, SetInduction
<1>4. OK(S)
  BY <1>0, <1>3
<1> QED BY <1>4

\* Only the values on the set matter.
LEMMA SumSame ==
    ASSUME NEW f, NEW g, NEW S, IsFiniteSet(S), \A x \in S : f[x] = g[x]
    PROVE  SumFunctionOnSet(f, S) = SumFunctionOnSet(g, S)
<1>1. PICK h : SumsOn(h, f, SUBSET S)
  BY SumsExist
<1>2. \A s \in SUBSET S : s # {} => f[First(s)] = g[First(s)]
  BY DEF First
<1>3. SumsOn(h, g, SUBSET S)
  BY <1>1, <1>2 DEF SumsOn
<1> QED BY <1>1, <1>3, SumIs

\* One term more.
LEMMA SumAdd ==
    ASSUME NEW f, NEW S, IsFiniteSet(S), NEW x, x \notin S,
           \A y \in S \cup {x} : f[y] \in Int
    PROVE  SumFunctionOnSet(f, S \cup {x}) = SumFunctionOnSet(f, S) + f[x]
<1>1. PICK T : T = S \cup {x}
  OBVIOUS
<1>2. IsFiniteSet(T) /\ x \in T /\ T \ {x} = S
  BY <1>1, FS_AddElement
<1>3. SumFunctionOnSet(f, T) = f[x] + SumFunctionOnSet(f, T \ {x})
  BY <1>1, <1>2, SumRemove
<1>4. SumFunctionOnSet(f, S) \in Int /\ f[x] \in Int
  BY SumType
<1>5. SumFunctionOnSet(f, S \cup {x}) = SumFunctionOnSet(f, T)
  BY <1>1, Zenon
<1>6. SumFunctionOnSet(f, T) = f[x] + SumFunctionOnSet(f, S)
  BY <1>2, <1>3, Zenon
<1> QED BY <1>4, <1>5, <1>6

\* One term changed.
LEMMA SumChange ==
    ASSUME NEW f, NEW g, NEW S, IsFiniteSet(S), NEW x \in S,
           \A y \in S : f[y] \in Int /\ g[y] \in Int,
           \A y \in S : y # x => f[y] = g[y]
    PROVE  SumFunctionOnSet(g, S) = SumFunctionOnSet(f, S) - f[x] + g[x]
<1>1. PICK T : T = S \ {x} /\ IsFiniteSet(T)
  BY FS_RemoveElement
<1>2. SumFunctionOnSet(f, T) = SumFunctionOnSet(g, T)
  BY <1>1, SumSame
<1>3. SumFunctionOnSet(f, T) \in Int
  BY <1>1, SumType
<1>4. SumFunctionOnSet(f, S) = f[x] + SumFunctionOnSet(f, T)
  BY <1>1, SumRemove
<1>5. SumFunctionOnSet(g, S) = g[x] + SumFunctionOnSet(g, T)
  BY <1>1, SumRemove
<1> QED BY <1>2, <1>3, <1>4, <1>5

\* Terms that are all zero add up to zero.
LEMMA SumZero ==
    ASSUME NEW f, NEW S, IsFiniteSet(S), \A x \in S : f[x] = 0
    PROVE  SumFunctionOnSet(f, S) = 0
<1> DEFINE h == [s \in SUBSET S |-> 0]
<1>1. \A s \in SUBSET S : s # {} => f[First(s)] = 0 /\ s \ {First(s)} \in SUBSET S
  BY DEF First
<1>2. SumsOn(h, f, SUBSET S)
  BY <1>1 DEF SumsOn
<1>3. h[S] = 0
  OBVIOUS
<1> HIDE DEF h
<1> QED BY <1>2, <1>3, SumIs

\* A sum of naturals is at least each of its terms.
LEMMA SumBoundsTerm ==
    ASSUME NEW f, NEW S, IsFiniteSet(S), \A x \in S : f[x] \in Nat, NEW x \in S
    PROVE  f[x] <= SumFunctionOnSet(f, S)
<1>1. PICK T : T = S \ {x} /\ IsFiniteSet(T)
  BY FS_RemoveElement
<1>2. SumFunctionOnSet(f, T) \in Nat
  BY <1>1, SumType
<1>3. SumFunctionOnSet(f, S) = f[x] + SumFunctionOnSet(f, T)
  BY <1>1, SumRemove
<1> QED BY <1>2, <1>3

\* A sum over one element more, of a function that may be another one outside
\* the smaller set.
LEMMA SumMore ==
    ASSUME NEW f, NEW g, NEW S, IsFiniteSet(S), NEW T, NEW x, x \notin S, T = S \cup {x},
           \A y \in S : f[y] \in Int /\ g[y] = f[y], g[x] \in Int
    PROVE  SumFunctionOnSet(g, T) = SumFunctionOnSet(f, S) + g[x]
<1>1. SumFunctionOnSet(g, S) = SumFunctionOnSet(f, S)
  BY SumSame
<1>2. \A y \in S \cup {x} : g[y] \in Int
  OBVIOUS
<1>3. SumFunctionOnSet(g, S \cup {x}) = SumFunctionOnSet(g, S) + g[x]
  BY <1>2, SumAdd
<1>4. SumFunctionOnSet(g, T) = SumFunctionOnSet(g, S \cup {x})
  BY Zenon
<1> QED BY <1>1, <1>3, <1>4, Zenon
=============================================================================
