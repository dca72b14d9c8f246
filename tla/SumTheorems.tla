----------------------------- MODULE SumTheorems -----------------------------
(***************************************************************************)
(* What the proofs of several components need of numbers, finite sets and  *)
(* sums: least and greatest members, induction by a least counterexample,  *)
(* and the laws of SumFunctionOnSet for functions of any finite domain.    *)
(***************************************************************************)
EXTENDS Integers, FiniteSets, Functions, FiniteSetTheorems, WellFoundedInduction, TLAPS

LEMMA HasLeast ==
    ASSUME NEW S, S \subseteq Nat, S # {}
    PROVE  \E n \in S : \A m \in S : n <= m
<1>1. PICK n \in S : \A m \in S : <<m, n>> \notin OpToRel(<, Nat)
  BY NatLessThanWellFounded, WFMin
<1>2. ASSUME NEW m \in S PROVE n <= m
  <2>1. <<m, n>> \in Nat \X Nat
    OBVIOUS
  <2>. QED
    BY <1>1, <2>1 DEF OpToRel
<1>. QED
  BY <1>2

\* A set of numbers that has 0, and the next of every one it has below n, has
\* every number up to n.
LEMMA UpTo ==
    ASSUME NEW n \in Nat, NEW S, 0 \in S, \A i \in 1..n : i - 1 \in S => i \in S
    PROVE  0..n \subseteq S
<1>. DEFINE T == {i \in 0..n : i \notin S}
<1>. SUFFICES ASSUME T # {} PROVE FALSE
  OBVIOUS
<1>1. T \subseteq Nat
  OBVIOUS
<1>2. PICK i \in T : \A j \in T : i <= j
  BY <1>1, HasLeast
<1>3. i # 0 /\ i \in 1..n
  OBVIOUS
<1>4. i - 1 \notin T /\ i - 1 \in 0..n
  BY <1>2, <1>3
<1>. QED
  BY <1>3, <1>4

-----------------------------------------------------------------------------
(* A sum over a finite set, one member at a time.                          *)

\* The library takes the members in the order of a choice it makes; SumsOf says
\* that g gives the sums of F on the sets of D so taken.
AnyOf(s) == CHOOSE x \in s : TRUE
UpToSize(S, n) == {s \in SUBSET S : Cardinality(s) <= n}
SumsOf(g, F, D) ==
    /\ DOMAIN g = D
    /\ g = [s \in D |-> IF s = {} THEN 0 ELSE F[AnyOf(s)] + g[s \ {AnyOf(s)}]]

LEMMA WithoutAny ==
    ASSUME NEW S, IsFiniteSet(S), NEW s \in SUBSET S, s # {}
    PROVE  AnyOf(s) \in s /\ IsFiniteSet(s) /\ s \ {AnyOf(s)} \in SUBSET S
           /\ Cardinality(s) \in Nat /\ Cardinality(s) # 0
           /\ Cardinality(s \ {AnyOf(s)}) = Cardinality(s) - 1
<1>1. AnyOf(s) \in s
  BY DEF AnyOf
<1>2. IsFiniteSet(s) /\ Cardinality(s) \in Nat
  BY FS_Subset, FS_CardinalityType
<1>. QED
  BY <1>1, <1>2, FS_RemoveElement, FS_EmptySet

LEMMA SumsGrow ==
    ASSUME NEW S, IsFiniteSet(S), NEW F, NEW n \in Nat, NEW g, SumsOf(g, F, UpToSize(S, n))
    PROVE  \E h : SumsOf(h, F, UpToSize(S, n + 1))
<1>. DEFINE D == UpToSize(S, n)
            E == UpToSize(S, n + 1)
            h == [s \in E |-> IF s = {} THEN 0 ELSE F[AnyOf(s)] + g[s \ {AnyOf(s)}]]
<1>1. ASSUME NEW s \in D PROVE s \in E /\ h[s] = g[s]
  <2>1. s \in SUBSET S /\ Cardinality(s) \in Nat /\ Cardinality(s) <= n
    BY FS_Subset, FS_CardinalityType DEF UpToSize
  <2>2. s \in E
    BY <2>1 DEF UpToSize
  <2>. QED
    BY <2>2 DEF SumsOf
<1>2. ASSUME NEW s \in E, s # {} PROVE s \ {AnyOf(s)} \in D
  <2>1. s \in SUBSET S /\ Cardinality(s) <= n + 1
    BY DEF UpToSize
  <2>. QED
    BY <1>2, <2>1, WithoutAny DEF UpToSize
<1>3. ASSUME NEW s \in E
      PROVE  h[s] = IF s = {} THEN 0 ELSE F[AnyOf(s)] + h[s \ {AnyOf(s)}]
  BY <1>1, <1>2
<1>. DEFINE G(s) == IF s = {} THEN 0 ELSE F[AnyOf(s)] + h[s \ {AnyOf(s)}]
<1>4. DOMAIN h = E /\ h = [s \in E |-> h[s]]
  OBVIOUS
<1>. HIDE DEF h
<1>5. h = [s \in E |-> G(s)]
  BY <1>3, <1>4
<1>. QED
  BY <1>4, <1>5 DEF SumsOf

\* There is such a function on all subsets of a finite set.
LEMMA SumsExist ==
    ASSUME NEW S, IsFiniteSet(S), NEW F
    PROVE  \E g : SumsOf(g, F, SUBSET S)
<1>. DEFINE n == Cardinality(S)
            Done(m) == \E g : SumsOf(g, F, UpToSize(S, m))
            done == {m \in 0..n : Done(m)}
<1>1. n \in Nat
  BY FS_CardinalityType
<1>2. Done(0)
  <2>1. UpToSize(S, 0) = {{}}
    <3>1. Cardinality({}) = 0
      BY FS_EmptySet
    <3>2. ASSUME NEW s \in UpToSize(S, 0), s # {} PROVE FALSE
      <4>1. s \in SUBSET S /\ Cardinality(s) <= 0
        BY DEF UpToSize
      <4>2. Cardinality(s) \in Nat /\ Cardinality(s) # 0
        BY <3>2, <4>1, WithoutAny
      <4>. QED
        BY <4>1, <4>2
    <3>3. {} \in UpToSize(S, 0)
      BY <3>1 DEF UpToSize
    <3>. QED
      BY <3>2, <3>3
  <2>. DEFINE g == [s \in {{}} |-> 0]
  <2>2. DOMAIN g = {{}} /\ g = [s \in {{}} |-> IF s = {} THEN 0 ELSE F[AnyOf(s)] + g[s \ {AnyOf(s)}]]
    OBVIOUS
  <2>. HIDE DEF g
  <2>. QED
    BY <2>1, <2>2 DEF SumsOf
<1>3. ASSUME NEW m \in 1..n, m - 1 \in done PROVE m \in done
  <2>1. m - 1 \in Nat /\ m = (m - 1) + 1 /\ m \in 0..n /\ Done(m - 1)
    BY <1>1, <1>3
  <2>. QED
    BY <2>1, SumsGrow
<1>4. 0 \in done
  BY <1>1, <1>2
<1>. HIDE DEF done
<1>5. n \in done
  BY <1>1, <1>3, <1>4, UpTo
<1>6. PICK g : SumsOf(g, F, UpToSize(S, n))
  BY <1>5 DEF done
<1>7. UpToSize(S, n) = SUBSET S
  <2>1. ASSUME NEW s \in SUBSET S PROVE Cardinality(s) <= n
    BY FS_Subset
  <2>. QED
    BY <2>1 DEF UpToSize
<1>. QED
  BY <1>6, <1>7

\* The sum of a function on a set is what such a g makes of it.
LEMMA SumIs ==
    ASSUME NEW S, IsFiniteSet(S), NEW F
    PROVE  \E g : SumsOf(g, F, SUBSET S) /\ SumFunctionOnSet(F, S) = g[S]
<1>1. PICK g : SumsOf(g, F, SUBSET S)
  BY SumsExist
<1>. DEFINE Eq(h) == h = [s \in SUBSET S |-> IF s = {} THEN 0
                             ELSE F[CHOOSE x \in s : TRUE] + h[s \ {CHOOSE x \in s : TRUE}]]
<1>2. Eq(g)
  BY <1>1 DEF SumsOf, AnyOf
<1>3. PICK h : Eq(h) /\ SumFunctionOnSet(F, S) = h[S]
  BY <1>2, Zenon DEF SumFunctionOnSet, FoldFunctionOnSet, MapThenFoldSet
<1>4. DOMAIN h = SUBSET S
  BY <1>3
<1>. QED
  BY <1>3, <1>4 DEF SumsOf, AnyOf

LEMMA SumEmpty == ASSUME NEW F PROVE SumFunctionOnSet(F, {}) = 0
<1>1. IsFiniteSet({})
  BY FS_EmptySet
<1>2. PICK g : SumsOf(g, F, SUBSET {}) /\ SumFunctionOnSet(F, {}) = g[{}]
  BY <1>1, SumIs
<1>3. {} \in SUBSET {}
  OBVIOUS
<1>. QED
  BY <1>2, <1>3 DEF SumsOf

\* Two such functions agree where both are defined.
LEMMA SumsAgree ==
    ASSUME NEW S, NEW T, NEW F, NEW G, NEW g, NEW h, IsFiniteSet(S), T \in SUBSET S,
           \A i \in T : F[i] = G[i], SumsOf(g, F, SUBSET S), SumsOf(h, G, SUBSET T)
    PROVE  g[T] = h[T]
<1>. DEFINE n == Cardinality(T)
            same == {m \in 0..n : \A s \in SUBSET T : Cardinality(s) <= m => g[s] = h[s]}
<1>1. IsFiniteSet(T) /\ n \in Nat
  BY FS_Subset, FS_CardinalityType
<1>2. \A s \in SUBSET S : g[s] = IF s = {} THEN 0 ELSE F[AnyOf(s)] + g[s \ {AnyOf(s)}]
  BY DEF SumsOf
<1>3. \A s \in SUBSET T : h[s] = IF s = {} THEN 0 ELSE G[AnyOf(s)] + h[s \ {AnyOf(s)}]
  BY DEF SumsOf
<1>4. 0 \in same
  <2>1. ASSUME NEW s \in SUBSET T, Cardinality(s) <= 0 PROVE g[s] = h[s]
    <3>1. s = {}
      <4>1. s # {} => Cardinality(s) \in Nat /\ Cardinality(s) # 0
        BY <1>1, WithoutAny
      <4>. QED
        BY <2>1, <4>1
    <3>2. {} \in SUBSET S /\ {} \in SUBSET T
      OBVIOUS
    <3>. QED
      BY <1>2, <1>3, <3>1, <3>2
  <2>. QED
    BY <1>1, <2>1
<1>5. ASSUME NEW m \in 1..n, m - 1 \in same PROVE m \in same
  <2>1. ASSUME NEW s \in SUBSET T, Cardinality(s) <= m PROVE g[s] = h[s]
    <3>1. CASE s = {}
      BY <1>2, <1>3, <3>1
    <3>2. CASE s # {}
      <4>1. /\ AnyOf(s) \in s /\ s \ {AnyOf(s)} \in SUBSET T /\ Cardinality(s) \in Nat
            /\ Cardinality(s \ {AnyOf(s)}) = Cardinality(s) - 1
        BY <1>1, <3>2, WithoutAny
      <4>2. Cardinality(s \ {AnyOf(s)}) <= m - 1
        BY <1>1, <2>1, <4>1
      <4>3. g[s \ {AnyOf(s)}] = h[s \ {AnyOf(s)}]
        BY <1>5, <4>1, <4>2
      <4>4. F[AnyOf(s)] = G[AnyOf(s)]
        BY <4>1
      <4>5. s \in SUBSET S
        OBVIOUS
      <4>. QED
        BY <1>2, <1>3, <3>2, <4>3, <4>4, <4>5
    <3>. QED
      BY <3>1, <3>2
  <2>. QED
    BY <1>1, <2>1
<1>. HIDE DEF same
<1>6. n \in same
  BY <1>1, <1>4, <1>5, UpTo
<1>. QED
  BY <1>1, <1>6 DEF same

\* Only the values on the set count.
LEMMA SumSame ==
    ASSUME NEW S, IsFiniteSet(S), NEW F, NEW G, \A i \in S : F[i] = G[i]
    PROVE  SumFunctionOnSet(F, S) = SumFunctionOnSet(G, S)
<1>1. PICK g : SumsOf(g, F, SUBSET S) /\ SumFunctionOnSet(F, S) = g[S]
  BY SumIs
<1>2. PICK h : SumsOf(h, G, SUBSET S) /\ SumFunctionOnSet(G, S) = h[S]
  BY SumIs
<1>3. S \in SUBSET S
  OBVIOUS
<1>4. g[S] = h[S]
  BY <1>1, <1>2, <1>3, SumsAgree
<1>. QED
  BY <1>1, <1>2, <1>4

\* One member that the library chooses is taken away.
LEMMA SumFirst ==
    ASSUME NEW S, IsFiniteSet(S), S # {}, NEW F
    PROVE  SumFunctionOnSet(F, S) = F[AnyOf(S)] + SumFunctionOnSet(F, S \ {AnyOf(S)})
<1>1. PICK g : SumsOf(g, F, SUBSET S) /\ SumFunctionOnSet(F, S) = g[S]
  BY SumIs
<1>2. PICK T : T = S \ {AnyOf(S)}
  OBVIOUS
<1>3. T \in SUBSET S /\ IsFiniteSet(T)
  BY <1>2, FS_Subset
<1>4. PICK h : SumsOf(h, F, SUBSET T) /\ SumFunctionOnSet(F, T) = h[T]
  BY <1>3, SumIs
<1>5. g[T] = h[T]
  BY <1>1, <1>3, <1>4, SumsAgree, Z3
<1>6. g[S] = F[AnyOf(S)] + g[T]
  BY <1>1, <1>2 DEF SumsOf
<1>. QED
  BY <1>1, <1>2, <1>4, <1>5, <1>6

\* Of a family that has each subset of S of which it has whichever is that subset
\* without one member, S is one.
LEMMA FiniteSetsGrow ==
    ASSUME NEW S, NEW A, IsFiniteSet(S),
           \A s \in SUBSET S : (\A x \in s : s \ {x} \in A) => s \in A
    PROVE  S \in A
<1>. DEFINE n == Cardinality(S)
            good == {m \in 0..n : \A s \in SUBSET S : Cardinality(s) <= m => s \in A}
<1>1. n \in Nat
  BY FS_CardinalityType
<1>2. 0 \in good
  <2>1. ASSUME NEW s \in SUBSET S, Cardinality(s) <= 0 PROVE s \in A
    <3>1. s # {} => Cardinality(s) \in Nat /\ Cardinality(s) # 0
      BY WithoutAny
    <3>2. s = {}
      BY <2>1, <3>1
    <3>. QED
      BY <3>2
  <2>. QED
    BY <1>1, <2>1
<1>3. ASSUME NEW m \in 1..n, m - 1 \in good PROVE m \in good
  <2>1. ASSUME NEW s \in SUBSET S, Cardinality(s) <= m PROVE s \in A
    <3>1. ASSUME NEW x \in s PROVE s \ {x} \in A
      <4>1. /\ s \ {x} \in SUBSET S /\ Cardinality(s) \in Nat
            /\ Cardinality(s \ {x}) = Cardinality(s) - 1
        BY FS_Subset, FS_CardinalityType, FS_RemoveElement
      <4>2. Cardinality(s \ {x}) <= m - 1
        BY <2>1, <4>1
      <4>. QED
        BY <1>3, <4>1, <4>2
    <3>. QED
      BY <3>1
  <2>. QED
    BY <1>1, <2>1
<1>. HIDE DEF good
<1>4. n \in good
  BY <1>1, <1>2, <1>3, UpTo
<1>. QED
  BY <1>1, <1>4 DEF good

\* Whole numbers sum to one, and natural ones to one.
LEMMA SumIsInt ==
    ASSUME NEW S, IsFiniteSet(S), NEW F, \A i \in S : F[i] \in Int
    PROVE  SumFunctionOnSet(F, S) \in Int
<1>. DEFINE A == {s \in SUBSET S : SumFunctionOnSet(F, s) \in Int}
<1>1. ASSUME NEW s \in SUBSET S, \A x \in s : s \ {x} \in A PROVE s \in A
  <2>1. CASE s = {}
    BY <2>1, SumEmpty
  <2>2. CASE s # {}
    <3>1. AnyOf(s) \in s /\ IsFiniteSet(s)
      BY <2>2, WithoutAny
    <3>2. SumFunctionOnSet(F, s) = F[AnyOf(s)] + SumFunctionOnSet(F, s \ {AnyOf(s)})
      BY <2>2, <3>1, SumFirst
    <3>3. s \ {AnyOf(s)} \in A /\ F[AnyOf(s)] \in Int
      BY <1>1, <3>1
    <3>. QED
      BY <3>2, <3>3
  <2>. QED
    BY <2>1, <2>2
<1>. HIDE DEF A
<1>2. S \in A
  BY <1>1, FiniteSetsGrow
<1>. QED
  BY <1>2 DEF A

\* The order does not matter: any member may be taken away.
LEMMA SumOfOneMore ==
    ASSUME NEW S, IsFiniteSet(S), NEW F, \A i \in S : F[i] \in Int, NEW x \in S
    PROVE  SumFunctionOnSet(F, S) = F[x] + SumFunctionOnSet(F, S \ {x})
<1>. DEFINE A == {s \in SUBSET S : \A y \in s :
                    SumFunctionOnSet(F, s) = F[y] + SumFunctionOnSet(F, s \ {y})}
<1>1. ASSUME NEW s \in SUBSET S, \A y \in s : s \ {y} \in A PROVE s \in A
  <2>. SUFFICES ASSUME NEW y \in s
                PROVE  SumFunctionOnSet(F, s) = F[y] + SumFunctionOnSet(F, s \ {y})
    OBVIOUS
  <2>1. AnyOf(s) \in s /\ IsFiniteSet(s)
    BY WithoutAny
  <2>2. SumFunctionOnSet(F, s) = F[AnyOf(s)] + SumFunctionOnSet(F, s \ {AnyOf(s)})
    BY <2>1, SumFirst
  <2>3. CASE y = AnyOf(s)
    BY <2>2, <2>3
  <2>4. CASE y # AnyOf(s)
    <3>. DEFINE z == AnyOf(s)
                rest == (s \ {y}) \ {z}
    <3>1. s \ {z} \in A /\ y \in s \ {z} /\ (s \ {z}) \ {y} = rest
      BY <1>1, <2>1, <2>4
    <3>2. SumFunctionOnSet(F, s \ {z}) = F[y] + SumFunctionOnSet(F, rest)
      BY <3>1
    <3>3. s \ {y} \in A /\ z \in s \ {y}
      BY <1>1, <2>1, <2>4
    <3>4. SumFunctionOnSet(F, s \ {y}) = F[z] + SumFunctionOnSet(F, rest)
      BY <3>3
    <3>5. F[y] \in Int /\ F[z] \in Int /\ SumFunctionOnSet(F, rest) \in Int
      <4>1. rest \subseteq S /\ IsFiniteSet(rest)
        BY FS_Subset
      <4>. QED
        BY <2>1, <4>1, SumIsInt
    <3>. QED
      BY <2>2, <3>2, <3>4, <3>5
  <2>. QED
    BY <2>3, <2>4
<1>. HIDE DEF A
<1>2. S \in A
  BY <1>1, FiniteSetsGrow
<1>. QED
  BY <1>2 DEF A

\* Sums add, and compare, member by member.
LEMMA SumPointwise ==
    ASSUME NEW S, IsFiniteSet(S), NEW F, NEW G, NEW H,
           \A i \in S : F[i] \in Int /\ G[i] \in Int /\ H[i] = F[i] + G[i]
    PROVE  SumFunctionOnSet(H, S) = SumFunctionOnSet(F, S) + SumFunctionOnSet(G, S)
<1>. DEFINE A == {s \in SUBSET S : SumFunctionOnSet(H, s)
                                     = SumFunctionOnSet(F, s) + SumFunctionOnSet(G, s)}
<1>1. ASSUME NEW s \in SUBSET S, \A y \in s : s \ {y} \in A PROVE s \in A
  <2>1. CASE s = {}
    BY <2>1, SumEmpty
  <2>2. CASE s # {}
    <3>1. PICK x : x \in s
      BY <2>2
    <3>2. IsFiniteSet(s) /\ IsFiniteSet(s \ {x})
      BY FS_Subset
    <3>3. \A i \in s : F[i] \in Int /\ G[i] \in Int /\ H[i] \in Int
      OBVIOUS
    <3>4. /\ SumFunctionOnSet(F, s) = F[x] + SumFunctionOnSet(F, s \ {x})
          /\ SumFunctionOnSet(G, s) = G[x] + SumFunctionOnSet(G, s \ {x})
          /\ SumFunctionOnSet(H, s) = H[x] + SumFunctionOnSet(H, s \ {x})
      BY <3>1, <3>2, <3>3, SumOfOneMore
    <3>5. SumFunctionOnSet(F, s \ {x}) \in Int /\ SumFunctionOnSet(G, s \ {x}) \in Int
      BY <3>2, SumIsInt
    <3>6. SumFunctionOnSet(H, s \ {x})
            = SumFunctionOnSet(F, s \ {x}) + SumFunctionOnSet(G, s \ {x})
      BY <1>1, <3>1
    <3>7. H[x] = F[x] + G[x] /\ F[x] \in Int /\ G[x] \in Int
      BY <3>1
    <3>. QED
      BY <3>4, <3>5, <3>6, <3>7
  <2>. QED
    BY <2>1, <2>2
<1>. HIDE DEF A
<1>2. S \in A
  BY <1>1, FiniteSetsGrow
<1>. QED
  BY <1>2 DEF A

LEMMA SumIsMonotone ==
    ASSUME NEW S, IsFiniteSet(S), NEW F, NEW G,
           \A i \in S : F[i] \in Int /\ G[i] \in Int /\ F[i] <= G[i]
    PROVE  SumFunctionOnSet(F, S) <= SumFunctionOnSet(G, S)
<1>. DEFINE A == {s \in SUBSET S : SumFunctionOnSet(F, s) <= SumFunctionOnSet(G, s)}
<1>1. ASSUME NEW s \in SUBSET S, \A y \in s : s \ {y} \in A PROVE s \in A
  <2>1. CASE s = {}
    BY <2>1, SumEmpty
  <2>2. CASE s # {}
    <3>1. PICK x : x \in s
      BY <2>2
    <3>2. IsFiniteSet(s) /\ IsFiniteSet(s \ {x})
      BY FS_Subset
    <3>3. \A i \in s : F[i] \in Int /\ G[i] \in Int
      OBVIOUS
    <3>4. /\ SumFunctionOnSet(F, s) = F[x] + SumFunctionOnSet(F, s \ {x})
          /\ SumFunctionOnSet(G, s) = G[x] + SumFunctionOnSet(G, s \ {x})
      BY <3>1, <3>2, <3>3, SumOfOneMore
    <3>5. SumFunctionOnSet(F, s \ {x}) \in Int /\ SumFunctionOnSet(G, s \ {x}) \in Int
      BY <3>2, SumIsInt
    <3>6. SumFunctionOnSet(F, s \ {x}) <= SumFunctionOnSet(G, s \ {x})
      BY <1>1, <3>1
    <3>7. F[x] <= G[x] /\ F[x] \in Int /\ G[x] \in Int
      BY <3>1
    <3>. QED
      BY <3>4, <3>5, <3>6, <3>7
  <2>. QED
    BY <2>1, <2>2
<1>. HIDE DEF A
<1>2. S \in A
  BY <1>1, FiniteSetsGrow
<1>. QED
  BY <1>2 DEF A

LEMMA SumOfNothing ==
    ASSUME NEW S, IsFiniteSet(S), NEW F, \A i \in S : F[i] = 0
    PROVE  SumFunctionOnSet(F, S) = 0
<1>. DEFINE A == {s \in SUBSET S : SumFunctionOnSet(F, s) = 0}
<1>1. ASSUME NEW s \in SUBSET S, \A y \in s : s \ {y} \in A PROVE s \in A
  <2>1. CASE s = {}
    BY <2>1, SumEmpty
  <2>2. CASE s # {}
    <3>1. AnyOf(s) \in s /\ IsFiniteSet(s)
      BY <2>2, WithoutAny
    <3>2. SumFunctionOnSet(F, s) = F[AnyOf(s)] + SumFunctionOnSet(F, s \ {AnyOf(s)})
      BY <2>2, <3>1, SumFirst
    <3>3. s \ {AnyOf(s)} \in A /\ F[AnyOf(s)] = 0
      BY <1>1, <3>1
    <3>. QED
      BY <3>2, <3>3
  <2>. QED
    BY <2>1, <2>2
<1>. HIDE DEF A
<1>2. S \in A
  BY <1>1, FiniteSetsGrow
<1>. QED
  BY <1>2 DEF A

LEMMA SumIsNat ==
    ASSUME NEW S, IsFiniteSet(S), NEW F, \A i \in S : F[i] \in Nat
    PROVE  SumFunctionOnSet(F, S) \in Nat
<1>. DEFINE zero == [i \in S |-> 0]
<1>1. SumFunctionOnSet(zero, S) = 0
  BY SumOfNothing
<1>2. SumFunctionOnSet(F, S) \in Int
  BY SumIsInt
<1>3. \A i \in S : zero[i] \in Int /\ F[i] \in Int /\ zero[i] <= F[i]
  OBVIOUS
<1>. HIDE DEF zero
<1>4. SumFunctionOnSet(zero, S) <= SumFunctionOnSet(F, S)
  BY <1>3, SumIsMonotone
<1>. QED
  BY <1>1, <1>2, <1>4

\* A set may be cut in two.
LEMMA SumOfParts ==
    ASSUME NEW S, IsFiniteSet(S), NEW F, \A i \in S : F[i] \in Int, NEW T, T \subseteq S
    PROVE  SumFunctionOnSet(F, S) = SumFunctionOnSet(F, T) + SumFunctionOnSet(F, S \ T)
<1>. DEFINE A == {s \in SUBSET S : SumFunctionOnSet(F, s)
                            = SumFunctionOnSet(F, s \cap T) + SumFunctionOnSet(F, s \ T)}
<1>1. ASSUME NEW s \in SUBSET S, \A y \in s : s \ {y} \in A PROVE s \in A
  <2>1. CASE s = {}
    <3>1. s \cap T = {} /\ s \ T = {}
      BY <2>1
    <3>. QED
      BY <2>1, <3>1, SumEmpty
  <2>2. CASE s # {}
    <3>1. PICK x : x \in s
      BY <2>2
    <3>. DEFINE r == s \ {x}
    <3>2. IsFiniteSet(s) /\ IsFiniteSet(r) /\ IsFiniteSet(s \cap T) /\ IsFiniteSet(s \ T)
      BY FS_Subset
    <3>3. SumFunctionOnSet(F, s) = F[x] + SumFunctionOnSet(F, r)
      BY <3>1, <3>2, SumOfOneMore
    <3>4. SumFunctionOnSet(F, r) = SumFunctionOnSet(F, r \cap T) + SumFunctionOnSet(F, r \ T)
      BY <1>1, <3>1
    <3>5. /\ F[x] \in Int
          /\ SumFunctionOnSet(F, r \cap T) \in Int /\ SumFunctionOnSet(F, r \ T) \in Int
      <4>1. IsFiniteSet(r \cap T) /\ IsFiniteSet(r \ T)
        BY <3>2, FS_Subset
      <4>2. (\A i \in r \cap T : F[i] \in Int) /\ (\A i \in r \ T : F[i] \in Int)
        OBVIOUS
      <4>. QED
        BY <3>1, <4>1, <4>2, SumIsInt
    <3>6. CASE x \in T
      <4>1. (s \cap T) \ {x} = r \cap T /\ s \ T = r \ T /\ x \in s \cap T
        BY <3>1, <3>6
      <4>2. SumFunctionOnSet(F, s \cap T) = F[x] + SumFunctionOnSet(F, r \cap T)
        <5>1. \A i \in s \cap T : F[i] \in Int
          OBVIOUS
        <5>. QED
          BY <3>2, <4>1, <5>1, SumOfOneMore
      <4>3. SumFunctionOnSet(F, s \ T) = SumFunctionOnSet(F, r \ T)
        BY <4>1
      <4>. QED
        BY <3>3, <3>4, <3>5, <4>2, <4>3
    <3>7. CASE x \notin T
      <4>1. (s \ T) \ {x} = r \ T /\ s \cap T = r \cap T /\ x \in s \ T
        BY <3>1, <3>7
      <4>2. SumFunctionOnSet(F, s \ T) = F[x] + SumFunctionOnSet(F, r \ T)
        <5>1. \A i \in s \ T : F[i] \in Int
          OBVIOUS
        <5>. QED
          BY <3>2, <4>1, <5>1, SumOfOneMore
      <4>3. SumFunctionOnSet(F, s \cap T) = SumFunctionOnSet(F, r \cap T)
        BY <4>1
      <4>. QED
        BY <3>3, <3>4, <3>5, <4>2, <4>3
    <3>. QED
      BY <3>6, <3>7
  <2>. QED
    BY <2>1, <2>2
<1>. HIDE DEF A
<1>2. S \in A
  BY <1>1, FiniteSetsGrow
<1>3. S \cap T = T
  OBVIOUS
<1>. QED
  BY <1>2, <1>3 DEF A

\* The sum over a set with one element added.
LEMMA SumWith ==
    ASSUME NEW S, NEW x, NEW F, IsFiniteSet(S), x \notin S, \A i \in S \cup {x} : F[i] \in Int
    PROVE  /\ IsFiniteSet(S \cup {x})
           /\ SumFunctionOnSet(F, S \cup {x}) = F[x] + SumFunctionOnSet(F, S)
<1>1. IsFiniteSet(S \cup {x})
  BY FS_AddElement
<1>2. (S \cup {x}) \ {x} = S
  OBVIOUS
<1>3. SumFunctionOnSet(F, S \cup {x}) = F[x] + SumFunctionOnSet(F, (S \cup {x}) \ {x})
  BY <1>1, SumOfOneMore
<1>. QED
  BY <1>1, <1>2, <1>3

\* An image of a finite set is finite.
LEMMA FiniteImage ==
    ASSUME NEW S, IsFiniteSet(S), NEW t
    PROVE  IsFiniteSet({t[i] : i \in S})
<1>. DEFINE T == {t[i] : i \in S}
            f == [i \in S |-> t[i]]
<1>1. f \in Surjection(S, T)
  BY DEF Surjection
<1>. QED
  BY <1>1, FS_Surjection
\* Sums of what is in proportion are in that proportion.
LEMMA SumInProportion ==
    ASSUME NEW S, IsFiniteSet(S), NEW F, NEW G, NEW a \in Int, NEW b \in Int,
           \A i \in S : F[i] \in Int /\ G[i] \in Int /\ F[i] * b = a * G[i]
    PROVE  SumFunctionOnSet(F, S) * b = a * SumFunctionOnSet(G, S)
<1>. DEFINE A == {s \in SUBSET S : SumFunctionOnSet(F, s) * b = a * SumFunctionOnSet(G, s)}
<1>1. ASSUME NEW s \in SUBSET S, \A y \in s : s \ {y} \in A PROVE s \in A
  <2>1. CASE s = {}
    <3>1. SumFunctionOnSet(F, s) = 0 /\ SumFunctionOnSet(G, s) = 0
      BY <2>1, SumEmpty
    <3>. QED
      BY <3>1
  <2>2. CASE s # {}
    <3>1. PICK x : x \in s
      BY <2>2
    <3>2. IsFiniteSet(s) /\ IsFiniteSet(s \ {x})
      BY FS_Subset
    <3>3. \A i \in s : F[i] \in Int /\ G[i] \in Int
      OBVIOUS
    <3>4. /\ SumFunctionOnSet(F, s) = F[x] + SumFunctionOnSet(F, s \ {x})
          /\ SumFunctionOnSet(G, s) = G[x] + SumFunctionOnSet(G, s \ {x})
      BY <3>1, <3>2, <3>3, SumOfOneMore
    <3>5. SumFunctionOnSet(F, s \ {x}) \in Int /\ SumFunctionOnSet(G, s \ {x}) \in Int
      BY <3>2, SumIsInt
    <3>6. SumFunctionOnSet(F, s \ {x}) * b = a * SumFunctionOnSet(G, s \ {x})
      BY <1>1, <3>1
    <3>7. F[x] * b = a * G[x] /\ F[x] \in Int /\ G[x] \in Int
      BY <3>1
    <3>. DEFINE f == SumFunctionOnSet(F, s \ {x})
                g == SumFunctionOnSet(G, s \ {x})
    <3>8. f \in Int /\ g \in Int /\ f * b = a * g
      BY <3>5, <3>6
    <3>. HIDE DEF f, g
    <3>9. (F[x] + f) * b = F[x] * b + f * b /\ a * (G[x] + g) = a * G[x] + a * g
      BY <3>7, <3>8
    <3>10. SumFunctionOnSet(F, s) = F[x] + f /\ SumFunctionOnSet(G, s) = G[x] + g
      BY <3>4 DEF f, g
    <3>11. SumFunctionOnSet(F, s) * b = a * SumFunctionOnSet(G, s)
      BY <3>7, <3>8, <3>9, <3>10
    <3>. QED
      BY <3>11
  <2>. QED
    BY <2>1, <2>2
<1>. HIDE DEF A
<1>2. S \in A
  BY <1>1, FiniteSetsGrow
<1>. QED
  BY <1>2 DEF A

\* Where the terms are no less than 0, more of them are no less.
LEMMA SumOfSome ==
    ASSUME NEW S, IsFiniteSet(S), NEW F, \A i \in S : F[i] \in Int /\ F[i] >= 0,
           NEW T, T \subseteq S
    PROVE  SumFunctionOnSet(F, T) <= SumFunctionOnSet(F, S)
<1>1. SumFunctionOnSet(F, S) = SumFunctionOnSet(F, T) + SumFunctionOnSet(F, S \ T)
  BY SumOfParts
<1>2. IsFiniteSet(T) /\ IsFiniteSet(S \ T)
  BY FS_Subset
<1>3. \A i \in S : F[i] \in Nat
  OBVIOUS
<1>4. SumFunctionOnSet(F, T) \in Nat
  BY <1>2, <1>3, SumIsNat
<1>5. \A i \in S \ T : F[i] \in Nat
  BY <1>3
<1>. DEFINE R == S \ T
<1>6. IsFiniteSet(R) /\ \A i \in R : F[i] \in Nat
  BY <1>2, <1>5
<1>. HIDE DEF R
<1>7. SumFunctionOnSet(F, R) \in Nat
  BY <1>6, SumIsNat
<1>. QED
  BY <1>1, <1>4, <1>7 DEF R

LEMMA OneOfTheSum ==
    ASSUME NEW S, IsFiniteSet(S), NEW F, \A i \in S : F[i] \in Int /\ F[i] >= 0, NEW x \in S
    PROVE  F[x] <= SumFunctionOnSet(F, S)
<1>1. SumFunctionOnSet(F, S) = F[x] + SumFunctionOnSet(F, S \ {x})
  BY SumOfOneMore
<1>. DEFINE R == S \ {x}
<1>2. IsFiniteSet(R) /\ \A i \in R : F[i] \in Nat
  BY FS_Subset
<1>. HIDE DEF R
<1>3. SumFunctionOnSet(F, R) \in Nat
  BY <1>2, SumIsNat
<1>. QED
  BY <1>1, <1>3 DEF R

\* Of two sums the greater has a greater term.
LEMMA GreaterSum ==
    ASSUME NEW S, IsFiniteSet(S), NEW F, NEW G,
           \A i \in S : F[i] \in Int /\ G[i] \in Int,
           SumFunctionOnSet(F, S) < SumFunctionOnSet(G, S)
    PROVE  \E i \in S : F[i] < G[i]
<1>. SUFFICES ASSUME \A i \in S : ~(F[i] < G[i]) PROVE FALSE
  OBVIOUS
<1>1. \A i \in S : G[i] \in Int /\ F[i] \in Int /\ G[i] <= F[i]
  OBVIOUS
<1>2. SumFunctionOnSet(G, S) <= SumFunctionOnSet(F, S)
  BY <1>1, SumIsMonotone
<1>3. SumFunctionOnSet(G, S) \in Int /\ SumFunctionOnSet(F, S) \in Int
  BY SumIsInt
<1>. QED
  BY <1>2, <1>3

\* The members of S may be summed kind by kind.
IsByKind(G, K, F, S, kind) ==
    /\ \A i \in S : kind[i] \in K
    /\ \A c \in K : G[c] = SumFunctionOnSet(F, {i \in S : kind[i] = c})
LEMMA SumByKind ==
    ASSUME NEW S, IsFiniteSet(S), NEW F, \A i \in S : F[i] \in Int,
           NEW K, IsFiniteSet(K), NEW kind, NEW G, IsByKind(G, K, F, S, kind)
    PROVE  SumFunctionOnSet(F, S) = SumFunctionOnSet(G, K)
<1>. USE DEF IsByKind
<1>. DEFINE Of(k) == {i \in S : kind[i] \in k}
            A == {k \in SUBSET K : SumFunctionOnSet(F, Of(k)) = SumFunctionOnSet(G, k)}
<1>0. \A c \in K : G[c] \in Int
  <2>. SUFFICES ASSUME NEW c \in K PROVE G[c] \in Int
    OBVIOUS
  <2>. DEFINE T == {i \in S : kind[i] = c}
  <2>1. IsFiniteSet(T) /\ (\A i \in T : F[i] \in Int) /\ G[c] = SumFunctionOnSet(F, T)
    BY FS_Subset
  <2>. HIDE DEF T
  <2>. QED
    BY <2>1, SumIsInt
<1>1. ASSUME NEW k \in SUBSET K, \A c \in k : k \ {c} \in A PROVE k \in A
  <2>1. CASE k = {}
    <3>1. Of(k) = {}
      BY <2>1
    <3>. QED
      BY <2>1, <3>1, SumEmpty
  <2>2. CASE k # {}
    <3>1. PICK c : c \in k
      BY <2>2
    <3>. DEFINE T == {i \in S : kind[i] = c}
                all == Of(k)
    <3>2. T \subseteq all /\ all \ T = Of(k \ {c}) /\ IsFiniteSet(all)
          /\ \A i \in all : F[i] \in Int
      BY <3>1, FS_Subset
    <3>3. G[c] = SumFunctionOnSet(F, T)
      BY <3>1
    <3>4. SumFunctionOnSet(F, Of(k \ {c})) = SumFunctionOnSet(G, k \ {c})
      BY <1>1, <3>1
    <3>. HIDE DEF T, all
    <3>5. SumFunctionOnSet(F, all) = SumFunctionOnSet(F, T) + SumFunctionOnSet(F, all \ T)
      BY <3>2, SumOfParts
    <3>6. IsFiniteSet(k) /\ \A d \in k : G[d] \in Int
      BY <1>0, FS_Subset
    <3>7. SumFunctionOnSet(G, k) = G[c] + SumFunctionOnSet(G, k \ {c})
      BY <3>1, <3>6, SumOfOneMore
    <3>8. SumFunctionOnSet(F, all \ T) = SumFunctionOnSet(G, k \ {c})
      BY <3>2, <3>4
    <3>9. SumFunctionOnSet(F, all) = SumFunctionOnSet(G, k)
      BY <3>3, <3>5, <3>7, <3>8
    <3>. QED
      BY <3>9 DEF all
  <2>. QED
    BY <2>1, <2>2
<1>2. \A k \in SUBSET K : (\A c \in k : k \ {c} \in A) => k \in A
  BY <1>1
<1>. HIDE DEF A
<1>3. K \in A
  BY <1>2, FiniteSetsGrow
<1>4. Of(K) = S
  OBVIOUS
<1>. QED
  BY <1>3, <1>4 DEF A

\* Of finitely many things in an order one has none before it.
LEMMA HasFirst ==
    ASSUME NEW S, IsFiniteSet(S), S # {}, NEW R,
           \A i \in S : <<i, i>> \notin R,
           \A i, j, k \in S : <<i, j>> \in R /\ <<j, k>> \in R => <<i, k>> \in R
    PROVE  \E i \in S : \A j \in S : <<j, i>> \notin R
<1>. DEFINE A == {s \in SUBSET S : s = {} \/ \E i \in s : \A j \in s : <<j, i>> \notin R}
<1>1. ASSUME NEW s \in SUBSET S, \A x \in s : s \ {x} \in A PROVE s \in A
  <2>1. CASE s = {}
    BY <2>1
  <2>2. CASE s # {}
    <3>1. PICK x : x \in s
      BY <2>2
    <3>2. s \ {x} \in A
      BY <1>1, <3>1
    <3>3. CASE s \ {x} = {}
      <4>1. \A j \in s : <<j, x>> \notin R
        BY <3>1, <3>3
      <4>. QED
        BY <3>1, <4>1
    <3>4. CASE s \ {x} # {}
      <4>1. PICK i \in s \ {x} : \A j \in s \ {x} : <<j, i>> \notin R
        BY <3>2, <3>4
      <4>2. CASE <<x, i>> \in R
        <5>1. ASSUME NEW j \in s, <<j, x>> \in R PROVE FALSE
          <6>1. <<j, i>> \in R
            BY <3>1, <4>1, <4>2, <5>1
          <6>2. j # x
            BY <3>1, <5>1
          <6>. QED
            BY <4>1, <6>1, <6>2
        <5>. QED
          BY <3>1, <5>1
      <4>3. CASE <<x, i>> \notin R
        BY <4>1, <4>3
      <4>. QED
        BY <4>2, <4>3
    <3>. QED
      BY <3>3, <3>4
  <2>. QED
    BY <2>1, <2>2
<1>2. \A s \in SUBSET S : (\A x \in s : s \ {x} \in A) => s \in A
  BY <1>1
<1>. HIDE DEF A
<1>3. S \in A
  BY <1>2, FiniteSetsGrow
<1>. QED
  BY <1>3 DEF A

=============================================================================
