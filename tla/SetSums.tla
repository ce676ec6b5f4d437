------------------------------ MODULE SetSums ------------------------------
(***************************************************************************)
(* What MapThenSumSet adds up to, for any finite set: the sum can be taken *)
(* one element at a time, in any order.  The specifications sum over       *)
(* orders and over order lines with it.                                    *)
(*                                                                         *)
(* The induction over the sets is by the least-number principle, from the  *)
(* well-foundedness of < on Nat.                                           *)
(***************************************************************************)
EXTENDS FiniteSetsExt, FiniteSetTheorems, WellFoundedInduction, TLAPS

Picked(t) == CHOOSE x \in t : TRUE

\* g maps each subset t of T to the sum of f over t, taken the way
\* MapThenSumSet takes it.
PartialSums(g, f, T) ==
  g = [t \in SUBSET T |-> IF t = {} THEN 0 ELSE f[Picked(t)] + g[t \ {Picked(t)}]]

SetSum(f, T) == (CHOOSE g : PartialSums(g, f, T))[T]

-----------------------------------------------------------------------------
Less == {pair \in Nat \X Nat : pair[1] < pair[2]}

LEMMA LessIsWellFounded == IsWellFoundedOn(Less, Nat)
BY NatLessThanWellFounded DEF OpToRel, Less

\* Induction, for a set of naturals.
LEMMA SetInduction ==
  ASSUME NEW T, 0 \in T, \A n \in Nat : n \in T => n + 1 \in T
  PROVE  Nat \subseteq T
<1>1. SUFFICES ASSUME Nat \ T # {} PROVE FALSE
  OBVIOUS
<1>2. \E n \in Nat \ T : \A m \in Nat \ T : ~ <<m, n>> \in Less
  BY <1>1, LessIsWellFounded, WFMin
<1>3. PICK n \in Nat \ T : \A m \in Nat \ T : ~ m < n
  BY <1>2 DEF Less
<1>4. n # 0 /\ n - 1 \in Nat /\ n - 1 \in T
  BY <1>3
<1>5. n - 1 + 1 = n
  BY <1>3
<1>6. QED
  BY <1>3, <1>4, <1>5

\* Induction over the subsets of a finite set: what holds of every subset
\* with no more elements than n.
LEMMA SubsetInduction ==
  ASSUME NEW T, IsFiniteSet(T), NEW Good,
         \A t \in SUBSET T :
           (\A u \in SUBSET t : u # t => u \in Good) => t \in Good
  PROVE  SUBSET T \subseteq Good
<1> DEFINE Upto == {n \in Nat : \A t \in SUBSET T : Cardinality(t) <= n => t \in Good}
<1>1. \A t \in SUBSET T : \A u \in SUBSET t :
        /\ IsFiniteSet(t) /\ IsFiniteSet(u)
        /\ Cardinality(t) \in Nat /\ Cardinality(u) \in Nat
        /\ u # t => Cardinality(u) < Cardinality(t)
  BY FS_Subset, FS_CardinalityType
<1>2. 0 \in Upto
  <2>1. SUFFICES ASSUME NEW t \in SUBSET T, Cardinality(t) <= 0
                 PROVE  t \in Good
    OBVIOUS
  <2>2. \A u \in SUBSET t : u = t
    BY <1>1, <2>1
  <2>3. QED
    BY <2>2
<1>3. ASSUME NEW n \in Nat, n \in Upto
      PROVE  n + 1 \in Upto
  <2>1. SUFFICES ASSUME NEW t \in SUBSET T, Cardinality(t) <= n + 1
                 PROVE  t \in Good
    BY <1>3
  <2>2. ASSUME NEW u \in SUBSET t, u # t
        PROVE  u \in Good
    <3>1. Cardinality(u) <= n
      BY <1>1, <2>1, <2>2
    <3>2. QED
      BY <1>3, <3>1
  <2>3. QED
    BY <2>2
<1>4. Nat \subseteq Upto
  <2> HIDE DEF Upto
  <2>1. QED
    BY <1>2, <1>3, SetInduction
<1>5. Cardinality(T) \in Nat /\ \A t \in SUBSET T : Cardinality(t) <= Cardinality(T)
  BY FS_Subset, FS_CardinalityType
<1>6. QED
  BY <1>4, <1>5

-----------------------------------------------------------------------------
\* The recursion defines something: built up by the size of the sets.
LEMMA PartialSumsExist ==
  ASSUME NEW f, NEW T, IsFiniteSet(T)
  PROVE  \E g : PartialSums(g, f, T)
<1> DEFINE
      Level(n) == {t \in SUBSET T : Cardinality(t) <= n}
      SumsTo(g, n) == g = [t \in Level(n) |-> IF t = {} THEN 0
                                              ELSE f[Picked(t)] + g[t \ {Picked(t)}]]
      Reached == {n \in Nat : \E g : SumsTo(g, n)}
<1>1. \A t \in SUBSET T :
        /\ IsFiniteSet(t) /\ Cardinality(t) \in Nat
        /\ Cardinality(t) = 0 <=> t = {}
        /\ t # {} => /\ t \ {Picked(t)} \in SUBSET T
                     /\ Cardinality(t \ {Picked(t)}) = Cardinality(t) - 1
  <2>1. SUFFICES ASSUME NEW t \in SUBSET T
                 PROVE  /\ IsFiniteSet(t) /\ Cardinality(t) \in Nat
                        /\ Cardinality(t) = 0 <=> t = {}
                        /\ t # {} => /\ t \ {Picked(t)} \in SUBSET T
                                     /\ Cardinality(t \ {Picked(t)}) = Cardinality(t) - 1
    OBVIOUS
  <2>2. IsFiniteSet(t) /\ Cardinality(t) \in Nat
    BY FS_Subset, FS_CardinalityType
  <2>3. Cardinality(t) = 0 <=> t = {}
    BY <2>2, FS_EmptySet
  <2>4. t # {} => Picked(t) \in t
    BY DEF Picked
  <2>5. QED
    BY <2>2, <2>3, <2>4, FS_RemoveElement
<1>2. 0 \in Reached
  <2> DEFINE g == [t \in Level(0) |-> 0]
  <2>1. ASSUME NEW t \in Level(0)
        PROVE  t = {}
    <3>1. t \in SUBSET T /\ Cardinality(t) <= 0
      OBVIOUS
    <3>2. Cardinality(t) \in Nat
      BY <1>1, <3>1, Zenon
    <3>3. Cardinality(t) = 0
      BY <3>1, <3>2
    <3>4. QED
      BY <1>1, <3>1, <3>3, Zenon
  <2>2. SumsTo(g, 0)
    BY <2>1
  <2>3. QED
    BY <2>2
<1>3. ASSUME NEW n \in Nat, n \in Reached
      PROVE  n + 1 \in Reached
  <2>1. PICK g : SumsTo(g, n)
    BY <1>3
  <2> DEFINE h == [t \in Level(n + 1) |-> IF t = {} THEN 0
                                          ELSE f[Picked(t)] + g[t \ {Picked(t)}]]
  <2>2. ASSUME NEW t \in Level(n + 1), t # {}
        PROVE  g[t \ {Picked(t)}] = h[t \ {Picked(t)}]
    <3> DEFINE u == t \ {Picked(t)}
    <3>1. u \in Level(n) /\ u \in Level(n + 1)
      BY <1>1, <2>2
    <3>2. g[u] = IF u = {} THEN 0 ELSE f[Picked(u)] + g[u \ {Picked(u)}]
      BY <2>1, <3>1
    <3>3. h[u] = IF u = {} THEN 0 ELSE f[Picked(u)] + g[u \ {Picked(u)}]
      BY <3>1
    <3>4. QED
      BY <3>2, <3>3
  <2>3. SumsTo(h, n + 1)
    BY <2>2
  <2>4. \E g1 : SumsTo(g1, n + 1)
    <3> HIDE DEF h, SumsTo
    <3>1. QED
      BY <2>3
  <2>5. QED
    <3> HIDE DEF SumsTo
    <3>1. QED
      BY <2>4
<1>4. Nat \subseteq Reached
  <2> HIDE DEF Reached
  <2>1. QED
    BY <1>2, <1>3, SetInduction
<1>5. Cardinality(T) \in Nat /\ Level(Cardinality(T)) = SUBSET T
  BY FS_Subset, FS_CardinalityType
<1>6. PICK g : SumsTo(g, Cardinality(T))
  BY <1>4, <1>5
<1>7. PartialSums(g, f, T)
  <2> HIDE DEF Level
  <2>1. QED
    BY <1>5, <1>6 DEF PartialSums
<1>8. QED
  BY <1>7

\* ... and only one thing.
LEMMA PartialSumsUnique ==
  ASSUME NEW f, NEW T, NEW S, NEW g, NEW h, IsFiniteSet(T), S \subseteq T,
         PartialSums(g, f, T), PartialSums(h, f, S)
  PROVE  \A t \in SUBSET S : g[t] = h[t]
<1> DEFINE Good == {t \in SUBSET S : g[t] = h[t]}
<1>1. ASSUME NEW t \in SUBSET S, \A u \in SUBSET t : u # t => u \in Good
      PROVE  t \in Good
  <2>1. CASE t = {}
    BY <2>1 DEF PartialSums
  <2>2. CASE t # {}
    <3>1. /\ t \in SUBSET T /\ t \ {Picked(t)} \in SUBSET t
          /\ t \ {Picked(t)} # t
      BY <2>2 DEF Picked
    <3>2. g[t \ {Picked(t)}] = h[t \ {Picked(t)}]
      BY <1>1, <3>1
    <3>3. QED
      BY <2>2, <3>1, <3>2 DEF PartialSums
  <2>3. QED
    BY <2>1, <2>2
<1>2. SUBSET S \subseteq Good
  <2> HIDE DEF Good
  <2>1. IsFiniteSet(S)
    BY FS_Subset
  <2>2. QED
    BY <1>1, <2>1, SubsetInduction
<1>3. QED
  BY <1>2

\* Any element can be taken first.
LEMMA PartialSumsTake ==
  ASSUME NEW T, NEW f, NEW g, IsFiniteSet(T), \A x \in T : f[x] \in Nat,
         PartialSums(g, f, T)
  PROVE  \A t \in SUBSET T : /\ g[t] \in Nat
                             /\ \A x \in t : g[t] = f[x] + g[t \ {x}]
<1> DEFINE Good == {t \in SUBSET T : /\ g[t] \in Nat
                                     /\ \A x \in t : g[t] = f[x] + g[t \ {x}]}
<1>1. ASSUME NEW t \in SUBSET T, \A u \in SUBSET t : u # t => u \in Good
      PROVE  t \in Good
  <2>1. CASE t = {}
    BY <2>1 DEF PartialSums
  <2>2. CASE t # {}
    <3> DEFINE p == Picked(t)
    <3>1. /\ p \in t /\ t \ {p} \in Good
          /\ g[t] = f[p] + g[t \ {p}]
      BY <1>1, <2>2 DEF Picked, PartialSums
    <3>2. g[t] \in Nat
      BY <3>1
    <3>3. ASSUME NEW x \in t, x # p
          PROVE  g[t] = f[x] + g[t \ {x}]
      <4>1. t \ {x} \in Good /\ t \ {x, p} \in Good
        BY <1>1, <3>1, <3>3
      <4>2. (t \ {x}) \ {p} = t \ {x, p} /\ (t \ {p}) \ {x} = t \ {x, p}
        OBVIOUS
      <4>3. g[t \ {p}] = f[x] + g[t \ {x, p}]
        BY <3>1, <3>3, <4>2
      <4>4. g[t \ {x}] = f[p] + g[t \ {x, p}]
        BY <3>1, <3>3, <4>1, <4>2
      <4>5. f[x] \in Nat /\ f[p] \in Nat /\ g[t \ {x, p}] \in Nat
        BY <3>1, <4>1
      <4>6. QED
        BY <3>1, <4>3, <4>4, <4>5
    <3>4. QED
      BY <3>1, <3>2, <3>3
  <2>3. QED
    BY <2>1, <2>2
<1>2. SUBSET T \subseteq Good
  <2> HIDE DEF Good
  <2>1. QED
    BY <1>1, SubsetInduction
<1>3. QED
  BY <1>2

-----------------------------------------------------------------------------
\* SetSum is what any way of taking the partial sums comes to.
LEMMA SetSumIs ==
  ASSUME NEW T, IsFiniteSet(T), NEW f, NEW g, PartialSums(g, f, T)
  PROVE  g[T] = SetSum(f, T)
<1>1. PartialSums(CHOOSE h : PartialSums(h, f, T), f, T)
  BY PartialSumsExist
<1>2. QED
  BY <1>1, PartialSumsUnique DEF SetSum

LEMMA SetSumEmpty ==
  ASSUME NEW f
  PROVE  SetSum(f, {}) = 0
<1>1. PartialSums(CHOOSE h : PartialSums(h, f, {}), f, {})
  BY FS_EmptySet, PartialSumsExist
<1>2. QED
  BY <1>1 DEF SetSum, PartialSums

\* A sum is a natural, and is an element's value and the sum of the others.
LEMMA SetSumTake ==
  ASSUME NEW T, IsFiniteSet(T), NEW f, \A x \in T : f[x] \in Nat
  PROVE  /\ SetSum(f, T) \in Nat
         /\ \A x \in T : SetSum(f, T) = f[x] + SetSum(f, T \ {x})
<1>1. PICK g : PartialSums(g, f, T)
  BY PartialSumsExist
<1>2. g[T] = SetSum(f, T)
  BY <1>1, SetSumIs
<1>3. ASSUME NEW x \in T
      PROVE  g[T \ {x}] = SetSum(f, T \ {x})
  <2>1. IsFiniteSet(T \ {x})
    BY FS_Subset
  <2>2. PICK h : PartialSums(h, f, T \ {x})
    BY <2>1, PartialSumsExist
  <2>3. g[T \ {x}] = h[T \ {x}]
    <3>1. T \ {x} \subseteq T /\ T \ {x} \in SUBSET (T \ {x})
      OBVIOUS
    <3>2. \A t \in SUBSET (T \ {x}) : g[t] = h[t]
      BY <1>1, <2>2, <3>1, PartialSumsUnique
    <3>3. QED
      BY <3>1, <3>2
  <2>4. QED
    BY <2>1, <2>2, <2>3, SetSumIs
<1>4. \A t \in SUBSET T : g[t] \in Nat /\ \A x \in t : g[t] = f[x] + g[t \ {x}]
  BY <1>1, PartialSumsTake
<1>5. g[T] \in Nat /\ \A x \in T : g[T] = f[x] + g[T \ {x}]
  BY <1>4, Zenon
<1>6. QED
  BY <1>2, <1>3, <1>5

\* One more element.
LEMMA SetSumAdd ==
  ASSUME NEW T, IsFiniteSet(T), NEW x, x \notin T, NEW f,
         \A y \in T \cup {x} : f[y] \in Nat
  PROVE  SetSum(f, T \cup {x}) = f[x] + SetSum(f, T)
<1>1. IsFiniteSet(T \cup {x}) /\ (T \cup {x}) \ {x} = T
  BY FS_AddElement
<1>2. QED
  BY <1>1, SetSumTake

\* More elements never add up to less.
LEMMA SetSumGrows ==
  ASSUME NEW T, NEW S, NEW f, IsFiniteSet(T), S \subseteq T, \A x \in T : f[x] \in Nat
  PROVE  SetSum(f, S) <= SetSum(f, T)
<1> DEFINE Good == {t \in SUBSET T : S \subseteq t => SetSum(f, S) <= SetSum(f, t)}
<1>1. ASSUME NEW t \in SUBSET T, \A u \in SUBSET t : u # t => u \in Good
      PROVE  t \in Good
  <2>1. IsFiniteSet(t) /\ \A x \in t : f[x] \in Nat
    BY FS_Subset
  <2>2. CASE S = t
    BY <2>1, <2>2, SetSumTake
  <2>3. CASE S # t /\ S \subseteq t
    <3>1. PICK x \in t : x \notin S
      BY <2>3
    <3>2. t \ {x} \in Good /\ S \subseteq t \ {x}
      BY <1>1, <2>3, <3>1
    <3>3. SetSum(f, t) = f[x] + SetSum(f, t \ {x})
      BY <2>1, SetSumTake
    <3>4. /\ IsFiniteSet(S) /\ IsFiniteSet(t \ {x})
          /\ \A y \in S : f[y] \in Nat
          /\ \A y \in t \ {x} : f[y] \in Nat
      BY <2>1, <2>3, FS_Subset
    <3>5. SetSum(f, S) \in Nat /\ SetSum(f, t \ {x}) \in Nat /\ f[x] \in Nat
      BY <2>1, <3>4, SetSumTake
    <3>6. QED
      BY <3>2, <3>3, <3>5
  <2>4. QED
    BY <2>2, <2>3
<1>2. SUBSET T \subseteq Good
  <2> HIDE DEF Good
  <2>1. QED
    BY <1>1, SubsetInduction
<1>3. QED
  BY <1>2, Zenon

\* Only the values of the elements matter.
LEMMA SetSumSame ==
  ASSUME NEW T, NEW f, NEW g, IsFiniteSet(T), \A x \in T : f[x] \in Nat /\ g[x] = f[x]
  PROVE  SetSum(g, T) = SetSum(f, T)
<1> DEFINE Good == {t \in SUBSET T : SetSum(g, t) = SetSum(f, t)}
<1>1. ASSUME NEW t \in SUBSET T, \A u \in SUBSET t : u # t => u \in Good
      PROVE  t \in Good
  <2>1. IsFiniteSet(t) /\ \A x \in t : f[x] \in Nat /\ g[x] \in Nat
    BY FS_Subset
  <2>2. CASE t = {}
    BY <2>2, SetSumEmpty
  <2>3. CASE t # {}
    <3>1. PICK x \in t : TRUE
      BY <2>3
    <3>2. SetSum(g, t \ {x}) = SetSum(f, t \ {x})
      BY <1>1
    <3>3. SetSum(f, t) = f[x] + SetSum(f, t \ {x}) /\ SetSum(g, t) = g[x] + SetSum(g, t \ {x})
      BY <2>1, SetSumTake
    <3>4. QED
      BY <3>2, <3>3
  <2>4. QED
    BY <2>2, <2>3
<1>2. SUBSET T \subseteq Good
  <2> HIDE DEF Good
  <2>1. QED
    BY <1>1, SubsetInduction
<1>3. QED
  BY <1>2, Zenon

\* A sum over two parts.
LEMMA SetSumSplit ==
  ASSUME NEW S, NEW T, NEW f, IsFiniteSet(S), IsFiniteSet(T), S \cap T = {},
         \A x \in S \cup T : f[x] \in Nat
  PROVE  SetSum(f, S \cup T) = SetSum(f, S) + SetSum(f, T)
<1> DEFINE Good == {t \in SUBSET T : SetSum(f, S \cup t) = SetSum(f, S) + SetSum(f, t)}
<1>1. ASSUME NEW t \in SUBSET T, \A u \in SUBSET t : u # t => u \in Good
      PROVE  t \in Good
  <2>1. IsFiniteSet(t) /\ IsFiniteSet(S \cup t)
    BY FS_Subset, FS_Union
  <2>2. CASE t = {}
    <3>1. SetSum(f, S) \in Nat /\ S \cup t = S
      BY <2>2, SetSumTake
    <3>2. QED
      BY <2>2, <3>1, SetSumEmpty
  <2>3. CASE t # {}
    <3>1. PICK x \in t : TRUE
      BY <2>3
    <3>2. SetSum(f, S \cup (t \ {x})) = SetSum(f, S) + SetSum(f, t \ {x})
      BY <1>1
    <3>3. (S \cup t) \ {x} = S \cup (t \ {x}) /\ x \in S \cup t
      BY <3>1
    <3>4. \A y \in S \cup t : f[y] \in Nat
      OBVIOUS
    <3>5. SetSum(f, S \cup t) = f[x] + SetSum(f, (S \cup t) \ {x})
      BY <2>1, <3>3, <3>4, SetSumTake
    <3>6. SetSum(f, t) = f[x] + SetSum(f, t \ {x})
      BY <2>1, SetSumTake
    <3>7. IsFiniteSet(t \ {x})
      BY <2>1, FS_Subset
    <3>8. SetSum(f, S) \in Nat /\ SetSum(f, t \ {x}) \in Nat /\ f[x] \in Nat
      BY <3>7, SetSumTake
    <3>9. QED
      BY <3>2, <3>3, <3>5, <3>6, <3>8
  <2>4. QED
    BY <2>2, <2>3
<1>2. SUBSET T \subseteq Good
  <2> HIDE DEF Good
  <2>1. QED
    BY <1>1, SubsetInduction
<1>3. QED
  BY <1>2, Zenon

\* The same values, one place further.
LEMMA SetSumShift ==
  ASSUME NEW T, NEW f, NEW g, IsFiniteSet(T), T \subseteq Int,
         \A x \in T : f[x] \in Nat /\ g[x + 1] = f[x]
  PROVE  SetSum(g, {x + 1 : x \in T}) = SetSum(f, T)
<1> DEFINE Up(t) == {x + 1 : x \in t}
           Good == {t \in SUBSET T : IsFiniteSet(Up(t)) /\ SetSum(g, Up(t)) = SetSum(f, t)}
<1>1. ASSUME NEW t \in SUBSET T, \A u \in SUBSET t : u # t => u \in Good
      PROVE  t \in Good
  <2>1. IsFiniteSet(t) /\ \A x \in t : f[x] \in Nat
    BY FS_Subset
  <2>2. CASE t = {}
    <3>1. Up(t) = {}
      BY <2>2
    <3>2. SetSum(g, {}) = 0 /\ SetSum(f, {}) = 0 /\ IsFiniteSet({})
      BY SetSumEmpty, FS_EmptySet, Zenon
    <3>3. IsFiniteSet(Up(t)) /\ SetSum(g, Up(t)) = SetSum(f, t)
      BY <2>2, <3>1, <3>2, Zenon
    <3>4. QED
      BY <3>3
  <2>3. CASE t # {}
    <3>1. PICK x \in t : TRUE
      BY <2>3
    <3>2. IsFiniteSet(Up(t \ {x})) /\ SetSum(g, Up(t \ {x})) = SetSum(f, t \ {x})
      BY <1>1
    <3>3. Up(t) = Up(t \ {x}) \cup {x + 1} /\ x + 1 \notin Up(t \ {x})
      BY <3>1
    <3>4. \A y \in Up(t \ {x}) \cup {x + 1} : g[y] \in Nat
      OBVIOUS
    <3> HIDE DEF Up
    <3>5. SetSum(g, Up(t)) = g[x + 1] + SetSum(g, Up(t \ {x}))
      BY <3>2, <3>3, <3>4, SetSumAdd, ZenonT(40)
    <3>6. SetSum(f, t) = f[x] + SetSum(f, t \ {x})
      BY <2>1, SetSumTake
    <3>7. IsFiniteSet(Up(t))
      <4>1. IsFiniteSet(Up(t \ {x}) \cup {x + 1})
        BY <3>2, FS_AddElement
      <4>2. QED
        BY <3>3, <4>1, Zenon
    <3>8. QED
      BY <3>2, <3>5, <3>6, <3>7
  <2>4. QED
    BY <2>2, <2>3
<1>2. SUBSET T \subseteq Good
  <2> HIDE DEF Good
  <2>1. QED
    BY <1>1, SubsetInduction
<1>3. QED
  BY <1>2, Zenon
=============================================================================
