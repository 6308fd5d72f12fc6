---------------------------- MODULE SumTheorems ----------------------------
(***************************************************************************)
(* Induction over naturals and finite sets, stated of sets instead of      *)
(* predicates, and the laws of SumFunctionOnSet that follow from it: what  *)
(* the proofs about amounts rest on.                                       *)
(***************************************************************************)
EXTENDS Integers, Functions, FiniteSetTheorems, TLAPS

-----------------------------------------------------------------------------
(* Induction                                                               *)

Smaller == {ss \in Nat \X Nat : ss[1] < ss[2]}

\* A set of naturals that is not empty has a least element.
LEMMA LeastNatural ==
    ASSUME NEW S \in SUBSET Nat, S # {}
    PROVE  \E n \in S : \A m \in S : n =< m
  <1>1. IsWellFoundedOn(Smaller, Nat)
    BY NatLessThanWellFounded DEF OpToRel, Smaller
  <1>2. PICK n \in S : \A m \in S : <<m, n>> \notin Smaller
    BY <1>1, WFMin
  <1>3. \A m \in S : m < n => <<m, n>> \in Smaller
    BY DEF Smaller
  <1>4. \A m \in S : ~(m < n)
    BY <1>2, <1>3
  <1> QED BY <1>4

\* A set of naturals that has 0 and with each number the next is all of them.
LEMMA InductiveIsNat ==
    ASSUME NEW S \in SUBSET Nat, 0 \in S, \A n \in S : n + 1 \in S
    PROVE  S = Nat
  <1> SUFFICES ASSUME Nat \ S # {} PROVE FALSE
    OBVIOUS
  <1>1. PICK n \in Nat \ S : \A m \in Nat \ S : n =< m
    BY LeastNatural
  <1>2. n - 1 \in S
    BY <1>1
  <1> QED BY <1>1, <1>2

\* The element that a sum over S takes first.
First(S) == CHOOSE x \in S : TRUE

\* A family of subsets of a finite set that has the empty set, and each set that it has
\* without some element, has them all.
LEMMA FamilyByOne ==
    ASSUME NEW W, IsFiniteSet(W), NEW F, {} \in F,
           \A S \in SUBSET W : S # {} => \E x \in S : S \ {x} \in F => S \in F
    PROVE  \A S \in SUBSET W : S \in F
  <1> DEFINE Sizes == {n \in Nat : \A S \in SUBSET W : Cardinality(S) = n => S \in F}
  <1>1. 0 \in Sizes
    BY FS_Subset, FS_EmptySet
  <1>2. ASSUME NEW n \in Sizes PROVE n + 1 \in Sizes
    <2>1. ASSUME NEW S \in SUBSET W, Cardinality(S) = n + 1 PROVE S \in F
      <3>1. IsFiniteSet(S) /\ S # {}
        BY <2>1, FS_Subset, FS_EmptySet
      <3>2. PICK x \in S : S \ {x} \in F => S \in F
        BY <3>1
      <3>3. Cardinality(S \ {x}) = Cardinality(S) - 1 /\ n \in Nat
        BY <3>1, <3>2, FS_RemoveElement
      <3>4. S \ {x} \in F
        BY <2>1, <3>3
      <3> QED BY <3>2, <3>4
    <2> QED BY <2>1
  <1> HIDE DEF Sizes
  <1>3. Sizes = Nat
    BY <1>1, <1>2, InductiveIsNat DEF Sizes
  <1>4. \A S \in SUBSET W : Cardinality(S) \in Sizes
    BY <1>3, FS_Subset, FS_CardinalityType
  <1> QED BY <1>4 DEF Sizes

\* The same with the first element.
LEMMA FamilyByFirst ==
    ASSUME NEW W, IsFiniteSet(W), NEW F, {} \in F,
           \A S \in SUBSET W : S # {} /\ S \ {First(S)} \in F => S \in F
    PROVE  \A S \in SUBSET W : S \in F
  <1>1. \A S \in SUBSET W : S # {} => First(S) \in S
    BY DEF First
  <1>2. \A S \in SUBSET W : S # {} => \E x \in S : S \ {x} \in F => S \in F
    BY <1>1
  <1> QED BY <1>2, FamilyByOne

\* A family that has the empty set, and with each set those of one element more, has them all.
LEMMA FamilyHasAll ==
    ASSUME NEW W, IsFiniteSet(W), NEW F, {} \in F,
           \A S \in SUBSET W, x \in W : S \in F /\ x \notin S => S \cup {x} \in F
    PROVE  \A S \in SUBSET W : S \in F
  <1>1. ASSUME NEW S \in SUBSET W, S # {}, S \ {First(S)} \in F PROVE S \in F
    <2>1. First(S) \in S
      BY <1>1 DEF First
    <2>2. (S \ {First(S)}) \cup {First(S)} = S
      BY <2>1
    <2>3. (S \ {First(S)}) \cup {First(S)} \in F
      BY <1>1, <2>1
    <2> QED BY <2>2, <2>3
  <1> QED BY <1>1, FamilyByFirst

-----------------------------------------------------------------------------
(* The recursion of a sum                                                  *)

\* Sums of f over the subsets of S, as Folds defines them.
Table(f, S) ==
    CHOOSE t : t = [s \in SUBSET S |-> IF s = {} THEN 0 ELSE f[First(s)] + t[s \ {First(s)}]]

\* A function on a family of sets that obeys the recursion.
Obeys(t, f, D) ==
    t = [s \in D |-> IF s = {} THEN 0 ELSE f[First(s)] + t[s \ {First(s)}]]

\* The definition, unfolded.
LEMMA SumIsTable == ASSUME NEW f, NEW S PROVE SumFunctionOnSet(f, S) = Table(f, S)[S]
  BY DEF SumFunctionOnSet, FoldFunctionOnSet, MapThenFoldSet, Table, First

\* The recursion has a solution.
LEMMA TableExists ==
    ASSUME NEW f, NEW S, IsFiniteSet(S)
    PROVE  \E t : Obeys(t, f, SUBSET S)
  <1> DEFINE Upto(n) == {s \in SUBSET S : Cardinality(s) =< n}
  <1> DEFINE Sizes == {n \in Nat : \E t : Obeys(t, f, Upto(n))}
  <1>0. \A s \in SUBSET S : IsFiniteSet(s) /\ Cardinality(s) \in Nat
    BY FS_Subset, FS_CardinalityType
  <1>1. 0 \in Sizes
    <2>1. \A s \in Upto(0) : s = {}
      BY <1>0, FS_EmptySet
    <2> DEFINE t == [s \in Upto(0) |-> 0]
    <2>2. Obeys(t, f, Upto(0))
      BY <2>1 DEF Obeys
    <2> HIDE DEF t
    <2> QED BY <2>2
  <1>2. ASSUME NEW n \in Sizes PROVE n + 1 \in Sizes
    <2>1. PICK t : Obeys(t, f, Upto(n))
      OBVIOUS
    <2> DEFINE next(s) == IF s = {} THEN 0 ELSE f[First(s)] + t[s \ {First(s)}]
    <2> DEFINE u == [s \in Upto(n + 1) |-> next(s)]
    <2>2. ASSUME NEW s \in Upto(n + 1), s # {} PROVE u[s \ {First(s)}] = t[s \ {First(s)}]
      <3>1. First(s) \in s
        BY <2>2 DEF First
      <3>2. s \ {First(s)} \in Upto(n)
        BY <1>0, <3>1, FS_RemoveElement
      <3>3. s \ {First(s)} \in Upto(n + 1)
        BY <1>0, <3>2
      <3> DEFINE r == s \ {First(s)}
      <3>4. t[r] = next(r)
        BY <2>1, <3>2 DEF Obeys
      <3> QED BY <3>3, <3>4
    <2>3. Obeys(u, f, Upto(n + 1))
      BY <2>2 DEF Obeys
    <2> HIDE DEF u, Upto
    <2>4. \E v : Obeys(v, f, Upto(n + 1))
      BY <2>3
    <2> QED BY <2>4
  <1>3. Sizes = Nat
    <2> HIDE DEF Sizes
    <2> QED BY <1>1, <1>2, InductiveIsNat DEF Sizes
  <1>4. Upto(Cardinality(S)) = SUBSET S
    BY <1>0, FS_Subset
  <1>5. Cardinality(S) \in Sizes
    BY <1>0, <1>3
  <1> QED BY <1>4, <1>5

\* So the table obeys it.
LEMMA TableObeys ==
    ASSUME NEW f, NEW S, IsFiniteSet(S)
    PROVE  /\ Table(f, S)[{}] = 0
           /\ \A s \in SUBSET S : s # {} =>
                 Table(f, S)[s] = f[First(s)] + Table(f, S)[s \ {First(s)}]
  <1>0. PICK t : Obeys(t, f, SUBSET S)
    BY TableExists
  <1>1. Obeys(Table(f, S), f, SUBSET S)
    BY <1>0, Zenon DEF Table, Obeys
  <1> DEFINE T == Table(f, S)
  <1>2. T = [s \in SUBSET S |-> IF s = {} THEN 0 ELSE f[First(s)] + T[s \ {First(s)}]]
    BY <1>1 DEF Obeys
  <1> HIDE DEF T
  <1>3. T[{}] = 0
    BY <1>2
  <1>4. \A s \in SUBSET S : s # {} => T[s] = f[First(s)] + T[s \ {First(s)}]
    BY <1>2
  <1> QED BY <1>3, <1>4 DEF T

\* The table of a set agrees with that of another on the subsets of both.
LEMMA TablesAgree ==
    ASSUME NEW f, NEW S, IsFiniteSet(S), NEW T, IsFiniteSet(T)
    PROVE  \A s \in SUBSET (S \cap T) : Table(f, S)[s] = Table(f, T)[s]
  <1> DEFINE Same == {s \in SUBSET (S \cap T) : Table(f, S)[s] = Table(f, T)[s]}
  <1>0. IsFiniteSet(S \cap T)
    BY FS_Intersection
  <1>1. {} \in Same
    BY TableObeys
  <1>2. ASSUME NEW s \in SUBSET (S \cap T), s # {}, s \ {First(s)} \in Same PROVE s \in Same
    <2>1. /\ Table(f, S)[s] = f[First(s)] + Table(f, S)[s \ {First(s)}]
          /\ Table(f, T)[s] = f[First(s)] + Table(f, T)[s \ {First(s)}]
      BY <1>2, TableObeys
    <2> QED BY <1>2, <2>1
  <1> HIDE DEF Same
  <1>3. \A s \in SUBSET (S \cap T) : s \in Same
    BY <1>0, <1>1, <1>2, FamilyByFirst
  <1> QED BY <1>3 DEF Same

-----------------------------------------------------------------------------
(* The laws of a sum                                                       *)

\* Nothing adds up to 0.
LEMMA SumEmpty == ASSUME NEW f PROVE SumFunctionOnSet(f, {}) = 0
  BY SumIsTable, TableObeys, FS_EmptySet

\* A sum takes its first element and goes on with the rest.
LEMMA SumFirst ==
    ASSUME NEW f, NEW S, IsFiniteSet(S), S # {}
    PROVE  SumFunctionOnSet(f, S) = f[First(S)] + SumFunctionOnSet(f, S \ {First(S)})
  <1> DEFINE R == S \ {First(S)}
  <1>1. IsFiniteSet(R)
    BY FS_Subset
  <1>2. Table(f, S)[S] = f[First(S)] + Table(f, S)[R]
    BY TableObeys
  <1>3. Table(f, S)[R] = Table(f, R)[R]
    BY <1>1, TablesAgree
  <1> QED BY <1>2, <1>3, SumIsTable

\* Integers, or naturals, add up to one.
LEMMA SumType ==
    ASSUME NEW f, NEW N, N = Int \/ N = Nat, NEW S, IsFiniteSet(S), \A x \in S : f[x] \in N
    PROVE  SumFunctionOnSet(f, S) \in N
  <1> DEFINE F == {s \in SUBSET S : SumFunctionOnSet(f, s) \in N}
  <1>1. {} \in F
    BY SumEmpty
  <1>2. ASSUME NEW s \in SUBSET S, s # {}, s \ {First(s)} \in F PROVE s \in F
    <2>1. First(s) \in S /\ IsFiniteSet(s)
      BY <1>2, FS_Subset DEF First
    <2>2. SumFunctionOnSet(f, s) = f[First(s)] + SumFunctionOnSet(f, s \ {First(s)})
      BY <1>2, <2>1, SumFirst
    <2> QED BY <1>2, <2>1, <2>2
  <1> HIDE DEF F
  <1>3. S \in F
    BY <1>1, <1>2, FamilyByFirst
  <1> QED BY <1>3 DEF F

\* A sum of natural numbers is one.
LEMMA SumIsNat ==
    ASSUME NEW f, NEW S, IsFiniteSet(S), \A x \in S : f[x] \in Nat
    PROVE  SumFunctionOnSet(f, S) \in Nat
  BY SumType

\* Any element can be taken first.
LEMMA SumRemove ==
    ASSUME NEW f, NEW S, IsFiniteSet(S), \A x \in S : f[x] \in Int, NEW e \in S
    PROVE  SumFunctionOnSet(f, S) = f[e] + SumFunctionOnSet(f, S \ {e})
  <1> DEFINE Law(s) ==
        \A x \in s : SumFunctionOnSet(f, s) = f[x] + SumFunctionOnSet(f, s \ {x})
  <1> DEFINE Sizes == {n \in Nat : \A s \in SUBSET S : Cardinality(s) = n => Law(s)}
  <1>0. \A s \in SUBSET S : /\ IsFiniteSet(s) /\ Cardinality(s) \in Nat
                            /\ SumFunctionOnSet(f, s) \in Int
    BY FS_Subset, FS_CardinalityType, SumType
  <1>1. 0 \in Sizes
    BY <1>0, FS_EmptySet
  <1>2. ASSUME NEW n \in Sizes PROVE n + 1 \in Sizes
    <2>1. ASSUME NEW s \in SUBSET S, Cardinality(s) = n + 1, NEW x \in s
          PROVE  SumFunctionOnSet(f, s) = f[x] + SumFunctionOnSet(f, s \ {x})
      <3> DEFINE c == First(s)
      <3>1. c \in s
        BY <2>1 DEF First
      <3>2. SumFunctionOnSet(f, s) = f[c] + SumFunctionOnSet(f, s \ {c})
        BY <1>0, <2>1, SumFirst
      <3>3. CASE x # c
        <4>0. /\ Cardinality(s \ {c}) = Cardinality(s) - 1
              /\ Cardinality(s \ {x}) = Cardinality(s) - 1
          BY <1>0, <2>1, <3>1, FS_RemoveElement
        <4>1. Cardinality(s \ {c}) = n /\ Cardinality(s \ {x}) = n
          BY <1>2, <2>1, <4>0
        <4>2. SumFunctionOnSet(f, s \ {c}) = f[x] + SumFunctionOnSet(f, (s \ {c}) \ {x})
          BY <3>3, <4>1
        <4>3. SumFunctionOnSet(f, s \ {x}) = f[c] + SumFunctionOnSet(f, (s \ {x}) \ {c})
          BY <3>1, <3>3, <4>1
        <4>4. (s \ {c}) \ {x} = (s \ {x}) \ {c}
          OBVIOUS
        <4>5. SumFunctionOnSet(f, (s \ {c}) \ {x}) \in Int /\ f[x] \in Int /\ f[c] \in Int
          BY <1>0, <3>1
        <4> DEFINE rest == SumFunctionOnSet(f, (s \ {c}) \ {x})
        <4>6. SumFunctionOnSet(f, s) = f[c] + (f[x] + rest)
          BY <3>2, <4>2
        <4>7. SumFunctionOnSet(f, s \ {x}) = f[c] + rest
          BY <4>3, <4>4
        <4> HIDE DEF rest, c
        <4> QED BY <4>5, <4>6, <4>7 DEF rest
      <3> QED BY <3>2, <3>3
    <2> QED BY <2>1
  <1> HIDE DEF Sizes
  <1>3. Sizes = Nat
    BY <1>1, <1>2, InductiveIsNat DEF Sizes
  <1>4. Cardinality(S) \in Sizes
    BY <1>0, <1>3
  <1> QED BY <1>4 DEF Sizes

\* A sum grows by what is added to its set.
LEMMA SumAdd ==
    ASSUME NEW f, NEW S, IsFiniteSet(S), NEW e, e \notin S, \A x \in S \cup {e} : f[x] \in Int
    PROVE  SumFunctionOnSet(f, S \cup {e}) = f[e] + SumFunctionOnSet(f, S)
  <1>1. IsFiniteSet(S \cup {e})
    BY FS_AddElement
  <1>2. (S \cup {e}) \ {e} = S
    OBVIOUS
  <1>3. SumFunctionOnSet(f, S \cup {e}) = f[e] + SumFunctionOnSet(f, (S \cup {e}) \ {e})
    BY <1>1, SumRemove
  <1> QED BY <1>2, <1>3

\* A sum only looks at its set.
LEMMA SumSame ==
    ASSUME NEW f, NEW g, NEW S, IsFiniteSet(S), \A x \in S : f[x] = g[x]
    PROVE  SumFunctionOnSet(f, S) = SumFunctionOnSet(g, S)
  <1> DEFINE F == {s \in SUBSET S : SumFunctionOnSet(f, s) = SumFunctionOnSet(g, s)}
  <1>1. {} \in F
    BY SumEmpty
  <1>2. ASSUME NEW s \in SUBSET S, s # {}, s \ {First(s)} \in F PROVE s \in F
    <2>1. First(s) \in S /\ IsFiniteSet(s)
      BY <1>2, FS_Subset DEF First
    <2>2. /\ SumFunctionOnSet(f, s) = f[First(s)] + SumFunctionOnSet(f, s \ {First(s)})
          /\ SumFunctionOnSet(g, s) = g[First(s)] + SumFunctionOnSet(g, s \ {First(s)})
      BY <1>2, <2>1, SumFirst
    <2> QED BY <1>2, <2>1, <2>2
  <1> HIDE DEF F
  <1>3. S \in F
    BY <1>1, <1>2, FamilyByFirst
  <1> QED BY <1>3 DEF F

\* The sum over two sets that are apart.
LEMMA SumUnion ==
    ASSUME NEW f, NEW S, IsFiniteSet(S), NEW T, IsFiniteSet(T), S \cap T = {},
           \A x \in S \cup T : f[x] \in Int
    PROVE  SumFunctionOnSet(f, S \cup T) = SumFunctionOnSet(f, S) + SumFunctionOnSet(f, T)
  <1> DEFINE F == {t \in SUBSET T :
        SumFunctionOnSet(f, S \cup t) = SumFunctionOnSet(f, S) + SumFunctionOnSet(f, t)}
  <1>0. \A t \in SUBSET T : /\ IsFiniteSet(t) /\ IsFiniteSet(S \cup t)
                            /\ SumFunctionOnSet(f, t) \in Int
    BY FS_Subset, FS_Union, SumType
  <1>1. {} \in F
    <2>1. SumFunctionOnSet(f, S) \in Int /\ S \cup {} = S
      BY SumType
    <2> QED BY <2>1, SumEmpty
  <1>2. ASSUME NEW t \in SUBSET T, NEW x \in T, t \in F, x \notin t PROVE t \cup {x} \in F
    <2>1. x \notin S \cup t /\ S \cup (t \cup {x}) = (S \cup t) \cup {x}
      BY <1>2
    <2>2. SumFunctionOnSet(f, (S \cup t) \cup {x}) = f[x] + SumFunctionOnSet(f, S \cup t)
      BY <1>0, <2>1, SumAdd
    <2>3. SumFunctionOnSet(f, t \cup {x}) = f[x] + SumFunctionOnSet(f, t)
      BY <1>0, <1>2, SumAdd
    <2>4. SumFunctionOnSet(f, S) \in Int /\ SumFunctionOnSet(f, t) \in Int /\ f[x] \in Int
      BY <1>0, SumType
    <2>5. SumFunctionOnSet(f, S \cup t) = SumFunctionOnSet(f, S) + SumFunctionOnSet(f, t)
      BY <1>2
    <2>6. SumFunctionOnSet(f, (S \cup t) \cup {x})
              = SumFunctionOnSet(f, S) + (f[x] + SumFunctionOnSet(f, t))
      <3> HIDE DEF F
      <3> QED BY <2>2, <2>4, <2>5
    <2>7. SumFunctionOnSet(f, S \cup (t \cup {x}))
              = SumFunctionOnSet(f, S) + SumFunctionOnSet(f, t \cup {x})
      <3> HIDE DEF F
      <3> QED BY <2>1, <2>3, <2>6
    <2> QED BY <1>2, <2>7
  <1> HIDE DEF F
  <1>3. T \in F
    BY <1>1, <1>2, FamilyHasAll
  <1> QED BY <1>3 DEF F

\* Sums are added term by term.
LEMMA SumPlus ==
    ASSUME NEW f, NEW g, NEW h, NEW S, IsFiniteSet(S),
           \A x \in S : f[x] \in Int /\ g[x] \in Int /\ h[x] = f[x] + g[x]
    PROVE  SumFunctionOnSet(h, S) = SumFunctionOnSet(f, S) + SumFunctionOnSet(g, S)
  <1> DEFINE F == {s \in SUBSET S :
        SumFunctionOnSet(h, s) = SumFunctionOnSet(f, s) + SumFunctionOnSet(g, s)}
  <1>0. \A s \in SUBSET S : /\ IsFiniteSet(s) /\ SumFunctionOnSet(f, s) \in Int
                            /\ SumFunctionOnSet(g, s) \in Int
    BY FS_Subset, SumType
  <1>1. {} \in F
    BY SumEmpty
  <1>2. ASSUME NEW s \in SUBSET S, NEW x \in S, s \in F, x \notin s PROVE s \cup {x} \in F
    <2>0. \A y \in s \cup {x} : f[y] \in Int /\ g[y] \in Int /\ h[y] \in Int
      BY <1>2
    <2>1. SumFunctionOnSet(f, s \cup {x}) = f[x] + SumFunctionOnSet(f, s)
      BY <1>0, <1>2, <2>0, SumAdd
    <2>2. SumFunctionOnSet(g, s \cup {x}) = g[x] + SumFunctionOnSet(g, s)
      BY <1>0, <1>2, <2>0, SumAdd
    <2>3. SumFunctionOnSet(h, s \cup {x}) = h[x] + SumFunctionOnSet(h, s)
      BY <1>0, <1>2, <2>0, SumAdd
    <2> QED BY <1>0, <1>2, <2>1, <2>2, <2>3
  <1> HIDE DEF F
  <1>3. S \in F
    BY <1>1, <1>2, FamilyHasAll
  <1> QED BY <1>3 DEF F

\* Sums are compared term by term.
LEMMA SumMonotone ==
    ASSUME NEW f, NEW g, NEW S, IsFiniteSet(S),
           \A x \in S : f[x] \in Int /\ g[x] \in Int /\ f[x] =< g[x]
    PROVE  SumFunctionOnSet(f, S) =< SumFunctionOnSet(g, S)
  <1> DEFINE d == [x \in S |-> g[x] - f[x]]
  <1>1. \A x \in S : d[x] \in Nat /\ g[x] = f[x] + d[x]
    OBVIOUS
  <1> HIDE DEF d
  <1>2. SumFunctionOnSet(g, S) = SumFunctionOnSet(f, S) + SumFunctionOnSet(d, S)
    BY <1>1, SumPlus
  <1>3. SumFunctionOnSet(f, S) \in Int /\ SumFunctionOnSet(d, S) \in Nat
    BY <1>1, SumType
  <1> QED BY <1>2, <1>3

\* Some of the terms, when none is negative, come to no more than all.
LEMMA SumSubset ==
    ASSUME NEW f, NEW S, IsFiniteSet(S), \A x \in S : f[x] \in Nat, NEW T \in SUBSET S
    PROVE  SumFunctionOnSet(f, T) =< SumFunctionOnSet(f, S)
  <1> DEFINE R == S \ T
  <1>1. /\ IsFiniteSet(T) /\ IsFiniteSet(R) /\ T \cap R = {} /\ T \cup R = S
        /\ \A x \in T \cup R : f[x] \in Int
        /\ \A x \in T : f[x] \in Nat
        /\ \A x \in R : f[x] \in Nat
    BY FS_Subset
  <1> HIDE DEF R
  <1>2. SumFunctionOnSet(f, T \cup R) = SumFunctionOnSet(f, T) + SumFunctionOnSet(f, R)
    BY <1>1, SumUnion
  <1>3. SumFunctionOnSet(f, T) \in Nat /\ SumFunctionOnSet(f, R) \in Nat
    BY <1>1, SumIsNat
  <1>4. SumFunctionOnSet(f, T \cup R) = SumFunctionOnSet(f, S)
    BY <1>1
  <1> QED BY <1>2, <1>3, <1>4

\* A sum of zeros is 0.
LEMMA SumOfZeros ==
    ASSUME NEW f, NEW S, IsFiniteSet(S), \A x \in S : f[x] = 0
    PROVE  SumFunctionOnSet(f, S) = 0
  <1> DEFINE F == {s \in SUBSET S : SumFunctionOnSet(f, s) = 0}
  <1>1. {} \in F
    BY SumEmpty
  <1>2. ASSUME NEW s \in SUBSET S, s # {}, s \ {First(s)} \in F PROVE s \in F
    <2>1. First(s) \in S /\ IsFiniteSet(s)
      BY <1>2, FS_Subset DEF First
    <2>2. SumFunctionOnSet(f, s) = f[First(s)] + SumFunctionOnSet(f, s \ {First(s)})
      BY <1>2, <2>1, SumFirst
    <2> QED BY <1>2, <2>1, <2>2
  <1> HIDE DEF F
  <1>3. S \in F
    BY <1>1, <1>2, FamilyByFirst
  <1> QED BY <1>3 DEF F

\* A factor can be taken out of a sum.
LEMMA SumTimes ==
    ASSUME NEW f, NEW g, NEW a \in Int, NEW S, IsFiniteSet(S),
           \A x \in S : f[x] \in Int /\ g[x] = f[x] * a
    PROVE  SumFunctionOnSet(g, S) = SumFunctionOnSet(f, S) * a
  <1> DEFINE F == {s \in SUBSET S : SumFunctionOnSet(g, s) = SumFunctionOnSet(f, s) * a}
  <1>0. \A s \in SUBSET S : IsFiniteSet(s) /\ SumFunctionOnSet(f, s) \in Int
    BY FS_Subset, SumType
  <1>1. {} \in F
    BY SumEmpty
  <1>2. ASSUME NEW s \in SUBSET S, NEW x \in S, s \in F, x \notin s PROVE s \cup {x} \in F
    <2>0. \A y \in s \cup {x} : f[y] \in Int /\ g[y] \in Int
      BY <1>2
    <2>1. SumFunctionOnSet(f, s \cup {x}) = f[x] + SumFunctionOnSet(f, s)
      BY <1>0, <1>2, <2>0, SumAdd
    <2>2. SumFunctionOnSet(g, s \cup {x}) = g[x] + SumFunctionOnSet(g, s)
      BY <1>0, <1>2, <2>0, SumAdd
    <2>3. (f[x] + SumFunctionOnSet(f, s)) * a = f[x] * a + SumFunctionOnSet(f, s) * a
      BY <1>0, <2>0
    <2> QED BY <1>2, <2>1, <2>2, <2>3
  <1> HIDE DEF F
  <1>3. S \in F
    BY <1>1, <1>2, FamilyHasAll
  <1> QED BY <1>3 DEF F

\* As many terms as a set has elements, none more than b, add up to no more than that many b.
LEMMA SumBounded ==
    ASSUME NEW f, NEW b \in Int, NEW S, IsFiniteSet(S), \A x \in S : f[x] \in Int /\ f[x] =< b
    PROVE  SumFunctionOnSet(f, S) =< Cardinality(S) * b
  <1> DEFINE F == {s \in SUBSET S : SumFunctionOnSet(f, s) =< Cardinality(s) * b}
  <1>0. \A s \in SUBSET S : /\ IsFiniteSet(s) /\ SumFunctionOnSet(f, s) \in Int
                            /\ Cardinality(s) \in Nat
    BY FS_Subset, SumType, FS_CardinalityType
  <1>1. {} \in F
    BY SumEmpty, FS_EmptySet
  <1>2. ASSUME NEW s \in SUBSET S, NEW x \in S, s \in F, x \notin s PROVE s \cup {x} \in F
    <2>1. SumFunctionOnSet(f, s \cup {x}) = f[x] + SumFunctionOnSet(f, s)
      BY <1>0, <1>2, SumAdd
    <2>2. Cardinality(s \cup {x}) = Cardinality(s) + 1
      BY <1>0, <1>2, FS_AddElement
    <2>3. (Cardinality(s) + 1) * b = Cardinality(s) * b + b /\ Cardinality(s) * b \in Int
      BY <1>0
    <2> QED BY <1>0, <1>2, <2>1, <2>2, <2>3
  <1> HIDE DEF F
  <1>3. S \in F
    BY <1>1, <1>2, FamilyHasAll
  <1> QED BY <1>3 DEF F

\* A sum is raised by what one term of it, a 0, becomes.
LEMMA SumRaise ==
    ASSUME NEW f, NEW g, NEW x, f[x] = 0, NEW d \in Int, NEW S, IsFiniteSet(S),
           \A y \in S : f[y] \in Int /\ g[y] = IF y = x THEN d ELSE f[y]
    PROVE  SumFunctionOnSet(g, S) = SumFunctionOnSet(f, S) + (IF x \in S THEN d ELSE 0)
  <1>1. \A y \in S : f[y] \in Int /\ g[y] \in Int
    OBVIOUS
  <1>2. CASE x \notin S
    <2>1. SumFunctionOnSet(g, S) = SumFunctionOnSet(f, S)
      BY <1>2, SumSame
    <2>2. SumFunctionOnSet(f, S) \in Int
      BY <1>1, SumType
    <2> QED BY <1>2, <2>1, <2>2
  <1>3. CASE x \in S
    <2> DEFINE R == S \ {x}
    <2>1. IsFiniteSet(R)
      BY FS_Subset
    <2>2. SumFunctionOnSet(g, S) = d + SumFunctionOnSet(g, R)
      BY <1>1, <1>3, SumRemove
    <2>3. SumFunctionOnSet(f, S) = 0 + SumFunctionOnSet(f, R)
      BY <1>1, <1>3, SumRemove
    <2>4. \A y \in R : g[y] = f[y] /\ f[y] \in Int
      OBVIOUS
    <2> HIDE DEF R
    <2>5. SumFunctionOnSet(g, R) = SumFunctionOnSet(f, R)
      BY <2>1, <2>4, SumSame
    <2>6. SumFunctionOnSet(f, R) \in Int
      BY <2>1, <2>4, SumType
    <2> QED BY <1>3, <2>2, <2>3, <2>5, <2>6
  <1> QED BY <1>2, <1>3

\* The sums over the columns of a table add up to the sum over the table, and so do those
\* over its rows.
LEMMA SumColumns ==
    ASSUME NEW A, IsFiniteSet(A), NEW B, IsFiniteSet(B), NEW f,
           \A u \in A \X B : f[u] \in Int,
           NEW g, \A b \in B : g[b] = SumFunctionOnSet(f, A \X {b})
    PROVE  SumFunctionOnSet(g, B) = SumFunctionOnSet(f, A \X B)
  <1> DEFINE F == {S \in SUBSET B : SumFunctionOnSet(g, S) = SumFunctionOnSet(f, A \X S)}
  <1>1. {} \in F
    <2>1. A \X {} = {}
      OBVIOUS
    <2> QED BY <2>1, SumEmpty
  <1>2. ASSUME NEW S \in SUBSET B, NEW b \in B, S \in F, b \notin S PROVE S \cup {b} \in F
    <2>1. /\ IsFiniteSet(S) /\ IsFiniteSet(A \X S) /\ IsFiniteSet(A \X {b})
          /\ (A \X S) \cap (A \X {b}) = {} /\ (A \X S) \cup (A \X {b}) = A \X (S \cup {b})
      BY <1>2, FS_Subset, FS_Product, FS_Singleton
    <2>2. \A c \in B : g[c] \in Int
      <3> SUFFICES ASSUME NEW c \in B PROVE SumFunctionOnSet(f, A \X {c}) \in Int
        OBVIOUS
      <3>1. IsFiniteSet(A \X {c}) /\ \A u \in A \X {c} : f[u] \in Int
        BY FS_Product, FS_Singleton
      <3> QED BY <3>1, SumType
    <2>3. SumFunctionOnSet(g, S \cup {b}) = g[b] + SumFunctionOnSet(g, S)
      BY <1>2, <2>1, <2>2, SumAdd
    <2>4. \A u \in (A \X S) \cup (A \X {b}) : f[u] \in Int
      OBVIOUS
    <2> DEFINE X == A \X S
               Y == A \X {b}
    <2>5. SumFunctionOnSet(f, X \cup Y) = SumFunctionOnSet(f, X) + SumFunctionOnSet(f, Y)
      <3> HIDE DEF X, Y
      <3>1. IsFiniteSet(X) /\ IsFiniteSet(Y) /\ X \cap Y = {} /\ \A u \in X \cup Y : f[u] \in Int
        BY <2>1, <2>4 DEF X, Y
      <3> QED BY <3>1, SumUnion
    <2>6. SumFunctionOnSet(f, X) \in Int /\ SumFunctionOnSet(f, Y) \in Int
      <3>1. \A u \in X : f[u] \in Int
        OBVIOUS
      <3>2. \A u \in Y : f[u] \in Int
        OBVIOUS
      <3> QED BY <2>1, <3>1, <3>2, SumType
    <2>7. SumFunctionOnSet(g, S) = SumFunctionOnSet(f, X) /\ g[b] = SumFunctionOnSet(f, Y)
      BY <1>2
    <2> HIDE DEF X, Y
    <2>8. SumFunctionOnSet(g, S \cup {b}) = SumFunctionOnSet(f, X \cup Y)
      BY <2>3, <2>5, <2>6, <2>7
    <2> QED BY <1>2, <2>1, <2>8 DEF X, Y
  <1> HIDE DEF F
  <1>3. B \in F
    BY <1>1, <1>2, FamilyHasAll
  <1> QED BY <1>3 DEF F

\* The same for its rows.
LEMMA SumRows ==
    ASSUME NEW A, IsFiniteSet(A), NEW B, IsFiniteSet(B), NEW f,
           \A u \in A \X B : f[u] \in Int,
           NEW g, \A a \in A : g[a] = SumFunctionOnSet(f, {a} \X B)
    PROVE  SumFunctionOnSet(g, A) = SumFunctionOnSet(f, A \X B)
  <1> DEFINE F == {S \in SUBSET A : SumFunctionOnSet(g, S) = SumFunctionOnSet(f, S \X B)}
  <1>1. {} \in F
    <2>1. {} \X B = {}
      OBVIOUS
    <2> QED BY <2>1, SumEmpty
  <1>2. ASSUME NEW S \in SUBSET A, NEW a \in A, S \in F, a \notin S PROVE S \cup {a} \in F
    <2>1. /\ IsFiniteSet(S) /\ IsFiniteSet(S \X B) /\ IsFiniteSet({a} \X B)
          /\ (S \X B) \cap ({a} \X B) = {} /\ (S \X B) \cup ({a} \X B) = (S \cup {a}) \X B
      BY <1>2, FS_Subset, FS_Product, FS_Singleton
    <2>2. \A c \in A : g[c] \in Int
      <3> SUFFICES ASSUME NEW c \in A PROVE SumFunctionOnSet(f, {c} \X B) \in Int
        OBVIOUS
      <3>1. IsFiniteSet({c} \X B) /\ \A u \in {c} \X B : f[u] \in Int
        BY FS_Product, FS_Singleton
      <3> QED BY <3>1, SumType
    <2>3. SumFunctionOnSet(g, S \cup {a}) = g[a] + SumFunctionOnSet(g, S)
      BY <1>2, <2>1, <2>2, SumAdd
    <2>4. \A u \in (S \X B) \cup ({a} \X B) : f[u] \in Int
      OBVIOUS
    <2> DEFINE X == S \X B
               Y == {a} \X B
    <2>5. SumFunctionOnSet(f, X \cup Y) = SumFunctionOnSet(f, X) + SumFunctionOnSet(f, Y)
      <3> HIDE DEF X, Y
      <3>1. IsFiniteSet(X) /\ IsFiniteSet(Y) /\ X \cap Y = {} /\ \A u \in X \cup Y : f[u] \in Int
        BY <2>1, <2>4 DEF X, Y
      <3> QED BY <3>1, SumUnion
    <2>6. SumFunctionOnSet(f, X) \in Int /\ SumFunctionOnSet(f, Y) \in Int
      <3>1. \A u \in X : f[u] \in Int
        OBVIOUS
      <3>2. \A u \in Y : f[u] \in Int
        OBVIOUS
      <3> QED BY <2>1, <3>1, <3>2, SumType
    <2>7. SumFunctionOnSet(g, S) = SumFunctionOnSet(f, X) /\ g[a] = SumFunctionOnSet(f, Y)
      BY <1>2
    <2> HIDE DEF X, Y
    <2>8. SumFunctionOnSet(g, S \cup {a}) = SumFunctionOnSet(f, X \cup Y)
      BY <2>3, <2>5, <2>6, <2>7
    <2> QED BY <1>2, <2>1, <2>8 DEF X, Y
  <1> HIDE DEF F
  <1>3. A \in F
    BY <1>1, <1>2, FamilyHasAll
  <1> QED BY <1>3 DEF F

=============================================================================
