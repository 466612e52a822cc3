------------------------------- MODULE Counting -------------------------------
(***************************************************************************)
(* Least and greatest elements, sizes and sums of finite sets, for the     *)
(* proofs of the other modules.  The budget of MediaJobs and the disk      *)
(* space of PrivateMedia are sums as SumFunctionOnSet adds them up, in the *)
(* order in which CHOOSE picks the summands; the lemmas about sums say     *)
(* what holds of them in any order.  A page of history in Radar is the     *)
(* greatest n members of a set.  Induction over the size of a set is done  *)
(* on sets of numbers.                                                     *)
(***************************************************************************)
EXTENDS Integers, FiniteSets, Functions, FiniteSetTheorems, WellFoundedInduction, TLAPS

Picked(s) == CHOOSE x \in s : TRUE
Unfolds(g, f, S) ==
  g = [s \in SUBSET S |-> IF s = {} THEN 0 ELSE f[Picked(s)] + g[s \ {Picked(s)}]]

(* The same for the subsets of at most n elements.                         *)
UpTo(S, n) == {s \in SUBSET S : Cardinality(s) <= n}
Solves(g, f, S, n) ==
  /\ g \in [UpTo(S, n) -> Nat]
  /\ \A s \in UpTo(S, n) : g[s] = IF s = {} THEN 0 ELSE f[Picked(s)] + g[s \ {Picked(s)}]

-----------------------------------------------------------------------------
(* A set of numbers that is not empty has a least one.                     *)
LEMMA Least ==
  ASSUME NEW S, S \subseteq Nat, S # {}
  PROVE  \E i \in S : \A j \in S : i <= j
<1> DEFINE R == {ss \in Nat \X Nat : ss[1] < ss[2]}
<1>1. IsWellFoundedOn(R, Nat)
  BY NatLessThanWellFounded, Zenon DEF OpToRel
<1>2. \A j, i \in Nat : j < i => <<j, i>> \in R
  OBVIOUS
<1> HIDE DEF R
<1>3. PICK i \in S : \A j \in S : ~ (<<j, i>> \in R)
  BY <1>1, WFMin, Zenon
<1>4. \A j \in S : ~ (j < i)
  BY <1>2, <1>3, Zenon
<1> QED
  BY <1>4

(* A set of numbers with 0 and every successor has all of them.            *)
LEMMA AllNumbers ==
  ASSUME NEW A, 0 \in A, \A n \in Nat : n \in A => n + 1 \in A
  PROVE  \A n \in Nat : n \in A
<1> SUFFICES ASSUME Nat \ A # {} PROVE FALSE
  OBVIOUS
<1>1. PICK i \in Nat \ A : \A j \in Nat \ A : i <= j
  <2> DEFINE S == Nat \ A
  <2>1. S \subseteq Nat /\ S # {}
    OBVIOUS
  <2> HIDE DEF S
  <2>2. \E i \in S : \A j \in S : i <= j
    BY <2>1, Least
  <2> QED
    BY <2>2 DEF S
<1>2. i # 0 /\ i - 1 \in Nat /\ i - 1 < i /\ (i - 1) + 1 = i
  BY <1>1
<1>3. i - 1 \in A
  BY <1>1, <1>2
<1> QED
  BY <1>1, <1>2, <1>3

(* The size of a set from which something is taken.                        *)
LEMMA Smaller ==
  ASSUME NEW S, IsFiniteSet(S), NEW x \in S
  PROVE  /\ IsFiniteSet(S \ {x}) /\ Cardinality(S) \in Nat /\ Cardinality(S \ {x}) \in Nat
         /\ Cardinality(S) = Cardinality(S \ {x}) + 1
<1>1. /\ IsFiniteSet(S \ {x})
      /\ Cardinality(S \ {x}) = IF x \in S THEN Cardinality(S) - 1 ELSE Cardinality(S)
  BY FS_RemoveElement
<1>2. Cardinality(S) \in Nat /\ Cardinality(S \ {x}) \in Nat
  BY <1>1, FS_CardinalityType
<1> QED
  BY <1>1, <1>2

LEMMA Empty0 ==
  ASSUME NEW S, IsFiniteSet(S)
  PROVE  Cardinality(S) \in Nat /\ (Cardinality(S) = 0 <=> S = {})
BY FS_CardinalityType, FS_EmptySet

LEMMA Fewer ==
  ASSUME NEW S, IsFiniteSet(S), NEW T, T \subseteq S, NEW x \in S, x \notin T
  PROVE  /\ IsFiniteSet(T) /\ Cardinality(S) \in Nat /\ Cardinality(T) \in Nat
         /\ Cardinality(T) < Cardinality(S)
<1>1. IsFiniteSet(T) /\ Cardinality(T) <= Cardinality(S) /\ Cardinality(T) # Cardinality(S)
  BY FS_Subset
<1> QED
  BY <1>1, FS_CardinalityType

-----------------------------------------------------------------------------
(* The numbers of a set above one of them.                                 *)
Above(S, x) == {y \in S : y > x}
LEMMA AboveSize ==
  ASSUME NEW S, S \subseteq Nat, IsFiniteSet(S), NEW x
  PROVE  IsFiniteSet(Above(S, x)) /\ Cardinality(Above(S, x)) \in Nat
BY FS_Subset, FS_CardinalityType DEF Above

LEMMA AboveLess ==
  ASSUME NEW S, S \subseteq Nat, IsFiniteSet(S), NEW x \in S, NEW y \in S, x < y
  PROVE  /\ Above(S, y) \subseteq Above(S, x) /\ y \in Above(S, x) /\ y \notin Above(S, y)
         /\ Cardinality(Above(S, x)) \in Nat /\ Cardinality(Above(S, y)) \in Nat
         /\ Cardinality(Above(S, y)) < Cardinality(Above(S, x))
<1>1. ASSUME NEW z \in Above(S, y) PROVE z \in Above(S, x)
  <2>1. z \in S /\ z > y /\ x \in Nat /\ y \in Nat /\ z \in Nat
    BY <1>1 DEF Above
  <2> QED
    BY <2>1 DEF Above
<1>2. y \in Above(S, x) /\ y \notin Above(S, y)
  <2>1. x \in Nat /\ y \in Nat /\ y > x /\ ~(y > y)
    OBVIOUS
  <2> QED
    BY <2>1 DEF Above
<1> QED
  BY <1>1, <1>2, AboveSize, Fewer

(* A finite set has a greatest number: the one with the fewest above it.   *)
LEMMA Greatest ==
  ASSUME NEW S, S \subseteq Nat, S # {}, IsFiniteSet(S)
  PROVE  \E x \in S : \A y \in S : y <= x
<1> DEFINE counts == {Cardinality(Above(S, x)) : x \in S}
<1>1. counts \subseteq Nat /\ counts # {}
  BY AboveSize
<1>2. PICK c \in counts : \A d \in counts : c <= d
  BY <1>1, Least
<1>3. PICK x \in S : \A y \in S : Cardinality(Above(S, x)) <= Cardinality(Above(S, y))
  BY <1>2
<1>4. ASSUME NEW y \in S, y > x PROVE FALSE
  <2>1. /\ Cardinality(Above(S, y)) < Cardinality(Above(S, x))
        /\ Cardinality(Above(S, y)) \in Nat /\ Cardinality(Above(S, x)) \in Nat
    BY <1>4, AboveLess
  <2>2. Cardinality(Above(S, x)) <= Cardinality(Above(S, y))
    BY <1>3
  <2> QED
    BY <2>1, <2>2
<1> QED
  BY <1>4

(* The greatest n numbers of a set are n, if there are so many.            *)
Top(S, n) == {x \in S : Cardinality(Above(S, x)) < n}
LEMMA TopSize ==
  ASSUME NEW S, S \subseteq Nat, IsFiniteSet(S), NEW n \in Nat, n <= Cardinality(S)
  PROVE  IsFiniteSet(Top(S, n)) /\ Cardinality(Top(S, n)) = n
<1> DEFINE A == {k \in Nat : k <= Cardinality(S) => Cardinality(Top(S, k)) = k}
<1>0. Cardinality(S) \in Nat
  BY FS_CardinalityType
<1>1. \A k : IsFiniteSet(Top(S, k)) /\ Top(S, k) \subseteq S /\ Cardinality(Top(S, k)) \in Nat
  BY FS_Subset, FS_CardinalityType DEF Top
<1>2. 0 \in A
  <2>1. ASSUME NEW x \in S PROVE ~(Cardinality(Above(S, x)) < 0)
    <3>1. Cardinality(Above(S, x)) \in Nat
      BY AboveSize
    <3> QED
      BY <3>1
  <2>2. Top(S, 0) = {}
    BY <2>1 DEF Top
  <2> QED
    BY <2>2, FS_EmptySet
<1>3. ASSUME NEW k \in Nat, k \in A PROVE k + 1 \in A
  <2> SUFFICES ASSUME k + 1 <= Cardinality(S) PROVE Cardinality(Top(S, k + 1)) = k + 1
    OBVIOUS
  <2> DEFINE rest == S \ Top(S, k)
  <2>1. Cardinality(Top(S, k)) = k
    BY <1>0, <1>3
  <2>2. rest # {}
    BY <1>0, <1>1, <2>1
  <2>3. IsFiniteSet(rest) /\ rest \subseteq Nat
    BY FS_Difference, FS_Subset
  <2> HIDE DEF A, rest
  <2>4. PICK x \in rest : \A y \in rest : y <= x
    BY <2>2, <2>3, Greatest
  <2>5. x \in S /\ x \notin Top(S, k)
    BY <2>4 DEF rest
  <2>6. Above(S, x) = Top(S, k)
    <3>1. ASSUME NEW y \in Above(S, x) PROVE y \in Top(S, k)
      <4>1. y \in S /\ y > x
        BY <3>1 DEF Above
      <4> QED
        BY <2>4, <2>5, <4>1 DEF rest
    <3>2. ASSUME NEW y \in Top(S, k) PROVE y \in Above(S, x)
      <4>1. y \in S /\ Cardinality(Above(S, y)) < k /\ ~(Cardinality(Above(S, x)) < k) /\ x # y
        BY <2>5, <3>2 DEF Top
      <4>2. ~(x > y)
        <5> SUFFICES ASSUME x > y PROVE FALSE
          OBVIOUS
        <5>1. /\ Cardinality(Above(S, x)) \in Nat /\ Cardinality(Above(S, y)) \in Nat
              /\ Cardinality(Above(S, x)) < Cardinality(Above(S, y))
          BY <2>5, <4>1, AboveLess
        <5> QED
          BY <4>1, <5>1
      <4> QED
        BY <2>5, <4>1, <4>2 DEF Above
    <3> QED
      BY <3>1, <3>2
  <2>7. Top(S, k + 1) = Top(S, k) \cup {x}
    <3>1. Cardinality(Above(S, x)) = k
      BY <2>1, <2>6
    <3>2. ASSUME NEW y \in S, y # x, y \notin Top(S, k) PROVE y \notin Top(S, k + 1)
      <4>1. x > y
        BY <2>4, <2>5, <3>2 DEF rest
      <4>2. Cardinality(Above(S, x)) < Cardinality(Above(S, y)) /\ Cardinality(Above(S, y)) \in Nat
        BY <2>5, <4>1, AboveLess
      <4>3. ~(Cardinality(Above(S, y)) < k + 1)
        BY <3>1, <4>2
      <4> QED
        BY <4>3 DEF Top
    <3>3. ASSUME NEW y \in Top(S, k) PROVE y \in Top(S, k + 1)
      <4>1. y \in S /\ Cardinality(Above(S, y)) < k /\ Cardinality(Above(S, y)) \in Nat
        BY <3>3, AboveSize DEF Top
      <4> QED
        BY <4>1 DEF Top
    <3>4. x \in Top(S, k + 1)
      BY <2>5, <3>1 DEF Top
    <3>5. Top(S, k + 1) \subseteq S
      BY DEF Top
    <3> QED
      BY <3>2, <3>3, <3>4, <3>5
  <2> QED
    <3>1. Cardinality(Top(S, k) \cup {x}) = Cardinality(Top(S, k)) + 1
      BY <1>1, <2>5, FS_AddElement
    <3> QED
      BY <2>1, <2>7, <3>1
<1> HIDE DEF A
<1>4. n \in A
  BY <1>2, <1>3, AllNumbers
<1> QED
  BY <1>1, <1>4 DEF A

-----------------------------------------------------------------------------
LEMMA PickedIn == ASSUME NEW s, s # {} PROVE Picked(s) \in s
BY DEF Picked

-----------------------------------------------------------------------------
(* The recursive function exists, and there is only one.                   *)
LEMMA Solvable ==
  ASSUME NEW S, IsFiniteSet(S), NEW f, \A x \in S : f[x] \in Nat, NEW n \in Nat
  PROVE  \E g : Solves(g, f, S, n)
<1> DEFINE A == {k \in Nat : \E g : Solves(g, f, S, k)}
<1>0. \A s \in SUBSET S : IsFiniteSet(s) /\ Cardinality(s) \in Nat
  BY FS_Subset, FS_CardinalityType
<1>1. 0 \in A
  <2> DEFINE g == [s \in UpTo(S, 0) |-> 0]
  <2>1. \A s \in UpTo(S, 0) : s = {}
    BY <1>0, Empty0 DEF UpTo
  <2>2. Solves(g, f, S, 0)
    BY <2>1 DEF Solves
  <2> QED
    BY <2>2
<1>2. ASSUME NEW k \in Nat, k \in A PROVE k + 1 \in A
  <2>1. PICK g : Solves(g, f, S, k)
    BY <1>2
  <2> DEFINE h == [s \in UpTo(S, k + 1) |->
                     IF s = {} THEN 0 ELSE f[Picked(s)] + g[s \ {Picked(s)}]]
  <2>2. \A s \in UpTo(S, k + 1) : s # {} => s \ {Picked(s)} \in UpTo(S, k)
    BY <1>0, Smaller, PickedIn DEF UpTo
  <2>3. UpTo(S, k) \subseteq UpTo(S, k + 1)
    BY <1>0 DEF UpTo
  <2>4. \A s \in UpTo(S, k) : h[s] = g[s]
    BY <2>1, <2>3 DEF Solves
  <2>5. \A s \in UpTo(S, k + 1) : s # {} => f[Picked(s)] \in Nat
    BY PickedIn DEF UpTo
  <2>6. h \in [UpTo(S, k + 1) -> Nat]
    BY <2>1, <2>2, <2>5 DEF Solves
  <2>7. \A s \in UpTo(S, k + 1) : h[s] = IF s = {} THEN 0 ELSE f[Picked(s)] + h[s \ {Picked(s)}]
    BY <2>2, <2>4
  <2>8. Solves(h, f, S, k + 1)
    <3> HIDE DEF h
    <3> QED
      BY <2>6, <2>7 DEF Solves
  <2> QED
    BY <2>8
<1> HIDE DEF A
<1>3. n \in A
  BY <1>1, <1>2, AllNumbers
<1> QED
  BY <1>3 DEF A

LEMMA OnlyOne ==
  ASSUME NEW S, IsFiniteSet(S), NEW f, NEW g, NEW h, Unfolds(g, f, S), Unfolds(h, f, S)
  PROVE  g = h
<1> DEFINE A == {k \in Nat : \A s \in SUBSET S : Cardinality(s) = k => g[s] = h[s]}
<1>0. \A s \in SUBSET S : IsFiniteSet(s) /\ Cardinality(s) \in Nat
  BY FS_Subset, FS_CardinalityType
<1>1. \A s \in SUBSET S :
        /\ g[s] = IF s = {} THEN 0 ELSE f[Picked(s)] + g[s \ {Picked(s)}]
        /\ h[s] = IF s = {} THEN 0 ELSE f[Picked(s)] + h[s \ {Picked(s)}]
  BY DEF Unfolds
<1>2. 0 \in A
  BY <1>0, <1>1, Empty0
<1>3. ASSUME NEW k \in Nat, k \in A PROVE k + 1 \in A
  <2> SUFFICES ASSUME NEW s \in SUBSET S, Cardinality(s) = k + 1 PROVE g[s] = h[s]
    OBVIOUS
  <2>1. s # {}
    BY <1>0, Empty0
  <2>2. /\ s \ {Picked(s)} \in SUBSET S
        /\ Cardinality(s \ {Picked(s)}) = k
    BY <1>0, <2>1, Smaller, PickedIn
  <2>3. g[s \ {Picked(s)}] = h[s \ {Picked(s)}]
    BY <1>3, <2>2
  <2> QED
    BY <1>1, <2>1, <2>3
<1> HIDE DEF A
<1>4. \A k \in Nat : k \in A
  BY <1>2, <1>3, AllNumbers
<1>5. \A s \in SUBSET S : g[s] = h[s]
  BY <1>0, <1>4 DEF A
<1> QED
  BY <1>5 DEF Unfolds

(* So the sum over S is that function, taken at S.                         *)
LEMMA SumUnfolds ==
  ASSUME NEW S, IsFiniteSet(S), NEW f, NEW g, Unfolds(g, f, S)
  PROVE  SumFunctionOnSet(f, S) = g[S]
<1>1. SumFunctionOnSet(f, S) = (CHOOSE h : Unfolds(h, f, S))[S]
  BY Zenon DEF SumFunctionOnSet, FoldFunctionOnSet, MapThenFoldSet, Unfolds, Picked
<1>2. Unfolds(CHOOSE h : Unfolds(h, f, S), f, S)
  OBVIOUS
<1>3. (CHOOSE h : Unfolds(h, f, S)) = g
  BY <1>2, OnlyOne
<1> QED
  BY <1>1, <1>3

Tabulates(g, f, S) ==
  /\ g \in [SUBSET S -> Nat] /\ Unfolds(g, f, S)
  /\ \A T \in SUBSET S : SumFunctionOnSet(f, T) = g[T]
LEMMA SumTable ==
  ASSUME NEW S, IsFiniteSet(S), NEW f, \A x \in S : f[x] \in Nat
  PROVE  \E g : Tabulates(g, f, S)
<1>0. Cardinality(S) \in Nat
  BY FS_CardinalityType
<1>1. PICK g : Solves(g, f, S, Cardinality(S))
  BY <1>0, Solvable
<1>2. UpTo(S, Cardinality(S)) = SUBSET S
  BY FS_Subset DEF UpTo
<1>3. g \in [SUBSET S -> Nat]
  BY <1>1, <1>2 DEF Solves
<1>4. \A s \in SUBSET S : g[s] = IF s = {} THEN 0 ELSE f[Picked(s)] + g[s \ {Picked(s)}]
  BY <1>1, <1>2 DEF Solves
<1>5. Unfolds(g, f, S)
  BY <1>3, <1>4 DEF Unfolds
<1>6. ASSUME NEW T \in SUBSET S PROVE SumFunctionOnSet(f, T) = g[T]
  <2> DEFINE h == [s \in SUBSET T |-> g[s]]
  <2>1. IsFiniteSet(T)
    BY FS_Subset
  <2>2. \A s \in SUBSET T : h[s] = IF s = {} THEN 0 ELSE f[Picked(s)] + h[s \ {Picked(s)}]
    BY <1>4
  <2>3. Unfolds(h, f, T)
    <3>1. h = [s \in SUBSET T |-> h[s]]
      OBVIOUS
    <3> HIDE DEF h
    <3> QED
      BY <2>2, <3>1 DEF Unfolds
  <2>4. h[T] = g[T]
    OBVIOUS
  <2> HIDE DEF h
  <2> QED
    BY <2>1, <2>3, <2>4, SumUnfolds
<1> QED
  BY <1>3, <1>5, <1>6 DEF Tabulates

-----------------------------------------------------------------------------
(* What a sum is: a number, nothing for the empty set, and for any element *)
(* of a set its value more than for the rest.                              *)
LEMMA SumType ==
  ASSUME NEW S, IsFiniteSet(S), NEW f, \A x \in S : f[x] \in Nat
  PROVE  SumFunctionOnSet(f, S) \in Nat
<1>1. PICK g : Tabulates(g, f, S)
  BY SumTable
<1> QED
  BY <1>1 DEF Tabulates

LEMMA SumEmpty == ASSUME NEW f PROVE SumFunctionOnSet(f, {}) = 0
<1>1. PICK g : Tabulates(g, f, {})
  BY SumTable, FS_EmptySet
<1>2. g[{}] = 0
  BY <1>1 DEF Tabulates, Unfolds
<1> QED
  BY <1>1, <1>2 DEF Tabulates

LEMMA SumPicked ==
  ASSUME NEW S, IsFiniteSet(S), S # {}, NEW f, \A x \in S : f[x] \in Nat
  PROVE  SumFunctionOnSet(f, S) = f[Picked(S)] + SumFunctionOnSet(f, S \ {Picked(S)})
<1>1. PICK g : Tabulates(g, f, S)
  BY SumTable
<1>2. g[S] = f[Picked(S)] + g[S \ {Picked(S)}]
  BY <1>1 DEF Unfolds, Tabulates
<1> QED
  BY <1>1, <1>2 DEF Tabulates

LEMMA SumWithout ==
  ASSUME NEW S, IsFiniteSet(S), NEW f, \A x \in S : f[x] \in Nat, NEW y \in S
  PROVE  SumFunctionOnSet(f, S) = f[y] + SumFunctionOnSet(f, S \ {y})
<1> DEFINE A == {k \in Nat : \A s \in SUBSET S : Cardinality(s) = k =>
                   \A x \in s : SumFunctionOnSet(f, s) = f[x] + SumFunctionOnSet(f, s \ {x})}
<1>0. \A s \in SUBSET S : IsFiniteSet(s) /\ Cardinality(s) \in Nat
  BY FS_Subset, FS_CardinalityType
<1>1. \A s \in SUBSET S : SumFunctionOnSet(f, s) \in Nat
  BY <1>0, SumType
<1>2. 0 \in A
  BY <1>0, Empty0
<1>3. ASSUME NEW k \in Nat, k \in A PROVE k + 1 \in A
  <2> SUFFICES ASSUME NEW s \in SUBSET S, Cardinality(s) = k + 1, NEW x \in s
               PROVE SumFunctionOnSet(f, s) = f[x] + SumFunctionOnSet(f, s \ {x})
    OBVIOUS
  <2> DEFINE c == Picked(s)
  <2>1. c \in s
    BY PickedIn
  <2>2. SumFunctionOnSet(f, s) = f[c] + SumFunctionOnSet(f, s \ {c})
    BY <1>0, SumPicked
  <2> HIDE DEF c
  <2>3. CASE x = c
    BY <2>2, <2>3
  <2>4. CASE x # c
    <3>1. /\ s \ {c} \in SUBSET S /\ Cardinality(s \ {c}) = k /\ x \in s \ {c}
          /\ s \ {x} \in SUBSET S /\ Cardinality(s \ {x}) = k /\ c \in s \ {x}
      BY <1>0, <2>1, <2>4, Smaller
    <3>2. SumFunctionOnSet(f, s \ {c}) = f[x] + SumFunctionOnSet(f, (s \ {c}) \ {x})
      BY <1>3, <3>1
    <3>3. SumFunctionOnSet(f, s \ {x}) = f[c] + SumFunctionOnSet(f, (s \ {x}) \ {c})
      BY <1>3, <3>1
    <3>4. (s \ {c}) \ {x} = (s \ {x}) \ {c} /\ (s \ {x}) \ {c} \in SUBSET S
      OBVIOUS
    <3>5. SumFunctionOnSet(f, (s \ {x}) \ {c}) \in Nat /\ f[x] \in Nat /\ f[c] \in Nat
      BY <1>1, <2>1, <3>4
    <3> QED
      BY <2>2, <3>2, <3>3, <3>4, <3>5
  <2> QED
    BY <2>3, <2>4
<1> HIDE DEF A
<1>4. \A k \in Nat : k \in A
  BY <1>2, <1>3, AllNumbers
<1>5. Cardinality(S) \in A
  BY <1>0, <1>4
<1> QED
  BY <1>5 DEF A

(* The same, for an element that is added.                                 *)
LEMMA SumWith ==
  ASSUME NEW S, IsFiniteSet(S), NEW y, y \notin S, NEW f, \A x \in S \cup {y} : f[x] \in Nat
  PROVE  /\ IsFiniteSet(S \cup {y})
         /\ SumFunctionOnSet(f, S \cup {y}) = f[y] + SumFunctionOnSet(f, S)
<1>1. IsFiniteSet(S \cup {y}) /\ (S \cup {y}) \ {y} = S
  BY FS_AddElement
<1> QED
  BY <1>1, SumWithout

-----------------------------------------------------------------------------
(* More summands, or larger ones, make a larger sum.                       *)
LEMMA SumAtMost ==
  ASSUME NEW S, IsFiniteSet(S), NEW f, \A x \in S : f[x] \in Nat,
         NEW T \in SUBSET S, NEW g, \A x \in T : g[x] \in Nat /\ g[x] <= f[x]
  PROVE  SumFunctionOnSet(g, T) <= SumFunctionOnSet(f, S)
<1> DEFINE A == {k \in Nat : \A s \in SUBSET S : Cardinality(s) = k =>
                   SumFunctionOnSet(g, T \cap s) <= SumFunctionOnSet(f, s)}
<1>0. \A s \in SUBSET S : /\ IsFiniteSet(s) /\ Cardinality(s) \in Nat
                          /\ IsFiniteSet(T \cap s) /\ T \cap s \in SUBSET S
  BY FS_Subset, FS_CardinalityType
<1>1. \A s \in SUBSET S : SumFunctionOnSet(f, s) \in Nat
  BY <1>0, SumType
<1>2. \A s \in SUBSET S : SumFunctionOnSet(g, T \cap s) \in Nat
  BY <1>0, SumType
<1>3. 0 \in A
  <2>1. SumFunctionOnSet(g, {}) = 0 /\ SumFunctionOnSet(f, {}) = 0
    BY SumEmpty
  <2>2. \A s \in SUBSET S : Cardinality(s) = 0 => s = {} /\ T \cap s = {}
    BY <1>0, Empty0
  <2> QED
    BY <2>1, <2>2
<1>4. ASSUME NEW k \in Nat, k \in A PROVE k + 1 \in A
  <2> SUFFICES ASSUME NEW s \in SUBSET S, Cardinality(s) = k + 1
               PROVE SumFunctionOnSet(g, T \cap s) <= SumFunctionOnSet(f, s)
    OBVIOUS
  <2>1. PICK x : x \in s
    BY <1>0, Empty0
  <2>2. s \ {x} \in SUBSET S /\ Cardinality(s \ {x}) = k
    <3>1. /\ Cardinality(s) \in Nat /\ Cardinality(s \ {x}) \in Nat
          /\ Cardinality(s) = Cardinality(s \ {x}) + 1
      BY <1>0, <2>1, Smaller
    <3> QED
      BY <3>1
  <2>3. SumFunctionOnSet(g, T \cap (s \ {x})) <= SumFunctionOnSet(f, s \ {x})
    BY <1>4, <2>2
  <2>4. SumFunctionOnSet(f, s) = f[x] + SumFunctionOnSet(f, s \ {x}) /\ f[x] \in Nat
    BY <1>0, <2>1, SumWithout
  <2>5. CASE x \in T
    <3>1. x \in T \cap s /\ (T \cap s) \ {x} = T \cap (s \ {x})
      BY <2>1, <2>5
    <3>2. SumFunctionOnSet(g, T \cap s) = g[x] + SumFunctionOnSet(g, (T \cap s) \ {x})
      BY <1>0, <3>1, SumWithout
    <3>3. g[x] \in Nat /\ f[x] \in Nat /\ g[x] <= f[x]
      BY <2>5
    <3>4. SumFunctionOnSet(g, T \cap (s \ {x})) \in Nat /\ SumFunctionOnSet(f, s \ {x}) \in Nat
      BY <1>1, <1>2, <2>2
    <3> HIDE DEF A
    <3>5. SumFunctionOnSet(g, T \cap s) = g[x] + SumFunctionOnSet(g, T \cap (s \ {x}))
      BY <3>1, <3>2
    <3> QED
      BY <2>3, <2>4, <3>3, <3>4, <3>5
  <2>6. CASE x \notin T
    <3>1. T \cap s = T \cap (s \ {x})
      BY <2>6
    <3>2. SumFunctionOnSet(g, T \cap (s \ {x})) \in Nat /\ SumFunctionOnSet(f, s \ {x}) \in Nat
      BY <1>1, <1>2, <2>2
    <3> QED
      BY <2>3, <2>4, <3>1, <3>2
  <2> QED
    BY <2>5, <2>6
<1> HIDE DEF A
<1>5. \A k \in Nat : k \in A
  BY <1>3, <1>4, AllNumbers
<1>6. Cardinality(S) \in A /\ T \cap S = T
  BY <1>0, <1>5
<1> QED
  BY <1>6 DEF A

(* Only the values on the set count.                                       *)
LEMMA SumSame ==
  ASSUME NEW S, IsFiniteSet(S), NEW f, \A x \in S : f[x] \in Nat, NEW g, \A x \in S : g[x] = f[x]
  PROVE  SumFunctionOnSet(g, S) = SumFunctionOnSet(f, S)
<1>1. \A x \in S : g[x] \in Nat /\ g[x] <= f[x] /\ f[x] <= g[x]
  OBVIOUS
<1>2. SumFunctionOnSet(g, S) <= SumFunctionOnSet(f, S)
  BY <1>1, SumAtMost
<1>3. SumFunctionOnSet(f, S) <= SumFunctionOnSet(g, S)
  BY <1>1, SumAtMost
<1>4. SumFunctionOnSet(f, S) \in Nat /\ SumFunctionOnSet(g, S) \in Nat
  BY <1>1, SumType
<1> QED
  BY <1>2, <1>3, <1>4

(* One value changes.                                                      *)
LEMMA SumChanged ==
  ASSUME NEW S, IsFiniteSet(S), NEW f, \A x \in S : f[x] \in Nat, NEW y \in S,
         NEW g, g[y] \in Nat, \A x \in S \ {y} : g[x] = f[x]
  PROVE  /\ SumFunctionOnSet(g, S) + f[y] = SumFunctionOnSet(f, S) + g[y]
         /\ SumFunctionOnSet(g, S) \in Nat /\ SumFunctionOnSet(f, S) \in Nat
<1> DEFINE T == S \ {y}
<1>0. IsFiniteSet(T) /\ (\A x \in T : f[x] \in Nat) /\ \A x \in S : g[x] \in Nat
  BY FS_RemoveElement
<1>1. SumFunctionOnSet(f, S) = f[y] + SumFunctionOnSet(f, T)
  BY SumWithout
<1>2. SumFunctionOnSet(g, S) = g[y] + SumFunctionOnSet(g, T)
  BY <1>0, SumWithout
<1>3. \A x \in T : g[x] = f[x]
  OBVIOUS
<1> HIDE DEF T
<1>4. SumFunctionOnSet(g, T) = SumFunctionOnSet(f, T) /\ SumFunctionOnSet(f, T) \in Nat
  BY <1>0, <1>3, SumSame, SumType
<1> QED
  BY <1>1, <1>2, <1>4
===============================================================================
