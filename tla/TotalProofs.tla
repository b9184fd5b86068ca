---------------------------- MODULE TotalProofs ----------------------------
(* How a sum over a finite set changes when its set or one of its terms     *)
(* does, for every set and every integer function: the facts the invariants *)
(* about capital, balances and exposures rest on.                           *)
EXTENDS Totals, FiniteSets, FiniteSetTheorems, NaturalsInduction, WellFoundedInduction, TLAPS

Pick(s) == CHOOSE x \in s : TRUE

(* g is the running sum that the fold computes on the sets of D.            *)
FoldsTo(g, f, D) ==
    g = [s \in D |-> IF s = {} THEN 0 ELSE f[Pick(s)] + g[s \ {Pick(s)}]]

LEMMA TotalIsFold ==
    ASSUME NEW f, NEW S
    PROVE  Total(f, S) = (CHOOSE g : FoldsTo(g, f, SUBSET S))[S]
BY Zenon DEF Total, MapThenSumSet, MapThenFoldSet, FoldsTo, Pick

LEMMA Picked ==
    ASSUME NEW s, s # {}
    PROVE  Pick(s) \in s
BY DEF Pick

(* Induction, on a set of numbers.                                          *)
LEMMA AllNumbers ==
    ASSUME NEW T, 0 \in T, \A n \in Nat : n \in T => n + 1 \in T
    PROVE  \A n \in Nat : n \in T
<1> DEFINE U == Nat \ T
<1> SUFFICES ASSUME U # {} PROVE FALSE
  OBVIOUS
<1>1. PICK x \in U : \A y \in U : ~ (<<y, x>> \in OpToRel(<, Nat))
  BY NatLessThanWellFounded, WFMin, Zenon
<1>2. \A y \in U : ~(y < x)
  BY <1>1 DEF OpToRel
<1>3. x \in Nat /\ x # 0
  OBVIOUS
<1>4. x - 1 \in Nat /\ x - 1 < x
  BY <1>3
<1>5. x - 1 \in T
  BY <1>2, <1>4
<1>6. (x - 1) + 1 \in T
  BY <1>4, <1>5
<1> QED
  BY <1>3, <1>6

LEMMA Smaller ==
    ASSUME NEW S, IsFiniteSet(S), NEW s \in SUBSET S, s # {}, NEW x \in s
    PROVE  /\ s \ {x} \in SUBSET S
           /\ IsFiniteSet(s) /\ Cardinality(s) \in Nat \ {0}
           /\ Cardinality(s \ {x}) = Cardinality(s) - 1
<1>1. IsFiniteSet(s)
  BY FS_Subset
<1>2. Cardinality(s) \in Nat /\ Cardinality(s) # 0
  BY <1>1, FS_CardinalityType, FS_EmptySet
<1>3. Cardinality(s \ {x}) = Cardinality(s) - 1
  BY <1>1, FS_RemoveElement
<1> QED
  BY <1>1, <1>2, <1>3

LEMMA FoldExists ==
    ASSUME NEW f, NEW S, IsFiniteSet(S)
    PROVE  \E g : FoldsTo(g, f, SUBSET S)
<1> DEFINE Low(n) == {s \in SUBSET S : Cardinality(s) <= n}
           Body(g, s) == IF s = {} THEN 0 ELSE f[Pick(s)] + g[s \ {Pick(s)}]
           T == {n \in Nat : \E g : g = [s \in Low(n) |-> Body(g, s)]}
<1>1. \A s \in SUBSET S : /\ IsFiniteSet(s) /\ Cardinality(s) \in Nat
                          /\ Cardinality(s) = 0 <=> s = {}
  BY FS_Subset, FS_CardinalityType, FS_EmptySet
<1>2. 0 \in T
  <2> DEFINE g == [s \in Low(0) |-> 0]
  <2>1. \A s \in Low(0) : s = {}
    BY <1>1
  <2>2. g = [s \in Low(0) |-> Body(g, s)]
    BY <2>1
  <2> QED
    BY <2>2
<1>3. ASSUME NEW n \in Nat, n \in T PROVE n + 1 \in T
  <2>1. PICK g : g = [s \in Low(n) |-> Body(g, s)]
    BY <1>3
  <2> DEFINE h == [s \in Low(n + 1) |-> Body(g, s)]
  <2>2. \A s \in Low(n) : g[s] = Body(g, s)
    BY <2>1
  <2>3. Low(n) \subseteq Low(n + 1)
    BY <1>1
  <2>4. \A s \in Low(n) : h[s] = g[s]
    BY <2>2, <2>3
  <2>5. ASSUME NEW s \in Low(n + 1), s # {} PROVE s \ {Pick(s)} \in Low(n)
    <3>1. Pick(s) \in s
      BY <2>5, Picked
    <3>2. /\ s \ {Pick(s)} \in SUBSET S
          /\ Cardinality(s) \in Nat
          /\ Cardinality(s \ {Pick(s)}) = Cardinality(s) - 1
      BY <2>5, <3>1, Smaller
    <3> QED
      BY <3>2
  <2>6. \A s \in Low(n + 1) : h[s] = Body(h, s)
    <3> SUFFICES ASSUME NEW s \in Low(n + 1) PROVE h[s] = Body(h, s)
      OBVIOUS
    <3>1. h[s] = Body(g, s)
      OBVIOUS
    <3>2. CASE s = {}
      BY <3>1, <3>2
    <3>3. CASE s # {}
      <4>1. h[s \ {Pick(s)}] = g[s \ {Pick(s)}]
        BY <2>4, <2>5, <3>3
      <4> QED
        BY <3>1, <4>1
    <3> QED
      BY <3>2, <3>3
  <2>7. h = [s \in Low(n + 1) |-> Body(h, s)]
    BY <2>6
  <2>8. \E k : k = [s \in Low(n + 1) |-> Body(k, s)]
    <3> HIDE DEF h
    <3> QED
      BY <2>7
  <2>9. n + 1 \in Nat
    OBVIOUS
  <2> HIDE DEF Body, Low, h
  <2> QED
    BY <2>8, <2>9, Zenon
<1> HIDE DEF T
<1>4. Cardinality(S) \in T
  <2>1. \A n \in Nat : n \in T
    BY <1>2, <1>3, AllNumbers
  <2> QED
    BY <2>1, FS_CardinalityType
<1>5. Low(Cardinality(S)) = SUBSET S
  BY FS_Subset
<1> QED
  BY <1>4, <1>5 DEF T, FoldsTo


LEMMA Unfolds ==
    ASSUME NEW f, NEW S, NEW g, FoldsTo(g, f, SUBSET S), NEW s \in SUBSET S
    PROVE  /\ s = {} => g[s] = 0
           /\ s # {} => g[s] = f[Pick(s)] + g[s \ {Pick(s)}]
BY DEF FoldsTo

(* Two sums whose terms agree on U agree on its parts.                      *)
LEMMA FoldsAgree ==
    ASSUME NEW f, NEW e, NEW S, NEW V, NEW g, NEW h, NEW U,
           IsFiniteSet(U), U \subseteq S, U \subseteq V,
           FoldsTo(g, f, SUBSET S), FoldsTo(h, e, SUBSET V),
           \A x \in U : f[x] = e[x]
    PROVE  g[U] = h[U]
<1> DEFINE T == {n \in Nat : \A s \in SUBSET U : Cardinality(s) = n => g[s] = h[s]}
<1>1. 0 \in T
  <2>1. ASSUME NEW s \in SUBSET U, Cardinality(s) = 0 PROVE g[s] = h[s]
    <3>1. s = {}
      BY <2>1, FS_Subset, FS_EmptySet
    <3> QED
      BY <3>1, Unfolds
  <2> QED
    BY <2>1
<1>2. ASSUME NEW n \in Nat, n \in T PROVE n + 1 \in T
  <2>1. ASSUME NEW s \in SUBSET U, Cardinality(s) = n + 1 PROVE g[s] = h[s]
    <3>1. s # {}
      BY <2>1, FS_EmptySet
    <3>2. Pick(s) \in s
      BY <3>1, Picked
    <3>3. s \ {Pick(s)} \in SUBSET U /\ Cardinality(s \ {Pick(s)}) = n
      BY <2>1, <3>1, <3>2, Smaller
    <3>4. g[s \ {Pick(s)}] = h[s \ {Pick(s)}]
      BY <1>2, <3>3
    <3>5. s \in SUBSET S /\ s \in SUBSET V /\ f[Pick(s)] = e[Pick(s)]
      BY <3>2
    <3>6. g[s] = f[Pick(s)] + g[s \ {Pick(s)}] /\ h[s] = e[Pick(s)] + h[s \ {Pick(s)}]
      BY <3>1, <3>5, Unfolds
    <3> QED
      BY <3>4, <3>5, <3>6
  <2> QED
    BY <2>1
<1> HIDE DEF T
<1>3. Cardinality(U) \in T
  BY <1>1, <1>2, AllNumbers, FS_CardinalityType
<1> QED
  BY <1>3 DEF T

LEMMA Folded ==
    ASSUME NEW f, NEW S, IsFiniteSet(S)
    PROVE  \E g : FoldsTo(g, f, SUBSET S) /\ Total(f, S) = g[S]
<1>1. FoldsTo(CHOOSE g : FoldsTo(g, f, SUBSET S), f, SUBSET S)
  BY FoldExists, Zenon
<1> QED
  BY <1>1, TotalIsFold, Zenon

(* A set of numbers that is not empty has a least one.                      *)
LEMMA Least ==
    ASSUME NEW S \in SUBSET Nat, S # {}
    PROVE  Min(S) \in S /\ \A y \in S : Min(S) <= y
<1>1. PICK x \in S : \A y \in S : ~ (<<y, x>> \in OpToRel(<, Nat))
  BY NatLessThanWellFounded, WFMin, Zenon
<1>2. \A y \in S : ~(y < x)
  BY <1>1 DEF OpToRel
<1>3. \E z \in S : \A y \in S : z =< y
  BY <1>2
<1> QED
  BY <1>3 DEF Min

-----------------------------------------------------------------------------
(* Sums.                                                                    *)

(* Nothing comes to nothing.                                                *)
THEOREM TotalEmpty ==
    ASSUME NEW f PROVE Total(f, {}) = 0
<1>1. PICK g : FoldsTo(g, f, SUBSET {}) /\ Total(f, {}) = g[{}]
  BY Folded, FS_EmptySet
<1> QED
  BY <1>1, Unfolds

(* A sum is that of its terms: only those in the set matter.                *)
THEOREM TotalSame ==
    ASSUME NEW f, NEW e, NEW S, IsFiniteSet(S), \A x \in S : f[x] = e[x]
    PROVE  Total(f, S) = Total(e, S)
<1>1. PICK g : FoldsTo(g, f, SUBSET S) /\ Total(f, S) = g[S]
  BY Folded
<1>2. PICK h : FoldsTo(h, e, SUBSET S) /\ Total(e, S) = h[S]
  BY Folded
<1> QED
  BY <1>1, <1>2, FoldsAgree

LEMMA TotalPick ==
    ASSUME NEW f, NEW S, IsFiniteSet(S), S # {}
    PROVE  Total(f, S) = f[Pick(S)] + Total(f, S \ {Pick(S)})
<1> DEFINE U == S \ {Pick(S)}
<1>1. PICK g : FoldsTo(g, f, SUBSET S) /\ Total(f, S) = g[S]
  BY Folded
<1>2. IsFiniteSet(U) /\ U \subseteq S
  BY FS_RemoveElement
<1>3. PICK h : FoldsTo(h, f, SUBSET U) /\ Total(f, U) = h[U]
  BY <1>2, Folded
<1> HIDE DEF U
<1>4. g[U] = h[U]
  <2>1. /\ IsFiniteSet(U) /\ U \subseteq S /\ U \subseteq U
        /\ FoldsTo(g, f, SUBSET S) /\ FoldsTo(h, f, SUBSET U)
        /\ \A x \in U : f[x] = f[x]
    BY <1>1, <1>2, <1>3
  <2> QED
    BY <2>1, FoldsAgree
<1>5. g[S] = f[Pick(S)] + g[U]
  BY <1>1, Unfolds DEF U
<1> QED
  BY <1>1, <1>3, <1>4, <1>5 DEF U

(* A sum of integers is one.                                                *)
THEOREM TotalInt ==
    ASSUME NEW f, NEW S, IsFiniteSet(S), \A x \in S : f[x] \in Int
    PROVE  Total(f, S) \in Int
<1> DEFINE T == {n \in Nat : \A s \in SUBSET S : Cardinality(s) = n => Total(f, s) \in Int}
<1>1. 0 \in T
  <2>1. ASSUME NEW s \in SUBSET S, Cardinality(s) = 0 PROVE Total(f, s) \in Int
    <3>1. s = {}
      BY <2>1, FS_Subset, FS_EmptySet
    <3> QED
      BY <3>1, TotalEmpty
  <2> QED
    BY <2>1
<1>2. ASSUME NEW n \in Nat, n \in T PROVE n + 1 \in T
  <2>1. ASSUME NEW s \in SUBSET S, Cardinality(s) = n + 1 PROVE Total(f, s) \in Int
    <3>1. s # {}
      BY <2>1, FS_EmptySet
    <3>2. Pick(s) \in s
      BY <3>1, Picked
    <3>3. /\ IsFiniteSet(s)
          /\ s \ {Pick(s)} \in SUBSET S /\ Cardinality(s \ {Pick(s)}) = n
      BY <2>1, <3>1, <3>2, Smaller
    <3>4. Total(f, s \ {Pick(s)}) \in Int
      BY <1>2, <3>3
    <3> QED
      BY <3>1, <3>2, <3>3, <3>4, TotalPick
  <2> QED
    BY <2>1
<1> HIDE DEF T
<1>3. Cardinality(S) \in T
  BY <1>1, <1>2, AllNumbers, FS_CardinalityType
<1> QED
  BY <1>3 DEF T

(* Any term can be taken out first.                                         *)
THEOREM TotalRemove ==
    ASSUME NEW f, NEW S, IsFiniteSet(S), \A x \in S : f[x] \in Int, NEW y \in S
    PROVE  Total(f, S) = f[y] + Total(f, S \ {y})
<1> DEFINE Splits(s) == \A x \in s : Total(f, s) = f[x] + Total(f, s \ {x})
           T == {n \in Nat : \A s \in SUBSET S : Cardinality(s) = n => Splits(s)}
<1>1. 0 \in T
  <2>1. ASSUME NEW s \in SUBSET S, Cardinality(s) = 0 PROVE Splits(s)
    <3>1. s = {}
      BY <2>1, FS_Subset, FS_EmptySet
    <3> QED
      BY <3>1
  <2> QED
    BY <2>1
<1>2. ASSUME NEW n \in Nat, n \in T PROVE n + 1 \in T
  <2>1. ASSUME NEW s \in SUBSET S, Cardinality(s) = n + 1, NEW x \in s
        PROVE  Total(f, s) = f[x] + Total(f, s \ {x})
    <3> DEFINE p == Pick(s)
    <3>1. p \in s /\ IsFiniteSet(s)
      BY Picked, Smaller
    <3>2. Total(f, s) = f[p] + Total(f, s \ {p})
      BY <3>1, TotalPick
    <3> HIDE DEF p
    <3>3. CASE x = p
      BY <3>2, <3>3
    <3>4. CASE x # p
      <4>1. /\ s \ {p} \in SUBSET S /\ Cardinality(s \ {p}) = n /\ x \in s \ {p}
            /\ s \ {x} \in SUBSET S /\ Cardinality(s \ {x}) = n /\ p \in s \ {x}
        BY <2>1, <3>1, <3>4, Smaller
      <4>2. /\ Total(f, s \ {p}) = f[x] + Total(f, (s \ {p}) \ {x})
            /\ Total(f, s \ {x}) = f[p] + Total(f, (s \ {x}) \ {p})
        BY <1>2, <4>1
      <4>3. Total(f, (s \ {p}) \ {x}) = Total(f, (s \ {x}) \ {p})
        <5>1. (s \ {p}) \ {x} = (s \ {x}) \ {p}
          OBVIOUS
        <5> QED
          BY <5>1
      <4>4. Total(f, (s \ {p}) \ {x}) \in Int
        <5>1. IsFiniteSet((s \ {p}) \ {x})
          BY FS_Subset
        <5> QED
          BY <5>1, TotalInt
      <4>5. f[x] \in Int /\ f[p] \in Int
        BY <3>1
      <4> QED
        BY <3>2, <4>2, <4>3, <4>4, <4>5
    <3> QED
      BY <3>3, <3>4
  <2> QED
    BY <2>1
<1> HIDE DEF T
<1>3. Cardinality(S) \in T
  BY <1>1, <1>2, AllNumbers, FS_CardinalityType
<1> QED
  BY <1>3 DEF T

(* A new member adds its term.                                              *)
THEOREM TotalAdd ==
    ASSUME NEW f, NEW S, IsFiniteSet(S), NEW y, y \notin S,
           \A x \in S \cup {y} : f[x] \in Int
    PROVE  Total(f, S \cup {y}) = Total(f, S) + f[y]
<1>1. IsFiniteSet(S \cup {y})
  BY FS_AddElement
<1>2. Total(f, S \cup {y}) = f[y] + Total(f, (S \cup {y}) \ {y})
  BY <1>1, TotalRemove
<1>3. Total(f, (S \cup {y}) \ {y}) = Total(f, S)
  <2>1. (S \cup {y}) \ {y} = S
    OBVIOUS
  <2> QED
    BY <2>1
<1>4. Total(f, S) \in Int /\ f[y] \in Int
  BY TotalInt
<1> QED
  BY <1>2, <1>3, <1>4

(* When one term moves, the sum moves by as much.                           *)
THEOREM TotalMove ==
    ASSUME NEW f, NEW e, NEW S, IsFiniteSet(S), NEW y \in S,
           \A x \in S : f[x] \in Int /\ e[x] \in Int,
           \A x \in S \ {y} : f[x] = e[x]
    PROVE  Total(e, S) = Total(f, S) + e[y] - f[y]
<1>1. IsFiniteSet(S \ {y})
  BY FS_RemoveElement
<1>2. Total(f, S \ {y}) = Total(e, S \ {y})
  BY <1>1, TotalSame
<1>3. Total(f, S) = f[y] + Total(f, S \ {y}) /\ Total(e, S) = e[y] + Total(e, S \ {y})
  BY TotalRemove
<1>4. Total(f, S \ {y}) \in Int /\ f[y] \in Int /\ e[y] \in Int
  BY <1>1, TotalInt
<1> QED
  BY <1>2, <1>3, <1>4

(* A member comes or goes, and the terms of the others stand.               *)
THEOREM TotalEnter ==
    ASSUME NEW f, NEW e, NEW S, IsFiniteSet(S), NEW y, y \notin S,
           \A x \in S : f[x] \in Int /\ e[x] = f[x], e[y] \in Int
    PROVE  Total(e, S \cup {y}) = Total(f, S) + e[y]
<1>1. \A x \in S \cup {y} : e[x] \in Int
  OBVIOUS
<1>2. Total(e, S \cup {y}) = Total(e, S) + e[y]
  BY <1>1, TotalAdd
<1>3. Total(f, S) = Total(e, S)
  BY TotalSame
<1> QED
  BY <1>2, <1>3

THEOREM TotalLeave ==
    ASSUME NEW f, NEW e, NEW S, IsFiniteSet(S), NEW y \in S,
           \A x \in S : f[x] \in Int, \A x \in S \ {y} : e[x] = f[x]
    PROVE  Total(e, S \ {y}) = Total(f, S) - f[y]
<1>1. Total(f, S) = f[y] + Total(f, S \ {y})
  BY TotalRemove
<1>2. IsFiniteSet(S \ {y})
  BY FS_RemoveElement
<1>3. Total(f, S \ {y}) = Total(e, S \ {y})
  BY <1>2, TotalSame
<1>4. Total(f, S \ {y}) \in Int /\ f[y] \in Int
  BY <1>2, TotalInt
<1> QED
  BY <1>1, <1>3, <1>4

(* Both at once: y alone may enter, leave or change.                        *)
THEOREM TotalShift ==
    ASSUME NEW f, NEW e, NEW S, NEW T, NEW y, IsFiniteSet(S), IsFiniteSet(T),
           y \in S => f[y] \in Int, y \in T => e[y] \in Int,
           \A x \in S \cup T : x # y => f[x] \in Int /\ e[x] = f[x],
           \A x \in S \cup T : x # y => (x \in T <=> x \in S)
    PROVE  Total(e, T) = Total(f, S) + (IF y \in T THEN e[y] ELSE 0)
                                     - (IF y \in S THEN f[y] ELSE 0)
<1>1. /\ \A x \in S : f[x] \in Int
      /\ \A x \in T : e[x] \in Int
      /\ \A x \in S \ {y} : e[x] = f[x]
  OBVIOUS
<1>2. Total(f, S) \in Int
  BY <1>1, TotalInt
<1>3. CASE y \in S /\ y \in T
  <2>1. T = S
    BY <1>3
  <2>2. Total(e, S) = Total(f, S) + e[y] - f[y]
    <3>1. \A x \in S : f[x] \in Int /\ e[x] \in Int
      BY <1>1, <2>1
    <3> QED
      BY <1>1, <1>3, <3>1, TotalMove
  <2> QED
    BY <1>2, <1>3, <2>1, <2>2
<1>4. CASE y \in S /\ y \notin T
  <2>1. T = S \ {y}
    BY <1>4
  <2>2. Total(e, S \ {y}) = Total(f, S) - f[y]
    <3>1. \A x \in S : f[x] \in Int
      BY <1>1, <1>4
    <3>2. \A x \in S \ {y} : e[x] = f[x]
      BY <1>1
    <3> QED
      BY <1>4, <3>1, <3>2, TotalLeave
  <2> QED
    BY <1>2, <1>4, <2>1, <2>2
<1>5. CASE y \notin S /\ y \in T
  <2>1. T = S \cup {y}
    BY <1>5
  <2>2. Total(e, S \cup {y}) = Total(f, S) + e[y]
    <3>1. \A x \in S : f[x] \in Int /\ e[x] = f[x]
      BY <1>1, <1>5
    <3> QED
      BY <1>5, <3>1, TotalEnter
  <2> QED
    BY <1>2, <1>5, <2>1, <2>2
<1>6. CASE y \notin S /\ y \notin T
  <2>1. T = S
    BY <1>6
  <2>2. Total(f, S) = Total(e, S)
    <3>1. \A x \in S : f[x] = e[x]
      BY <1>1, <1>6
    <3> QED
      BY <3>1, TotalSame
  <2> QED
    BY <1>2, <1>6, <2>1, <2>2
<1> QED
  BY <1>3, <1>4, <1>5, <1>6

(* Terms that are all nothing come to nothing.                              *)
THEOREM TotalZero ==
    ASSUME NEW f, NEW S, IsFiniteSet(S), \A x \in S : f[x] = 0
    PROVE  Total(f, S) = 0
<1> DEFINE T == {n \in Nat : \A s \in SUBSET S : Cardinality(s) = n => Total(f, s) = 0}
<1>1. 0 \in T
  <2>1. ASSUME NEW s \in SUBSET S, Cardinality(s) = 0 PROVE Total(f, s) = 0
    <3>1. s = {}
      BY <2>1, FS_Subset, FS_EmptySet
    <3> QED
      BY <3>1, TotalEmpty
  <2> QED
    BY <2>1
<1>2. ASSUME NEW n \in Nat, n \in T PROVE n + 1 \in T
  <2>1. ASSUME NEW s \in SUBSET S, Cardinality(s) = n + 1 PROVE Total(f, s) = 0
    <3>1. s # {}
      BY <2>1, FS_EmptySet
    <3>2. Pick(s) \in s
      BY <3>1, Picked
    <3>3. /\ IsFiniteSet(s)
          /\ s \ {Pick(s)} \in SUBSET S /\ Cardinality(s \ {Pick(s)}) = n
      BY <2>1, <3>1, <3>2, Smaller
    <3>4. Total(f, s \ {Pick(s)}) = 0
      BY <1>2, <3>3
    <3> QED
      BY <3>1, <3>2, <3>3, <3>4, TotalPick
  <2> QED
    BY <2>1
<1> HIDE DEF T
<1>3. Cardinality(S) \in T
  BY <1>1, <1>2, AllNumbers, FS_CardinalityType
<1> QED
  BY <1>3 DEF T

(* A sum of natural numbers is one, and is no less than that of a part.     *)
THEOREM TotalNat ==
    ASSUME NEW f, NEW S, IsFiniteSet(S), \A x \in S : f[x] \in Nat
    PROVE  Total(f, S) \in Nat
<1> DEFINE T == {n \in Nat : \A s \in SUBSET S : Cardinality(s) = n => Total(f, s) \in Nat}
<1>1. 0 \in T
  <2>1. ASSUME NEW s \in SUBSET S, Cardinality(s) = 0 PROVE Total(f, s) \in Nat
    <3>1. s = {}
      BY <2>1, FS_Subset, FS_EmptySet
    <3> QED
      BY <3>1, TotalEmpty
  <2> QED
    BY <2>1
<1>2. ASSUME NEW n \in Nat, n \in T PROVE n + 1 \in T
  <2>1. ASSUME NEW s \in SUBSET S, Cardinality(s) = n + 1 PROVE Total(f, s) \in Nat
    <3>1. s # {}
      BY <2>1, FS_EmptySet
    <3>2. Pick(s) \in s
      BY <3>1, Picked
    <3>3. /\ IsFiniteSet(s)
          /\ s \ {Pick(s)} \in SUBSET S /\ Cardinality(s \ {Pick(s)}) = n
      BY <2>1, <3>1, <3>2, Smaller
    <3>4. Total(f, s \ {Pick(s)}) \in Nat
      BY <1>2, <3>3
    <3> QED
      BY <3>1, <3>2, <3>3, <3>4, TotalPick
  <2> QED
    BY <2>1
<1> HIDE DEF T
<1>3. Cardinality(S) \in T
  BY <1>1, <1>2, AllNumbers, FS_CardinalityType
<1> QED
  BY <1>3 DEF T

(* What holds of every term holds of the sum: one k times the other at most. *)
THEOREM TotalScaled ==
    ASSUME NEW f, NEW e, NEW S, IsFiniteSet(S), NEW k \in Nat,
           \A x \in S : f[x] \in Int /\ e[x] \in Int /\ k * f[x] =< e[x]
    PROVE  k * Total(f, S) =< Total(e, S)
<1> DEFINE Below(s) == k * Total(f, s) =< Total(e, s)
           T == {n \in Nat : \A s \in SUBSET S : Cardinality(s) = n => Below(s)}
<1>1. 0 \in T
  <2>1. ASSUME NEW s \in SUBSET S, Cardinality(s) = 0 PROVE Below(s)
    <3>1. s = {}
      BY <2>1, FS_Subset, FS_EmptySet
    <3>2. Total(f, {}) = 0 /\ Total(e, {}) = 0
      BY TotalEmpty
    <3> QED
      BY <3>1, <3>2
  <2> HIDE DEF Below
  <2> QED
    BY <2>1
<1>2. ASSUME NEW n \in Nat, n \in T PROVE n + 1 \in T
  <2>1. ASSUME NEW s \in SUBSET S, Cardinality(s) = n + 1 PROVE Below(s)
    <3>1. s # {}
      BY <2>1, FS_EmptySet
    <3>2. PICK y \in s : y = Pick(s)
      BY <3>1, Picked
    <3>3. /\ IsFiniteSet(s)
          /\ s \ {y} \in SUBSET S /\ Cardinality(s \ {y}) = n
      <4>1. /\ s \ {y} \in SUBSET S /\ IsFiniteSet(s)
            /\ Cardinality(s \ {y}) = Cardinality(s) - 1
        BY <3>1, Smaller
      <4>2. Cardinality(s \ {y}) = n
        BY <2>1, <4>1
      <4> QED
        BY <4>1, <4>2
    <3>4. Below(s \ {y})
      <4> HIDE DEF Below
      <4> QED
        BY <1>2, <3>3
    <3>5. IsFiniteSet(s \ {y})
      BY <3>3, FS_RemoveElement
    <3>6. Total(f, s) = f[y] + Total(f, s \ {y}) /\ Total(e, s) = e[y] + Total(e, s \ {y})
      BY <3>1, <3>2, <3>3, TotalPick
    <3>7. PICK a \in Int, b \in Int : a = Total(f, s \ {y}) /\ b = Total(e, s \ {y})
      BY <3>5, TotalInt
    <3>8. PICK c \in Int, d \in Int : c = f[y] /\ d = e[y] /\ k * c =< d
      OBVIOUS
    <3>9. k * a =< b
      BY <3>4, <3>7
    <3>10. k * (c + a) = k * c + k * a /\ k * c \in Int /\ k * a \in Int
      OBVIOUS
    <3>11. k * (c + a) =< d + b
      BY <3>8, <3>9, <3>10
    <3> QED
      BY <3>6, <3>7, <3>8, <3>11
  <2> HIDE DEF Below
  <2> QED
    BY <2>1
<1> HIDE DEF T
<1>3. Cardinality(S) \in T
  BY <1>1, <1>2, AllNumbers, FS_CardinalityType
<1> QED
  BY <1>3 DEF T

(* A sum is that of a part and that of the rest.                            *)
THEOREM TotalSplit ==
    ASSUME NEW f, NEW S, IsFiniteSet(S), \A x \in S : f[x] \in Int, NEW V \in SUBSET S
    PROVE  Total(f, S) = Total(f, V) + Total(f, S \ V)
<1> DEFINE Splits(s) == Total(f, S) = Total(f, s) + Total(f, S \ s)
           T == {n \in Nat : \A s \in SUBSET S : Cardinality(s) = n => Splits(s)}
<1>1. 0 \in T
  <2>1. ASSUME NEW s \in SUBSET S, Cardinality(s) = 0 PROVE Splits(s)
    <3>1. s = {} /\ S \ s = S
      BY <2>1, FS_Subset, FS_EmptySet
    <3>2. Total(f, {}) = 0 /\ Total(f, S) \in Int
      BY TotalEmpty, TotalInt
    <3> QED
      BY <3>1, <3>2
  <2> HIDE DEF Splits
  <2> QED
    BY <2>1
<1>2. ASSUME NEW n \in Nat, n \in T PROVE n + 1 \in T
  <2>1. ASSUME NEW s \in SUBSET S, Cardinality(s) = n + 1 PROVE Splits(s)
    <3>1. s # {}
      BY <2>1, FS_EmptySet
    <3>2. PICK y \in s : y = Pick(s)
      BY <3>1, Picked
    <3> DEFINE U == s \ {y}
               R == S \ U
    <3>3. /\ IsFiniteSet(s) /\ U \in SUBSET S /\ Cardinality(U) = n
      <4>1. /\ U \in SUBSET S /\ IsFiniteSet(s) /\ Cardinality(U) = Cardinality(s) - 1
        BY <3>1, Smaller
      <4>2. Cardinality(U) = n
        BY <2>1, <4>1
      <4> QED
        BY <4>1, <4>2
    <3>4. Total(f, S) = Total(f, U) + Total(f, R)
      BY <1>2, <3>3
    <3>5. IsFiniteSet(R) /\ y \in R /\ R \ {y} = S \ s /\ R \subseteq S /\ U \subseteq S
      BY <3>3, FS_Subset
    <3>6. IsFiniteSet(U) /\ IsFiniteSet(S \ s)
      BY <3>3, FS_Subset
    <3> HIDE DEF U, R
    <3>7. Total(f, R) = f[y] + Total(f, S \ s)
      <4>1. \A x \in R : f[x] \in Int
        BY <3>5
      <4> QED
        BY <3>5, <4>1, TotalRemove
    <3>8. Total(f, s) = f[y] + Total(f, U)
      BY <3>3, TotalRemove DEF U
    <3>9. /\ Total(f, U) \in Int /\ Total(f, S \ s) \in Int /\ f[y] \in Int
      BY <3>5, <3>6, TotalInt
    <3> QED
      BY <3>4, <3>7, <3>8, <3>9
  <2> HIDE DEF Splits
  <2> QED
    BY <2>1
<1> HIDE DEF T, Splits
<1>3. Cardinality(V) \in T
  BY <1>1, <1>2, AllNumbers, FS_Subset, FS_CardinalityType
<1>4. Splits(V)
  BY <1>3 DEF T
<1> QED
  BY <1>4 DEF Splits

(* What is covered by two sets comes to no more than they do together.      *)
THEOREM TotalCover ==
    ASSUME NEW f, NEW S, NEW U, NEW V, IsFiniteSet(U), IsFiniteSet(V),
           S \subseteq U \cup V, \A x \in U \cup V : f[x] \in Nat
    PROVE  Total(f, S) <= Total(f, U) + Total(f, V)
<1> DEFINE A == S \cap U
           B == S \ U
<1>1. /\ IsFiniteSet(A) /\ IsFiniteSet(B) /\ IsFiniteSet(S)
      /\ IsFiniteSet(U \ A) /\ IsFiniteSet(V \ B)
  <2>1. IsFiniteSet(U \cup V)
    BY FS_Union
  <2> QED
    BY <2>1, FS_Subset
<1>2. /\ A \in SUBSET S /\ A \in SUBSET U /\ B \in SUBSET V /\ S \ A = B
      /\ S \subseteq U \cup V
  OBVIOUS
<1>3. \A x \in U \cup V : f[x] \in Int
  OBVIOUS
<1>4. /\ Total(f, S) = Total(f, A) + Total(f, S \ A)
      /\ Total(f, U) = Total(f, A) + Total(f, U \ A)
      /\ Total(f, V) = Total(f, B) + Total(f, V \ B)
  BY <1>1, <1>2, <1>3, TotalSplit
<1>5. /\ Total(f, A) \in Nat /\ Total(f, B) \in Nat
      /\ Total(f, U \ A) \in Nat /\ Total(f, V \ B) \in Nat
  BY <1>1, <1>2, TotalNat
<1>6. Total(f, S) = Total(f, A) + Total(f, B)
  BY <1>2, <1>4
<1> HIDE DEF A, B
<1>7. PICK a \in Nat, b \in Nat, c \in Nat, d \in Nat :
          /\ a = Total(f, A) /\ b = Total(f, B)
          /\ c = Total(f, U \ A) /\ d = Total(f, V \ B)
  BY <1>5
<1>8. /\ Total(f, S) = a + b
      /\ Total(f, U) = a + c
      /\ Total(f, V) = b + d
  BY <1>4, <1>6, <1>7
<1>9. a + b <= (a + c) + (b + d)
  OBVIOUS
<1> QED
  BY <1>8, <1>9
=============================================================================
