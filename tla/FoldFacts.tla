------------------------------ MODULE FoldFacts ------------------------------
(***************************************************************************)
(* Facts that the proofs share: least elements and induction over sets of  *)
(* natural numbers and over finite sets, and what the folds of the         *)
(* community modules compute, above all sums and products of a function's  *)
(* values over a finite set.                                               *)
(*                                                                         *)
(* Those folds are recursive functions on the subsets of the set, which    *)
(* pick some element at each turn.  That such a function exists is shown   *)
(* by induction on the size of the set; that any other element may be      *)
(* picked instead, when the operation allows it, follows from it.          *)
(***************************************************************************)
EXTENDS Integers, Functions, FiniteSetTheorems, WellFoundedInduction, TLAPS

-----------------------------------------------------------------------------
(* Natural numbers.                                                        *)

Below == {p \in Nat \X Nat : p[1] < p[2]}

\* The order on the naturals is well founded.
LEMMA BelowIsWellFounded == IsWellFoundedOn(Below, Nat)
<1>1. Below = OpToRel(<, Nat)
  BY Zenon DEF Below, OpToRel
<1>2. QED
  BY <1>1, NatLessThanWellFounded

\* Every nonempty set of naturals has a least element.
LEMMA LeastElement ==
  ASSUME NEW T, T \subseteq Nat, T # {}
  PROVE  \E x \in T : \A y \in T : x <= y
<1>1. PICK x \in T : \A y \in T : ~ (<<y, x>> \in Below)
  BY BelowIsWellFounded, WFMin
<1>2. \A m, n \in Nat : <<m, n>> \in Below <=> m < n
  BY DEF Below
<1>3. \A y \in T : x <= y
  <2>1. TAKE y \in T
  <2>2. x \in Nat /\ y \in Nat
    OBVIOUS
  <2>3. ~ (y < x)
    BY <1>1, <1>2, <2>2
  <2>4. QED
    BY <2>2, <2>3
<1>4. QED
  BY <1>3

\* Induction over a set: what holds of 0 and is inherited by successors is
\* all of Nat.
LEMMA SetInduction ==
  ASSUME NEW T, T \subseteq Nat, 0 \in T, \A n \in T : n + 1 \in T
  PROVE  T = Nat
<1>1. SUFFICES ASSUME Nat \ T # {} PROVE FALSE
  OBVIOUS
<1>2. PICK x \in Nat \ T : \A y \in Nat \ T : x <= y
  BY <1>1, LeastElement
<1>3. x # 0
  BY <1>2
<1>4. x - 1 \in Nat /\ x - 1 \in T
  BY <1>2, <1>3
<1>5. (x - 1) + 1 \in T
  BY <1>4
<1>6. QED
  BY <1>2, <1>5

\* A nonempty set of numbers up to n has a greatest element.
LEMMA GreatestElement ==
  ASSUME NEW n \in Nat, NEW T, T \subseteq 1 .. n, T # {}
  PROVE  \E x \in T : \A y \in T : x >= y
<1> DEFINE D == {n - x : x \in T}
<1>1. D \subseteq Nat /\ D # {}
  <2>1. \A x \in T : x \in Int /\ 1 <= x /\ x <= n
    OBVIOUS
  <2>2. \A x \in T : n - x \in Nat
    BY <2>1
  <2>3. QED
    BY <2>2
<1>2. PICK d \in D : \A e \in D : d <= e
  <2> HIDE DEF D
  <2>1. QED
    BY <1>1, LeastElement
<1>3. PICK x \in T : d = n - x
  OBVIOUS
<1>4. \A y \in T : n - y \in D /\ n - x <= n - y
  BY <1>2, <1>3
<1>5. QED
  BY <1>4

\* Division truncates.
LEMMA Truncates ==
  ASSUME NEW a \in Nat, NEW b \in Nat \ {0}
  PROVE  /\ a \div b \in Nat
         /\ b * (a \div b) <= a
         /\ a < b * (a \div b) + b
OBVIOUS

\* What is multiplied by a positive number compares as before.
LEMMA Cancels ==
  ASSUME NEW a \in Nat \ {0}, NEW b \in Int, NEW c \in Int, a * b <= a * c
  PROVE  b <= c
OBVIOUS

LEMMA Products ==
  ASSUME NEW a \in Nat, NEW b \in Nat
  PROVE  /\ a * b \in Nat /\ a * b = b * a
         /\ \A c \in Nat : (a * b) * c = a * (b * c) /\ (b <= c => a * b <= a * c)
OBVIOUS

\* Dividing is the greatest or the least number of its kind.
LEMMA DivideBelow ==
  ASSUME NEW a \in Nat, NEW b \in Nat \ {0}, NEW n \in Nat, a <= b * n
  PROVE  a \div b <= n
<1>1. a \div b \in Nat /\ b * (a \div b) <= a
  BY Truncates
<1>2. b * (a \div b) <= b * n
  BY <1>1, Products
<1>3. QED
  BY <1>1, <1>2, Cancels

\* Dividing two parts on their own loses at most one more.
LEMMA DivideParts ==
  ASSUME NEW a \in Nat, NEW b \in Nat, NEW d \in Nat \ {0}
  PROVE  /\ a \div d + b \div d <= (a + b) \div d
         /\ (a + b) \div d <= a \div d + b \div d + 1
<1> DEFINE x == a \div d
           y == b \div d
           z == (a + b) \div d
<1>1. /\ x \in Nat /\ d * x <= a /\ a < d * x + d
      /\ y \in Nat /\ d * y <= b /\ b < d * y + d
      /\ z \in Nat /\ d * z <= a + b /\ a + b < d * z + d
  BY Truncates
<1> HIDE DEF x, y, z
<1>2. d * (x + y) = d * x + d * y /\ d * (z + 1) = d * z + d
      /\ d * (x + y + 2) = d * x + d * y + d + d
  BY <1>1
<1>3. d * x \in Nat /\ d * y \in Nat /\ d * z \in Nat
  BY <1>1
<1>4. d * (x + y) < d * (z + 1) /\ d * z < d * (x + y + 2)
  BY <1>1, <1>2, <1>3
<1>5. x + y < z + 1 /\ z < x + y + 2
  BY <1>1, <1>4
<1>6. QED
  BY <1>1, <1>5 DEF x, y, z

-----------------------------------------------------------------------------
(* Subsets of a finite set.                                                *)

Pick(s) == CHOOSE x \in s : TRUE

\* The subsets of S with at most n elements.
Small(S, n) == {s \in SUBSET S : Cardinality(s) <= n}

\* What a subset without one element is.
LEMMA Without ==
  ASSUME NEW s, IsFiniteSet(s), s # {}, NEW x \in s
  PROVE  /\ Pick(s) \in s
         /\ IsFiniteSet(s \ {x}) /\ Cardinality(s) \in Nat /\ Cardinality(s \ {x}) \in Nat
         /\ Cardinality(s \ {x}) = Cardinality(s) - 1
BY FS_RemoveElement, FS_CardinalityType DEF Pick

\* Induction over a finite set: what holds of the empty set, and of a set when
\* it holds of the set without any one element, holds of every subset.
LEMMA SubsetInduction ==
  ASSUME NEW S, IsFiniteSet(S), NEW T, T \subseteq SUBSET S, {} \in T,
         \A s \in SUBSET S : s # {} /\ (\A x \in s : s \ {x} \in T) => s \in T
  PROVE  \A s \in SUBSET S : s \in T
<1> DEFINE N == {n \in Nat : Small(S, n) \subseteq T}
<1>1. \A s \in SUBSET S : IsFiniteSet(s) /\ Cardinality(s) \in Nat
  BY FS_Subset, FS_CardinalityType
<1>2. 0 \in N
  <2>1. \A s \in Small(S, 0) : s = {}
    BY <1>1, FS_EmptySet DEF Small
  <2>2. QED
    BY <2>1
<1>3. ASSUME NEW n \in N PROVE n + 1 \in N
  <2>1. ASSUME NEW s \in Small(S, n + 1), s # {}, NEW x \in s
        PROVE  s \ {x} \in Small(S, n)
    <3>1. s \in SUBSET S /\ IsFiniteSet(s) /\ Cardinality(s) <= n + 1 /\ n \in Nat
      BY <1>1 DEF Small
    <3>2. Cardinality(s \ {x}) = Cardinality(s) - 1 /\ Cardinality(s) \in Nat
      BY <2>1, <3>1, Without
    <3>3. QED
      BY <3>1, <3>2 DEF Small
  <2>2. ASSUME NEW s \in Small(S, n + 1) PROVE s \in T
    <3>1. s \in SUBSET S
      BY DEF Small
    <3>2. QED
      BY <2>1, <3>1
  <2>3. n + 1 \in Nat
    OBVIOUS
  <2>4. QED
    BY <2>2, <2>3
<1>4. N = Nat
  <2> HIDE DEF N
  <2>1. N \subseteq Nat
    BY DEF N
  <2>2. QED
    BY <1>2, <1>3, <2>1, SetInduction
<1>5. ASSUME NEW s \in SUBSET S PROVE s \in T
  <2>1. s \in Small(S, Cardinality(s)) /\ Cardinality(s) \in N
    BY <1>1, <1>4 DEF Small
  <2>2. QED
    BY <2>1
<1>6. QED
  BY <1>5

-----------------------------------------------------------------------------
(* Folds with an operation that is given as a function.                    *)

\* Operations that take an element of X into an accumulator in Y.
StepsOf(X, Y) == [X \X Y -> Y]

\* The values of f are in X, and c[s] is an element of the subset s of S.
Choosing(f, c, S, X) ==
  (\A x \in S : f[x] \in X) /\ (\A s \in SUBSET S : s # {} => c[s] \in s)

\* What a fold's recursive function on the subsets of S satisfies, when c[s]
\* is the element that it picks from s.
IsFoldBy(op, base, f, c, S, g) ==
  g = [s \in SUBSET S |-> IF s = {} THEN base ELSE op[<<f[c[s]], g[s \ {c[s]}]>>]]

\* There is such a function, and its values are of the operation's type.
LEMMA FoldByExists ==
  ASSUME NEW X, NEW Y, NEW op \in StepsOf(X, Y), NEW base \in Y,
         NEW S, IsFiniteSet(S), NEW f, NEW c,
         Choosing(f, c, S, X)
  PROVE  \E g \in [SUBSET S -> Y] : IsFoldBy(op, base, f, c, S, g)
<1> DEFINE Upto(n, g) == \A s \in Small(S, n) :
                           g[s] = IF s = {} THEN base ELSE op[<<f[c[s]], g[s \ {c[s]}]>>]
           T == {n \in Nat : \E g \in [SUBSET S -> Y] : Upto(n, g)}
<1> USE DEF StepsOf, Choosing
<1>1. \A s \in SUBSET S : IsFiniteSet(s) /\ Cardinality(s) \in Nat
  BY FS_Subset, FS_CardinalityType
<1>2. 0 \in T
  <2>1. [s \in SUBSET S |-> base] \in [SUBSET S -> Y]
    OBVIOUS
  <2>2. \A s \in Small(S, 0) : s = {}
    BY <1>1, FS_EmptySet DEF Small
  <2>3. Upto(0, [s \in SUBSET S |-> base])
    BY <2>2 DEF Small
  <2>4. QED
    BY <2>1, <2>3
<1>3. ASSUME NEW n \in T PROVE n + 1 \in T
  <2>1. PICK g \in [SUBSET S -> Y] : Upto(n, g)
    OBVIOUS
  <2> DEFINE h == [s \in SUBSET S |-> IF s = {} THEN base ELSE IF Cardinality(s) = n + 1
                                        THEN op[<<f[c[s]], g[s \ {c[s]}]>>] ELSE g[s]]
  <2>2. \A s \in SUBSET S : s # {} => c[s] \in s /\ s \ {c[s]} \in SUBSET S
                                /\ f[c[s]] \in X
    OBVIOUS
  <2>3. h \in [SUBSET S -> Y]
    BY <2>2
  <2>4. ASSUME NEW s \in Small(S, n + 1), s # {}
        PROVE  h[s] = op[<<f[c[s]], h[s \ {c[s]}]>>]
    <3>1. s \in SUBSET S /\ Cardinality(s) <= n + 1 /\ IsFiniteSet(s) /\ Cardinality(s) \in Nat
      BY <1>1 DEF Small
    <3>2. /\ c[s] \in s /\ s \ {c[s]} \in SUBSET S
          /\ Cardinality(s \ {c[s]}) = Cardinality(s) - 1
      BY <2>2, <2>4, <3>1, Without
    <3>3. n \in Nat /\ Cardinality(s \ {c[s]}) # n + 1
      BY <3>1, <3>2
    <3>4. h[s \ {c[s]}] = g[s \ {c[s]}]
      <4>1. {} \in Small(S, n)
        BY <3>3, FS_EmptySet DEF Small
      <4>2. g[{}] = base
        BY <2>1, <4>1
      <4>3. QED
        BY <3>2, <3>3, <4>2
    <3>5. CASE Cardinality(s) = n + 1
      BY <2>4, <3>1, <3>4, <3>5
    <3>6. CASE Cardinality(s) # n + 1
      <4>1. s \in Small(S, n)
        BY <3>1, <3>3, <3>6 DEF Small
      <4>2. g[s] = op[<<f[c[s]], g[s \ {c[s]}]>>]
        BY <2>1, <2>4, <4>1
      <4>3. QED
        BY <2>4, <3>1, <3>4, <3>6, <4>2
    <3>7. QED
      BY <3>5, <3>6
  <2>5. Upto(n + 1, h)
    <3>1. h[{}] = base
      OBVIOUS
    <3> HIDE DEF h
    <3>2. QED
      BY <2>4, <3>1
  <2>6. n \in Nat /\ n + 1 \in Nat
    OBVIOUS
  <2> HIDE DEF Upto, h
  <2>7. QED
    BY <2>3, <2>5, <2>6
<1>4. T = Nat
  <2> HIDE DEF T
  <2>1. T \subseteq Nat
    BY DEF T
  <2>2. QED
    BY <1>2, <1>3, <2>1, SetInduction
<1>5. Cardinality(S) \in Nat /\ IsFiniteSet(S)
  BY <1>1
<1>6. PICK g \in [SUBSET S -> Y] : Upto(Cardinality(S), g)
  BY <1>4, <1>5
<1>7. \A s \in SUBSET S : s \in Small(S, Cardinality(S))
  BY FS_Subset DEF Small
<1>8. IsFoldBy(op, base, f, c, S, g)
  BY <1>6, <1>7 DEF IsFoldBy
<1>9. QED
  BY <1>8

-----------------------------------------------------------------------------
(* Folds of natural numbers, which pick elements arbitrarily.              *)

Operations == [Nat \X Nat -> Nat]

IsFold(op, base, f, S, g) ==
  g = [s \in SUBSET S |-> IF s = {} THEN base ELSE op[<<f[Pick(s)], g[s \ {Pick(s)}]>>]]

\* There is such a function, and its values are natural numbers.
LEMMA FoldExists ==
  ASSUME NEW op \in Operations, NEW base \in Nat,
         NEW S, IsFiniteSet(S), NEW f, \A x \in S : f[x] \in Nat
  PROVE  \E g : IsFold(op, base, f, S, g) /\ g \in [SUBSET S -> Nat]
<1> DEFINE c == [s \in SUBSET S |-> Pick(s)]
<1>1. op \in StepsOf(Nat, Nat)
  BY DEF Operations, StepsOf
<1>2. Choosing(f, c, S, Nat)
  BY DEF Pick, Choosing
<1>3. \E g \in [SUBSET S -> Nat] : IsFoldBy(op, base, f, c, S, g)
  <2> HIDE DEF c
  <2>1. QED
    BY <1>1, <1>2, FoldByExists
<1>4. PICK g \in [SUBSET S -> Nat] : IsFoldBy(op, base, f, c, S, g)
  BY <1>3
<1>5. IsFold(op, base, f, S, g)
  BY <1>4 DEF IsFoldBy, IsFold
<1>6. QED
  BY <1>5

\* Two functions on the subsets of S that are computed alike from the subset
\* without the picked element are equal.
LEMMA SameBySteps ==
  ASSUME NEW S, IsFiniteSet(S), NEW g, NEW h, g[{}] = h[{}],
         \A s \in SUBSET S :
           s # {} /\ g[s \ {Pick(s)}] = h[s \ {Pick(s)}] => g[s] = h[s]
  PROVE  \A s \in SUBSET S : g[s] = h[s]
<1> DEFINE T == {s \in SUBSET S : g[s] = h[s]}
<1>1. \A s \in SUBSET S : s # {} /\ (\A x \in s : s \ {x} \in T) => s \in T
  <2>1. \A s \in SUBSET S : s # {} => Pick(s) \in s
    BY DEF Pick
  <2>2. QED
    BY <2>1
<1>2. \A s \in SUBSET S : s \in T
  <2>1. {} \in T /\ T \subseteq SUBSET S
    OBVIOUS
  <2> HIDE DEF T
  <2>2. QED
    BY <1>1, <2>1, SubsetInduction
<1>3. QED
  BY <1>2

\* When the operation may be applied in either order, any element may be the
\* one that is picked.
Swaps(op) == \A a, b, c \in Nat : op[<<a, op[<<b, c>>]>>] = op[<<b, op[<<a, c>>]>>]

AnyMayBePicked(op, f, S, g) ==
  \A s \in SUBSET S : \A x \in s : g[s] = op[<<f[x], g[s \ {x}]>>]

LEMMA FoldAnyElement ==
  ASSUME NEW op \in Operations, NEW base \in Nat,
         Swaps(op), NEW S, IsFiniteSet(S), NEW f, \A x \in S : f[x] \in Nat,
         NEW g \in [SUBSET S -> Nat], IsFold(op, base, f, S, g)
  PROVE  AnyMayBePicked(op, f, S, g)
<1> DEFINE T == {s \in SUBSET S : \A x \in s : g[s] = op[<<f[x], g[s \ {x}]>>]}
<1>1. ASSUME NEW s \in SUBSET S, \A x \in s : s \ {x} \in T, NEW x \in s
      PROVE  g[s] = op[<<f[x], g[s \ {x}]>>]
  <2> DEFINE p == Pick(s)
             rest == (s \ {p}) \ {x}
  <2>1. p \in s
    BY DEF Pick
  <2>2. g[s] = op[<<f[p], g[s \ {p}]>>]
    BY <1>1 DEF IsFold
  <2>3. CASE x = p
    BY <2>2, <2>3
  <2>4. CASE x # p
    <3>1. g[s \ {p}] = op[<<f[x], g[rest]>>]
      BY <1>1, <2>1, <2>4
    <3>2. g[s \ {x}] = op[<<f[p], g[rest]>>]
      <4>1. (s \ {x}) \ {p} = rest
        OBVIOUS
      <4>2. p \in s \ {x} /\ s \ {x} \in T
        BY <1>1, <2>1, <2>4
      <4>3. g[s \ {x}] = op[<<f[p], g[(s \ {x}) \ {p}]>>]
        BY <4>2
      <4>4. QED
        BY <4>1, <4>3
    <3> DEFINE a == f[p]
               b == f[x]
               c == g[rest]
    <3>3. a \in Nat /\ b \in Nat /\ c \in Nat
      BY <2>1
    <3>4. op[<<a, op[<<b, c>>]>>] = op[<<b, op[<<a, c>>]>>]
      <4> HIDE DEF a, b, c
      <4>1. QED
        BY <3>3 DEF Swaps
    <3>5. QED
      BY <2>2, <3>1, <3>2, <3>4
  <2>5. QED
    BY <2>3, <2>4
<1>2. \A s \in SUBSET S : s \in T
  <2>1. {} \in T /\ T \subseteq SUBSET S
    OBVIOUS
  <2>2. ASSUME NEW s \in SUBSET S, s # {}, \A x \in s : s \ {x} \in T PROVE s \in T
    BY <1>1, <2>2
  <2> HIDE DEF T
  <2>3. QED
    BY <2>1, <2>2, SubsetInduction
<1>3. QED
  BY <1>2 DEF AnyMayBePicked

-----------------------------------------------------------------------------
(* Sums.                                                                   *)

Addition == [p \in Nat \X Nat |-> p[1] + p[2]]

\* What the recursive function of a sum satisfies, and the one that is meant.
IsSum(f, S, g) ==
  g = [s \in SUBSET S |-> IF s = {} THEN 0 ELSE f[Pick(s)] + g[s \ {Pick(s)}]]
SumTable(f, S) == CHOOSE g : IsSum(f, S, g)

LEMMA SumIsChosen == ASSUME NEW f, NEW S PROVE SumFunctionOnSet(f, S) = SumTable(f, S)[S]
BY DEF SumFunctionOnSet, FoldFunctionOnSet, MapThenFoldSet, SumTable, IsSum, Pick

\* The sum that is meant exists and is a fold with Addition.
LEMMA SumIsFold ==
  ASSUME NEW S, IsFiniteSet(S), NEW f, \A x \in S : f[x] \in Nat
  PROVE  /\ IsSum(f, S, SumTable(f, S))
         /\ SumTable(f, S) \in [SUBSET S -> Nat]
         /\ IsFold(Addition, 0, f, S, SumTable(f, S))
         /\ Addition \in Operations
         /\ \A a, b \in Nat : Addition[<<a, b>>] = a + b
<1>1. Addition \in Operations /\ 0 \in Nat
  BY DEF Addition, Operations
<1>2. \A a, b \in Nat : Addition[<<a, b>>] = a + b
  BY DEF Addition
<1>3. \A s \in SUBSET S : s # {} => f[Pick(s)] \in Nat
  BY DEF Pick
<1>4. ASSUME NEW g \in [SUBSET S -> Nat]
      PROVE  IsSum(f, S, g) <=> IsFold(Addition, 0, f, S, g)
  <2>1. \A s \in SUBSET S : s # {} =>
          f[Pick(s)] + g[s \ {Pick(s)}] = Addition[<<f[Pick(s)], g[s \ {Pick(s)}]>>]
    BY <1>2, <1>3
  <2>2. [s \in SUBSET S |-> IF s = {} THEN 0 ELSE f[Pick(s)] + g[s \ {Pick(s)}]]
          = [s \in SUBSET S |-> IF s = {} THEN 0
                                ELSE Addition[<<f[Pick(s)], g[s \ {Pick(s)}]>>]]
    BY <2>1
  <2>3. QED
    BY <2>2 DEF IsSum, IsFold
<1>5. PICK g \in [SUBSET S -> Nat] : IsSum(f, S, g)
  BY <1>1, <1>4, FoldExists
<1>6. IsSum(f, S, SumTable(f, S))
  BY <1>5 DEF SumTable
<1>7. SumTable(f, S) = g
  <2> DEFINE h == SumTable(f, S)
  <2>1. /\ h = [s \in SUBSET S |-> IF s = {} THEN 0 ELSE f[Pick(s)] + h[s \ {Pick(s)}]]
        /\ g = [s \in SUBSET S |-> IF s = {} THEN 0 ELSE f[Pick(s)] + g[s \ {Pick(s)}]]
    BY <1>5, <1>6 DEF IsSum
  <2> HIDE DEF h
  <2>2. g[{}] = h[{}] /\ \A s \in SUBSET S :
           s # {} /\ g[s \ {Pick(s)}] = h[s \ {Pick(s)}] => g[s] = h[s]
    BY <2>1
  <2>3. \A s \in SUBSET S : g[s] = h[s]
    BY <2>2, SameBySteps
  <2>4. g = h
    BY <2>1, <2>3
  <2>5. QED
    BY <2>4 DEF h
<1>8. QED
  BY <1>1, <1>2, <1>4, <1>6, <1>7

\* The sum over a part of S is found in the function for S, also when f
\* differs elsewhere.
LEMMA SumOfPart ==
  ASSUME NEW S, IsFiniteSet(S), NEW f, \A x \in S : f[x] \in Nat,
         NEW R, R \subseteq S, NEW e, \A x \in R : e[x] = f[x]
  PROVE  SumFunctionOnSet(e, R) = SumTable(f, S)[R]
<1> DEFINE g == SumTable(e, R)
           h == SumTable(f, S)
<1>1. IsFiniteSet(R) /\ \A x \in R : e[x] \in Nat
  BY FS_Subset
<1>2. IsSum(e, R, g) /\ IsSum(f, S, h)
  BY <1>1, SumIsFold
<1> HIDE DEF g, h
<1>3. /\ g = [s \in SUBSET R |-> IF s = {} THEN 0 ELSE e[Pick(s)] + g[s \ {Pick(s)}]]
      /\ h = [s \in SUBSET S |-> IF s = {} THEN 0 ELSE f[Pick(s)] + h[s \ {Pick(s)}]]
  BY <1>2 DEF IsSum
<1>4. \A s \in SUBSET R : s \in SUBSET S /\ (s # {} => e[Pick(s)] = f[Pick(s)])
  BY DEF Pick
<1>5. g[{}] = h[{}] /\ \A s \in SUBSET R :
         s # {} /\ g[s \ {Pick(s)}] = h[s \ {Pick(s)}] => g[s] = h[s]
  <2>1. g[{}] = 0 /\ h[{}] = 0
    BY <1>3
  <2>2. ASSUME NEW s \in SUBSET R, s # {}, g[s \ {Pick(s)}] = h[s \ {Pick(s)}]
        PROVE  g[s] = h[s]
    <3>1. /\ g[s] = e[Pick(s)] + g[s \ {Pick(s)}]
          /\ h[s] = f[Pick(s)] + h[s \ {Pick(s)}]
      BY <1>3, <1>4, <2>2
    <3>2. QED
      BY <1>4, <2>2, <3>1
  <2>3. QED
    BY <2>1, <2>2
<1>6. \A s \in SUBSET R : g[s] = h[s]
  BY <1>1, <1>5, SameBySteps
<1>7. QED
  BY <1>6, SumIsChosen DEF g, h

\* The sum: its type, its value on the empty set, and any element may be
\* taken out of it.
LEMMA SumUnfolds ==
  ASSUME NEW S, IsFiniteSet(S), NEW f, \A x \in S : f[x] \in Nat
  PROVE  /\ SumFunctionOnSet(f, S) \in Nat
         /\ SumFunctionOnSet(f, {}) = 0
         /\ \A x \in S : /\ SumFunctionOnSet(f, S \ {x}) \in Nat
                         /\ SumFunctionOnSet(f, S) = f[x] + SumFunctionOnSet(f, S \ {x})
<1> DEFINE g == SumTable(f, S)
<1>1. /\ g \in [SUBSET S -> Nat]
      /\ IsFold(Addition, 0, f, S, g)
      /\ Addition \in Operations
      /\ \A a, b \in Nat : Addition[<<a, b>>] = a + b
  BY SumIsFold
<1>2. \A R \in SUBSET S : SumFunctionOnSet(f, R) = g[R]
  BY SumOfPart
<1> HIDE DEF g
<1>3. g[{}] = 0
  BY <1>1 DEF IsFold
<1>4. ASSUME NEW a \in Nat, NEW b \in Nat, NEW c \in Nat
      PROVE  Addition[<<a, Addition[<<b, c>>]>>] = Addition[<<b, Addition[<<a, c>>]>>]
  <2>1. a + c \in Nat /\ b + c \in Nat /\ a + (b + c) = b + (a + c)
    OBVIOUS
  <2>2. QED
    BY <1>1, <2>1
<1>5. \A x \in S : g[S] = Addition[<<f[x], g[S \ {x}]>>]
  <2>1. 0 \in Nat
    OBVIOUS
  <2>2. Swaps(Addition)
    BY <1>4 DEF Swaps
  <2>3. AnyMayBePicked(Addition, f, S, g)
    BY <1>1, <2>1, <2>2, FoldAnyElement
  <2>4. QED
    BY <2>3 DEF AnyMayBePicked
<1>6. ASSUME NEW x \in S
      PROVE  g[S \ {x}] \in Nat /\ g[S] = f[x] + g[S \ {x}]
  BY <1>1, <1>5
<1>7. QED
  BY <1>1, <1>2, <1>3, <1>6

\* It depends only on the values on the set.
LEMMA SumSame ==
  ASSUME NEW S, IsFiniteSet(S), NEW f, NEW e, \A x \in S : f[x] \in Nat /\ e[x] = f[x]
  PROVE  SumFunctionOnSet(e, S) = SumFunctionOnSet(f, S)
BY SumOfPart, SumIsChosen

-----------------------------------------------------------------------------
(* Products.                                                               *)

ProductFunctionOnSet(f, S) == FoldFunctionOnSet(LAMBDA x, y : x * y, 1, f, S)

Multiplication == [p \in Nat \X Nat |-> p[1] * p[2]]

\* What the recursive function of a product satisfies, and the one that is meant.
IsProduct(f, S, g) ==
  g = [s \in SUBSET S |-> IF s = {} THEN 1 ELSE f[Pick(s)] * g[s \ {Pick(s)}]]
ProductTable(f, S) == CHOOSE g : IsProduct(f, S, g)

LEMMA ProductIsChosen == ASSUME NEW f, NEW S PROVE ProductFunctionOnSet(f, S) = ProductTable(f, S)[S]
BY DEF ProductFunctionOnSet, FoldFunctionOnSet, MapThenFoldSet, ProductTable, IsProduct, Pick

\* The product that is meant exists and is a fold with Multiplication.
LEMMA ProductIsFold ==
  ASSUME NEW S, IsFiniteSet(S), NEW f, \A x \in S : f[x] \in Nat
  PROVE  /\ IsProduct(f, S, ProductTable(f, S))
         /\ ProductTable(f, S) \in [SUBSET S -> Nat]
         /\ IsFold(Multiplication, 1, f, S, ProductTable(f, S))
         /\ Multiplication \in Operations
         /\ \A a, b \in Nat : Multiplication[<<a, b>>] = a * b
<1>1. Multiplication \in Operations /\ 1 \in Nat
  BY DEF Multiplication, Operations
<1>2. \A a, b \in Nat : Multiplication[<<a, b>>] = a * b
  BY DEF Multiplication
<1>3. \A s \in SUBSET S : s # {} => f[Pick(s)] \in Nat
  BY DEF Pick
<1>4. ASSUME NEW g \in [SUBSET S -> Nat]
      PROVE  IsProduct(f, S, g) <=> IsFold(Multiplication, 1, f, S, g)
  <2>1. \A s \in SUBSET S : s # {} =>
          f[Pick(s)] * g[s \ {Pick(s)}] = Multiplication[<<f[Pick(s)], g[s \ {Pick(s)}]>>]
    BY <1>2, <1>3
  <2>2. [s \in SUBSET S |-> IF s = {} THEN 1 ELSE f[Pick(s)] * g[s \ {Pick(s)}]]
          = [s \in SUBSET S |-> IF s = {} THEN 1
                                ELSE Multiplication[<<f[Pick(s)], g[s \ {Pick(s)}]>>]]
    BY <2>1
  <2>3. QED
    BY <2>2 DEF IsProduct, IsFold
<1>5. PICK g \in [SUBSET S -> Nat] : IsProduct(f, S, g)
  BY <1>1, <1>4, FoldExists
<1>6. IsProduct(f, S, ProductTable(f, S))
  BY <1>5 DEF ProductTable
<1>7. ProductTable(f, S) = g
  <2> DEFINE h == ProductTable(f, S)
  <2>1. /\ h = [s \in SUBSET S |-> IF s = {} THEN 1 ELSE f[Pick(s)] * h[s \ {Pick(s)}]]
        /\ g = [s \in SUBSET S |-> IF s = {} THEN 1 ELSE f[Pick(s)] * g[s \ {Pick(s)}]]
    BY <1>5, <1>6 DEF IsProduct
  <2> HIDE DEF h
  <2>2. g[{}] = h[{}] /\ \A s \in SUBSET S :
           s # {} /\ g[s \ {Pick(s)}] = h[s \ {Pick(s)}] => g[s] = h[s]
    BY <2>1
  <2>3. \A s \in SUBSET S : g[s] = h[s]
    BY <2>2, SameBySteps
  <2>4. g = h
    BY <2>1, <2>3
  <2>5. QED
    BY <2>4 DEF h
<1>8. QED
  BY <1>1, <1>2, <1>4, <1>6, <1>7

\* The product over a part of S is found in the function for S, also when f
\* differs elsewhere.
LEMMA ProductOfPart ==
  ASSUME NEW S, IsFiniteSet(S), NEW f, \A x \in S : f[x] \in Nat,
         NEW R, R \subseteq S, NEW e, \A x \in R : e[x] = f[x]
  PROVE  ProductFunctionOnSet(e, R) = ProductTable(f, S)[R]
<1> DEFINE g == ProductTable(e, R)
           h == ProductTable(f, S)
<1>1. IsFiniteSet(R) /\ \A x \in R : e[x] \in Nat
  BY FS_Subset
<1>2. IsProduct(e, R, g) /\ IsProduct(f, S, h)
  BY <1>1, ProductIsFold
<1> HIDE DEF g, h
<1>3. /\ g = [s \in SUBSET R |-> IF s = {} THEN 1 ELSE e[Pick(s)] * g[s \ {Pick(s)}]]
      /\ h = [s \in SUBSET S |-> IF s = {} THEN 1 ELSE f[Pick(s)] * h[s \ {Pick(s)}]]
  BY <1>2 DEF IsProduct
<1>4. \A s \in SUBSET R : s \in SUBSET S /\ (s # {} => e[Pick(s)] = f[Pick(s)])
  BY DEF Pick
<1>5. g[{}] = h[{}] /\ \A s \in SUBSET R :
         s # {} /\ g[s \ {Pick(s)}] = h[s \ {Pick(s)}] => g[s] = h[s]
  <2>1. g[{}] = 1 /\ h[{}] = 1
    BY <1>3
  <2>2. ASSUME NEW s \in SUBSET R, s # {}, g[s \ {Pick(s)}] = h[s \ {Pick(s)}]
        PROVE  g[s] = h[s]
    <3>1. /\ g[s] = e[Pick(s)] * g[s \ {Pick(s)}]
          /\ h[s] = f[Pick(s)] * h[s \ {Pick(s)}]
      BY <1>3, <1>4, <2>2
    <3>2. QED
      BY <1>4, <2>2, <3>1
  <2>3. QED
    BY <2>1, <2>2
<1>6. \A s \in SUBSET R : g[s] = h[s]
  BY <1>1, <1>5, SameBySteps
<1>7. QED
  BY <1>6, ProductIsChosen DEF g, h

\* The product: its type, its value on the empty set, and any element may be
\* taken out of it.
LEMMA ProductUnfolds ==
  ASSUME NEW S, IsFiniteSet(S), NEW f, \A x \in S : f[x] \in Nat
  PROVE  /\ ProductFunctionOnSet(f, S) \in Nat
         /\ ProductFunctionOnSet(f, {}) = 1
         /\ \A x \in S : /\ ProductFunctionOnSet(f, S \ {x}) \in Nat
                         /\ ProductFunctionOnSet(f, S) = f[x] * ProductFunctionOnSet(f, S \ {x})
<1> DEFINE g == ProductTable(f, S)
<1>1. /\ g \in [SUBSET S -> Nat]
      /\ IsFold(Multiplication, 1, f, S, g)
      /\ Multiplication \in Operations
      /\ \A a, b \in Nat : Multiplication[<<a, b>>] = a * b
  BY ProductIsFold
<1>2. \A R \in SUBSET S : ProductFunctionOnSet(f, R) = g[R]
  BY ProductOfPart
<1> HIDE DEF g
<1>3. g[{}] = 1
  BY <1>1 DEF IsFold
<1>4. ASSUME NEW a \in Nat, NEW b \in Nat, NEW c \in Nat
      PROVE  Multiplication[<<a, Multiplication[<<b, c>>]>>] = Multiplication[<<b, Multiplication[<<a, c>>]>>]
  <2>1. a * c \in Nat /\ b * c \in Nat /\ a * (b * c) = b * (a * c)
    OBVIOUS
  <2>2. QED
    BY <1>1, <2>1
<1>5. \A x \in S : g[S] = Multiplication[<<f[x], g[S \ {x}]>>]
  <2>1. 1 \in Nat
    OBVIOUS
  <2>2. Swaps(Multiplication)
    BY <1>4 DEF Swaps
  <2>3. AnyMayBePicked(Multiplication, f, S, g)
    BY <1>1, <2>1, <2>2, FoldAnyElement
  <2>4. QED
    BY <2>3 DEF AnyMayBePicked
<1>6. ASSUME NEW x \in S
      PROVE  g[S \ {x}] \in Nat /\ g[S] = f[x] * g[S \ {x}]
  BY <1>1, <1>5
<1>7. QED
  BY <1>1, <1>2, <1>3, <1>6

\* It depends only on the values on the set.
LEMMA ProductSame ==
  ASSUME NEW S, IsFiniteSet(S), NEW f, NEW e, \A x \in S : f[x] \in Nat /\ e[x] = f[x]
  PROVE  ProductFunctionOnSet(e, S) = ProductFunctionOnSet(f, S)
BY ProductOfPart, ProductIsChosen

-----------------------------------------------------------------------------
(* What the proofs about the programs use.                                 *)

\* A sum changes by as much as the one value that changes.
LEMMA SumChanges ==
  ASSUME NEW S, IsFiniteSet(S), NEW f, NEW e, \A y \in S : f[y] \in Nat /\ e[y] \in Nat,
         NEW x \in S, \A y \in S \ {x} : e[y] = f[y]
  PROVE  SumFunctionOnSet(e, S) + f[x] = SumFunctionOnSet(f, S) + e[x]
<1> DEFINE rest == SumFunctionOnSet(f, S \ {x})
<1>1. rest \in Nat /\ SumFunctionOnSet(f, S) = f[x] + rest
  BY SumUnfolds
<1>2. SumFunctionOnSet(e, S) = e[x] + SumFunctionOnSet(e, S \ {x})
  BY SumUnfolds
<1>3. SumFunctionOnSet(e, S \ {x}) = rest
  <2>1. IsFiniteSet(S \ {x}) /\ \A y \in S \ {x} : f[y] \in Nat /\ e[y] = f[y]
    BY FS_Subset
  <2>2. QED
    BY <2>1, SumSame
<1> HIDE DEF rest
<1>4. QED
  BY <1>1, <1>2, <1>3

\* A sum of larger values is larger.
LEMMA SumMonotone ==
  ASSUME NEW S, IsFiniteSet(S), NEW f, NEW e,
         \A x \in S : f[x] \in Nat /\ e[x] \in Nat /\ f[x] <= e[x]
  PROVE  SumFunctionOnSet(f, S) <= SumFunctionOnSet(e, S)
<1> DEFINE T == {s \in SUBSET S : SumFunctionOnSet(f, s) <= SumFunctionOnSet(e, s)}
<1>1. {} \in T /\ T \subseteq SUBSET S
  <2>1. SumFunctionOnSet(f, {}) = 0 /\ SumFunctionOnSet(e, {}) = 0
    BY SumUnfolds
  <2>2. QED
    BY <2>1
<1>2. ASSUME NEW s \in SUBSET S, s # {}, \A x \in s : s \ {x} \in T PROVE s \in T
  <2>1. IsFiniteSet(s)
    BY FS_Subset
  <2>2. PICK x \in s : TRUE
    BY <1>2
  <2>3. /\ SumFunctionOnSet(f, s) = f[x] + SumFunctionOnSet(f, s \ {x})
        /\ SumFunctionOnSet(f, s \ {x}) \in Nat
    BY <2>1, SumUnfolds
  <2>4. /\ SumFunctionOnSet(e, s) = e[x] + SumFunctionOnSet(e, s \ {x})
        /\ SumFunctionOnSet(e, s \ {x}) \in Nat
    BY <2>1, SumUnfolds
  <2>5. f[x] \in Nat /\ e[x] \in Nat /\ f[x] <= e[x]
    OBVIOUS
  <2>6. SumFunctionOnSet(f, s \ {x}) <= SumFunctionOnSet(e, s \ {x})
    BY <1>2
  <2>7. QED
    BY <2>3, <2>4, <2>5, <2>6
<1>3. \A s \in SUBSET S : s \in T
  <2> HIDE DEF T
  <2>1. QED
    BY <1>1, <1>2, SubsetInduction
<1>4. QED
  BY <1>3

\* A sum of zeros is 0.
LEMMA SumOfZeros ==
  ASSUME NEW S, IsFiniteSet(S), NEW f, \A x \in S : f[x] = 0
  PROVE  SumFunctionOnSet(f, S) = 0
<1> DEFINE T == {s \in SUBSET S : SumFunctionOnSet(f, s) = 0}
<1>1. {} \in T /\ T \subseteq SUBSET S
  BY SumUnfolds
<1>2. ASSUME NEW s \in SUBSET S, s # {}, \A x \in s : s \ {x} \in T PROVE s \in T
  <2>1. IsFiniteSet(s)
    BY FS_Subset
  <2>2. PICK x \in s : TRUE
    BY <1>2
  <2>3. SumFunctionOnSet(f, s) = f[x] + SumFunctionOnSet(f, s \ {x})
    BY <2>1, SumUnfolds
  <2>4. QED
    BY <1>2, <2>3
<1>3. \A s \in SUBSET S : s \in T
  <2> HIDE DEF T
  <2>1. QED
    BY <1>1, <1>2, SubsetInduction
<1>4. QED
  BY <1>3

\* The sum over two parts without a common element is the sum of both sums.
LEMMA SumOfParts ==
  ASSUME NEW S, IsFiniteSet(S), NEW R, NEW f, R \subseteq S, \A x \in S : f[x] \in Nat
  PROVE  SumFunctionOnSet(f, S) = SumFunctionOnSet(f, R) + SumFunctionOnSet(f, S \ R)
<1> DEFINE T == {s \in SUBSET R : SumFunctionOnSet(f, (S \ R) \cup s)
                                    = SumFunctionOnSet(f, s) + SumFunctionOnSet(f, S \ R)}
<1>1. IsFiniteSet(R) /\ IsFiniteSet(S \ R)
  BY FS_Subset
<1>2. SumFunctionOnSet(f, S \ R) \in Nat
  BY <1>1, SumUnfolds
<1>3. {} \in T /\ T \subseteq SUBSET R
  <2>1. SumFunctionOnSet(f, {}) = 0
    BY SumUnfolds
  <2>2. (S \ R) \cup {} = S \ R
    OBVIOUS
  <2>3. QED
    BY <1>2, <2>1, <2>2
<1>4. ASSUME NEW s \in SUBSET R, s # {}, \A x \in s : s \ {x} \in T PROVE s \in T
  <2> DEFINE u == (S \ R) \cup s
  <2>1. PICK x \in s : TRUE
    BY <1>4
  <2>2. IsFiniteSet(s) /\ IsFiniteSet(u) /\ u \subseteq S /\ x \in u
    BY <1>1, <2>1, FS_Subset
  <2>3. u \ {x} = (S \ R) \cup (s \ {x})
    BY <2>1
  <2> HIDE DEF u
  <2>4. /\ SumFunctionOnSet(f, s \ {x}) \in Nat
        /\ SumFunctionOnSet(f, s) = f[x] + SumFunctionOnSet(f, s \ {x})
    BY <2>1, <2>2, SumUnfolds
  <2>5. /\ SumFunctionOnSet(f, u \ {x}) \in Nat
        /\ SumFunctionOnSet(f, u) = f[x] + SumFunctionOnSet(f, u \ {x})
    BY <2>2, SumUnfolds
  <2>6. SumFunctionOnSet(f, u \ {x}) = SumFunctionOnSet(f, s \ {x}) + SumFunctionOnSet(f, S \ R)
    BY <1>4, <2>1, <2>3
  <2>7. f[x] \in Nat
    BY <2>1, <2>2
  <2>8. SumFunctionOnSet(f, u) = SumFunctionOnSet(f, s) + SumFunctionOnSet(f, S \ R)
    BY <1>2, <2>4, <2>5, <2>6, <2>7
  <2>9. QED
    BY <2>8 DEF u
<1>5. \A s \in SUBSET R : s \in T
  <2> HIDE DEF T
  <2>1. QED
    BY <1>1, <1>3, <1>4, SubsetInduction
<1>6. (S \ R) \cup R = S
  OBVIOUS
<1>7. QED
  BY <1>5, <1>6

\* Only one element of a set counts.
LEMMA SumOfOne ==
  ASSUME NEW f, NEW x, f[x] \in Nat
  PROVE  SumFunctionOnSet(f, {x}) = f[x]
<1>1. IsFiniteSet({x}) /\ x \in {x} /\ \A y \in {x} : f[y] \in Nat
  BY FS_Singleton
<1>2. {x} \ {x} = {}
  OBVIOUS
<1>3. SumFunctionOnSet(f, {x}) = f[x] + SumFunctionOnSet(f, {}) /\ SumFunctionOnSet(f, {}) = 0
  BY <1>1, <1>2, SumUnfolds
<1>4. QED
  BY <1>3

\* The sum of two functions.
LEMMA SumOfTwo ==
  ASSUME NEW S, IsFiniteSet(S), NEW f, NEW g, NEW e,
         \A x \in S : f[x] \in Nat /\ g[x] \in Nat /\ e[x] = f[x] + g[x]
  PROVE  SumFunctionOnSet(e, S) = SumFunctionOnSet(f, S) + SumFunctionOnSet(g, S)
<1> DEFINE T == {s \in SUBSET S :
                   SumFunctionOnSet(e, s) = SumFunctionOnSet(f, s) + SumFunctionOnSet(g, s)}
<1>1. \A x \in S : e[x] \in Nat
  OBVIOUS
<1>2. {} \in T /\ T \subseteq SUBSET S
  <2>1. /\ SumFunctionOnSet(f, {}) = 0 /\ SumFunctionOnSet(g, {}) = 0
        /\ SumFunctionOnSet(e, {}) = 0
    BY <1>1, SumUnfolds
  <2>2. QED
    BY <2>1
<1>3. ASSUME NEW s \in SUBSET S, s # {}, \A x \in s : s \ {x} \in T PROVE s \in T
  <2>1. IsFiniteSet(s)
    BY FS_Subset
  <2>2. PICK x \in s : TRUE
    BY <1>3
  <2>3. /\ SumFunctionOnSet(f, s) = f[x] + SumFunctionOnSet(f, s \ {x})
        /\ SumFunctionOnSet(f, s \ {x}) \in Nat
    BY <2>1, SumUnfolds
  <2>4. /\ SumFunctionOnSet(g, s) = g[x] + SumFunctionOnSet(g, s \ {x})
        /\ SumFunctionOnSet(g, s \ {x}) \in Nat
    BY <2>1, SumUnfolds
  <2>5. SumFunctionOnSet(e, s) = e[x] + SumFunctionOnSet(e, s \ {x})
    BY <1>1, <2>1, SumUnfolds
  <2>6. f[x] \in Nat /\ g[x] \in Nat /\ e[x] = f[x] + g[x]
    OBVIOUS
  <2>7. SumFunctionOnSet(e, s \ {x})
          = SumFunctionOnSet(f, s \ {x}) + SumFunctionOnSet(g, s \ {x})
    BY <1>3
  <2>8. QED
    BY <2>3, <2>4, <2>5, <2>6, <2>7
<1>4. \A s \in SUBSET S : s \in T
  <2> HIDE DEF T
  <2>1. QED
    BY <1>2, <1>3, SubsetInduction
<1>5. QED
  BY <1>4

\* Where the sum of two functions is, but for one place and by at most one there,
\* a third function.
NearlySum(e, f, g, S) ==
  /\ \A x \in S : /\ f[x] \in Nat /\ g[x] \in Nat /\ e[x] \in Nat
                  /\ f[x] + g[x] <= e[x] /\ e[x] <= f[x] + g[x] + 1
  /\ \A x, y \in S : e[x] # f[x] + g[x] /\ e[y] # f[y] + g[y] => x = y

LEMMA NearlySumsUp ==
  ASSUME NEW S, IsFiniteSet(S), NEW f, NEW g, NEW e, NearlySum(e, f, g, S)
  PROVE  LET parts == SumFunctionOnSet(f, S) + SumFunctionOnSet(g, S)
         IN  parts <= SumFunctionOnSet(e, S) /\ SumFunctionOnSet(e, S) <= parts + 1
<1> DEFINE h == [x \in S |-> f[x] + g[x]]
<1>1. \A x \in S : /\ f[x] \in Nat /\ g[x] \in Nat /\ e[x] \in Nat
                   /\ h[x] \in Nat /\ h[x] = f[x] + g[x]
                   /\ (e[x] = h[x] \/ e[x] = h[x] + 1)
  BY DEF NearlySum
<1>2. \A x, y \in S : e[x] # h[x] /\ e[y] # h[y] => x = y
  BY DEF NearlySum
<1> HIDE DEF h
<1>3. SumFunctionOnSet(h, S) = SumFunctionOnSet(f, S) + SumFunctionOnSet(g, S)
  BY <1>1, SumOfTwo
<1>4. /\ SumFunctionOnSet(h, S) \in Nat /\ SumFunctionOnSet(e, S) \in Nat
  BY <1>1, SumUnfolds
<1>5. CASE \A x \in S : e[x] = h[x]
  <2>1. SumFunctionOnSet(e, S) = SumFunctionOnSet(h, S)
    BY <1>1, <1>5, SumSame
  <2>2. QED
    BY <1>3, <1>4, <2>1
<1>6. CASE ~\A x \in S : e[x] = h[x]
  <2>1. PICK x \in S : e[x] # h[x]
    BY <1>6
  <2>2. \A y \in S \ {x} : e[y] = h[y]
    BY <1>2, <2>1
  <2>3. SumFunctionOnSet(e, S) + h[x] = SumFunctionOnSet(h, S) + e[x]
    BY <1>1, <2>2, SumChanges
  <2>4. e[x] = h[x] + 1 /\ h[x] \in Nat
    BY <1>1, <2>1
  <2>5. QED
    BY <1>3, <1>4, <2>3, <2>4
<1>7. QED
  BY <1>5, <1>6

\* A sum of multiples.
LEMMA SumOfMultiples ==
  ASSUME NEW S, IsFiniteSet(S), NEW c \in Nat, NEW f, NEW e,
         \A x \in S : f[x] \in Nat /\ e[x] = c * f[x]
  PROVE  SumFunctionOnSet(e, S) = c * SumFunctionOnSet(f, S)
<1> DEFINE T == {s \in SUBSET S : SumFunctionOnSet(e, s) = c * SumFunctionOnSet(f, s)}
<1>1. \A x \in S : e[x] \in Nat
  OBVIOUS
<1>2. {} \in T /\ T \subseteq SUBSET S
  <2>1. SumFunctionOnSet(f, {}) = 0 /\ SumFunctionOnSet(e, {}) = 0 /\ c * 0 = 0
    BY <1>1, SumUnfolds
  <2>2. QED
    BY <2>1
<1>3. ASSUME NEW s \in SUBSET S, s # {}, \A x \in s : s \ {x} \in T PROVE s \in T
  <2>1. IsFiniteSet(s)
    BY FS_Subset
  <2>2. PICK x \in s : TRUE
    BY <1>3
  <2>3. /\ SumFunctionOnSet(f, s) = f[x] + SumFunctionOnSet(f, s \ {x})
        /\ SumFunctionOnSet(f, s \ {x}) \in Nat
    BY <2>1, SumUnfolds
  <2>4. SumFunctionOnSet(e, s) = e[x] + SumFunctionOnSet(e, s \ {x})
    BY <1>1, <2>1, SumUnfolds
  <2>5. f[x] \in Nat /\ e[x] = c * f[x]
    OBVIOUS
  <2>6. SumFunctionOnSet(e, s \ {x}) = c * SumFunctionOnSet(f, s \ {x})
    BY <1>3
  <2>7. \A a, b \in Nat : c * (a + b) = c * a + c * b
    OBVIOUS
  <2>8. SumFunctionOnSet(e, s) = c * SumFunctionOnSet(f, s)
    BY <2>3, <2>4, <2>5, <2>6, <2>7
  <2>9. QED
    BY <2>8
<1>4. \A s \in SUBSET S : s \in T
  <2> HIDE DEF T
  <2>1. QED
    BY <1>2, <1>3, SubsetInduction
<1>5. QED
  BY <1>4

\* The values e of a .. n are at most c and the values f one place before.
IsShifted(e, f, a, n, c) ==
  /\ a \in Nat /\ n \in Nat /\ a <= n /\ c \in Nat
  /\ \A k \in a .. n : f[k] \in Nat /\ e[k] \in Nat
  /\ e[a] <= c /\ \A k \in a + 1 .. n : e[k] <= f[k - 1]

\* Pushing a value in front of others, of which the last is dropped, adds at
\* most that value to their sum.
LEMMA SumOfShifted ==
  ASSUME NEW e, NEW f, NEW a, NEW n, NEW c, IsShifted(e, f, a, n, c)
  PROVE  SumFunctionOnSet(e, a .. n) <= c + SumFunctionOnSet(f, a .. n)
<1> DEFINE E(k) == SumFunctionOnSet(e, a .. k)
           F(k) == SumFunctionOnSet(f, a .. k)
           Fine(y) == E(y) <= c + F(y - 1)
           T == {k \in Nat : \A y : y = a + k /\ y <= n => Fine(y)}
<1>1. /\ a \in Nat /\ n \in Nat /\ a <= n /\ c \in Nat
      /\ \A k \in a .. n : f[k] \in Nat /\ e[k] \in Nat
      /\ e[a] <= c /\ \A k \in a + 1 .. n : e[k] <= f[k - 1]
  BY DEF IsShifted
<1>2. ASSUME NEW k \in a .. n
      PROVE  /\ E(k) \in Nat /\ F(k) \in Nat /\ E(k - 1) \in Nat /\ F(k - 1) \in Nat
             /\ E(k) = e[k] + E(k - 1) /\ F(k) = f[k] + F(k - 1)
  <2>1. k \in Int /\ a <= k /\ k <= n
    BY <1>1
  <2>2. IsFiniteSet(a .. k) /\ k \in a .. k /\ (a .. k) \ {k} = a .. (k - 1)
    <3>1. IsFiniteSet(a .. k)
      BY <1>1, <2>1, FS_Interval
    <3>2. k \in a .. k /\ (a .. k) \ {k} = a .. (k - 1)
      BY <1>1, <2>1
    <3>3. QED
      BY <3>1, <3>2
  <2>3. \A x \in a .. k : f[x] \in Nat /\ e[x] \in Nat
    BY <1>1, <2>1
  <2>4. /\ SumFunctionOnSet(e, a .. k) \in Nat
        /\ SumFunctionOnSet(e, (a .. k) \ {k}) \in Nat
        /\ SumFunctionOnSet(e, a .. k) = e[k] + SumFunctionOnSet(e, (a .. k) \ {k})
    BY <2>2, <2>3, SumUnfolds
  <2>5. /\ SumFunctionOnSet(f, a .. k) \in Nat
        /\ SumFunctionOnSet(f, (a .. k) \ {k}) \in Nat
        /\ SumFunctionOnSet(f, a .. k) = f[k] + SumFunctionOnSet(f, (a .. k) \ {k})
    BY <2>2, <2>3, SumUnfolds
  <2>6. QED
    BY <2>2, <2>4, <2>5
<1>3. 0 \in T
  <2>1. a \in a .. n /\ a + 0 = a
    BY <1>1
  <2>2. E(a) = e[a] + E(a - 1)
    BY <1>2, <2>1
  <2>3. a .. (a - 1) = {}
    BY <1>1
  <2>4. E(a - 1) = 0 /\ F(a - 1) = 0
    BY <2>3, SumUnfolds, FS_EmptySet
  <2> HIDE DEF E, F
  <2>5. Fine(a)
    BY <1>1, <2>2, <2>4
  <2> HIDE DEF Fine
  <2>6. QED
    BY <2>1, <2>5
<1>4. ASSUME NEW k \in T PROVE k + 1 \in T
  <2>1. k \in Nat
    OBVIOUS
  <2> HIDE DEF E, F
  <2>2. SUFFICES ASSUME NEW z, z = a + (k + 1), z <= n PROVE Fine(z)
    <3> HIDE DEF Fine
    <3>1. QED
      BY <2>1, <2>2
  <2> DEFINE y == a + k
  <2>3. y \in a .. n /\ z \in a .. n /\ z \in a + 1 .. n /\ z - 1 = y
    BY <1>1, <2>1, <2>2
  <2>4. Fine(y)
    <3> HIDE DEF Fine
    <3>1. QED
      BY <1>1, <2>1, <2>3
  <2> HIDE DEF y
  <2>5. /\ E(z) = e[z] + E(y) /\ F(y) = f[y] + F(y - 1)
        /\ E(y) \in Nat /\ F(y - 1) \in Nat
    BY <1>2, <2>3
  <2>6. e[z] <= f[y] /\ e[z] \in Nat /\ f[y] \in Nat
    BY <1>1, <2>3
  <2>7. E(z) <= c + F(y)
    BY <1>1, <2>4, <2>5, <2>6
  <2>8. QED
    BY <2>3, <2>7
<1>5. T = Nat
  <2>1. T \subseteq Nat
    OBVIOUS
  <2> HIDE DEF T
  <2>2. QED
    BY ONLY <1>3, <1>4, <2>1, SetInduction
<1>6. Fine(n)
  <2> HIDE DEF Fine
  <2>1. n - a \in Nat /\ a + (n - a) = n
    BY <1>1
  <2>2. n - a \in T
    BY ONLY <1>5, <2>1
  <2>3. QED
    BY <1>1, <2>1, <2>2
<1>7. F(n) = f[n] + F(n - 1) /\ f[n] \in Nat /\ F(n - 1) \in Nat /\ E(n) \in Nat
  BY <1>1, <1>2
<1> HIDE DEF E, F
<1>8. E(n) <= c + F(n)
  BY <1>1, <1>6, <1>7
<1>9. QED
  BY <1>8 DEF E, F

\* The values at a .. b are larger by c.
Raised(e, f, n, a, b, c) ==
  /\ f \in [1 .. n -> Nat] /\ n \in Nat /\ a \in Nat \ {0} /\ b \in Nat /\ c \in Nat
  /\ a <= b + 1 /\ b <= n
  /\ \A s \in 1 .. n : e[s] = IF a <= s /\ s <= b THEN f[s] + c ELSE f[s]

\* A sum over 1 .. n grows by c for each of the values at a .. b that does.
LEMMA SumOfRaised ==
  ASSUME NEW e, NEW f, NEW n, NEW a, NEW b, NEW c, Raised(e, f, n, a, b, c)
  PROVE  /\ SumFunctionOnSet(f, 1 .. n) \in Nat
         /\ SumFunctionOnSet(e, 1 .. n) = SumFunctionOnSet(f, 1 .. n) + (b - a + 1) * c
<1> DEFINE S == 1 .. n
           Up(k) == [s \in S |-> IF a <= s /\ s <= (a - 1) + k THEN f[s] + c ELSE f[s]]
           Total(k) == SumFunctionOnSet(Up(k), S)
           T == {k \in Nat : (a - 1) + k <= n => Total(k) = SumFunctionOnSet(f, S) + k * c}
<1> USE DEF Raised
<1>1. IsFiniteSet(S)
  BY FS_Interval
<1>2. \A k \in Nat : \A s \in S : Up(k)[s] \in Nat /\ f[s] \in Nat
  OBVIOUS
<1>3. SumFunctionOnSet(f, S) \in Nat /\ \A k \in Nat : Total(k) \in Nat
  <2>1. SumFunctionOnSet(f, S) \in Nat
    BY <1>1, SumUnfolds
  <2>2. ASSUME NEW k \in Nat PROVE Total(k) \in Nat
    <3> DEFINE g == Up(k)
    <3>1. \A s \in S : g[s] \in Nat
      BY <1>2
    <3> HIDE DEF g, S
    <3>2. SumFunctionOnSet(g, S) \in Nat
      BY ONLY <1>1, <3>1, SumUnfolds
    <3>3. QED
      BY <3>2 DEF g
  <2>3. QED
    BY <2>1, <2>2
<1>4. 0 \in T
  <2> DEFINE g == Up(0)
  <2>1. \A s \in S : f[s] \in Nat /\ g[s] = f[s]
    OBVIOUS
  <2> HIDE DEF g, S
  <2>2. SumFunctionOnSet(g, S) = SumFunctionOnSet(f, S)
    BY ONLY <1>1, <2>1, SumSame
  <2>3. Total(0) = SumFunctionOnSet(f, S)
    BY <2>2 DEF g
  <2> HIDE DEF Total
  <2>4. 0 * c = 0
    OBVIOUS
  <2>5. QED
    BY <1>3, <2>3, <2>4
<1>5. ASSUME NEW k \in T PROVE k + 1 \in T
  <2>1. k \in Nat
    OBVIOUS
  <2>2. SUFFICES ASSUME (a - 1) + (k + 1) <= n
                 PROVE  Total(k + 1) = SumFunctionOnSet(f, S) + (k + 1) * c
    BY <2>1
  <2> DEFINE x == (a - 1) + (k + 1)
             g == Up(k)
             h == Up(k + 1)
  <2>3. x \in S /\ (a - 1) + k <= n
    BY <2>1, <2>2
  <2>4. Total(k) = SumFunctionOnSet(f, S) + k * c
    BY <2>3
  <2>5. \A s \in S : g[s] \in Nat /\ h[s] \in Nat
    BY <1>2, <2>1
  <2>6. \A s \in S \ {x} : h[s] = g[s]
    BY <2>1
  <2>7. g[x] = f[x] /\ h[x] = f[x] + c /\ f[x] \in Nat
    BY <2>1, <2>3
  <2>8. (k + 1) * c = k * c + c /\ k * c \in Nat
    BY <2>1
  <2> HIDE DEF x, g, h, S
  <2>9. x \in S
    BY <2>3
  <2>10. SumFunctionOnSet(h, S) + g[x] = SumFunctionOnSet(g, S) + h[x]
    BY ONLY <1>1, <2>5, <2>6, <2>9, SumChanges
  <2>11. Total(k + 1) + g[x] = Total(k) + h[x]
    BY <2>10 DEF g, h
  <2> HIDE DEF Total
  <2>12. /\ Total(k + 1) \in Nat /\ Total(k) \in Nat
         /\ SumFunctionOnSet(f, S) \in Nat /\ c \in Nat
    <3>1. k + 1 \in Nat
      BY <2>1
    <3>2. c \in Nat
      OBVIOUS
    <3>3. QED
      BY ONLY <1>3, <2>1, <3>1, <3>2
  <2> DEFINE m == k * c
             v == f[x]
  <2>13. /\ Total(k) = SumFunctionOnSet(f, S) + m /\ (k + 1) * c = m + c
         /\ Total(k + 1) + v = Total(k) + (v + c) /\ m \in Nat /\ v \in Nat
    BY <2>4, <2>7, <2>8, <2>11
  <2> HIDE DEF m, v
  <2> DEFINE t1 == Total(k + 1)
             t0 == Total(k)
             s0 == SumFunctionOnSet(f, S)
             q == (k + 1) * c
  <2>14. /\ t0 = s0 + m /\ q = m + c /\ t1 + v = t0 + (v + c)
         /\ m \in Nat /\ v \in Nat /\ t1 \in Nat /\ t0 \in Nat /\ s0 \in Nat /\ c \in Nat
    BY ONLY <2>12, <2>13
  <2> HIDE DEF t0, t1, s0, q
  <2>15. t1 = s0 + q
    BY ONLY <2>14
  <2>16. QED
    BY <2>15 DEF t0, t1, s0, q
<1>6. T = Nat
  <2> HIDE DEF T
  <2>1. T \subseteq Nat
    BY DEF T
  <2>2. QED
    BY <1>4, <1>5, <2>1, SetInduction
<1>7. Total(b - a + 1) = SumFunctionOnSet(f, S) + (b - a + 1) * c
  <2>1. b - a + 1 \in Nat /\ (a - 1) + (b - a + 1) = b
    OBVIOUS
  <2> HIDE DEF Total, S
  <2>2. QED
    BY <1>6, <2>1
<1>8. SumFunctionOnSet(e, S) = Total(b - a + 1)
  <2> DEFINE g == Up(b - a + 1)
  <2>1. b - a + 1 \in Nat /\ (a - 1) + (b - a + 1) = b
    OBVIOUS
  <2>2. \A s \in S : g[s] \in Nat /\ e[s] = g[s]
    BY <1>2, <2>1
  <2> HIDE DEF g, S
  <2>3. SumFunctionOnSet(e, S) = SumFunctionOnSet(g, S)
    BY ONLY <1>1, <2>2, SumSame
  <2>4. QED
    BY <2>3 DEF g
<1>9. QED
  BY <1>3, <1>7, <1>8

\* A product of positive values is positive.
LEMMA ProductPositive ==
  ASSUME NEW S, IsFiniteSet(S), NEW f, \A x \in S : f[x] \in Nat \ {0}
  PROVE  ProductFunctionOnSet(f, S) \in Nat \ {0}
<1> DEFINE T == {s \in SUBSET S : ProductFunctionOnSet(f, s) \in Nat \ {0}}
<1>1. {} \in T /\ T \subseteq SUBSET S
  <2>1. ProductFunctionOnSet(f, {}) = 1
    BY ProductUnfolds
  <2>2. QED
    BY <2>1
<1>2. ASSUME NEW s \in SUBSET S, s # {}, \A x \in s : s \ {x} \in T PROVE s \in T
  <2>1. IsFiniteSet(s)
    BY FS_Subset
  <2>2. PICK x \in s : TRUE
    BY <1>2
  <2>3. ProductFunctionOnSet(f, s) = f[x] * ProductFunctionOnSet(f, s \ {x})
    BY <2>1, ProductUnfolds
  <2>4. f[x] \in Nat \ {0} /\ ProductFunctionOnSet(f, s \ {x}) \in Nat \ {0}
    BY <1>2
  <2>5. \A a, b \in Nat \ {0} : a * b \in Nat \ {0}
    OBVIOUS
  <2>6. QED
    BY <2>3, <2>4, <2>5
<1>3. \A s \in SUBSET S : s \in T
  <2> HIDE DEF T
  <2>1. QED
    BY <1>1, <1>2, SubsetInduction
<1>4. QED
  BY <1>3

\* A recursion of n rows, each computed from the one before, exists.
LEMMA RowsExist ==
  ASSUME NEW n \in Nat, NEW Y, NEW first \in Y, NEW op \in [Y -> Y]
  PROVE  \E f \in [1 .. n -> Y] : \A k \in 1 .. n : f[k] = IF k = 1 THEN first ELSE op[f[k - 1]]
<1> DEFINE Rows(m, f) == \A k \in 1 .. m : f[k] = IF k = 1 THEN first ELSE op[f[k - 1]]
           T == {m \in Nat : \E f \in [1 .. m -> Y] : Rows(m, f)}
<1>1. 0 \in T
  <2>1. [k \in 1 .. 0 |-> first] \in [1 .. 0 -> Y] /\ Rows(0, [k \in 1 .. 0 |-> first])
    OBVIOUS
  <2>2. QED
    BY <2>1
<1>2. ASSUME NEW m \in T PROVE m + 1 \in T
  <2>1. PICK f \in [1 .. m -> Y] : Rows(m, f)
    OBVIOUS
  <2> DEFINE new == IF m = 0 THEN first ELSE op[f[m]]
             g == [k \in 1 .. m + 1 |-> IF k = m + 1 THEN new ELSE f[k]]
  <2>2. m \in Nat /\ new \in Y
    OBVIOUS
  <2>3. \A k \in 1 .. m + 1 : k \in 1 .. m \/ k = m + 1
    BY <2>2
  <2>4. g \in [1 .. m + 1 -> Y]
    BY <2>2, <2>3
  <2>5. ASSUME NEW k \in 1 .. m + 1
        PROVE  g[k] = IF k = 1 THEN first ELSE op[g[k - 1]]
    <3>1. CASE k = m + 1
      <4>1. g[k] = new
        BY <3>1
      <4>2. k # 1 => /\ m # 0 /\ k - 1 = m /\ k - 1 \in 1 .. m + 1 /\ k - 1 # m + 1
        BY <2>2, <3>1
      <4>3. k # 1 => g[k - 1] = f[m]
        BY <4>2
      <4>4. k = 1 => m = 0
        BY <2>2, <3>1
      <4>5. QED
        BY <4>1, <4>2, <4>3, <4>4
    <3>2. CASE k \in 1 .. m
      <4>1. k # m + 1 /\ g[k] = f[k]
        BY <2>2, <3>2
      <4>2. k # 1 => k - 1 \in 1 .. m + 1 /\ k - 1 # m + 1
        BY <2>2, <3>2
      <4>3. k # 1 => g[k - 1] = f[k - 1]
        BY <4>2
      <4>4. QED
        BY <2>1, <3>2, <4>1, <4>3
    <3>3. QED
      BY <2>3, <3>1, <3>2
  <2>6. Rows(m + 1, g)
    BY <2>5
  <2> HIDE DEF g, new, Rows
  <2>7. QED
    BY <2>2, <2>4, <2>6
<1>3. T = Nat
  BY <1>1, <1>2, SetInduction
<1>4. QED
  BY <1>3
=============================================================================
