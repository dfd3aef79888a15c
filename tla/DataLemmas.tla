----------------------------- MODULE DataLemmas -----------------------------
(***************************************************************************)
(* Lemmas that the proofs of several components share: induction over the  *)
(* subsets of a finite set, the natural numbers and the sequences, with    *)
(* the set of good cases for the predicate; the sums of SumFunctionOnSet;  *)
(* the selected and the sorted sequences of Lists; loops that end; and     *)
(* paths over costed links, with the invariant of Dijkstra's algorithm.    *)
(***************************************************************************)
EXTENDS Lists, Functions, FiniteSetTheorems, SequenceTheorems, WellFoundedInduction, TLAPS

-----------------------------------------------------------------------------
(* Induction *)

\* A finite set is good when every subset of it is that has only good strict subsets.
LEMMA SubsetInduction ==
    ASSUME NEW S, IsFiniteSet(S), NEW Good,
           \A T \in SUBSET S : (\A U \in SUBSET T : U # T => U \in Good) => T \in Good
    PROVE  S \in Good
  <1> SUFFICES ASSUME S \notin Good PROVE FALSE
    OBVIOUS
  <1> DEFINE bad == {T \in SUBSET S : T \notin Good}
             order == StrictSubsetOrdering(S)
  <1>1. bad \subseteq FiniteSubsetsOf(S) /\ bad # {}
    BY FS_Subset DEF FiniteSubsetsOf
  <1>2. IsWellFoundedOn(order, FiniteSubsetsOf(S))
    BY FS_StrictSubsetOrderingWellFounded
  <1>3. PICK T \in bad : \A U \in bad : ~ (<<U, T>> \in order)
    <2> HIDE DEF bad, order
    <2> QED
      BY <1>1, <1>2, WFMin
  <1>4. ASSUME NEW U \in SUBSET T, U # T PROVE U \in Good
    <2>1. <<U, T>> \in order
      BY <1>4 DEF StrictSubsetOrdering
    <2> QED
      BY <1>3, <1>4, <2>1
  <1> QED
    BY <1>4

\* The same, one element at a time.
LEMMA ElementInduction ==
    ASSUME NEW S, IsFiniteSet(S), NEW Good, {} \in Good,
           \A T \in SUBSET S : \A x \in S \ T : T \in Good => T \cup {x} \in Good
    PROVE  S \in Good
  <1>1. ASSUME NEW T \in SUBSET S, \A U \in SUBSET T : U # T => U \in Good
        PROVE  T \in Good
    <2>1. CASE T = {}
      BY <2>1
    <2>2. ASSUME NEW x, x \in T PROVE T \in Good
      <3>1. T \ {x} \in Good /\ x \in S \ (T \ {x}) /\ (T \ {x}) \cup {x} = T
        BY <1>1, <2>2
      <3> QED
        BY <3>1
    <2> QED
      BY <2>1, <2>2
  <1> QED
    BY <1>1, SubsetInduction

\* A set of natural numbers that is not empty has a least element.
LEMMA LeastElement ==
    ASSUME NEW P \in SUBSET Nat, P # {}
    PROVE  \E m \in P : \A k \in P : m <= k
  <1>1. PICK n : n \in P
    OBVIOUS
  <1> DEFINE S == 0 .. n
             Good == {T \in SUBSET S :
                         T \cap P = {} \/ \E m \in T \cap P : \A k \in T \cap P : m <= k}
  <1>2. IsFiniteSet(S)
    BY <1>1, FS_Interval
  <1>3. \A T \in SUBSET S : \A x \in S \ T : T \in Good => T \cup {x} \in Good
    <2> SUFFICES ASSUME NEW T \in SUBSET S, NEW x \in S \ T, T \in Good
                 PROVE  T \cup {x} \in Good
      OBVIOUS
    <2>1. CASE T \cap P = {}
      BY <2>1
    <2>2. ASSUME NEW m \in T \cap P, \A k \in T \cap P : m <= k PROVE T \cup {x} \in Good
      <3>1. CASE x \in P /\ x <= m
        BY <2>2, <3>1
      <3>2. CASE ~ (x \in P /\ x <= m)
        BY <2>2, <3>2
      <3> QED
        BY <3>1, <3>2
    <2> QED
      BY <2>1, <2>2
  <1>4. S \in Good
    <2>1. {} \in Good
      OBVIOUS
    <2> HIDE DEF S, Good
    <2> QED
      BY <1>2, <1>3, <2>1, ElementInduction
  <1>5. PICK m \in S \cap P : \A k \in S \cap P : m <= k
    BY <1>1, <1>4
  <1> QED
    BY <1>1, <1>5

LEMMA NumberInduction ==
    ASSUME NEW Good, 0 \in Good, \A n \in Nat : n \in Good => n + 1 \in Good
    PROVE  \A n \in Nat : n \in Good
  <1> SUFFICES ASSUME Nat \ Good # {} PROVE FALSE
    OBVIOUS
  <1>1. PICK m \in Nat \ Good : \A k \in Nat \ Good : m <= k
    BY LeastElement
  <1>2. m - 1 \in Nat /\ m = (m - 1) + 1
    BY <1>1
  <1>3. m - 1 \in Good
    BY <1>1, <1>2
  <1> QED
    BY <1>1, <1>2, <1>3

\* A set of sequences over S that holds the empty one, and each with one more element.
LEMMA SequenceInduction ==
    ASSUME NEW S, NEW Good, <<>> \in Good,
           \A s \in Seq(S) : \A x \in S : s \in Good => Append(s, x) \in Good
    PROVE  \A s \in Seq(S) : s \in Good
  <1> DEFINE Fine == {n \in Nat : \A s \in Seq(S) : Len(s) = n => s \in Good}
  <1>1. 0 \in Fine
    OBVIOUS
  <1>2. ASSUME NEW n \in Nat, n \in Fine PROVE n + 1 \in Fine
    <2> SUFFICES ASSUME NEW s \in Seq(S), Len(s) = n + 1 PROVE s \in Good
      OBVIOUS
    <2> DEFINE t == SubSeq(s, 1, n)
    <2>1. t \in Seq(S) /\ Len(t) = n /\ s[n + 1] \in S
      OBVIOUS
    <2>2. s = Append(t, s[n + 1])
      OBVIOUS
    <2>3. t \in Good
      BY <1>2, <2>1
    <2> HIDE DEF t
    <2> QED
      BY <2>1, <2>2, <2>3
  <1>3. \A n \in Nat : n \in Fine
    <2> HIDE DEF Fine
    <2> QED
      BY <1>1, <1>2, NumberInduction
  <1> QED
    BY <1>3

-----------------------------------------------------------------------------
(* Sums.  SumFunctionOnSet is a function on the subsets of its indices,    *)
(* chosen to satisfy an equation: it exists and is the only one.           *)

Picked(s) == CHOOSE x \in s : TRUE

Partials(f, S, g) ==
    g = [s \in SUBSET S |-> IF s = {} THEN 0 ELSE f[Picked(s)] + g[s \ {Picked(s)}]]

TheSum(f, S) == (CHOOSE g : Partials(f, S, g))[S]

LEMMA SumIsTheSum == ASSUME NEW f, NEW S PROVE SumFunctionOnSet(f, S) = TheSum(f, S)
  BY DEF SumFunctionOnSet, FoldFunctionOnSet, MapThenFoldSet, TheSum, Partials, Picked

LEMMA PickedIsIn == ASSUME NEW s, s # {} PROVE Picked(s) \in s
  BY DEF Picked

LEMMA PartialsRestrict ==
    ASSUME NEW f, NEW S, NEW g, Partials(f, S, g), NEW U \in SUBSET S
    PROVE  Partials(f, U, [s \in SUBSET U |-> g[s]])
  <1> DEFINE h == [s \in SUBSET U |-> g[s]]
  <1>1. ASSUME NEW s \in SUBSET U, s # {} PROVE h[s] = f[Picked(s)] + h[s \ {Picked(s)}]
    <2>1. s \in SUBSET S /\ s \ {Picked(s)} \in SUBSET U
      OBVIOUS
    <2>2. g[s] = f[Picked(s)] + g[s \ {Picked(s)}]
      BY <1>1, <2>1 DEF Partials
    <2> QED
      BY <2>1, <2>2
  <1>2. h[{}] = 0
    BY DEF Partials
  <1> QED
    BY <1>1, <1>2 DEF Partials

LEMMA PartialsUnique ==
    ASSUME NEW f, NEW S, IsFiniteSet(S), NEW g, NEW h, Partials(f, S, g), Partials(f, S, h)
    PROVE  g[S] = h[S]
  <1> DEFINE Good == {T \in SUBSET S : g[T] = h[T]}
  <1>1. ASSUME NEW T \in SUBSET S, \A U \in SUBSET T : U # T => U \in Good
        PROVE  T \in Good
    <2>1. CASE T = {}
      BY <2>1 DEF Partials
    <2>2. CASE T # {}
      <3>1. T \ {Picked(T)} \in Good
        BY <1>1, <2>2, PickedIsIn
      <3>2. /\ g[T] = f[Picked(T)] + g[T \ {Picked(T)}]
            /\ h[T] = f[Picked(T)] + h[T \ {Picked(T)}]
        BY <2>2 DEF Partials
      <3> QED
        BY <3>1, <3>2
    <2> QED
      BY <2>1, <2>2
  <1>2. S \in Good
    <2> HIDE DEF Good
    <2> QED
      BY <1>1, SubsetInduction
  <1> QED
    BY <1>2

LEMMA PartialsExist ==
    ASSUME NEW f, NEW S, IsFiniteSet(S)
    PROVE  \E g : Partials(f, S, g)
  <1> DEFINE Good == {T \in SUBSET S : \E g : Partials(f, T, g)}
             V(T) == (CHOOSE g : Partials(f, T, g))[T]
  <1>1. ASSUME NEW T \in SUBSET S, \A U \in SUBSET T : U # T => U \in Good
        PROVE  T \in Good
    <2> DEFINE g == [s \in SUBSET T |-> IF s = {} THEN 0 ELSE f[Picked(s)] + V(s \ {Picked(s)})]
    <2>1. ASSUME NEW s \in SUBSET T, s # T PROVE V(s) = g[s]
      <3> DEFINE h == CHOOSE h : Partials(f, s, h)
                 rest == s \ {Picked(s)}
      <3>1. Partials(f, s, h)
        BY <1>1, <2>1
      <3>2. CASE s = {}
        <4>1. h[s] = 0
          BY <3>1, <3>2 DEF Partials
        <4> QED
          BY <3>2, <4>1
      <3>3. CASE s # {}
        <4>1. h[s] = f[Picked(s)] + h[rest]
          BY <3>1, <3>3 DEF Partials
        <4>2. Partials(f, rest, [t \in SUBSET rest |-> h[t]])
          <5> HIDE DEF h
          <5> QED
            BY <3>1, PartialsRestrict
        <4>3. IsFiniteSet(rest) /\ rest \in SUBSET T /\ rest # T
          BY <2>1, <3>3, PickedIsIn, FS_Subset
        <4>4. Partials(f, rest, CHOOSE i : Partials(f, rest, i))
          BY <1>1, <4>3
        <4>5. V(rest) = h[rest]
          <5> HIDE DEF h
          <5>1. [t \in SUBSET rest |-> h[t]][rest] = V(rest)
            BY <4>2, <4>3, <4>4, PartialsUnique
          <5> QED
            BY <5>1
        <4> QED
          BY <3>3, <4>1, <4>5
      <3> QED
        BY <3>2, <3>3
    <2>2. ASSUME NEW s \in SUBSET T, s # {} PROVE g[s] = f[Picked(s)] + g[s \ {Picked(s)}]
      <3>1. s \ {Picked(s)} \in SUBSET T /\ s \ {Picked(s)} # T
        BY <2>2, PickedIsIn
      <3>2. V(s \ {Picked(s)}) = g[s \ {Picked(s)}]
        BY <2>1, <3>1
      <3>3. g[s] = f[Picked(s)] + V(s \ {Picked(s)})
        BY <2>2
      <3> QED
        BY <3>2, <3>3
    <2>3. Partials(f, T, g)
      <3>1. g = [s \in SUBSET T |-> g[s]] /\ g[{}] = 0
        OBVIOUS
      <3> HIDE DEF g
      <3> QED
        BY <2>2, <3>1 DEF Partials
    <2> QED
      BY <2>3
  <1>2. S \in Good
    <2> HIDE DEF Good
    <2> QED
      BY <1>1, SubsetInduction
  <1> QED
    BY <1>2

\* The picked element of S and then the rest.
LEMMA SumUnfolds ==
    ASSUME NEW f, NEW S, IsFiniteSet(S)
    PROVE  SumFunctionOnSet(f, S) =
               IF S = {} THEN 0 ELSE f[Picked(S)] + SumFunctionOnSet(f, S \ {Picked(S)})
  <1> DEFINE g == CHOOSE g : Partials(f, S, g)
             rest == S \ {Picked(S)}
  <1>1. Partials(f, S, g) /\ SumFunctionOnSet(f, S) = g[S]
    BY PartialsExist, SumIsTheSum DEF TheSum
  <1> HIDE DEF g
  <1>2. CASE S = {}
    BY <1>1, <1>2 DEF Partials
  <1>3. CASE S # {}
    <2>1. g[S] = f[Picked(S)] + g[rest]
      BY <1>1, <1>3 DEF Partials
    <2>2. IsFiniteSet(rest)
      BY FS_Subset
    <2>3. Partials(f, rest, CHOOSE i : Partials(f, rest, i))
      BY <2>2, PartialsExist
    <2>4. Partials(f, rest, [t \in SUBSET rest |-> g[t]])
      BY <1>1, PartialsRestrict
    <2>5. SumFunctionOnSet(f, rest) = [t \in SUBSET rest |-> g[t]][rest]
      BY <2>2, <2>3, <2>4, PartialsUnique, SumIsTheSum DEF TheSum
    <2> QED
      BY <1>1, <1>3, <2>1, <2>5
  <1> QED
    BY <1>2, <1>3

LEMMA SumOfNone == ASSUME NEW f PROVE SumFunctionOnSet(f, {}) = 0
  BY SumUnfolds, FS_EmptySet

LEMMA SumIsInt ==
    ASSUME NEW f, NEW S, IsFiniteSet(S), \A x \in S : f[x] \in Int
    PROVE  SumFunctionOnSet(f, S) \in Int
  <1> DEFINE Good == {T \in SUBSET S : SumFunctionOnSet(f, T) \in Int}
  <1>1. ASSUME NEW T \in SUBSET S, \A U \in SUBSET T : U # T => U \in Good
        PROVE  T \in Good
    <2>1. IsFiniteSet(T)
      BY FS_Subset
    <2>2. CASE T = {}
      BY <2>2, SumOfNone
    <2>3. CASE T # {}
      <3>1. Picked(T) \in T /\ SumFunctionOnSet(f, T \ {Picked(T)}) \in Int
        BY <1>1, <2>3, PickedIsIn
      <3> QED
        BY <2>1, <2>3, <3>1, SumUnfolds
    <2> QED
      BY <2>2, <2>3
  <1>2. S \in Good
    <2> HIDE DEF Good
    <2> QED
      BY <1>1, SubsetInduction
  <1> QED
    BY <1>2

\* Any element and then the rest.
LEMMA SumTakesOut ==
    ASSUME NEW f, NEW S, IsFiniteSet(S), \A x \in S : f[x] \in Int, NEW e \in S
    PROVE  SumFunctionOnSet(f, S) = f[e] + SumFunctionOnSet(f, S \ {e})
  <1> DEFINE Good == {T \in SUBSET S : \A x \in T :
                         SumFunctionOnSet(f, T) = f[x] + SumFunctionOnSet(f, T \ {x})}
  <1>1. ASSUME NEW T \in SUBSET S, \A U \in SUBSET T : U # T => U \in Good, NEW x \in T
        PROVE  SumFunctionOnSet(f, T) = f[x] + SumFunctionOnSet(f, T \ {x})
    <2> DEFINE a == Picked(T)
               both == T \ {a, x}
    <2>0. /\ a \in T /\ IsFiniteSet(T) /\ IsFiniteSet(T \ {x}) /\ IsFiniteSet(both)
          /\ f[a] \in Int /\ f[x] \in Int
      BY PickedIsIn, FS_Subset
    <2>1. SumFunctionOnSet(f, T) = f[a] + SumFunctionOnSet(f, T \ {a})
      BY <2>0, SumUnfolds
    <2>2. CASE x = a
      BY <2>1, <2>2
    <2>3. CASE x # a
      <3>1. T \ {a} \in Good /\ T \ {x} \in Good /\ x \in T \ {a} /\ a \in T \ {x}
        BY <1>1, <2>0, <2>3
      <3>2. (T \ {a}) \ {x} = both /\ (T \ {x}) \ {a} = both
        OBVIOUS
      <3>3. SumFunctionOnSet(f, T \ {a}) = f[x] + SumFunctionOnSet(f, both)
        BY <3>1, <3>2
      <3>4. SumFunctionOnSet(f, T \ {x}) = f[a] + SumFunctionOnSet(f, both)
        BY <3>1, <3>2
      <3>5. SumFunctionOnSet(f, both) \in Int
        BY <2>0, SumIsInt
      <3> HIDE DEF both, a
      <3> QED
        BY <2>0, <2>1, <3>3, <3>4, <3>5
    <2> QED
      BY <2>2, <2>3
  <1>2. S \in Good
    <2>1. \A T \in SUBSET S : (\A U \in SUBSET T : U # T => U \in Good) => T \in Good
      BY <1>1
    <2> HIDE DEF Good
    <2> QED
      BY <2>1, SubsetInduction
  <1> QED
    BY <1>2

LEMMA SumAgrees ==
    ASSUME NEW f, NEW g, NEW S, IsFiniteSet(S), \A x \in S : f[x] = g[x]
    PROVE  SumFunctionOnSet(f, S) = SumFunctionOnSet(g, S)
  <1> DEFINE Good == {T \in SUBSET S : SumFunctionOnSet(f, T) = SumFunctionOnSet(g, T)}
  <1>1. ASSUME NEW T \in SUBSET S, \A U \in SUBSET T : U # T => U \in Good
        PROVE  T \in Good
    <2>1. IsFiniteSet(T)
      BY FS_Subset
    <2>2. CASE T = {}
      BY <2>2, SumOfNone
    <2>3. CASE T # {}
      <3>1. Picked(T) \in T /\ T \ {Picked(T)} \in Good
        BY <1>1, <2>3, PickedIsIn
      <3> QED
        BY <2>1, <2>3, <3>1, SumUnfolds
    <2> QED
      BY <2>2, <2>3
  <1>2. S \in Good
    <2> HIDE DEF Good
    <2> QED
      BY <1>1, SubsetInduction
  <1> QED
    BY <1>2

\* One element gets another value.
LEMMA SumChanges ==
    ASSUME NEW f, NEW g, NEW S, IsFiniteSet(S), NEW e \in S,
           \A x \in S : f[x] \in Int /\ g[x] \in Int, \A x \in S \ {e} : f[x] = g[x]
    PROVE  SumFunctionOnSet(g, S) = SumFunctionOnSet(f, S) - f[e] + g[e]
  <1>1. IsFiniteSet(S \ {e})
    BY FS_Subset
  <1>2. SumFunctionOnSet(f, S \ {e}) = SumFunctionOnSet(g, S \ {e})
    BY <1>1, SumAgrees
  <1>3. SumFunctionOnSet(f, S \ {e}) \in Int
    BY <1>1, SumIsInt
  <1> QED
    BY <1>2, <1>3, SumTakesOut

\* Every value grows by that of another function.
LEMMA SumIsMonotone ==
    ASSUME NEW f, NEW g, NEW S, IsFiniteSet(S),
           \A x \in S : f[x] \in Int /\ g[x] \in Int /\ f[x] <= g[x]
    PROVE  SumFunctionOnSet(f, S) <= SumFunctionOnSet(g, S)
  <1> DEFINE Good == {T \in SUBSET S : SumFunctionOnSet(f, T) <= SumFunctionOnSet(g, T)}
  <1>1. ASSUME NEW T \in SUBSET S, \A U \in SUBSET T : U # T => U \in Good
        PROVE  T \in Good
    <2>1. IsFiniteSet(T) /\ IsFiniteSet(T \ {Picked(T)})
      BY FS_Subset
    <2>2. CASE T = {}
      BY <2>2, SumOfNone
    <2>3. CASE T # {}
      <3>1. Picked(T) \in T /\ T \ {Picked(T)} \in Good
        BY <1>1, <2>3, PickedIsIn
      <3>2. /\ SumFunctionOnSet(f, T \ {Picked(T)}) \in Int
            /\ SumFunctionOnSet(g, T \ {Picked(T)}) \in Int
        BY <2>1, SumIsInt
      <3> QED
        BY <2>1, <2>3, <3>1, <3>2, SumUnfolds
    <2> QED
      BY <2>2, <2>3
  <1>2. S \in Good
    <2> HIDE DEF Good
    <2> QED
      BY <1>1, SubsetInduction
  <1> QED
    BY <1>2

LEMMA SumOfZeros ==
    ASSUME NEW f, NEW S, IsFiniteSet(S), \A x \in S : f[x] = 0
    PROVE  SumFunctionOnSet(f, S) = 0
  <1> DEFINE Good == {T \in SUBSET S : SumFunctionOnSet(f, T) = 0}
  <1>1. ASSUME NEW T \in SUBSET S, \A U \in SUBSET T : U # T => U \in Good
        PROVE  T \in Good
    <2>1. IsFiniteSet(T)
      BY FS_Subset
    <2>2. CASE T = {}
      BY <2>2, SumOfNone
    <2>3. CASE T # {}
      <3>1. Picked(T) \in T /\ T \ {Picked(T)} \in Good
        BY <1>1, <2>3, PickedIsIn
      <3> QED
        BY <2>1, <2>3, <3>1, SumUnfolds
    <2> QED
      BY <2>2, <2>3
  <1>2. S \in Good
    <2> HIDE DEF Good
    <2> QED
      BY <1>1, SubsetInduction
  <1> QED
    BY <1>2

LEMMA SumIsNat ==
    ASSUME NEW f, NEW S, IsFiniteSet(S), \A x \in S : f[x] \in Nat
    PROVE  /\ SumFunctionOnSet(f, S) \in Nat
           /\ \A e \in S : f[e] <= SumFunctionOnSet(f, S)
  <1>1. ASSUME NEW T \in SUBSET S PROVE SumFunctionOnSet(f, T) \in Nat
    <2> DEFINE z == [x \in T |-> 0]
    <2>1. IsFiniteSet(T)
      BY FS_Subset
    <2>2. SumFunctionOnSet(f, T) \in Int
      BY <2>1, SumIsInt
    <2>3. SumFunctionOnSet(z, T) = 0
      BY <2>1, SumOfZeros
    <2>4. \A x \in T : z[x] \in Int /\ f[x] \in Int /\ z[x] <= f[x]
      OBVIOUS
    <2> HIDE DEF z
    <2>5. SumFunctionOnSet(z, T) <= SumFunctionOnSet(f, T)
      BY <2>1, <2>4, SumIsMonotone
    <2> QED
      BY <2>2, <2>3, <2>5
  <1>2. ASSUME NEW e \in S PROVE f[e] <= SumFunctionOnSet(f, S)
    <2>1. SumFunctionOnSet(f, S) = f[e] + SumFunctionOnSet(f, S \ {e})
      BY SumTakesOut
    <2>2. SumFunctionOnSet(f, S \ {e}) \in Nat
      BY <1>1
    <2> QED
      BY <2>1, <2>2
  <1>3. SumFunctionOnSet(f, S) \in Nat
    BY <1>1
  <1> QED
    BY <1>2, <1>3

-----------------------------------------------------------------------------
(* Selections *)

Selecting(s, T, f) ==
    f = [n \in 0 .. Len(s) |-> IF n = 0 THEN <<>>
                               ELSE IF s[n] \in T THEN Append(f[n - 1], s[n])
                               ELSE f[n - 1]]

LEMMA SelectingExists ==
    ASSUME NEW S, NEW s \in Seq(S), NEW T
    PROVE  \E f : Selecting(s, T, f)
  <1> DEFINE Good == {t \in Seq(S) : \E f : Selecting(t, T, f)}
  <1>1. <<>> \in Good
    <2>1. Selecting(<<>>, T, [n \in 0 .. 0 |-> <<>>])
      BY DEF Selecting
    <2> QED
      BY <2>1
  <1>2. ASSUME NEW t \in Seq(S), NEW x \in S, t \in Good PROVE Append(t, x) \in Good
    <2> DEFINE u == Append(t, x)
    <2>1. PICK f : Selecting(t, T, f)
      BY <1>2
    <2> DEFINE g == [n \in 0 .. Len(t) + 1 |->
                        IF n = Len(t) + 1 THEN (IF x \in T THEN Append(f[Len(t)], x) ELSE f[Len(t)])
                        ELSE f[n]]
    <2>2. Len(t) \in Nat /\ Len(u) = Len(t) + 1 /\ u \in Seq(S) /\ u[Len(u)] = x
          /\ \A n \in 1 .. Len(t) : u[n] = t[n]
      OBVIOUS
    <2> HIDE DEF u
    <2>3. ASSUME NEW n \in 0 .. Len(u)
          PROVE  g[n] = IF n = 0 THEN <<>>
                        ELSE IF u[n] \in T THEN Append(g[n - 1], u[n])
                        ELSE g[n - 1]
      <3>1. CASE n = Len(u)
        <4>1. g[n - 1] = f[Len(t)]
          BY <2>2, <3>1
        <4> QED
          BY <2>2, <3>1, <4>1
      <3>2. CASE n # Len(u)
        <4>1. n \in 0 .. Len(t) /\ g[n] = f[n] /\ (n # 0 => n - 1 \in 0 .. Len(t) /\ g[n - 1] = f[n - 1])
          BY <2>2, <3>2
        <4>2. f[n] = IF n = 0 THEN <<>>
                     ELSE IF t[n] \in T THEN Append(f[n - 1], t[n])
                     ELSE f[n - 1]
          BY <2>1, <4>1 DEF Selecting
        <4> HIDE DEF g
        <4> QED
          BY <2>2, <4>1, <4>2
      <3> QED
        BY <3>1, <3>2
    <2>4. g = [n \in 0 .. Len(u) |-> g[n]]
      BY <2>2
    <2> HIDE DEF g
    <2>5. Selecting(u, T, g)
      BY <2>3, <2>4 DEF Selecting
    <2> QED
      BY <2>2, <2>5 DEF u
  <1> HIDE DEF Good
  <1>3. s \in Good
    BY <1>1, <1>2, SequenceInduction
  <1> QED
    BY <1>3 DEF Good

LEMMA SelectionIsSelecting ==
    ASSUME NEW S, NEW s \in Seq(S), NEW T
    PROVE  Selecting(s, T, CHOOSE f : Selecting(s, T, f))
           /\ Selection(s, T) = (CHOOSE f : Selecting(s, T, f))[Len(s)]
  <1>1. Selecting(s, T, CHOOSE f : Selecting(s, T, f))
    BY SelectingExists
  <1>2. Selection(s, T) = (CHOOSE f : Selecting(s, T, f))[Len(s)]
    BY DEF Selection, Selecting
  <1> QED
    BY <1>1, <1>2

\* Two runs over sequences that agree up to n.
LEMMA SelectingAgrees ==
    ASSUME NEW s, NEW t, NEW T, NEW f, NEW g, Selecting(s, T, f), Selecting(t, T, g),
           Len(s) \in Nat, Len(t) \in Nat,
           NEW m \in Nat, m <= Len(s), m <= Len(t), \A n \in 1 .. m : s[n] = t[n]
    PROVE  f[m] = g[m]
  <1> DEFINE Good == {n \in Nat : n <= m => f[n] = g[n]}
  <1>1. 0 \in Good
    BY DEF Selecting
  <1>2. ASSUME NEW n \in Nat, n \in Good PROVE n + 1 \in Good
    <2> SUFFICES ASSUME n + 1 <= m PROVE f[n + 1] = g[n + 1]
      OBVIOUS
    <2>1. f[n] = g[n] /\ s[n + 1] = t[n + 1]
      BY <1>2
    <2>2. n + 1 \in 0 .. Len(s) /\ n + 1 \in 0 .. Len(t) /\ n + 1 # 0 /\ (n + 1) - 1 = n
      OBVIOUS
    <2>3. f[n + 1] = IF s[n + 1] \in T THEN Append(f[n], s[n + 1]) ELSE f[n]
      BY <2>2 DEF Selecting
    <2>4. g[n + 1] = IF t[n + 1] \in T THEN Append(g[n], t[n + 1]) ELSE g[n]
      BY <2>2 DEF Selecting
    <2> QED
      BY <2>1, <2>3, <2>4
  <1> HIDE DEF Good
  <1>3. \A n \in Nat : n \in Good
    BY <1>1, <1>2, NumberInduction
  <1> QED
    BY <1>3 DEF Good

\* The two equations that define a selection.
LEMMA SelectionOfNone == ASSUME NEW T PROVE Selection(<<>>, T) = <<>>
  <1> DEFINE f == CHOOSE h : Selecting(<<>>, T, h)
  <1>1. <<>> \in Seq({}) /\ Len(<<>>) = 0
    OBVIOUS
  <1>2. Selecting(<<>>, T, f) /\ Selection(<<>>, T) = f[Len(<<>>)]
    BY <1>1, SelectionIsSelecting
  <1> HIDE DEF f
  <1>3. f[0] = <<>>
    BY <1>1, <1>2 DEF Selecting
  <1> QED
    BY <1>1, <1>2, <1>3

LEMMA SelectionAppends ==
    ASSUME NEW S, NEW s \in Seq(S), NEW x \in S, NEW T
    PROVE  Selection(Append(s, x), T) =
               IF x \in T THEN Append(Selection(s, T), x) ELSE Selection(s, T)
  <1> DEFINE u == Append(s, x)
             f == CHOOSE h : Selecting(s, T, h)
             g == CHOOSE h : Selecting(u, T, h)
  <1>1. /\ u \in Seq(S) /\ Len(u) = Len(s) + 1 /\ u[Len(u)] = x /\ Len(s) \in Nat
        /\ \A n \in 1 .. Len(s) : s[n] = u[n]
    OBVIOUS
  <1>2. Selecting(s, T, f) /\ Selection(s, T) = f[Len(s)]
    BY SelectionIsSelecting
  <1>3. Selecting(u, T, g) /\ Selection(u, T) = g[Len(u)]
    BY <1>1, SelectionIsSelecting
  <1> HIDE DEF u, f, g
  <1>4. f[Len(s)] = g[Len(s)]
    BY <1>1, <1>2, <1>3, SelectingAgrees
  <1>5. Len(u) \in 0 .. Len(u) /\ Len(u) # 0 /\ Len(u) - 1 = Len(s)
    BY <1>1
  <1>6. g[Len(u)] = IF x \in T THEN Append(g[Len(s)], x) ELSE g[Len(s)]
    BY <1>1, <1>3, <1>5 DEF Selecting
  <1> QED
    BY <1>2, <1>3, <1>4, <1>6 DEF u

\* What is selected, in the order it had.
LEMMA SelectionEmbeds ==
    ASSUME NEW S, NEW s \in Seq(S), NEW T
    PROVE  /\ Selection(s, T) \in Seq(S) /\ Len(Selection(s, T)) <= Len(s)
           /\ \E h \in [1 .. Len(Selection(s, T)) -> 1 .. Len(s)] :
                 /\ \A i \in 1 .. Len(Selection(s, T)) :
                       s[h[i]] \in T /\ Selection(s, T)[i] = s[h[i]]
                 /\ \A i, j \in 1 .. Len(Selection(s, T)) : i < j => h[i] < h[j]
                 /\ \A k \in 1 .. Len(s) : s[k] \in T => \E i \in 1 .. Len(Selection(s, T)) : h[i] = k
  <1> DEFINE Sel(t) == Selection(t, T)
             Maps(t, h) ==
                 /\ h \in [1 .. Len(Sel(t)) -> 1 .. Len(t)]
                 /\ \A i \in 1 .. Len(Sel(t)) : t[h[i]] \in T /\ Sel(t)[i] = t[h[i]]
                 /\ \A i, j \in 1 .. Len(Sel(t)) : i < j => h[i] < h[j]
                 /\ \A k \in 1 .. Len(t) : t[k] \in T => \E i \in 1 .. Len(Sel(t)) : h[i] = k
             Good == {t \in Seq(S) : Sel(t) \in Seq(S) /\ Len(Sel(t)) <= Len(t) /\ \E h : Maps(t, h)}
  <1>1. <<>> \in Good
    <2>1. ASSUME NEW e, e = <<>> PROVE e \in Good
      <3>1. Sel(e) = e
        BY <2>1, SelectionOfNone
      <3>2. e \in Seq(S) /\ Len(e) = 0
        BY <2>1
      <3>3. Maps(e, e)
        BY <2>1, <3>1
      <3>4. Sel(e) \in Seq(S) /\ Len(Sel(e)) <= Len(e) /\ \E h : Maps(e, h)
        <4> HIDE DEF Maps
        <4> QED
          BY <3>1, <3>2, <3>3
      <3> HIDE DEF Maps, Sel
      <3> QED
        BY <3>2, <3>4
    <2> HIDE DEF Good
    <2> QED
      BY <2>1
  <1>2. ASSUME NEW t \in Seq(S), NEW x \in S, t \in Good PROVE Append(t, x) \in Good
    <2> DEFINE u == Append(t, x)
               a == Sel(t)
               b == Sel(u)
    <2>1. /\ u \in Seq(S) /\ Len(u) = Len(t) + 1 /\ u[Len(u)] = x /\ Len(t) \in Nat
          /\ \A n \in 1 .. Len(t) : t[n] = u[n]
      OBVIOUS
    <2>2. a \in Seq(S) /\ Len(a) <= Len(t)
      BY <1>2
    <2>3. PICK h : Maps(t, h)
      BY <1>2
    <2>4. b = IF x \in T THEN Append(a, x) ELSE a
      BY SelectionAppends
    <2>5. CASE x \notin T
      <3>1. b = a
        BY <2>4, <2>5
      <3>0. /\ h \in [1 .. Len(a) -> 1 .. Len(t)]
            /\ \A i \in 1 .. Len(a) : t[h[i]] \in T /\ a[i] = t[h[i]]
            /\ \A i, j \in 1 .. Len(a) : i < j => h[i] < h[j]
            /\ \A k \in 1 .. Len(t) : t[k] \in T => \E i \in 1 .. Len(a) : h[i] = k
        BY <2>3
      <3> HIDE DEF u, a, b
      <3>2. /\ h \in [1 .. Len(b) -> 1 .. Len(u)]
            /\ \A i \in 1 .. Len(b) : u[h[i]] \in T /\ b[i] = u[h[i]]
            /\ \A i, j \in 1 .. Len(b) : i < j => h[i] < h[j]
            /\ \A k \in 1 .. Len(u) : u[k] \in T => \E i \in 1 .. Len(b) : h[i] = k
        <4>1. h \in [1 .. Len(b) -> 1 .. Len(u)]
          BY <2>1, <2>2, <3>0, <3>1
        <4>2. \A i \in 1 .. Len(b) : u[h[i]] \in T /\ b[i] = u[h[i]]
          BY <2>1, <3>0, <3>1
        <4>3. ASSUME NEW k \in 1 .. Len(u), u[k] \in T PROVE \E i \in 1 .. Len(b) : h[i] = k
          <5>1. k \in 1 .. Len(t) /\ t[k] \in T
            BY <2>1, <2>5, <4>3
          <5> QED
            BY <3>0, <3>1, <5>1
        <4> QED
          BY <3>0, <3>1, <4>1, <4>2, <4>3
      <3>3. \E i : Maps(u, i)
        BY <3>2 DEF b
      <3>4. b \in Seq(S) /\ Len(b) <= Len(u)
        BY <2>1, <2>2, <3>1
      <3> HIDE DEF Maps
      <3> QED
        BY <2>1, <3>3, <3>4 DEF u, b
    <2>6. CASE x \in T
      <3> DEFINE g == [i \in 1 .. Len(a) + 1 |-> IF i = Len(a) + 1 THEN Len(u) ELSE h[i]]
      <3>1. /\ b \in Seq(S) /\ Len(b) = Len(a) + 1 /\ b[Len(a) + 1] = x /\ Len(a) \in Nat
            /\ \A n \in 1 .. Len(a) : b[n] = a[n]
        BY <2>2, <2>4, <2>6
      <3>2. /\ h \in [1 .. Len(a) -> 1 .. Len(t)]
            /\ \A i \in 1 .. Len(a) : t[h[i]] \in T /\ a[i] = t[h[i]]
            /\ \A i, j \in 1 .. Len(a) : i < j => h[i] < h[j]
            /\ \A k \in 1 .. Len(t) : t[k] \in T => \E i \in 1 .. Len(a) : h[i] = k
        BY <2>3
      <3> HIDE DEF a, b, u
      <3>3. g \in [1 .. Len(b) -> 1 .. Len(u)]
        BY <2>1, <3>1, <3>2
      <3>4. \A i \in 1 .. Len(b) : u[g[i]] \in T /\ b[i] = u[g[i]]
        <4> TAKE i \in 1 .. Len(b)
        <4>1. CASE i = Len(a) + 1
          BY <2>1, <2>6, <3>1, <4>1
        <4>2. CASE i # Len(a) + 1
          <5>1. i \in 1 .. Len(a) /\ g[i] = h[i] /\ h[i] \in 1 .. Len(t)
            BY <3>1, <3>2, <4>2
          <5> HIDE DEF g
          <5> QED
            BY <2>1, <3>1, <3>2, <5>1
        <4> QED
          BY <4>1, <4>2
      <3>5. \A i, j \in 1 .. Len(b) : i < j => g[i] < g[j]
        <4> SUFFICES ASSUME NEW i \in 1 .. Len(b), NEW j \in 1 .. Len(b), i < j PROVE g[i] < g[j]
          OBVIOUS
        <4>1. i \in 1 .. Len(a) /\ g[i] = h[i] /\ h[i] \in 1 .. Len(t)
          <5>1. i \in 1 .. Len(a) /\ i # Len(a) + 1
            BY <3>1
          <5>2. g[i] = h[i]
            BY <5>1
          <5>3. h[i] \in 1 .. Len(t)
            BY <3>2, <5>1
          <5> QED
            BY <5>1, <5>2, <5>3
        <4>2. CASE j = Len(a) + 1
          BY <2>1, <4>1, <4>2
        <4>3. CASE j # Len(a) + 1
          <5>1. j \in 1 .. Len(a) /\ g[j] = h[j]
            BY <3>1, <4>3
          <5> QED
            BY <3>2, <4>1, <5>1
        <4> QED
          BY <4>2, <4>3
      <3>6. ASSUME NEW k \in 1 .. Len(u), u[k] \in T PROVE \E i \in 1 .. Len(b) : g[i] = k
        <4>1. CASE k = Len(u)
          <5>1. Len(b) \in 1 .. Len(b) /\ g[Len(b)] = k
            BY <3>1, <4>1
          <5> QED
            BY <5>1
        <4>2. CASE k # Len(u)
          <5>1. k \in 1 .. Len(t) /\ t[k] \in T
            BY <2>1, <3>6, <4>2
          <5>2. PICK i \in 1 .. Len(a) : h[i] = k
            BY <3>2, <5>1
          <5>3. i \in 1 .. Len(b) /\ g[i] = k
            BY <3>1, <5>2
          <5> QED
            BY <5>3
        <4> QED
          BY <4>1, <4>2
      <3> HIDE DEF g
      <3>7. \E i : Maps(u, i)
        BY <3>3, <3>4, <3>5, <3>6 DEF b
      <3>8. Len(b) <= Len(u)
        BY <2>1, <2>2, <3>1
      <3> HIDE DEF Maps
      <3> QED
        BY <2>1, <3>1, <3>7, <3>8 DEF u, b
    <2> QED
      BY <2>5, <2>6
  <1> HIDE DEF Good
  <1>3. s \in Good
    BY <1>1, <1>2, SequenceInduction
  <1> QED
    BY <1>3 DEF Good

\* Only the elements that a sequence has matter.
LEMMA SelectionWithin ==
    ASSUME NEW S, NEW s \in Seq(S), NEW T
    PROVE  Selection(s, T \cap S) = Selection(s, T)
  <1> DEFINE Good == {t \in Seq(S) : Selection(t, T \cap S) = Selection(t, T)}
  <1>1. <<>> \in Seq(S)
    OBVIOUS
  <1>2. <<>> \in Good
    BY <1>1, SelectionOfNone
  <1>3. ASSUME NEW t \in Seq(S), NEW x \in S, t \in Good PROVE Append(t, x) \in Good
    <2>1. Append(t, x) \in Seq(S)
      OBVIOUS
    <2>2. Selection(Append(t, x), T) = IF x \in T THEN Append(Selection(t, T), x) ELSE Selection(t, T)
      BY SelectionAppends
    <2>3. Selection(Append(t, x), T \cap S) = IF x \in T \cap S THEN Append(Selection(t, T \cap S), x)
                                              ELSE Selection(t, T \cap S)
      BY SelectionAppends
    <2> QED
      BY <1>3, <2>1, <2>2, <2>3
  <1> HIDE DEF Good
  <1>4. s \in Good
    BY <1>2, <1>3, SequenceInduction
  <1> QED
    BY <1>4 DEF Good

LEMMA SelectionType ==
    ASSUME NEW S, NEW s \in Seq(S), NEW T
    PROVE  Selection(s, T) \in Seq(S \cap T) /\ Len(Selection(s, T)) <= Len(s)
  <1> DEFINE t == Selection(s, T)
  <1>1. t \in Seq(S) /\ Len(t) <= Len(s) /\ \A i \in 1 .. Len(t) : t[i] \in T
    BY SelectionEmbeds
  <1> HIDE DEF t
  <1>2. t \in Seq(S \cap T)
    BY <1>1
  <1> QED
    BY <1>1, <1>2 DEF t

-----------------------------------------------------------------------------
(* Extending a sequence by what it does not have *)

Extending(s, t, f) ==
    f = [n \in 0 .. Len(t) |-> IF n = 0 THEN s
                               ELSE IF \E i \in 1 .. Len(f[n - 1]) : f[n - 1][i] = t[n] THEN f[n - 1]
                               ELSE Append(f[n - 1], t[n])]

LEMMA ExtendingExists ==
    ASSUME NEW S, NEW s, NEW t \in Seq(S)
    PROVE  \E f : Extending(s, t, f)
  <1> DEFINE Add(l, x) == IF \E i \in 1 .. Len(l) : l[i] = x THEN l ELSE Append(l, x)
             Good == {v \in Seq(S) : \E f : f = [n \in 0 .. Len(v) |-> IF n = 0 THEN s
                                                                      ELSE Add(f[n - 1], v[n])]}
  <1> HIDE DEF Add
  <1>1. ASSUME NEW e \in Seq(S), e = <<>> PROVE e \in Good
    <2> DEFINE g == [n \in 0 .. 0 |-> s]
    <2>1. Len(e) = 0
      BY <1>1
    <2>2. g = [n \in 0 .. Len(e) |-> IF n = 0 THEN s ELSE Add(g[n - 1], e[n])]
      BY <2>1
    <2> QED
      BY <2>2
  <1>2. ASSUME NEW v \in Seq(S), NEW x \in S, v \in Good PROVE Append(v, x) \in Good
    <2> DEFINE u == Append(v, x)
    <2>1. PICK f : f = [n \in 0 .. Len(v) |-> IF n = 0 THEN s ELSE Add(f[n - 1], v[n])]
      BY <1>2
    <2> DEFINE g == [n \in 0 .. Len(v) + 1 |-> IF n = Len(v) + 1 THEN Add(f[Len(v)], x) ELSE f[n]]
    <2>2. Len(v) \in Nat /\ Len(u) = Len(v) + 1 /\ u \in Seq(S) /\ u[Len(u)] = x
          /\ \A n \in 1 .. Len(v) : u[n] = v[n]
      OBVIOUS
    <2> HIDE DEF u
    <2>3. ASSUME NEW n \in 0 .. Len(u)
          PROVE  g[n] = IF n = 0 THEN s ELSE Add(g[n - 1], u[n])
      <3>1. CASE n = Len(u)
        <4>1. g[n - 1] = f[Len(v)] /\ g[n] = Add(f[Len(v)], x) /\ u[n] = x /\ n # 0
          BY <2>2, <3>1
        <4> HIDE DEF g
        <4> QED
          BY <4>1
      <3>2. CASE n # Len(u)
        <4>1. n \in 0 .. Len(v) /\ g[n] = f[n] /\ (n # 0 => n - 1 \in 0 .. Len(v) /\ g[n - 1] = f[n - 1])
          BY <2>2, <3>2
        <4>2. f[n] = IF n = 0 THEN s ELSE Add(f[n - 1], v[n])
          BY <2>1, <4>1
        <4>3. n # 0 => u[n] = v[n]
          BY <2>2, <4>1
        <4> HIDE DEF g
        <4> QED
          BY <4>1, <4>2, <4>3
      <3> QED
        BY <3>1, <3>2
    <2>4. g = [n \in 0 .. Len(u) |-> g[n]]
      BY <2>2
    <2> HIDE DEF g
    <2>5. g = [n \in 0 .. Len(u) |-> IF n = 0 THEN s ELSE Add(g[n - 1], u[n])]
      BY <2>3, <2>4
    <2> QED
      BY <2>2, <2>5 DEF u
  <1> HIDE DEF Good
  <1>4. <<>> \in Seq(S)
    OBVIOUS
  <1>5. <<>> \in Good
    BY <1>1, <1>4
  <1>6. t \in Good
    BY <1>2, <1>5, SequenceInduction
  <1> QED
    BY <1>6 DEF Good, Add, Extending

\* Extending a sequence of distinct elements leaves them distinct and adds only new ones.
LEMMA ExtendedKeeps ==
    ASSUME NEW S, NEW s \in Seq(S), NEW t \in Seq(S),
           \A i, j \in 1 .. Len(s) : s[i] = s[j] => i = j
    PROVE  /\ Extended(s, t) \in Seq(S)
           /\ \A i, j \in 1 .. Len(Extended(s, t)) : Extended(s, t)[i] = Extended(s, t)[j] => i = j
           /\ \A k \in 1 .. Len(Extended(s, t)) :
                  \/ \E i \in 1 .. Len(s) : Extended(s, t)[k] = s[i]
                  \/ \E i \in 1 .. Len(t) : Extended(s, t)[k] = t[i]
  <1> DEFINE f == CHOOSE h : Extending(s, t, h)
  <1>1. Extending(s, t, f)
    BY ExtendingExists
  <1>2. Extended(s, t) = f[Len(t)]
    BY DEF Extended, Extending
  <1> HIDE DEF f
  <1> DEFINE Fine(l) == /\ l \in Seq(S)
                        /\ \A i, j \in 1 .. Len(l) : l[i] = l[j] => i = j
                        /\ \A k \in 1 .. Len(l) : \/ \E i \in 1 .. Len(s) : l[k] = s[i]
                                                  \/ \E i \in 1 .. Len(t) : l[k] = t[i]
             Good == {n \in Nat : n <= Len(t) => Fine(f[n])}
  <1>3. Len(t) \in Nat
    OBVIOUS
  <1>4. 0 \in Good
    <2>1. f[0] = s
      BY <1>1, <1>3 DEF Extending
    <2>2. Fine(s)
      OBVIOUS
    <2> HIDE DEF Fine
    <2> QED
      BY <2>1, <2>2
  <1>5. ASSUME NEW n \in Nat, n \in Good PROVE n + 1 \in Good
    <2> SUFFICES ASSUME n + 1 <= Len(t) PROVE Fine(f[n + 1])
      OBVIOUS
    <2> DEFINE l == f[n]
               x == t[n + 1]
    <2>1. Fine(l)
      BY <1>3, <1>5
    <2>2. n + 1 \in 0 .. Len(t) /\ n + 1 # 0 /\ (n + 1) - 1 = n /\ n + 1 \in 1 .. Len(t)
      BY <1>3
    <2>3. f[n + 1] = IF \E i \in 1 .. Len(l) : l[i] = x THEN l ELSE Append(l, x)
      <3>1. \A k \in 0 .. Len(t) :
                f[k] = IF k = 0 THEN s
                       ELSE IF \E i \in 1 .. Len(f[k - 1]) : f[k - 1][i] = t[k] THEN f[k - 1]
                       ELSE Append(f[k - 1], t[k])
        BY <1>1 DEF Extending
      <3>2. f[n + 1] = IF \E i \in 1 .. Len(f[(n + 1) - 1]) : f[(n + 1) - 1][i] = t[n + 1]
                       THEN f[(n + 1) - 1]
                       ELSE Append(f[(n + 1) - 1], t[n + 1])
        BY <2>2, <3>1
      <3>3. (n + 1) - 1 = n
        BY <2>2
      <3> QED
        BY <3>2, <3>3
    <2>4. x \in S
      BY <2>2
    <2> HIDE DEF l
    <2>5. CASE \E i \in 1 .. Len(l) : l[i] = x
      <3> HIDE DEF Fine, x
      <3> QED
        BY <2>1, <2>3, <2>5
    <2>6. CASE ~ \E i \in 1 .. Len(l) : l[i] = x
      <3> DEFINE m == Append(l, x)
      <3>1. f[n + 1] = m
        BY <2>3, <2>6
      <3>2. Len(l) \in Nat /\ l \in Seq(S)
        BY <2>1
      <3> HIDE DEF x
      <3>3. m \in Seq(S) /\ Len(m) = Len(l) + 1 /\ m[Len(l) + 1] = x
            /\ \A i \in 1 .. Len(l) : m[i] = l[i]
        BY <2>4, <3>2
      <3> HIDE DEF m
      <3>4. \A i, j \in 1 .. Len(m) : m[i] = m[j] => i = j
        <4>1. \A i \in 1 .. Len(m) : i \in 1 .. Len(l) \/ i = Len(l) + 1
          BY <3>2, <3>3
        <4>2. \A i \in 1 .. Len(l) : m[i] # x
          BY <2>6, <3>3
        <4>3. \A i, j \in 1 .. Len(l) : m[i] = m[j] => i = j
          BY <2>1, <3>3
        <4> QED
          BY <3>3, <4>1, <4>2, <4>3
      <3>5. \A k \in 1 .. Len(m) : \/ \E i \in 1 .. Len(s) : m[k] = s[i]
                                   \/ \E i \in 1 .. Len(t) : m[k] = t[i]
        <4>1. \A i \in 1 .. Len(m) : i \in 1 .. Len(l) \/ i = Len(l) + 1
          BY <3>2, <3>3
        <4>2. m[Len(l) + 1] = t[n + 1]
          BY <3>3 DEF x
        <4>3. \A i \in 1 .. Len(l) : m[i] = l[i]
          BY <3>3
        <4>4. \A i \in 1 .. Len(l) : \/ \E k \in 1 .. Len(s) : l[i] = s[k]
                                     \/ \E k \in 1 .. Len(t) : l[i] = t[k]
          BY <2>1
        <4> QED
          BY <2>2, <4>1, <4>2, <4>3, <4>4
      <3>6. Fine(m)
        BY <3>3, <3>4, <3>5
      <3> HIDE DEF Fine
      <3> QED
        BY <3>1, <3>6
    <2> QED
      BY <2>5, <2>6
  <1> HIDE DEF Good
  <1>6. Len(t) \in Good
    BY <1>3, <1>4, <1>5, NumberInduction
  <1>7. Fine(f[Len(t)])
    BY <1>3, <1>6 DEF Good
  <1>8. Fine(Extended(s, t))
    <2> HIDE DEF Fine
    <2> QED
      BY <1>2, <1>7
  <1> QED
    BY <1>8

-----------------------------------------------------------------------------
(* Sorting *)

\* A stable sort rearranges the elements by their keys.
LEMMA SortPermutes ==
    ASSUME NEW S, NEW s \in Seq(S), NEW key, \A x \in S : key[x] \in Int
    PROVE  /\ StablySorted(s, key) \in Seq(S) /\ Len(StablySorted(s, key)) = Len(s)
           /\ \A n \in 1 .. Len(s) : \E i \in 1 .. Len(s) : StablySorted(s, key)[n] = s[i]
           /\ \A i \in 1 .. Len(s) : \E n \in 1 .. Len(s) : StablySorted(s, key)[n] = s[i]
  <1> DEFINE I == 1 .. Len(s)
             Before(i) == Preceding(s, key, i)
             place == [i \in I |-> Cardinality(Before(i))]
             h == [n \in I |-> CHOOSE i \in I : place[i] = n]
  <1>0. /\ IsFiniteSet(I) /\ Cardinality(I) = Len(s) /\ Len(s) \in Nat
        /\ \A i \in I : s[i] \in S /\ key[s[i]] \in Int
    <2>1. Len(s) \in Nat /\ 1 \in Int /\ Len(s) \in Int
      OBVIOUS
    <2>2. IsFiniteSet(I) /\ Cardinality(I) = Len(s)
      BY <2>1, FS_Interval
    <2>3. \A i \in I : s[i] \in S
      OBVIOUS
    <2> HIDE DEF I
    <2> QED
      BY <2>1, <2>2, <2>3
  <1>1. ASSUME NEW i \in I PROVE /\ i \in Before(i) /\ Before(i) \in SUBSET I
                                 /\ IsFiniteSet(Before(i)) /\ place[i] = Cardinality(Before(i))
    <2>1. i \in Before(i) /\ Before(i) \in SUBSET I
      BY <1>0 DEF Preceding
    <2>2. IsFiniteSet(Before(i))
      <3> HIDE DEF Before, I
      <3> QED
        BY <1>0, <2>1, FS_Subset
    <2> QED
      BY <2>1, <2>2
  <1>2. place \in [I -> I]
    <2> SUFFICES ASSUME NEW i \in I PROVE Cardinality(Before(i)) \in I
      OBVIOUS
    <2>1. Cardinality(Before(i)) \in Nat /\ Cardinality(Before(i)) <= Len(s)
      <3> HIDE DEF Before, I
      <3> QED
        BY <1>0, <1>1, FS_Subset, FS_CardinalityType
    <2>2. Cardinality(Before(i)) # 0
      <3> HIDE DEF Before
      <3> QED
        BY <1>1, FS_EmptySet
    <2> HIDE DEF Before
    <2> QED
      BY <1>0, <2>1, <2>2
  <1>3. ASSUME NEW i \in I, NEW j \in I, place[i] = place[j] PROVE i = j
    <2>1. ASSUME NEW a \in I, NEW b \in I, place[a] = place[b], a \in Before(b)
          PROVE  b \in Before(a)
      <3>1. Before(a) \in SUBSET Before(b)
        <4>1. key[s[a]] \in Int /\ key[s[b]] \in Int /\ \A c \in I : key[s[c]] \in Int
          BY <1>0
        <4> QED
          BY <2>1, <4>1 DEF Preceding
      <3> HIDE DEF Before, I
      <3>2. Before(a) = Before(b)
        BY <1>1, <2>1, <3>1, FS_Subset
      <3> QED
        BY <1>1, <3>2
    <2>2. key[s[i]] \in Int /\ key[s[j]] \in Int
      BY <1>0
    <2>3. i \in Before(j) \/ j \in Before(i)
      <3>1. i \in Int /\ j \in Int
        OBVIOUS
      <3>2. i <= j \/ j <= i
        BY <3>1
      <3>3. key[s[i]] < key[s[j]] \/ key[s[j]] < key[s[i]] \/ key[s[i]] = key[s[j]]
        BY <2>2
      <3> QED
        BY <3>2, <3>3 DEF Preceding
    <2>4. i \in Before(j) /\ j \in Before(i)
      <3> HIDE DEF Before, I, place
      <3> QED
        BY <1>3, <2>1, <2>3
    <2> QED
      BY <2>2, <2>4 DEF Preceding
  <1>4. ASSUME NEW n \in I PROVE \E i \in I : place[i] = n
    <2> HIDE DEF Before, place, I
    <2>1. place \in Injection(I, I)
      BY <1>2, <1>3 DEF Injection, IsInjective
    <2>2. place \in Surjection(I, I)
      BY <1>0, <2>1, FS_Injection
    <2> QED
      BY <2>2 DEF Surjection
  <1>5. /\ h \in [I -> I]
        /\ \A n \in I : place[h[n]] = n
    <2> HIDE DEF Before, place, I
    <2> QED
      BY <1>4
  <1>6. \A i \in I : PlaceOf(s, key, i) = place[i]
    <2> TAKE i \in I
    <2>1. PlaceOf(s, key, i) = Cardinality(Before(i))
      BY DEF PlaceOf
    <2> HIDE DEF Before
    <2> QED
      BY <2>1
  <1>7. StablySorted(s, key) = [n \in I |-> s[h[n]]]
    <2>1. StablySorted(s, key) = [n \in I |-> s[CHOOSE i \in I : PlaceOf(s, key, i) = n]]
      BY DEF StablySorted
    <2> HIDE DEF place
    <2>2. \A n \in I : (CHOOSE i \in I : PlaceOf(s, key, i) = n) = (CHOOSE i \in I : place[i] = n)
      BY <1>6
    <2> QED
      BY <2>1, <2>2
  <1> HIDE DEF Before, place, h
  <1>8. StablySorted(s, key) \in Seq(S) /\ Len(StablySorted(s, key)) = Len(s)
    BY <1>0, <1>5, <1>7
  <1> HIDE DEF I
  <1>9. \A n \in I : \E i \in I : StablySorted(s, key)[n] = s[i]
    BY <1>5, <1>7
  <1>10. \A i \in I : \E n \in I : StablySorted(s, key)[n] = s[i]
    <2> TAKE i \in I
    <2>1. place[i] \in I /\ h[place[i]] = i
      BY <1>2, <1>3, <1>5
    <2>2. StablySorted(s, key)[place[i]] = s[h[place[i]]]
      BY <1>7, <2>1
    <2> QED
      BY <2>1, <2>2
  <1> QED
    BY <1>8, <1>9, <1>10 DEF I

-----------------------------------------------------------------------------
(* Finite sets *)

LEMMA OneMore ==
    ASSUME NEW S, IsFiniteSet(S), NEW x
    PROVE  /\ IsFiniteSet(S \cup {x}) /\ Cardinality(S) \in Nat /\ Cardinality(S \cup {x}) \in Nat
           /\ Cardinality(S \cup {x}) <= Cardinality(S) + 1
           /\ x \notin S => Cardinality(S \cup {x}) = Cardinality(S) + 1
  <1>1. IsFiniteSet(S \cup {x})
        /\ Cardinality(S \cup {x}) = IF x \in S THEN Cardinality(S) ELSE Cardinality(S) + 1
    BY FS_AddElement
  <1>2. Cardinality(S) \in Nat
    BY FS_CardinalityType
  <1> QED
    BY <1>1, <1>2

LEMMA OneLess ==
    ASSUME NEW S, IsFiniteSet(S), NEW x
    PROVE  /\ IsFiniteSet(S \ {x}) /\ Cardinality(S) \in Nat /\ Cardinality(S \ {x}) \in Nat
           /\ Cardinality(S \ {x}) <= Cardinality(S)
           /\ x \in S => Cardinality(S \ {x}) = Cardinality(S) - 1
  <1>1. IsFiniteSet(S \ {x})
        /\ Cardinality(S \ {x}) = IF x \in S THEN Cardinality(S) - 1 ELSE Cardinality(S)
    BY FS_RemoveElement
  <1>2. Cardinality(S) \in Nat /\ Cardinality(S \ {x}) \in Nat
    BY <1>1, FS_CardinalityType
  <1> QED
    BY <1>1, <1>2

LEMMA Fewer ==
    ASSUME NEW S, IsFiniteSet(S), NEW T \in SUBSET S
    PROVE  /\ IsFiniteSet(T) /\ Cardinality(S) \in Nat /\ Cardinality(T) \in Nat
           /\ Cardinality(T) <= Cardinality(S)
  BY FS_Subset, FS_CardinalityType

\* Among finitely many values one is greatest.
LEMMA GreatestExists ==
    ASSUME NEW S, IsFiniteSet(S), NEW f, \A x \in S : f[x] \in Int
    PROVE  S # {} => \E x \in S : \A y \in S : f[y] <= f[x]
  <1> DEFINE Good == {T \in SUBSET S : T # {} => \E x \in T : \A y \in T : f[y] <= f[x]}
  <1>1. {} \in Good
    OBVIOUS
  <1>2. ASSUME NEW T \in SUBSET S, NEW e \in S \ T, T \in Good PROVE T \cup {e} \in Good
    <2>1. CASE T = {}
      BY <2>1
    <2>2. CASE T # {}
      <3>1. PICK x \in T : \A y \in T : f[y] <= f[x]
        BY <1>2, <2>2
      <3>2. CASE f[e] <= f[x]
        BY <3>1, <3>2
      <3>3. CASE ~(f[e] <= f[x])
        <4>1. \A y \in T \cup {e} : f[y] <= f[e]
          BY <3>1, <3>3
        <4> QED
          BY <4>1
      <3> QED
        BY <3>2, <3>3
    <2> QED
      BY <2>1, <2>2
  <1> HIDE DEF Good
  <1>3. S \in Good
    BY <1>1, <1>2, ElementInduction
  <1> QED
    BY <1>3 DEF Good

LEMMA ImageIsFinite ==
    ASSUME NEW S, IsFiniteSet(S), NEW f
    PROVE  IsFiniteSet({f[x] : x \in S}) /\ Cardinality({f[x] : x \in S}) <= Cardinality(S)
  <1> DEFINE T == {f[x] : x \in S}
             g == [x \in S |-> f[x]]
  <1>1. g \in Surjection(S, T)
    BY DEF Surjection
  <1> HIDE DEF g, T
  <1>2. IsFiniteSet(T) /\ Cardinality(T) <= Cardinality(S)
    BY <1>1, FS_Surjection
  <1> QED
    BY <1>2 DEF T

\* An injection into a finite set.
LEMMA InjectionBounds ==
    ASSUME NEW S, NEW T, IsFiniteSet(T), NEW f, \A x \in S : f[x] \in T,
           \A x, y \in S : f[x] = f[y] => x = y
    PROVE  IsFiniteSet(S) /\ Cardinality(S) <= Cardinality(T)
  <1> DEFINE g == [x \in S |-> f[x]]
  <1>1. g \in Injection(S, T)
    BY DEF Injection, IsInjective
  <1> HIDE DEF g
  <1> QED
    BY <1>1, FS_Injection

-----------------------------------------------------------------------------
(* Iterations *)

\* g is what x, f[x], f[f[x]] ... come to in N rounds.
Iterating(f, x, N, g) == g = [k \in 0 .. N |-> IF k = 0 THEN x ELSE f[g[k - 1]]]

\* A recursion over the rounds of a loop whose states stay within S has a solution.
LEMMA IterationExists ==
    ASSUME NEW S, NEW x \in S, NEW f, \A y \in S : f[y] \in S, NEW N \in Nat
    PROVE  \E g \in [0 .. N -> S] : Iterating(f, x, N, g)
  <1> DEFINE Good == {n \in Nat : \E g \in [0 .. n -> S] : Iterating(f, x, n, g)}
  <1>1. 0 \in Good
    <2>1. [k \in 0 .. 0 |-> x] \in [0 .. 0 -> S] /\ Iterating(f, x, 0, [k \in 0 .. 0 |-> x])
      BY DEF Iterating
    <2> QED
      BY <2>1
  <1>2. ASSUME NEW n \in Nat, n \in Good PROVE n + 1 \in Good
    <2>1. PICK g \in [0 .. n -> S] : Iterating(f, x, n, g)
      BY <1>2
    <2> DEFINE h == [k \in 0 .. n + 1 |-> IF k = n + 1 THEN f[g[n]] ELSE g[k]]
    <2>2. h \in [0 .. n + 1 -> S]
      BY <2>1
    <2>3. ASSUME NEW k \in 0 .. n + 1 PROVE h[k] = IF k = 0 THEN x ELSE f[h[k - 1]]
      <3>1. CASE k = n + 1
        <4>1. h[k - 1] = g[n] /\ h[k] = f[g[n]]
          BY <3>1
        <4> QED
          BY <3>1, <4>1
      <3>2. CASE k # n + 1
        <4>1. k \in 0 .. n /\ h[k] = g[k] /\ (k # 0 => k - 1 \in 0 .. n + 1 /\ h[k - 1] = g[k - 1])
          BY <3>2
        <4>2. g[k] = IF k = 0 THEN x ELSE f[g[k - 1]]
          BY <2>1, <4>1 DEF Iterating
        <4> QED
          BY <4>1, <4>2
      <3> QED
        BY <3>1, <3>2
    <2> HIDE DEF h
    <2>4. Iterating(f, x, n + 1, h)
      BY <2>2, <2>3 DEF Iterating
    <2> QED
      BY <2>2, <2>4
  <1> HIDE DEF Good
  <1>3. N \in Good
    BY <1>1, <1>2, NumberInduction
  <1> QED
    BY <1>3 DEF Good

\* A loop that ends in a state of Ended, in at most C rounds.
Looping(f, Ended, x, C, run) ==
    run = [k \in 0 .. C |-> IF k = 0 THEN x
                            ELSE IF run[k - 1] \in Ended THEN run[k - 1] ELSE f[run[k - 1]]]

LEMMA LoopEnds ==
    ASSUME NEW S, NEW x \in S, NEW Ended, NEW f, NEW size, \A s \in S : size[s] \in Nat,
           \A s \in S \ Ended : f[s] \in S /\ size[f[s]] < size[s],
           NEW C \in Nat, size[x] <= C
    PROVE  \E run \in [0 .. C -> S] : Looping(f, Ended, x, C, run) /\ run[C] \in Ended
  <1> DEFINE F == [s \in S |-> IF s \in Ended THEN s ELSE f[s]]
  <1>1. \A s \in S : F[s] \in S /\ F[s] = IF s \in Ended THEN s ELSE f[s]
    OBVIOUS
  <1> HIDE DEF F
  <1>2. PICK run \in [0 .. C -> S] : Iterating(F, x, C, run)
    BY <1>1, IterationExists
  <1>3. ASSUME NEW k \in 0 .. C
        PROVE  run[k] = IF k = 0 THEN x
                        ELSE IF run[k - 1] \in Ended THEN run[k - 1] ELSE f[run[k - 1]]
    <2>1. run[k] = IF k = 0 THEN x ELSE F[run[k - 1]]
      BY <1>2, Zenon DEF Iterating
    <2>2. CASE k = 0
      BY <2>1, <2>2
    <2>3. CASE k # 0
      <3>1. k - 1 \in 0 .. C
        BY <2>3
      <3>2. run[k - 1] \in S
        BY <1>2, <3>1
      <3> QED
        BY <1>1, <2>1, <2>3, <3>2
    <2> QED
      BY <2>2, <2>3
  <1>4. Looping(f, Ended, x, C, run)
    <2>1. run = [k \in 0 .. C |-> run[k]]
      BY <1>2
    <2> QED
      BY <1>3, <2>1 DEF Looping
  <1> DEFINE Good == {k \in Nat : k \in 0 .. C => run[k] \in Ended \/ size[run[k]] <= C - k}
  <1>5. 0 \in Good
    <2>1. 0 \in 0 .. C /\ C - 0 = C
      OBVIOUS
    <2>2. run[0] = x
      BY <1>3, <2>1
    <2> QED
      BY <2>1, <2>2
  <1>6. ASSUME NEW k \in Nat, k \in Good PROVE k + 1 \in Good
    <2> SUFFICES ASSUME k + 1 \in 0 .. C
                 PROVE  run[k + 1] \in Ended \/ size[run[k + 1]] <= C - (k + 1)
      OBVIOUS
    <2>1. k \in 0 .. C /\ k + 1 # 0 /\ (k + 1) - 1 = k
      OBVIOUS
    <2>2. run[k] \in S
      BY <1>2, <2>1
    <2>3. run[k + 1] = IF run[k] \in Ended THEN run[k] ELSE f[run[k]]
      BY <1>3, <2>1
    <2>4. CASE run[k] \in Ended
      BY <2>3, <2>4
    <2>5. CASE run[k] \notin Ended
      <3>1. size[run[k]] \in Nat /\ size[run[k]] <= C - k
        BY <1>6, <2>1, <2>2, <2>5
      <3>2. f[run[k]] \in S /\ size[f[run[k]]] < size[run[k]]
        BY <2>2, <2>5
      <3>3. size[f[run[k]]] \in Nat
        BY <3>2
      <3> QED
        BY <2>1, <2>3, <2>5, <3>1, <3>2, <3>3
    <2> QED
      BY <2>4, <2>5
  <1> HIDE DEF Good
  <1>7. C \in Good
    BY <1>5, <1>6, NumberInduction
  <1>8. run[C] \in Ended
    <2> SUFFICES ASSUME run[C] \notin Ended PROVE FALSE
      OBVIOUS
    <2>1. C \in 0 .. C /\ C - C = 0
      OBVIOUS
    <2>2. run[C] \in S
      BY <1>2, <2>1
    <2>3. size[run[C]] <= 0 /\ size[run[C]] \in Nat
      BY <1>7, <2>1, <2>2 DEF Good
    <2>4. f[run[C]] \in S /\ size[f[run[C]]] < size[run[C]]
      BY <2>2
    <2>5. size[f[run[C]]] \in Nat
      BY <2>4
    <2> QED
      BY <2>3, <2>4, <2>5
  <1> QED
    BY <1>2, <1>4, <1>8

\* Two runs that start alike and go on alike are alike.
LEMMA RunsAgree ==
    ASSUME NEW C \in Nat, NEW g, NEW h, g[0] = h[0],
           \A k \in 1 .. C : g[k - 1] = h[k - 1] => g[k] = h[k]
    PROVE  g[C] = h[C]
  <1> DEFINE Good == {k \in Nat : k \in 0 .. C => g[k] = h[k]}
  <1>1. 0 \in Good
    OBVIOUS
  <1>2. ASSUME NEW k \in Nat, k \in Good PROVE k + 1 \in Good
    <2> SUFFICES ASSUME k + 1 \in 0 .. C PROVE g[k + 1] = h[k + 1]
      OBVIOUS
    <2>1. k \in 0 .. C /\ k + 1 \in 1 .. C /\ (k + 1) - 1 = k
      OBVIOUS
    <2>2. g[k] = h[k]
      BY <1>2, <2>1
    <2> QED
      BY <2>1, <2>2
  <1> HIDE DEF Good
  <1>3. C \in Good
    BY <1>1, <1>2, NumberInduction
  <1>4. C \in 0 .. C
    OBVIOUS
  <1> QED
    BY <1>3, <1>4 DEF Good

-----------------------------------------------------------------------------
(* Paths: sequences of nodes over a set of links with costs *)

\* A sum with one more term.
LEMMA SumGrows ==
    ASSUME NEW w, NEW n \in Nat, \A k \in 1 .. n : w[k] \in Int, w[n + 1] \in Int
    PROVE  SumFunctionOnSet(w, 1 .. n + 1) = SumFunctionOnSet(w, 1 .. n) + w[n + 1]
  <1> DEFINE S == 1 .. n + 1
             e == n + 1
  <1>1. e \in S /\ 1 .. n = S \ {e} /\ IsFiniteSet(S)
    <2>1. n + 1 \in Int /\ 1 \in Int
      OBVIOUS
    <2>2. IsFiniteSet(1 .. n + 1)
      BY <2>1, FS_Interval
    <2> QED
      BY <2>2
  <1>2. \A k \in S \ {e} : w[k] \in Int
    OBVIOUS
  <1>3. w[e] \in Int
    OBVIOUS
  <1> HIDE DEF S, e
  <1>4. \A k \in S : w[k] \in Int
    BY <1>2, <1>3
  <1>5. SumFunctionOnSet(w, S) = w[e] + SumFunctionOnSet(w, S \ {e})
    BY <1>1, <1>4, SumTakesOut
  <1>6. SumFunctionOnSet(w, S \ {e}) \in Int
    <2>1. IsFiniteSet(S \ {e})
      BY <1>1, FS_Subset
    <2> QED
      BY <1>2, <2>1, SumIsInt
  <1>7. SumFunctionOnSet(w, S) = SumFunctionOnSet(w, S \ {e}) + w[e]
    BY <1>3, <1>5, <1>6
  <1> QED
    BY <1>1, <1>7 DEF S, e

\* The costs of its links, added up.
PathCost(cost, p) ==
    SumFunctionOnSet([k \in 1 .. Len(p) - 1 |-> cost[<<p[k], p[k + 1]>>]], 1 .. Len(p) - 1)

LEMMA PathCostType ==
    ASSUME NEW cost, NEW p, Len(p) \in Nat, \A k \in 1 .. Len(p) - 1 : cost[<<p[k], p[k + 1]>>] \in Nat
    PROVE  PathCost(cost, p) \in Nat
  <1> DEFINE n == Len(p) - 1
             w == [k \in 1 .. n |-> cost[<<p[k], p[k + 1]>>]]
  <1>1. n \in Int /\ 1 \in Int /\ \A k \in 1 .. n : w[k] \in Nat
    OBVIOUS
  <1>2. PathCost(cost, p) = SumFunctionOnSet(w, 1 .. n)
    BY DEF PathCost
  <1> HIDE DEF n, w
  <1>3. IsFiniteSet(1 .. n)
    BY <1>1, FS_Interval
  <1> QED
    BY <1>1, <1>2, <1>3, SumIsNat

\* One more link.
LEMMA PathCostAppends ==
    ASSUME NEW N, NEW p \in Seq(N), Len(p) # 0, NEW n \in N, NEW cost, NEW link,
           \A e \in link : cost[e] \in Nat, <<p[Len(p)], n>> \in link,
           \A k \in 1 .. Len(p) - 1 : <<p[k], p[k + 1]>> \in link
    PROVE  PathCost(cost, Append(p, n)) = PathCost(cost, p) + cost[<<p[Len(p)], n>>]
  <1> DEFINE q == Append(p, n)
             l == Len(p)
             u == [k \in 1 .. l |-> cost[<<q[k], q[k + 1]>>]]
             w == [k \in 1 .. l - 1 |-> cost[<<p[k], p[k + 1]>>]]
  <1>1. l \in Nat \ {0} /\ Len(q) - 1 = l /\ q[l + 1] = n /\ \A k \in 1 .. l : q[k] = p[k]
    OBVIOUS
  <1> HIDE DEF q, l
  <1>2. \A k \in 1 .. l - 1 : k \in 1 .. l /\ k + 1 \in 1 .. l
    BY <1>1
  <1>3. \A k \in 1 .. l - 1 : u[k] = w[k] /\ w[k] \in Nat
    BY <1>1, <1>2 DEF l
  <1>4. u[l] = cost[<<p[l], n>>] /\ u[l] \in Nat
    BY <1>1 DEF l
  <1>5. 1 .. l - 1 = (1 .. l) \ {l} /\ l \in 1 .. l
    BY <1>1
  <1>6. \A k \in 1 .. l : u[k] \in Nat
    <2> HIDE DEF u, w
    <2>1. \A k \in (1 .. l) \ {l} : u[k] \in Nat
      BY <1>3, <1>5
    <2> QED
      BY <1>4, <2>1
  <1>7. IsFiniteSet(1 .. l) /\ IsFiniteSet(1 .. l - 1)
    BY <1>1, FS_Interval
  <1> HIDE DEF u, w
  <1>8. SumFunctionOnSet(u, 1 .. l) = SumFunctionOnSet(u, 1 .. l - 1) + u[l]
    <2>1. l - 1 \in Nat /\ (l - 1) + 1 = l
      BY <1>1
    <2>2. /\ \A k \in 1 .. l - 1 : u[k] \in Int
          /\ u[l] \in Int
      BY <1>4, <1>5, <1>6
    <2>3. SumFunctionOnSet(u, 1 .. (l - 1) + 1) = SumFunctionOnSet(u, 1 .. l - 1) + u[(l - 1) + 1]
      BY <2>1, <2>2, SumGrows
    <2> QED
      BY <2>1, <2>3
  <1>9. SumFunctionOnSet(u, 1 .. l - 1) = SumFunctionOnSet(w, 1 .. l - 1)
    BY <1>3, <1>7, SumAgrees
  <1>10. SumFunctionOnSet(w, 1 .. l - 1) \in Nat
    BY <1>3, <1>7, SumIsNat
  <1>11. PathCost(cost, q) = SumFunctionOnSet(u, 1 .. l)
    BY <1>1 DEF PathCost, u
  <1>12. PathCost(cost, p) = SumFunctionOnSet(w, 1 .. l - 1)
    BY DEF PathCost, w, l
  <1> QED
    BY <1>4, <1>8, <1>9, <1>10, <1>11, <1>12 DEF q, l

\* A set V of nodes whose links are all followed, and outside which nothing is nearer than
\* b: no path is shorter than what is known of b.
AllFollowed(N, link, cost, a, b, V, dist) ==
    /\ \A n \in N : dist[n] \in Nat \cup {-1}
    /\ dist[a] = 0
    /\ \A v \in V, n \in N : <<v, n>> \in link =>
          dist[n] # -1 /\ (dist[v] # -1 => dist[n] <= dist[v] + cost[<<v, n>>])
    /\ \A n \in N \ V : dist[n] # -1 => dist[b] # -1 /\ dist[b] <= dist[n]

\* A path from a to b.
Leads(N, link, a, b, p) ==
    /\ p \in Seq(N) /\ Len(p) # 0 /\ p[1] = a /\ p[Len(p)] = b
    /\ \A k \in 1 .. Len(p) - 1 : <<p[k], p[k + 1]>> \in link

LEMMA NoPathIsShorter ==
    ASSUME NEW N, NEW link, NEW cost, \A e \in link : cost[e] \in Nat, NEW a, NEW b, NEW V,
           NEW dist, AllFollowed(N, link, cost, a, b, V, dist), NEW p, Leads(N, link, a, b, p)
    PROVE  dist[b] # -1 /\ dist[b] <= PathCost(cost, p)
  <1> DEFINE l == Len(p)
             w == [k \in 1 .. l - 1 |-> cost[<<p[k], p[k + 1]>>]]
             Upto(k) == SumFunctionOnSet(w, 1 .. k)
             Known(n, k) == dist[n] # -1 /\ dist[n] <= Upto(k)
             Good == {k \in Nat : k + 1 \in 1 .. l =>
                         Known(b, k) \/ (p[k + 1] \in V /\ Known(p[k + 1], k))}
  <1>0. /\ \A n \in N : dist[n] \in Nat \cup {-1}
        /\ dist[a] = 0
        /\ \A v \in V, n \in N : <<v, n>> \in link =>
              dist[n] # -1 /\ (dist[v] # -1 => dist[n] <= dist[v] + cost[<<v, n>>])
        /\ \A n \in N \ V : dist[n] # -1 => dist[b] # -1 /\ dist[b] <= dist[n]
        /\ p \in Seq(N) /\ Len(p) # 0 /\ p[1] = a /\ p[Len(p)] = b
        /\ \A k \in 1 .. Len(p) - 1 : <<p[k], p[k + 1]>> \in link
    BY DEF AllFollowed, Leads
  <1> USE <1>0
  <1>1. l \in Nat \ {0} /\ (\A k \in 1 .. l : p[k] \in N) /\ b \in N
    OBVIOUS
  <1>2. \A k \in 1 .. l - 1 : w[k] \in Nat
    OBVIOUS
  <1> HIDE DEF l, w
  <1>3. ASSUME NEW k \in 0 .. l - 1 PROVE Upto(k) \in Nat
    <2>1. k \in Nat /\ \A i \in 1 .. k : i \in 1 .. l - 1
      BY <1>1
    <2>2. IsFiniteSet(1 .. k) /\ \A i \in 1 .. k : w[i] \in Nat
      BY <1>2, <2>1, FS_Interval
    <2> QED
      BY <2>2, SumIsNat
  <1>4. ASSUME NEW k \in 0 .. l - 2 PROVE Upto(k + 1) = Upto(k) + w[k + 1]
    <2>1. /\ k \in Nat /\ k + 1 \in 1 .. l - 1
          /\ \A i \in 1 .. k : i \in 1 .. l - 1
      BY <1>1
    <2>2. w[k + 1] \in Int /\ \A i \in 1 .. k : w[i] \in Int
      BY <1>2, <2>1
    <2> QED
      BY <2>1, <2>2, SumGrows
  <1> HIDE DEF Upto
  <1>5. ASSUME NEW k \in 0 .. l - 1, Known(p[k + 1], k)
        PROVE  Known(b, k) \/ (p[k + 1] \in V /\ Known(p[k + 1], k))
    <2>1. CASE p[k + 1] \in V
      BY <1>5, <2>1
    <2>2. CASE p[k + 1] \notin V
      <3>1. p[k + 1] \in N
        BY <1>1
      <3>2. dist[b] # -1 /\ dist[b] <= dist[p[k + 1]]
        BY <1>5, <2>2, <3>1
      <3> QED
        BY <1>1, <1>3, <1>5, <3>1, <3>2
    <2> QED
      BY <2>1, <2>2
  <1>6. 0 \in Good
    <2>1. 0 \in 0 .. l - 1 /\ Upto(0) \in Nat /\ p[0 + 1] = a
      BY <1>1, <1>3
    <2>2. Known(p[0 + 1], 0)
      BY <2>1
    <2> QED
      BY <1>5, <2>1, <2>2
  <1>7. ASSUME NEW k \in Nat, k \in Good PROVE k + 1 \in Good
    <2> SUFFICES ASSUME (k + 1) + 1 \in 1 .. l
                 PROVE  Known(b, k + 1) \/ (p[(k + 1) + 1] \in V /\ Known(p[(k + 1) + 1], k + 1))
      OBVIOUS
    <2>1. k + 1 \in 1 .. l - 1 /\ k + 1 \in 1 .. l /\ k \in 0 .. l - 2 /\ k + 1 \in 0 .. l - 1
          /\ k \in 0 .. l - 1
      BY <1>1
    <2>2. Upto(k + 1) = Upto(k) + w[k + 1] /\ Upto(k) \in Nat /\ w[k + 1] \in Nat
      BY <1>2, <1>3, <1>4, <2>1
    <2>3. CASE Known(b, k)
      <3>1. dist[b] \in Nat
        BY <1>1, <2>3
      <3>2. Known(b, k + 1)
        BY <2>2, <2>3, <3>1
      <3> QED
        BY <3>2
    <2>4. CASE p[k + 1] \in V /\ Known(p[k + 1], k)
      <3> DEFINE m == p[k + 1]
                 n == p[(k + 1) + 1]
      <3>1. m \in N /\ n \in N /\ <<m, n>> \in link /\ w[k + 1] = cost[<<m, n>>]
        BY <1>1, <2>1 DEF w, l
      <3>2. dist[n] # -1 /\ dist[n] <= dist[m] + cost[<<m, n>>]
        BY <2>4, <3>1
      <3>3. Known(n, k + 1)
        BY <2>2, <2>4, <3>1, <3>2
      <3> QED
        BY <1>5, <2>1, <3>3
    <2> QED
      BY <1>7, <2>1, <2>3, <2>4
  <1>8. l - 1 \in Nat /\ l - 1 \in Good /\ (l - 1) + 1 = l /\ l \in 1 .. l
    <2> HIDE DEF Good
    <2> QED
      BY <1>1, <1>6, <1>7, NumberInduction
  <1>9. Known(b, l - 1)
    BY <1>8 DEF l
  <1>10. PathCost(cost, p) = Upto(l - 1)
    BY DEF PathCost, Upto, w, l
  <1> QED
    BY <1>9, <1>10

\* What Dijkstra's algorithm knows of a reached node n: a path to it along prev, which
\* has no node twice and whose nodes before n are visited.
Trace(N, link, a, V, prev, n, p) ==
    /\ p \in Seq(N) /\ Len(p) # 0 /\ p[1] = a /\ p[Len(p)] = n
    /\ \A i, j \in 1 .. Len(p) : p[i] = p[j] => i = j
    /\ \A k \in 1 .. Len(p) - 1 :
          <<p[k], p[k + 1]>> \in link /\ p[k] \in V /\ prev[p[k + 1]] = <<p[k]>>

\* Its invariant, with V for the visited nodes and the distance -1 for the others that no
\* link of a visited node reaches.
SearchInv(N, link, cost, a, V, dist, prev) ==
    /\ V \subseteq N
    /\ dist \in [N -> Nat \cup {-1}] /\ dist[a] = 0
    /\ prev \in [N -> Seq(N)] /\ prev[a] = <<>>
    /\ \A v \in V : dist[v] # -1 /\ \A u \in N \ V : dist[u] # -1 => dist[v] <= dist[u]
    /\ \A v \in V, n \in N : <<v, n>> \in link =>
          dist[n] # -1 /\ dist[n] <= dist[v] + cost[<<v, n>>]
    /\ \A n \in N : dist[n] # -1 =>
          \E p : Trace(N, link, a, V, prev, n, p) /\ PathCost(cost, p) = dist[n]

LEMMA SearchBegins ==
    ASSUME NEW N, NEW link, NEW cost, NEW a \in N,
           NEW dist, dist = [n \in N |-> IF n = a THEN 0 ELSE -1],
           NEW prev, prev = [n \in N |-> <<>>]
    PROVE  SearchInv(N, link, cost, a, {}, dist, prev)
  <1>1. dist \in [N -> Nat \cup {-1}] /\ dist[a] = 0
    BY SMT
  <1>2. prev \in [N -> Seq(N)] /\ prev[a] = <<>>
    OBVIOUS
  <1>3. ASSUME NEW n \in N, dist[n] # -1
        PROVE  Trace(N, link, a, {}, prev, n, <<a>>) /\ PathCost(cost, <<a>>) = dist[n]
    <2>1. n = a /\ dist[n] = 0
      BY <1>3
    <2>2. Trace(N, link, a, {}, prev, n, <<a>>)
      BY <2>1 DEF Trace
    <2>3. 1 .. Len(<<a>>) - 1 = {}
      OBVIOUS
    <2>4. PathCost(cost, <<a>>) = 0
      BY <2>3, SumOfNone DEF PathCost
    <2> QED
      BY <2>1, <2>2, <2>4
  <1> QED
    BY <1>1, <1>2, <1>3 DEF SearchInv

\* The nearest node c that is not visited is visited, and those of its neighbours that it
\* makes nearer are B.
Visits(N, link, cost, V, dist, prev, c, B, newDist, newPrev) ==
    /\ c \in N \ V /\ dist[c] # -1 /\ \A u \in N \ V : dist[u] # -1 => dist[c] <= dist[u]
    /\ \A n \in N : n \in B <=> /\ n \notin V /\ n # c /\ <<c, n>> \in link
                                /\ (dist[n] = -1 \/ dist[c] + cost[<<c, n>>] < dist[n])
    /\ newDist = [n \in N |-> IF n \in B THEN dist[c] + cost[<<c, n>>] ELSE dist[n]]
    /\ newPrev = [n \in N |-> IF n \in B THEN <<c>> ELSE prev[n]]

LEMMA SearchVisits ==
    ASSUME NEW N, NEW link, NEW cost, \A e \in link : cost[e] \in Nat, NEW a \in N,
           NEW V, NEW dist, NEW prev, SearchInv(N, link, cost, a, V, dist, prev),
           NEW c, NEW B, NEW newDist, NEW newPrev,
           Visits(N, link, cost, V, dist, prev, c, B, newDist, newPrev)
    PROVE  SearchInv(N, link, cost, a, V \cup {c}, newDist, newPrev)
  <1> DEFINE W == V \cup {c}
  <1>0. /\ c \in N \ V /\ dist[c] # -1 /\ \A u \in N \ V : dist[u] # -1 => dist[c] <= dist[u]
        /\ \A n \in N : n \in B <=> /\ n \notin V /\ n # c /\ <<c, n>> \in link
                                    /\ (dist[n] = -1 \/ dist[c] + cost[<<c, n>>] < dist[n])
        /\ newDist = [n \in N |-> IF n \in B THEN dist[c] + cost[<<c, n>>] ELSE dist[n]]
        /\ newPrev = [n \in N |-> IF n \in B THEN <<c>> ELSE prev[n]]
    BY DEF Visits
  <1> USE <1>0
  <1>1. /\ V \subseteq N /\ dist \in [N -> Nat \cup {-1}] /\ dist[a] = 0
        /\ prev \in [N -> Seq(N)] /\ prev[a] = <<>>
        /\ \A v \in V : dist[v] # -1 /\ \A u \in N \ V : dist[u] # -1 => dist[v] <= dist[u]
        /\ \A v \in V, n \in N : <<v, n>> \in link =>
              dist[n] # -1 /\ dist[n] <= dist[v] + cost[<<v, n>>]
        /\ \A n \in N : dist[n] # -1 =>
              \E p : Trace(N, link, a, V, prev, n, p) /\ PathCost(cost, p) = dist[n]
    BY DEF SearchInv
  <1>2. /\ \A n \in N : dist[n] \in Nat \cup {-1}
        /\ dist[c] \in Nat /\ \A n \in B \cap N : cost[<<c, n>>] \in Nat
    BY <1>1
  <1>3. a \notin B
    <2> SUFFICES ASSUME a \in B PROVE FALSE
      OBVIOUS
    <2>1. <<c, a>> \in link /\ (dist[a] = -1 \/ dist[c] + cost[<<c, a>>] < dist[a])
      OBVIOUS
    <2>2. cost[<<c, a>>] \in Nat /\ dist[a] = 0 /\ dist[c] \in Nat
      BY <1>1, <1>2, <2>1
    <2> QED
      BY <2>1, <2>2
  <1>4. newDist \in [N -> Nat \cup {-1}] /\ newDist[a] = 0
    <2>1. \A n \in N : newDist[n] \in Nat \cup {-1}
      BY <1>2
    <2> QED
      BY <1>1, <1>3, <2>1
  <1>5. newPrev \in [N -> Seq(N)] /\ newPrev[a] = <<>>
    BY <1>1, <1>3
  <1>6. \A n \in N : /\ n \in B => newDist[n] = dist[c] + cost[<<c, n>>] /\ newPrev[n] = <<c>>
                     /\ n \notin B => newDist[n] = dist[n] /\ newPrev[n] = prev[n]
    OBVIOUS
  <1>7. \A v \in W : v \in N /\ v \notin B /\ newDist[v] = dist[v] /\ dist[v] \in Nat /\ dist[v] <= dist[c]
    BY <1>1, <1>2, <1>6
  <1>8. \A n \in N : dist[n] # -1 => newDist[n] # -1 /\ newDist[n] <= dist[n]
    BY <1>2, <1>6
  <1>9. \A v \in W : newDist[v] # -1 /\ \A u \in N \ W : newDist[u] # -1 => newDist[v] <= newDist[u]
    <2> TAKE v \in W
    <2>1. newDist[v] # -1 /\ newDist[v] <= dist[c] /\ newDist[v] \in Nat
      BY <1>7
    <2>2. ASSUME NEW u \in N \ W, newDist[u] # -1 PROVE newDist[v] <= newDist[u]
      <3>1. CASE u \in B
        BY <1>2, <1>6, <2>1, <3>1
      <3>2. CASE u \notin B
        <4>1. newDist[u] = dist[u] /\ dist[u] \in Nat /\ dist[c] <= dist[u]
          BY <1>2, <1>6, <2>2, <3>2
        <4> QED
          BY <1>2, <2>1, <4>1
      <3> QED
        BY <3>1, <3>2
    <2> QED
      BY <2>1, <2>2
  <1>10. ASSUME NEW v \in W, NEW n \in N, <<v, n>> \in link
         PROVE  newDist[n] # -1 /\ newDist[n] <= newDist[v] + cost[<<v, n>>]
    <2>1. cost[<<v, n>>] \in Nat /\ newDist[v] = dist[v] /\ dist[v] \in Nat
      BY <1>7, <1>10
    <2>2. CASE v \in V
      <3>1. dist[n] # -1 /\ dist[n] <= dist[v] + cost[<<v, n>>]
        BY <1>1, <1>10, <2>2
      <3>2. newDist[n] # -1 /\ newDist[n] <= dist[n]
        BY <1>8, <3>1
      <3>3. dist[n] \in Nat /\ newDist[n] \in Nat
        BY <1>2, <1>4, <3>1, <3>2
      <3> QED
        BY <2>1, <3>1, <3>2, <3>3
    <2>3. CASE v = c
      <3>1. CASE n \in W
        BY <1>7, <2>1, <2>3, <3>1
      <3>2. CASE n \in B
        BY <1>2, <1>6, <2>1, <2>3, <3>2
      <3>3. CASE n \notin W /\ n \notin B
        <4>1. dist[n] # -1 /\ ~(dist[c] + cost[<<c, n>>] < dist[n]) /\ newDist[n] = dist[n]
          BY <1>6, <1>10, <2>3, <3>3
        <4> QED
          BY <1>2, <2>1, <2>3, <4>1
      <3> QED
        BY <3>1, <3>2, <3>3
    <2> QED
      BY <2>2, <2>3
  <1>11. ASSUME NEW n \in N \ B, NEW p, Trace(N, link, a, V, prev, n, p)
         PROVE  Trace(N, link, a, W, newPrev, n, p)
    <2>1. /\ p \in Seq(N) /\ Len(p) # 0 /\ p[1] = a /\ p[Len(p)] = n
          /\ \A i, j \in 1 .. Len(p) : p[i] = p[j] => i = j
          /\ \A k \in 1 .. Len(p) - 1 :
                <<p[k], p[k + 1]>> \in link /\ p[k] \in V /\ prev[p[k + 1]] = <<p[k]>>
      BY <1>11 DEF Trace
    <2>2. ASSUME NEW k \in 1 .. Len(p) - 1 PROVE newPrev[p[k + 1]] = <<p[k]>>
      <3>1. k + 1 \in 1 .. Len(p) /\ p[k + 1] \in N
        BY <2>1
      <3>2. p[k + 1] \notin B
        <4>1. CASE k + 1 = Len(p)
          BY <2>1, <4>1
        <4>2. CASE k + 1 # Len(p)
          <5>1. k + 1 \in 1 .. Len(p) - 1
            BY <3>1, <4>2
          <5>2. p[k + 1] \in V
            BY <2>1, <5>1
          <5> QED
            BY <3>1, <5>2
        <4> QED
          BY <4>1, <4>2
      <3> QED
        BY <1>6, <2>1, <3>1, <3>2
    <2> QED
      BY <2>1, <2>2 DEF Trace
  <1>12. ASSUME NEW n \in N, newDist[n] # -1
         PROVE  \E p : Trace(N, link, a, W, newPrev, n, p) /\ PathCost(cost, p) = newDist[n]
    <2>1. CASE n \notin B
      BY <1>1, <1>6, <1>11, <1>12, <2>1
    <2>2. CASE n \in B
      <3>1. PICK p : Trace(N, link, a, V, prev, c, p) /\ PathCost(cost, p) = dist[c]
        BY <1>1
      <3>2. c \notin B /\ c \in N
        BY <1>7
      <3>3. Trace(N, link, a, W, newPrev, c, p)
        BY <1>11, <3>1, <3>2
      <3>4. /\ p \in Seq(N) /\ Len(p) \in Nat \ {0} /\ p[1] = a /\ p[Len(p)] = c
            /\ \A i, j \in 1 .. Len(p) : p[i] = p[j] => i = j
            /\ \A k \in 1 .. Len(p) - 1 :
                  <<p[k], p[k + 1]>> \in link /\ p[k] \in W /\ newPrev[p[k + 1]] = <<p[k]>>
        <4> HIDE DEF W
        <4>1. p \in Seq(N) /\ Len(p) # 0
          BY <3>3 DEF Trace
        <4>2. Len(p) \in Nat \ {0}
          BY <4>1
        <4> QED
          BY <3>3, <4>2 DEF Trace
      <3>5. n \notin W /\ <<c, n>> \in link
        BY <2>2
      <3> DEFINE q == Append(p, n)
                 l == Len(p)
      <3>6. /\ q \in Seq(N) /\ Len(q) = l + 1 /\ q[l + 1] = n
            /\ \A k \in 1 .. l : q[k] = p[k]
        BY <3>4
      <3>7. \A k \in 1 .. l : p[k] \in W
        <4> TAKE k \in 1 .. l
        <4>1. k \in 1 .. l - 1 \/ k = l
          BY <3>4
        <4> QED
          BY <3>4, <4>1
      <3> HIDE DEF q, W
      <3>8. \A i, j \in 1 .. l + 1 : q[i] = q[j] => i = j
        <4>1. \A k \in 1 .. l : q[k] # n
          BY <3>5, <3>6, <3>7
        <4>2. \A i \in 1 .. l + 1 : i \in 1 .. l \/ i = l + 1
          BY <3>4
        <4>3. \A i, j \in 1 .. l : q[i] = q[j] => i = j
          BY <3>4, <3>6
        <4> QED
          BY <3>6, <4>1, <4>2, <4>3
      <3>9. ASSUME NEW k \in 1 .. l
            PROVE  <<q[k], q[k + 1]>> \in link /\ q[k] \in W /\ newPrev[q[k + 1]] = <<q[k]>>
        <4>1. CASE k = l
          BY <1>6, <2>2, <3>4, <3>5, <3>6, <3>7, <4>1
        <4>2. CASE k # l
          <5>1. k \in 1 .. l - 1 /\ k + 1 \in 1 .. l
            BY <3>4, <4>2
          <5> QED
            BY <3>4, <3>6, <5>1
        <4> QED
          BY <4>1, <4>2
      <3>10. Trace(N, link, a, W, newPrev, n, q)
        <4>1. 1 \in 1 .. l /\ Len(q) # 0 /\ Len(q) - 1 = l
          BY <3>4, <3>6
        <4> HIDE DEF l
        <4> QED
          BY <3>4, <3>6, <3>8, <3>9, <4>1 DEF Trace
      <3>11. PathCost(cost, q) = dist[c] + cost[<<c, n>>]
        <4>1. \A k \in 1 .. Len(p) - 1 : <<p[k], p[k + 1]>> \in link
          BY <3>4
        <4>2. p \in Seq(N) /\ Len(p) # 0 /\ <<p[Len(p)], n>> \in link /\ n \in N
          BY <3>4, <3>5
        <4>3. PathCost(cost, Append(p, n)) = PathCost(cost, p) + cost[<<p[Len(p)], n>>]
          BY <4>1, <4>2, PathCostAppends
        <4> QED
          BY <3>1, <3>4, <4>3 DEF q
      <3> QED
        BY <1>6, <2>2, <3>10, <3>11
    <2> QED
      BY <2>1, <2>2
  <1> QED
    BY <1>1, <1>4, <1>5, <1>9, <1>10, <1>12 DEF SearchInv

\* The sequences that follow prev back from n, at most C nodes.
BackFrom(prev, n, C, back) ==
    back = [k \in 1 .. C |-> IF k = 1 THEN <<n>> ELSE prev[Head(back[k - 1])] \o back[k - 1]]

\* The nodes of a path from its k-th last one on.
PathEnd(p, k) == SubSeq(p, Len(p) - k + 1, Len(p))

LEMMA PathEnds ==
    ASSUME NEW N, NEW p \in Seq(N), Len(p) # 0
    PROVE  /\ PathEnd(p, 1) = <<p[Len(p)]>> /\ PathEnd(p, Len(p)) = p
           /\ \A k \in 1 .. Len(p) : /\ PathEnd(p, k) \in Seq(N) \ {<<>>}
                                     /\ Head(PathEnd(p, k)) = p[Len(p) - k + 1]
           /\ \A k \in 1 .. Len(p) - 1 : PathEnd(p, k + 1) = <<p[Len(p) - k]>> \o PathEnd(p, k)
  <1> DEFINE l == Len(p)
  <1>1. l \in Nat \ {0} /\ \A k \in 1 .. l : p[k] \in N
    OBVIOUS
  <1>2. ASSUME NEW k \in 1 .. l
        PROVE  /\ PathEnd(p, k) \in Seq(N) /\ Len(PathEnd(p, k)) = k
               /\ \A i \in 1 .. k : PathEnd(p, k)[i] = p[l - k + i]
    <2> DEFINE m == l - k + 1
    <2>1. m \in Int /\ l \in Int /\ m <= l /\ l - m + 1 = k /\ \A i \in m .. l : i \in 1 .. l
      BY <1>1
    <2>2. \A i \in m .. l : p[i] \in N
      BY <1>1, <2>1
    <2> HIDE DEF m, l
    <2>3. /\ SubSeq(p, m, l) \in Seq(N) /\ Len(SubSeq(p, m, l)) = IF m <= l THEN l - m + 1 ELSE 0
          /\ \A i \in 1 .. l - m + 1 : SubSeq(p, m, l)[i] = p[m + i - 1]
      BY <2>1, <2>2, SubSeqProperties
    <2>4. \A i \in 1 .. k : m + i - 1 = l - k + i
      BY <1>1 DEF m
    <2>5. PathEnd(p, k) = SubSeq(p, m, l)
      BY DEF PathEnd, m, l
    <2> QED
      BY <2>1, <2>3, <2>4, <2>5
  <1> HIDE DEF l
  <1>3. ASSUME NEW k \in 1 .. l
        PROVE  PathEnd(p, k) \in Seq(N) \ {<<>>} /\ Head(PathEnd(p, k)) = p[l - k + 1]
    <2>1. k # 0 /\ 1 \in 1 .. k
      OBVIOUS
    <2>2. PathEnd(p, k) # <<>> /\ PathEnd(p, k)[1] = p[l - k + 1]
      BY <1>2, <2>1
    <2> QED
      BY <1>2, <2>2
  <1>4. PathEnd(p, 1) = <<p[l]>>
    <2>1. 1 \in 1 .. l /\ l - 1 + 1 = l
      BY <1>1
    <2>2. /\ PathEnd(p, 1) \in Seq(N) /\ Len(PathEnd(p, 1)) = 1
          /\ \A i \in 1 .. 1 : PathEnd(p, 1)[i] = p[l - 1 + i]
      BY <1>2, <2>1
    <2>3. PathEnd(p, 1)[1] = p[l]
      BY <2>1, <2>2
    <2> QED
      BY <2>2, <2>3
  <1>5. PathEnd(p, l) = p
    <2>1. l \in 1 .. l
      BY <1>1
    <2>2. PathEnd(p, l) \in Seq(N) /\ Len(PathEnd(p, l)) = l /\ \A i \in 1 .. l : PathEnd(p, l)[i] = p[l - l + i]
      BY <1>2, <2>1
    <2>3. \A i \in 1 .. l : l - l + i = i
      BY <1>1
    <2> QED
      BY <2>2, <2>3 DEF l
  <1>6. ASSUME NEW k \in 1 .. l - 1 PROVE PathEnd(p, k + 1) = <<p[l - k]>> \o PathEnd(p, k)
    <2> DEFINE q == PathEnd(p, k)
               r == PathEnd(p, k + 1)
    <2>1. k \in 1 .. l /\ k + 1 \in 1 .. l /\ l - k \in 1 .. l
      BY <1>1
    <2>2. /\ q \in Seq(N) /\ Len(q) = k /\ \A i \in 1 .. k : q[i] = p[l - k + i]
          /\ r \in Seq(N) /\ Len(r) = k + 1 /\ \A i \in 1 .. k + 1 : r[i] = p[l - (k + 1) + i]
      BY <1>2, <2>1
    <2> HIDE DEF q, r
    <2>3. p[l - k] \in N /\ <<p[l - k]>> \in Seq(N)
      BY <1>1, <2>1
    <2>4. <<p[l - k]>> \o q \in Seq(N) /\ Len(<<p[l - k]>> \o q) = k + 1
      BY <2>2, <2>3
    <2>5. ASSUME NEW i \in 1 .. k + 1 PROVE (<<p[l - k]>> \o q)[i] = r[i]
      <3>1. CASE i = 1
        <4>1. l - (k + 1) + 1 = l - k
          BY <1>1, <2>1
        <4> QED
          BY <2>2, <2>3, <3>1, <4>1
      <3>2. CASE i # 1
        <4>1. i - 1 \in 1 .. k /\ l - k + (i - 1) = l - (k + 1) + i
          BY <1>1, <2>1, <3>2
        <4>2. (<<p[l - k]>> \o q)[i] = q[i - 1]
          BY <2>2, <2>3, <3>2
        <4> QED
          BY <2>2, <4>1, <4>2
      <3> QED
        BY <3>1, <3>2
    <2>6. r = <<p[l - k]>> \o q
      BY <2>2, <2>4, <2>5
    <2> QED
      BY <2>6 DEF q, r
  <1> QED
    BY <1>3, <1>4, <1>5, <1>6 DEF l

\* They end with the path p.
LeadsBack(prev, n, C, p) ==
    /\ \E back : BackFrom(prev, n, C, back)
    /\ \A back : BackFrom(prev, n, C, back) =>
          \A k \in 1 .. C : back[k] = IF k <= Len(p) THEN PathEnd(p, k) ELSE p

LEMMA BackFollows ==
    ASSUME NEW N, NEW link, NEW a, NEW V, NEW prev, prev[a] = <<>>, NEW n, NEW p,
           Trace(N, link, a, V, prev, n, p), NEW C \in Nat, Len(p) <= C
    PROVE  LeadsBack(prev, n, C, p)
  <1> DEFINE l == Len(p)
             known == [k \in 1 .. C |-> IF k <= l THEN PathEnd(p, k) ELSE p]
  <1>1. /\ p \in Seq(N) /\ Len(p) # 0 /\ p[1] = a /\ p[Len(p)] = n
        /\ \A k \in 1 .. Len(p) - 1 : prev[p[k + 1]] = <<p[k]>>
    BY DEF Trace
  <1>2. l \in Nat \ {0} /\ l <= C
    BY <1>1
  <1>3. /\ PathEnd(p, 1) = <<n>> /\ PathEnd(p, l) = p
        /\ \A k \in 1 .. l : Head(PathEnd(p, k)) = p[l - k + 1]
        /\ \A k \in 1 .. l - 1 : PathEnd(p, k + 1) = <<p[l - k]>> \o PathEnd(p, k)
    BY <1>1, PathEnds
  <1>4. \A k \in 1 .. l - 1 : prev[p[k + 1]] = <<p[k]>>
    BY <1>1
  <1> HIDE DEF l
  <1>5. \A k \in 1 .. C : known[k] = IF k <= l THEN PathEnd(p, k) ELSE p
    OBVIOUS
  <1>6. 1 \in 1 .. C => known[1] = <<n>>
    BY <1>2, <1>3, <1>5
  <1> HIDE DEF known
  <1>7. ASSUME NEW k \in 2 .. C PROVE known[k] = prev[Head(known[k - 1])] \o known[k - 1]
    <2>1. k - 1 \in 1 .. C /\ k \in 1 .. C
      OBVIOUS
    <2>2. CASE k <= l
      <3>1. k - 1 \in 1 .. l - 1 /\ k - 1 \in 1 .. l /\ k - 1 <= l /\ (k - 1) + 1 = k
        BY <1>2, <2>2
      <3>2. known[k - 1] = PathEnd(p, k - 1) /\ known[k] = PathEnd(p, k)
        BY <1>5, <2>1, <2>2, <3>1
      <3>3. Head(PathEnd(p, k - 1)) = p[l - (k - 1) + 1]
        BY <1>3, <3>1
      <3>4. prev[p[l - (k - 1) + 1]] = <<p[l - (k - 1)]>>
        <4>1. l - (k - 1) \in 1 .. l - 1
          BY <1>2, <3>1
        <4> QED
          BY <1>4, <4>1
      <3>5. PathEnd(p, (k - 1) + 1) = <<p[l - (k - 1)]>> \o PathEnd(p, k - 1)
        BY <1>3, <3>1
      <3> QED
        BY <3>1, <3>2, <3>3, <3>4, <3>5
    <2>3. CASE ~(k <= l)
      <3>1. known[k] = p /\ known[k - 1] = p
        <4>1. CASE k - 1 = l
          BY <1>2, <1>3, <1>5, <2>1, <2>3, <4>1
        <4>2. CASE k - 1 # l
          BY <1>2, <1>5, <2>1, <2>3, <4>2
        <4> QED
          BY <4>1, <4>2
      <3>2. Head(p) = a /\ <<>> \o p = p
        BY <1>1
      <3> QED
        BY <3>1, <3>2
    <2> QED
      BY <2>2, <2>3
  <1>8. BackFrom(prev, n, C, known)
    <2>1. ASSUME NEW k \in 1 .. C
          PROVE  known[k] = IF k = 1 THEN <<n>> ELSE prev[Head(known[k - 1])] \o known[k - 1]
      <3>1. k = 1 \/ k \in 2 .. C
        OBVIOUS
      <3> QED
        BY <1>6, <1>7, <3>1
    <2>2. known = [k \in 1 .. C |-> known[k]]
      BY DEF known
    <2> QED
      BY <2>1, <2>2 DEF BackFrom
  <1>9. ASSUME NEW back, BackFrom(prev, n, C, back), NEW k \in 1 .. C
        PROVE  back[k] = known[k]
    <2> DEFINE Good == {i \in Nat : i + 1 \in 1 .. C => back[i + 1] = known[i + 1]}
    <2>1. \A i \in 1 .. C : back[i] = IF i = 1 THEN <<n>> ELSE prev[Head(back[i - 1])] \o back[i - 1]
      <3>1. back = [i \in 1 .. C |-> IF i = 1 THEN <<n>> ELSE prev[Head(back[i - 1])] \o back[i - 1]]
        BY <1>9 DEF BackFrom
      <3> DEFINE h == [i \in 1 .. C |-> IF i = 1 THEN <<n>> ELSE prev[Head(back[i - 1])] \o back[i - 1]]
      <3>2. \A i \in 1 .. C : h[i] = IF i = 1 THEN <<n>> ELSE prev[Head(back[i - 1])] \o back[i - 1]
        OBVIOUS
      <3>3. back = h
        BY <3>1
      <3> HIDE DEF h
      <3> QED
        BY <3>2, <3>3
    <2>2. 0 \in Good
      BY <1>6, <2>1
    <2>3. ASSUME NEW i \in Nat, i \in Good PROVE i + 1 \in Good
      <3> SUFFICES ASSUME (i + 1) + 1 \in 1 .. C PROVE back[(i + 1) + 1] = known[(i + 1) + 1]
        OBVIOUS
      <3>1. i + 1 \in 1 .. C /\ (i + 1) + 1 \in 2 .. C /\ (i + 1) + 1 # 1 /\ ((i + 1) + 1) - 1 = i + 1
        OBVIOUS
      <3>2. back[i + 1] = known[i + 1]
        BY <2>3, <3>1
      <3>3. back[(i + 1) + 1] = prev[Head(back[i + 1])] \o back[i + 1]
        BY <2>1, <3>1
      <3>4. known[(i + 1) + 1] = prev[Head(known[i + 1])] \o known[i + 1]
        BY <1>7, <3>1
      <3> QED
        BY <3>2, <3>3, <3>4
    <2> HIDE DEF Good
    <2>4. k - 1 \in Nat /\ k - 1 \in Good /\ (k - 1) + 1 = k
      BY <2>2, <2>3, NumberInduction
    <2> QED
      BY <2>4 DEF Good
  <1> QED
    BY <1>5, <1>8, <1>9 DEF LeadsBack, l

\* A path without a node twice has no more nodes than there are.
LEMMA PathsFit ==
    ASSUME NEW N, IsFiniteSet(N), NEW p \in Seq(N), \A i, j \in 1 .. Len(p) : p[i] = p[j] => i = j
    PROVE  Len(p) <= Cardinality(N) /\ Cardinality(N) \in Nat
  <1>1. \A k \in 1 .. Len(p) : p[k] \in N
    OBVIOUS
  <1>2. Cardinality(1 .. Len(p)) <= Cardinality(N)
    BY <1>1, InjectionBounds
  <1>3. Len(p) \in Nat
    OBVIOUS
  <1>4. Cardinality(1 .. Len(p)) = Len(p)
    <2> DEFINE l == Len(p)
    <2>1. l \in Int /\ 1 \in Int /\ (IF 1 > l THEN 0 ELSE l - 1 + 1) = l
      BY <1>3
    <2> HIDE DEF l
    <2>2. Cardinality(1 .. l) = IF 1 > l THEN 0 ELSE l - 1 + 1
      BY <2>1, FS_Interval
    <2> QED
      BY <2>1, <2>2 DEF l
  <1> QED
    BY <1>2, <1>4, FS_CardinalityType

\* A path and the same one the other way.
Backwards(p) == [k \in 1 .. Len(p) |-> p[Len(p) - k + 1]]

LEMMA BackwardsIsAPath ==
    ASSUME NEW N, NEW p \in Seq(N), Len(p) # 0
    PROVE  /\ Backwards(p) \in Seq(N) /\ Len(Backwards(p)) = Len(p)
           /\ Backwards(p)[1] = p[Len(p)] /\ Backwards(p)[Len(p)] = p[1]
           /\ \A k \in 1 .. Len(p) : Len(p) - k + 1 \in 1 .. Len(p)
                                     /\ Backwards(p)[k] = p[Len(p) - k + 1]
  <1> DEFINE l == Len(p)
             b == [k \in 1 .. l |-> p[l - k + 1]]
  <1>1. l \in Nat \ {0} /\ \A k \in 1 .. l : p[k] \in N
    OBVIOUS
  <1> HIDE DEF l
  <1>2. \A k \in 1 .. l : l - k + 1 \in 1 .. l
    BY <1>1
  <1>3. b \in [1 .. l -> N]
    BY <1>1, <1>2
  <1>4. \A k \in 1 .. l : b[k] = p[l - k + 1]
    OBVIOUS
  <1>5. b = Backwards(p)
    BY DEF Backwards, l
  <1> HIDE DEF b
  <1>6. b \in Seq(N) /\ Len(b) = l
    BY <1>1, <1>3
  <1>7. 1 \in 1 .. l /\ l \in 1 .. l /\ l - 1 + 1 = l /\ l - l + 1 = 1
    BY <1>1
  <1>8. b[1] = p[l] /\ b[l] = p[1]
    BY <1>4, <1>7
  <1> QED
    BY <1>2, <1>4, <1>5, <1>6, <1>8 DEF l

LEMMA SumBackwards ==
    ASSUME NEW n \in Nat, NEW w, \A k \in 1 .. n : w[k] \in Int,
           NEW v, \A k \in 1 .. n : v[k] = w[n + 1 - k]
    PROVE  SumFunctionOnSet(v, 1 .. n) = SumFunctionOnSet(w, 1 .. n)
  <1> DEFINE Good == {j \in Nat : j <= n =>
                         SumFunctionOnSet(w, 1 .. j) = SumFunctionOnSet(v, n + 1 - j .. n)}
  <1>1. \A k \in 1 .. n : v[k] \in Int
    <2> TAKE k \in 1 .. n
    <2>1. n + 1 - k \in 1 .. n
      OBVIOUS
    <2> QED
      BY <2>1
  <1>2. 0 \in Good
    <2>1. 1 .. 0 = {} /\ n + 1 - 0 .. n = {}
      OBVIOUS
    <2>2. SumFunctionOnSet(w, {}) = 0 /\ SumFunctionOnSet(v, {}) = 0
      BY SumOfNone
    <2> QED
      BY <2>1, <2>2
  <1>3. ASSUME NEW j \in Nat, j \in Good PROVE j + 1 \in Good
    <2> SUFFICES ASSUME j + 1 <= n
                 PROVE  SumFunctionOnSet(w, 1 .. j + 1) = SumFunctionOnSet(v, n + 1 - (j + 1) .. n)
      OBVIOUS
    <2>1. SumFunctionOnSet(w, 1 .. j) = SumFunctionOnSet(v, n + 1 - j .. n)
      BY <1>3
    <2>2. SumFunctionOnSet(w, 1 .. j + 1) = SumFunctionOnSet(w, 1 .. j) + w[j + 1]
      <3>1. (\A k \in 1 .. j : w[k] \in Int) /\ w[j + 1] \in Int
        OBVIOUS
      <3> QED
        BY <3>1, SumGrows
    <2> DEFINE e == n - j
               S == n - j .. n
    <2>3. e \in S /\ n + 1 - j .. n = S \ {e} /\ n + 1 - (j + 1) .. n = S /\ IsFiniteSet(S)
      <3>1. n - j \in Int /\ n \in Int
        OBVIOUS
      <3>2. IsFiniteSet(n - j .. n)
        BY <3>1, FS_Interval
      <3> QED
        BY <3>2
    <2>4. e \in 1 .. n /\ n + 1 - e = j + 1 /\ \A k \in S : k \in 1 .. n
      OBVIOUS
    <2>5. v[e] = w[j + 1] /\ v[e] \in Int /\ \A k \in S : v[k] \in Int
      BY <1>1, <2>4
    <2> HIDE DEF e, S
    <2>6. SumFunctionOnSet(v, S) = v[e] + SumFunctionOnSet(v, S \ {e})
      <3>1. e \in S /\ IsFiniteSet(S)
        BY <2>3
      <3>2. \A x \in S : v[x] \in Int
        BY <2>5
      <3> QED
        BY ONLY <3>1, <3>2, SumTakesOut
    <2>7. SumFunctionOnSet(v, S \ {e}) \in Int
      <3>1. IsFiniteSet(S \ {e})
        BY <2>3, FS_Subset
      <3>2. \A x \in S \ {e} : v[x] \in Int
        BY <2>5
      <3> QED
        BY ONLY <3>1, <3>2, SumIsInt
    <2>8. SumFunctionOnSet(w, 1 .. j) = SumFunctionOnSet(v, S \ {e})
      BY <2>1, <2>3
    <2>9. SumFunctionOnSet(w, 1 .. j + 1) = SumFunctionOnSet(v, S)
      BY ONLY <2>2, <2>5, <2>6, <2>7, <2>8
    <2> QED
      BY <2>3, <2>9
  <1> HIDE DEF Good
  <1>4. n \in Good
    BY <1>2, <1>3, NumberInduction
  <1>5. n + 1 - n .. n = 1 .. n
    OBVIOUS
  <1> QED
    BY <1>4, <1>5 DEF Good

\* There and back cost the same over links that are the same both ways.
LEMMA BackwardsCostsTheSame ==
    ASSUME NEW N, NEW p \in Seq(N), Len(p) # 0, NEW cost,
           \A k \in 1 .. Len(p) - 1 : /\ cost[<<p[k], p[k + 1]>>] \in Nat
                                      /\ cost[<<p[k + 1], p[k]>>] = cost[<<p[k], p[k + 1]>>]
    PROVE  PathCost(cost, Backwards(p)) = PathCost(cost, p)
  <1> DEFINE l == Len(p)
             q == Backwards(p)
             w == [k \in 1 .. l - 1 |-> cost[<<p[k], p[k + 1]>>]]
             v == [k \in 1 .. l - 1 |-> cost[<<q[k], q[k + 1]>>]]
  <1>1. l \in Nat \ {0} /\ l - 1 \in Nat
    OBVIOUS
  <1>2. Len(q) = l /\ \A k \in 1 .. l : q[k] = p[l - k + 1]
    BY BackwardsIsAPath
  <1>3. \A k \in 1 .. l - 1 : w[k] = cost[<<p[k], p[k + 1]>>] /\ w[k] \in Int
                              /\ cost[<<p[k + 1], p[k]>>] = w[k]
    OBVIOUS
  <1>4. \A k \in 1 .. l - 1 : v[k] = cost[<<q[k], q[k + 1]>>]
    OBVIOUS
  <1>5. PathCost(cost, q) = SumFunctionOnSet(v, 1 .. l - 1)
        /\ PathCost(cost, p) = SumFunctionOnSet(w, 1 .. l - 1)
    BY <1>2 DEF PathCost
  <1> HIDE DEF l, q, w, v
  <1>6. ASSUME NEW k \in 1 .. l - 1 PROVE v[k] = w[(l - 1) + 1 - k]
    <2>1. /\ k \in 1 .. l /\ k + 1 \in 1 .. l /\ l - k \in 1 .. l - 1
          /\ l - k + 1 = (l - k) + 1 /\ l - (k + 1) + 1 = l - k /\ (l - 1) + 1 - k = l - k
      BY <1>1
    <2>2. q[k] = p[(l - k) + 1] /\ q[k + 1] = p[l - k]
      BY <1>2, <2>1
    <2>3. cost[<<p[(l - k) + 1], p[l - k]>>] = w[l - k]
      BY <1>3, <2>1
    <2> QED
      BY <1>4, <2>1, <2>2, <2>3
  <1>7. SumFunctionOnSet(v, 1 .. l - 1) = SumFunctionOnSet(w, 1 .. l - 1)
    BY <1>1, <1>3, <1>6, SumBackwards
  <1> QED
    BY <1>5, <1>7 DEF q

\* Of the nodes that a search has not visited, one that is reached and nearest.
LEMMA NearestExists ==
    ASSUME NEW U, NEW dist, \A n \in U : dist[n] \in Nat \cup {-1}, NEW m \in U, dist[m] # -1
    PROVE  \E n \in U : dist[n] # -1 /\ \A u \in U : dist[u] # -1 => dist[n] <= dist[u]
  <1> DEFINE D == {dist[n] : n \in {u \in U : dist[u] # -1}}
  <1>1. D \in SUBSET Nat /\ dist[m] \in D
    OBVIOUS
  <1>2. D # {}
    BY <1>1
  <1> HIDE DEF D
  <1>3. PICK d \in D : \A x \in D : d <= x
    BY <1>1, <1>2, LeastElement
  <1>4. PICK n \in U : dist[n] = d /\ dist[n] # -1
    BY DEF D
  <1>5. \A u \in U : dist[u] # -1 => dist[u] \in D
    BY DEF D
  <1> QED
    BY <1>3, <1>4, <1>5
=============================================================================
