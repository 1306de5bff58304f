------------------------------- MODULE SetLemmas -------------------------------
(***************************************************************************)
(* Facts about finite sets that several proofs need and the library does   *)
(* not state without operators as parameters: induction over subsets, the  *)
(* largest and the smallest member of a set of numbers, sums.             *)
(***************************************************************************)
EXTENDS Integers, FiniteSetsExt, FiniteSetTheorems, TLAPS

-----------------------------------------------------------------------------
(* Induction, and what is largest.                                         *)

\* Induction over the subsets of a finite set: what is to be shown of a set is
\* that it is in G, so that the lemma needs no parameter that is an operator.
LEMMA SetInduction ==
  ASSUME NEW S, IsFiniteSet(S), NEW G,
         \A U \in SUBSET S : (\A V \in SUBSET U : V # U => V \in G) => U \in G
  PROVE  \A U \in SUBSET S : U \in G
<1> DEFINE Bad == {U \in FiniteSubsetsOf(S) : U \notin G}
<1> SUFFICES ASSUME Bad # {} PROVE FALSE
  BY FS_Subset DEF FiniteSubsetsOf
<1>1. PICK U \in Bad : \A V \in Bad : <<V, U>> \notin StrictSubsetOrdering(S)
  <2>1. IsWellFoundedOn(StrictSubsetOrdering(S), FiniteSubsetsOf(S))
    BY FS_StrictSubsetOrderingWellFounded
  <2>2. Bad \subseteq FiniteSubsetsOf(S)
    OBVIOUS
  <2> HIDE DEF Bad
  <2> QED
    BY <2>1, <2>2, WFMin
<1>2. U \in SUBSET S
  BY DEF FiniteSubsetsOf
<1>3. ASSUME NEW V \in SUBSET U, V # U PROVE V \in G
  <2>1. V \in FiniteSubsetsOf(S)
    BY <1>2, FS_Subset DEF FiniteSubsetsOf
  <2>2. <<V, U>> \in StrictSubsetOrdering(S)
    BY <1>2, <1>3 DEF StrictSubsetOrdering
  <2> QED
    BY <1>1, <2>1, <2>2
<1> QED
  BY <1>2, <1>3

\* A nonempty finite set of numbers has a largest member.
LEMMA LargestExists ==
  ASSUME NEW S \in SUBSET Int, IsFiniteSet(S), S # {}
  PROVE  Max(S) \in S /\ \A y \in S : y <= Max(S)
<1> DEFINE Above(x) == {y \in S : y > x}
           All == {Above(x) : x \in S}
<1>1. PICK U \in All : \A V \in All : <<V, U>> \notin StrictSubsetOrdering(S)
  <2>1. IsWellFoundedOn(StrictSubsetOrdering(S), FiniteSubsetsOf(S))
    BY FS_StrictSubsetOrderingWellFounded
  <2>2. All \subseteq FiniteSubsetsOf(S)
    BY FS_FiniteSubsetsOfFinite
  <2>3. All # {}
    OBVIOUS
  <2> HIDE DEF All
  <2> QED
    BY <2>1, <2>2, <2>3, WFMin
<1>2. PICK x \in S : U = Above(x)
  OBVIOUS
<1>3. ASSUME NEW y \in S, y > x PROVE FALSE
  <2>1. x \in Int /\ y \in Int /\ \A z \in S : z \in Int
    OBVIOUS
  <2>2. Above(y) \subseteq Above(x) /\ y \in Above(x) /\ y \notin Above(y)
    <3>1. y \notin Above(y) /\ y \in Above(x)
      BY <1>3, <2>1
    <3>2. \A z \in S : z > y => z > x
      BY <1>3, <2>1
    <3> QED
      BY <3>1, <3>2
  <2>3. Above(y) # Above(x)
    BY <2>2
  <2>4. <<Above(y), U>> \in StrictSubsetOrdering(S)
    BY <1>2, <2>2, <2>3 DEF StrictSubsetOrdering
  <2> QED
    BY <1>1, <2>4
<1>4. \E z \in S : \A y \in S : z >= y
  BY <1>3
<1> QED
  BY <1>4 DEF Max

\* A nonempty set of natural numbers has a smallest member.
LEMMA SmallestExists ==
  ASSUME NEW S \in SUBSET Nat, S # {}
  PROVE  \E m \in S : \A n \in S : m <= n
<1> DEFINE Less == {ss \in Nat \X Nat : ss[1] < ss[2]}
<1>1. IsWellFoundedOn(Less, Nat)
  BY NatLessThanWellFounded DEF OpToRel
<1>2. PICK m \in S : \A n \in S : <<n, m>> \notin Less
  <2> HIDE DEF Less
  <2> QED
    BY <1>1, WFMin
<1>3. ASSUME NEW n \in S PROVE m <= n
  <2>1. ~(n < m)
    BY <1>2
  <2> QED
    BY <2>1
<1> QED
  BY <1>3

-----------------------------------------------------------------------------
(* Sums over finite sets.                                                  *)

\* The fold of a function by addition is a table of the sums over all subsets,
\* which takes one element at a time away from a set.
AnyOf(s) == CHOOSE x \in s : TRUE

IsTable(iter, f, S) ==
  iter = [s \in SUBSET S |-> IF s = {} THEN 0 ELSE f[AnyOf(s)] + iter[s \ {AnyOf(s)}]]

Table(f, S) == CHOOSE iter : IsTable(iter, f, S)

LEMMA SumIsInTable ==
  ASSUME NEW f, NEW S
  PROVE  SumFunctionOnSet(f, S) = Table(f, S)[S]
BY DEF SumFunctionOnSet, FoldFunctionOnSet, MapThenFoldSet, Table, IsTable, AnyOf

LEMMA AnyOfIsOneOf ==
  ASSUME NEW s, s # {}
  PROVE  AnyOf(s) \in s
BY DEF AnyOf

LEMMA TableValue ==
  ASSUME NEW S, NEW f, NEW t, IsTable(t, f, S), NEW s \in SUBSET S
  PROVE  t[s] = IF s = {} THEN 0 ELSE f[AnyOf(s)] + t[s \ {AnyOf(s)}]
<1> DEFINE r(u) == IF u = {} THEN 0 ELSE f[AnyOf(u)] + t[u \ {AnyOf(u)}]
<1>1. t = [u \in SUBSET S |-> r(u)]
  BY DEF IsTable
<1> HIDE DEF r
<1>2. t[s] = r(s)
  BY <1>1
<1> QED
  BY <1>2 DEF r

\* Two tables for the same function agree.
LEMMA TablesAgree ==
  ASSUME NEW S, IsFiniteSet(S), NEW f, NEW t, IsTable(t, f, S),
         NEW T, NEW u, IsTable(u, f, T), S \subseteq T
  PROVE  t[S] = u[S]
<1> DEFINE G == {U \in SUBSET S : t[U] = u[U]}
<1>1. ASSUME NEW U \in SUBSET S, \A V \in SUBSET U : V # U => V \in G
      PROVE  U \in G
  <2>1. U \in SUBSET T
    OBVIOUS
  <2>2. /\ t[U] = IF U = {} THEN 0 ELSE f[AnyOf(U)] + t[U \ {AnyOf(U)}]
        /\ u[U] = IF U = {} THEN 0 ELSE f[AnyOf(U)] + u[U \ {AnyOf(U)}]
    BY <2>1, TableValue
  <2>3. U # {} => U \ {AnyOf(U)} \in G
    BY <1>1, AnyOfIsOneOf
  <2> QED
    BY <2>2, <2>3
<1> HIDE DEF G
<1>2. S \in G
  BY <1>1, SetInduction
<1> QED
  BY <1>2 DEF G

\* There is a table for every function and finite set.
LEMMA TableExists ==
  ASSUME NEW S, IsFiniteSet(S), NEW f
  PROVE  IsTable(Table(f, S), f, S)
<1> DEFINE G == {U \in SUBSET S : IsTable(Table(f, U), f, U)}
<1>1. ASSUME NEW U \in SUBSET S, \A V \in SUBSET U : V # U => V \in G
      PROVE  U \in G
  <2> DEFINE sum(s) == Table(f, s)[s]
             low == [s \in SUBSET U |-> IF s = U THEN 0 ELSE sum(s)]
             all(s) == IF s = {} THEN 0 ELSE f[AnyOf(s)] + low[s \ {AnyOf(s)}]
             t == [s \in SUBSET U |-> all(s)]
  <2>1. \A V \in SUBSET U : IsFiniteSet(V)
    BY FS_Subset
  <2>2. ASSUME NEW V \in SUBSET U, V # U PROVE IsTable(Table(f, V), f, V)
    BY <1>1, <2>2
  <2>3. ASSUME NEW s \in SUBSET U, s # U PROVE all(s) = sum(s)
    <3>1. CASE s = {}
      <4>1. sum(s) = 0
        BY <2>2, <2>3, <3>1, TableValue
      <4> QED
        BY <3>1, <4>1
    <3>2. CASE s # {}
      <4> DEFINE r == s \ {AnyOf(s)}
      <4>1. AnyOf(s) \in s
        BY <3>2, AnyOfIsOneOf
      <4>2. r \in SUBSET U /\ r # U /\ r \subseteq s
        BY <4>1
      <4>3. IsTable(Table(f, s), f, s) /\ IsTable(Table(f, r), f, r) /\ IsFiniteSet(r)
        BY <2>1, <2>2, <2>3, <4>2
      <4> HIDE DEF r
      <4>4. Table(f, s)[r] = Table(f, r)[r]
        BY <4>2, <4>3, TablesAgree
      <4>5. Table(f, s)[s] = f[AnyOf(s)] + Table(f, s)[r]
        BY <3>2, <4>3, TableValue DEF r
      <4>6. low[r] = sum(r)
        BY <4>2
      <4>7. all(s) = f[AnyOf(s)] + low[r]
        BY <3>2 DEF r
      <4> QED
        BY <4>4, <4>5, <4>6, <4>7
    <3> QED
      BY <3>1, <3>2
  <2> HIDE DEF sum
  <2>4. ASSUME NEW s \in SUBSET U
        PROVE  all(s) = IF s = {} THEN 0 ELSE f[AnyOf(s)] + t[s \ {AnyOf(s)}]
    <3>1. CASE s = {}
      BY <3>1
    <3>2. CASE s # {}
      <4> DEFINE r == s \ {AnyOf(s)}
      <4>1. r \in SUBSET U /\ r # U
        BY <3>2, AnyOfIsOneOf
      <4> HIDE DEF r
      <4>2. t[r] = all(r)
        BY <4>1
      <4>3. low[r] = sum(r)
        BY <4>1
      <4>4. t[r] = low[r]
        BY <2>3, <4>1, <4>2, <4>3
      <4>5. all(s) = f[AnyOf(s)] + low[r]
        BY <3>2 DEF r
      <4> QED
        BY <3>2, <4>4, <4>5 DEF r
    <3> QED
      BY <3>1, <3>2
  <2>5. IsTable(t, f, U)
    <3> DEFINE body(s) == IF s = {} THEN 0 ELSE f[AnyOf(s)] + t[s \ {AnyOf(s)}]
    <3>1. \A s \in SUBSET U : all(s) = body(s)
      BY <2>4
    <3>2. t = [s \in SUBSET U |-> body(s)]
      <4> HIDE DEF all, body
      <4> QED
        BY <3>1
    <3> HIDE DEF t
    <3> QED
      BY <3>2 DEF IsTable
  <2> HIDE DEF t
  <2>6. IsTable(Table(f, U), f, U)
    BY <2>5 DEF Table
  <2> QED
    BY <2>6
<1> HIDE DEF G
<1>2. S \in G
  BY <1>1, SetInduction
<1> QED
  BY <1>2 DEF G

LEMMA SumOfNone ==
  ASSUME NEW f
  PROVE  SumFunctionOnSet(f, {}) = 0
<1>1. IsTable(Table(f, {}), f, {})
  BY TableExists, FS_EmptySet
<1> QED
  BY <1>1, TableValue, SumIsInTable

LEMMA SumOfSome ==
  ASSUME NEW S, IsFiniteSet(S), S # {}, NEW f
  PROVE  SumFunctionOnSet(f, S) = f[AnyOf(S)] + SumFunctionOnSet(f, S \ {AnyOf(S)})
<1> DEFINE r == S \ {AnyOf(S)}
<1>1. IsFiniteSet(r)
  BY FS_Subset
<1>2. IsTable(Table(f, S), f, S) /\ IsTable(Table(f, r), f, r)
  BY <1>1, TableExists
<1>3. Table(f, S)[S] = f[AnyOf(S)] + Table(f, S)[r]
  BY <1>2, TableValue
<1>4. r \subseteq S
  OBVIOUS
<1> HIDE DEF r
<1>5. Table(f, S)[r] = Table(f, r)[r]
  BY <1>1, <1>2, <1>4, TablesAgree
<1> QED
  BY <1>3, <1>5, SumIsInTable DEF r

\* The sum of integers is one.
LEMMA SumType ==
  ASSUME NEW S, IsFiniteSet(S), NEW f, \A d \in S : f[d] \in Int
  PROVE  SumFunctionOnSet(f, S) \in Int
<1> DEFINE G == {U \in SUBSET S : SumFunctionOnSet(f, U) \in Int}
<1>1. ASSUME NEW U \in SUBSET S, \A V \in SUBSET U : V # U => V \in G
      PROVE  U \in G
  <2>1. CASE U = {}
    BY <2>1, SumOfNone
  <2>2. CASE U # {}
    <3>1. AnyOf(U) \in U /\ IsFiniteSet(U)
      BY <2>2, AnyOfIsOneOf, FS_Subset
    <3>2. SumFunctionOnSet(f, U \ {AnyOf(U)}) \in Int
      BY <1>1, <3>1
    <3>3. SumFunctionOnSet(f, U) = f[AnyOf(U)] + SumFunctionOnSet(f, U \ {AnyOf(U)})
      BY <2>2, <3>1, SumOfSome
    <3> QED
      BY <3>1, <3>2, <3>3
  <2> QED
    BY <2>1, <2>2
<1> HIDE DEF G
<1>2. S \in G
  BY <1>1, SetInduction
<1> QED
  BY <1>2 DEF G

\* Any element may be taken out first: the order of the sum does not matter.
LEMMA SumWithout ==
  ASSUME NEW S, IsFiniteSet(S), NEW f, \A d \in S : f[d] \in Int
  PROVE  \A d \in S : SumFunctionOnSet(f, S) = f[d] + SumFunctionOnSet(f, S \ {d})
<1> DEFINE sum(U) == SumFunctionOnSet(f, U)
           G == {U \in SUBSET S : \A d \in U : sum(U) = f[d] + sum(U \ {d})}
<1>0. \A U \in SUBSET S : sum(U) \in Int
  BY FS_Subset, SumType
<1>1. ASSUME NEW U \in SUBSET S, \A V \in SUBSET U : V # U => V \in G
      PROVE  U \in G
  <2> SUFFICES ASSUME NEW d \in U PROVE sum(U) = f[d] + sum(U \ {d})
    OBVIOUS
  <2> DEFINE c == AnyOf(U)
  <2>1. c \in U /\ IsFiniteSet(U)
    BY AnyOfIsOneOf, FS_Subset
  <2>2. sum(U) = f[c] + sum(U \ {c})
    BY <2>1, SumOfSome
  <2> HIDE DEF c, sum
  <2>3. CASE d # c
    <3>1. /\ sum(U \ {c}) = f[d] + sum((U \ {c}) \ {d})
          /\ sum(U \ {d}) = f[c] + sum((U \ {d}) \ {c})
      BY <1>1, <2>1, <2>3
    <3>2. sum((U \ {c}) \ {d}) = sum((U \ {d}) \ {c})
      <4>1. (U \ {c}) \ {d} = (U \ {d}) \ {c}
        OBVIOUS
      <4> QED
        BY <4>1
    <3>3. PICK rest \in Int : rest = sum((U \ {d}) \ {c})
      BY <1>0
    <3>4. f[c] \in Int /\ f[d] \in Int
      BY <2>1
    <3>5. /\ sum(U) = f[c] + (f[d] + rest)
          /\ sum(U \ {d}) = f[c] + rest
      BY <2>2, <3>1, <3>2, <3>3
    <3>6. f[c] + (f[d] + rest) = f[d] + (f[c] + rest)
      BY <3>3, <3>4
    <3> QED
      BY <3>5, <3>6
  <2>4. CASE d = c
    BY <2>2, <2>4
  <2> QED
    BY <2>3, <2>4
<1> HIDE DEF G
<1>2. S \in G
  BY <1>1, SetInduction
<1> QED
  BY <1>2 DEF G

\* Functions that agree on a set have the same sum over it.
LEMMA SumAgrees ==
  ASSUME NEW S, IsFiniteSet(S), NEW f, NEW g, \A d \in S : f[d] = g[d]
  PROVE  SumFunctionOnSet(f, S) = SumFunctionOnSet(g, S)
<1> DEFINE G == {U \in SUBSET S : SumFunctionOnSet(f, U) = SumFunctionOnSet(g, U)}
<1>1. ASSUME NEW U \in SUBSET S, \A V \in SUBSET U : V # U => V \in G
      PROVE  U \in G
  <2>1. CASE U = {}
    BY <2>1, SumOfNone
  <2>2. CASE U # {}
    <3>1. AnyOf(U) \in U /\ IsFiniteSet(U)
      BY <2>2, AnyOfIsOneOf, FS_Subset
    <3>2. SumFunctionOnSet(f, U \ {AnyOf(U)}) = SumFunctionOnSet(g, U \ {AnyOf(U)})
      BY <1>1, <3>1
    <3>3. /\ SumFunctionOnSet(f, U) = f[AnyOf(U)] + SumFunctionOnSet(f, U \ {AnyOf(U)})
          /\ SumFunctionOnSet(g, U) = g[AnyOf(U)] + SumFunctionOnSet(g, U \ {AnyOf(U)})
      BY <2>2, <3>1, SumOfSome
    <3> QED
      BY <3>1, <3>2, <3>3
  <2> QED
    BY <2>1, <2>2
<1> HIDE DEF G
<1>2. S \in G
  BY <1>1, SetInduction
<1> QED
  BY <1>2 DEF G

\* A sum of what is never positive is not positive, and of zeros is zero.
LEMMA SumSign ==
  ASSUME NEW S, IsFiniteSet(S), NEW f, \A d \in S : f[d] \in Int /\ f[d] <= 0
  PROVE  /\ SumFunctionOnSet(f, S) <= 0
         /\ (\A d \in S : f[d] = 0) => SumFunctionOnSet(f, S) = 0
<1> DEFINE sum(U) == SumFunctionOnSet(f, U)
           G == {U \in SUBSET S : sum(U) <= 0 /\ ((\A d \in U : f[d] = 0) => sum(U) = 0)}
<1>0. \A U \in SUBSET S : sum(U) \in Int
  BY FS_Subset, SumType
<1>1. ASSUME NEW U \in SUBSET S, \A V \in SUBSET U : V # U => V \in G
      PROVE  U \in G
  <2>1. CASE U = {}
    BY <2>1, SumOfNone
  <2>2. CASE U # {}
    <3> DEFINE c == AnyOf(U)
    <3>1. c \in U /\ IsFiniteSet(U)
      BY <2>2, AnyOfIsOneOf, FS_Subset
    <3>2. sum(U) = f[c] + sum(U \ {c})
      BY <2>2, <3>1, SumOfSome
    <3> HIDE DEF c, sum
    <3>3. sum(U \ {c}) <= 0 /\ ((\A d \in U \ {c} : f[d] = 0) => sum(U \ {c}) = 0)
      BY <1>1, <3>1
    <3>4. sum(U \ {c}) \in Int /\ f[c] \in Int /\ f[c] <= 0
      BY <1>0, <3>1
    <3> QED
      BY <3>1, <3>2, <3>3, <3>4
  <2> QED
    BY <2>1, <2>2
<1> HIDE DEF G
<1>2. S \in G
  BY <1>1, SetInduction
<1> QED
  BY <1>2 DEF G

\* Where two functions on a finite set differ at one element only, so do their
\* sums.
LEMMA SumChange ==
  ASSUME NEW S, IsFiniteSet(S), NEW f \in [S -> Int], NEW g \in [S -> Int],
         NEW d \in S, \A e \in S : e # d => g[e] = f[e]
  PROVE  SumFunction(g) = SumFunction(f) + g[d] - f[d]
<1>1. /\ SumFunctionOnSet(f, S) = f[d] + SumFunctionOnSet(f, S \ {d})
      /\ SumFunctionOnSet(g, S) = g[d] + SumFunctionOnSet(g, S \ {d})
  BY SumWithout
<1>2. SumFunctionOnSet(f, S \ {d}) = SumFunctionOnSet(g, S \ {d})
  BY SumAgrees, FS_Subset
<1>3. SumFunctionOnSet(f, S \ {d}) \in Int
  BY SumType, FS_Subset
<1> QED
  BY <1>1, <1>2, <1>3 DEF SumFunction

LEMMA SumBounds ==
  ASSUME NEW S, IsFiniteSet(S), NEW f \in [S -> Int]
  PROVE  /\ SumFunction(f) \in Int
         /\ (\A d \in S : f[d] <= 0) => SumFunction(f) <= 0
         /\ (\A d \in S : f[d] = 0) => SumFunction(f) = 0
<1>1. SumFunctionOnSet(f, S) \in Int
  BY SumType
<1>2. (\A d \in S : f[d] <= 0) => SumFunctionOnSet(f, S) <= 0
  BY SumSign
<1>3. (\A d \in S : f[d] = 0) => SumFunctionOnSet(f, S) = 0
  BY SumSign
<1> QED
  BY <1>1, <1>2, <1>3 DEF SumFunction

\* A sum over a set is that over a part of it and that over the rest.
LEMMA SumOfTwo ==
  ASSUME NEW S, IsFiniteSet(S), NEW f, \A d \in S : f[d] \in Int, NEW A \in SUBSET S
  PROVE  SumFunctionOnSet(f, S) = SumFunctionOnSet(f, A) + SumFunctionOnSet(f, S \ A)
<1> DEFINE sum(U) == SumFunctionOnSet(f, U)
           G == {U \in SUBSET A : sum(S) = sum(U) + sum(S \ U)}
<1>0. \A U \in SUBSET S : sum(U) \in Int /\ IsFiniteSet(U)
  BY FS_Subset, SumType
<1>1. ASSUME NEW U \in SUBSET A, \A V \in SUBSET U : V # U => V \in G
      PROVE  U \in G
  <2>1. CASE U = {}
    <3>1. S \ {} = S /\ sum({}) = 0 /\ sum(S) \in Int
      BY SumOfNone, <1>0
    <3> QED
      BY <2>1, <3>1
  <2>2. CASE U # {}
    <3>1. PICK d \in U : TRUE
      BY <2>2
    <3>2. U \ {d} \in SUBSET U /\ U \ {d} # U /\ U \in SUBSET S
      BY <3>1
    <3>3. sum(S) = sum(U \ {d}) + sum(S \ (U \ {d}))
      BY <1>1, <3>2
    <3>4. sum(U) = f[d] + sum(U \ {d})
      BY <1>0, <3>1, <3>2, SumWithout
    <3>5. sum(S \ (U \ {d})) = f[d] + sum((S \ (U \ {d})) \ {d})
      <4>1. S \ (U \ {d}) \in SUBSET S /\ d \in S \ (U \ {d})
        BY <3>1, <3>2
      <4>2. IsFiniteSet(S \ (U \ {d})) /\ \A e \in S \ (U \ {d}) : f[e] \in Int
        BY <1>0, <4>1
      <4> QED
        BY <4>1, <4>2, SumWithout
    <3>6. (S \ (U \ {d})) \ {d} = S \ U
      BY <3>1
    <3>7. f[d] \in Int /\ sum(U \ {d}) \in Int /\ sum(S \ U) \in Int
      BY <1>0, <3>1, <3>2
    <3> HIDE DEF sum
    <3>8. sum(S \ (U \ {d})) = f[d] + sum(S \ U)
      BY <3>5, <3>6
    <3>9. sum(S) = sum(U) + sum(S \ U)
      BY <3>3, <3>4, <3>7, <3>8
    <3> QED
      BY <3>9
  <2> QED
    BY <2>1, <2>2
<1> HIDE DEF G
<1>2. A \in G
  BY <1>1, <1>0, SetInduction
<1> QED
  BY <1>2 DEF G

\* What is zero may be left out.
LEMMA SumWithoutZeros ==
  ASSUME NEW S, IsFiniteSet(S), NEW f, \A d \in S : f[d] \in Int,
         NEW A \in SUBSET S, \A d \in S \ A : f[d] = 0
  PROVE  SumFunctionOnSet(f, S) = SumFunctionOnSet(f, A)
<1>1. IsFiniteSet(A) /\ IsFiniteSet(S \ A)
  BY FS_Subset
<1>2. SumFunctionOnSet(f, A) \in Int
  BY <1>1, SumType
<1>3. SumFunctionOnSet(f, S \ A) = 0
  <2>1. \A d \in S \ A : f[d] \in Int /\ f[d] <= 0
    OBVIOUS
  <2> QED
    BY <1>1, <2>1, SumSign
<1>4. SumFunctionOnSet(f, S) = SumFunctionOnSet(f, A) + SumFunctionOnSet(f, S \ A)
  BY SumOfTwo
<1> QED
  BY <1>2, <1>3, <1>4

\* P cuts T, a part of S, into disjoint parts, one for each member of I, and g has
\* the sum of f over each.
SumsOfParts(g, I, f, P, T, S) ==
  /\ IsFiniteSet(S) /\ \A d \in S : f[d] \in Int
  /\ IsFiniteSet(I) /\ \A b \in I : P[b] \in SUBSET S
  /\ \A b, c \in I : b # c => P[b] \cap P[c] = {}
  /\ \A b \in I : g[b] = SumFunctionOnSet(f, P[b])
  /\ T \in SUBSET S /\ \A d \in S : d \in T <=> \E b \in I : d \in P[b]

\* The sums over the parts add up to the sum over all of it.
LEMMA SumOfParts ==
  ASSUME NEW g, NEW I, NEW f, NEW P, NEW T, NEW S, SumsOfParts(g, I, f, P, T, S)
  PROVE  SumFunctionOnSet(g, I) = SumFunctionOnSet(f, T)
<1> USE DEF SumsOfParts
<1> DEFINE sum(U) == SumFunctionOnSet(f, U)
           all(K) == UNION {P[b] : b \in K}
           G == {K \in SUBSET I : SumFunctionOnSet(g, K) = sum(all(K))}
<1>0. \A U \in SUBSET S : sum(U) \in Int /\ IsFiniteSet(U)
  BY FS_Subset, SumType
<1>1. ASSUME NEW K \in SUBSET I, \A V \in SUBSET K : V # K => V \in G
      PROVE  K \in G
  <2>1. CASE K = {}
    <3>1. all(K) = {}
      BY <2>1
    <3> QED
      BY <2>1, <3>1, SumOfNone
  <2>2. CASE K # {}
    <3>1. PICK b \in K : TRUE
      BY <2>2
    <3>2. K \ {b} \in SUBSET K /\ K \ {b} # K /\ b \in I /\ IsFiniteSet(K)
      BY <3>1, FS_Subset
    <3>3. SumFunctionOnSet(g, K \ {b}) = sum(all(K \ {b}))
      BY <1>1, <3>2
    <3>4. \A c \in K : g[c] \in Int
      BY <1>0
    <3>5. SumFunctionOnSet(g, K) = g[b] + SumFunctionOnSet(g, K \ {b})
      <4> HIDE DEF G, all, sum
      <4> QED
        BY <3>1, <3>2, <3>4, SumWithout
    <3>6. P[b] \in SUBSET all(K) /\ all(K) \in SUBSET S
      BY <3>1, <3>2
    <3>7. all(K) \ P[b] = all(K \ {b})
      BY <3>1, <3>2
    <3>8. sum(all(K)) = sum(P[b]) + sum(all(K) \ P[b])
      <4> HIDE DEF all
      <4>1. IsFiniteSet(all(K)) /\ \A d \in all(K) : f[d] \in Int
        BY <1>0, <3>6
      <4> QED
        BY <3>6, <4>1, SumOfTwo
    <3>9. g[b] = sum(P[b])
      BY <3>2
    <3> HIDE DEF sum, all
    <3>10. SumFunctionOnSet(g, K) = sum(all(K))
      BY <3>3, <3>5, <3>7, <3>8, <3>9
    <3> QED
      BY <3>10
  <2> QED
    BY <2>1, <2>2
<1> HIDE DEF G
<1>2. I \in G
  BY <1>1, SetInduction
<1>3. all(I) = T
  OBVIOUS
<1> QED
  BY <1>2, <1>3 DEF G

================================================================================
