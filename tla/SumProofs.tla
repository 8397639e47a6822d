------------------------------ MODULE SumProofs ------------------------------
(***************************************************************************)
(* Facts the proofs about the modules share: the least of some sets and    *)
(* numbers, and sums over a finite set, MapThenSumSet.  Its recursion has  *)
(* a solution, and a sum follows its terms; both, because there would be   *)
(* a smallest set for which it is otherwise.                               *)
(***************************************************************************)
EXTENDS Integers, FiniteSets, FiniteSetsExt, FiniteSetTheorems, WellFoundedInduction, TLAPS

LEMMA Smallest ==
    ASSUME NEW S, IsFiniteSet(S), NEW B \in SUBSET (SUBSET S), B # {}
    PROVE  \E m \in B : \A s \in B : s \subseteq m => s = m
<1>1. IsWellFoundedOn(StrictSubsetOrdering(S), SUBSET S)
  BY FS_StrictSubsetOrderingWellFounded, FS_FiniteSubsetsOfFinite
<1>2. PICK m \in B : \A s \in B : ~(<<s, m>> \in StrictSubsetOrdering(S))
  BY <1>1, WFMin
<1> QED
  BY <1>2 DEF StrictSubsetOrdering

\* The least of some numbers, from the least of the intervals up to them.
LEMMA Least ==
    ASSUME NEW n \in Nat, NEW B \in SUBSET (1 .. n), B # {}
    PROVE  \E m \in B : \A k \in B : m <= k
<1> DEFINE Upto == {1 .. k : k \in B}
<1>1. IsWellFoundedOn(StrictSubsetOrdering(1 .. n), SUBSET (1 .. n))
  <2>1. IsFiniteSet(1 .. n)
    BY FS_Interval
  <2> QED
    BY <2>1, FS_StrictSubsetOrderingWellFounded, FS_FiniteSubsetsOfFinite
<1>2. Upto \in SUBSET (SUBSET (1 .. n)) /\ Upto # {}
  <2>1. \A k \in B : 1 .. k \subseteq 1 .. n
    OBVIOUS
  <2> QED
    BY <2>1
<1>3. PICK u \in Upto : \A s \in Upto : ~(<<s, u>> \in StrictSubsetOrdering(1 .. n))
  <2> HIDE DEF Upto
  <2> QED
    BY <1>1, <1>2, WFMin
<1>4. PICK m \in B : u = 1 .. m
  OBVIOUS
<1>5. ASSUME NEW k \in B, k < m PROVE FALSE
  <2>1. 1 .. k \in Upto /\ 1 .. k \subseteq 1 .. m /\ m \in 1 .. m /\ m \notin 1 .. k
    BY <1>5
  <2>2. <<1 .. k, 1 .. m>> \in StrictSubsetOrdering(1 .. n)
    BY <1>2, <1>4, <2>1 DEF StrictSubsetOrdering
  <2> QED
    BY <1>3, <1>4, <2>1, <2>2
<1> QED
  BY <1>5

\* The greatest of some values.
LEMMA Greatest ==
    ASSUME NEW values, NEW A, IsFiniteSet(A), A # {}, \A i \in A : values[i] \in Int
    PROVE  \E j \in A : \A i \in A : values[i] <= values[j]
<1> DEFINE above(j) == {i \in A : values[j] < values[i]}
           B == {above(j) : j \in A}
<1>1. B \in SUBSET (SUBSET A) /\ B # {}
  OBVIOUS
<1>2. PICK m \in B : \A s \in B : s \subseteq m => s = m
  <2> HIDE DEF B
  <2> QED
    BY <1>1, Smallest
<1>3. PICK j \in A : m = above(j)
  OBVIOUS
<1>4. ASSUME NEW i \in A, values[j] < values[i] PROVE FALSE
  <2>1. above(i) \subseteq above(j) /\ above(i) \in B
    BY <1>4
  <2>2. i \in above(j) /\ i \notin above(i)
    BY <1>4
  <2> HIDE DEF above, B
  <2> QED
    BY <1>2, <1>3, <2>1, <2>2
<1> HIDE DEF above, B
<1>5. \A i \in A : values[i] <= values[j]
  BY <1>4
<1> QED
  BY <1>5

-----------------------------------------------------------------------------
Chosen(s) == CHOOSE x \in s : TRUE

\* h is the recursion of the sum of the v[x], on the subsets of S.
SumsOn(h, v, S) ==
    h = [s \in SUBSET S |-> IF s = {} THEN 0 ELSE v[Chosen(s)] + h[s \ {Chosen(s)}]]

LEMMA ChosenIn == \A s : s # {} => Chosen(s) \in s
BY DEF Chosen

LEMMA SumsUnique ==
    ASSUME NEW S, IsFiniteSet(S), NEW A \in SUBSET S, NEW B \in SUBSET S,
           NEW v, NEW g, NEW h, SumsOn(g, v, A), SumsOn(h, v, B)
    PROVE  \A s \in SUBSET (A \cap B) : g[s] = h[s]
<1> DEFINE Bad == {s \in SUBSET (A \cap B) : g[s] # h[s]}
<1> SUFFICES ASSUME Bad # {} PROVE FALSE
  OBVIOUS
<1>1. PICK m \in Bad : \A s \in Bad : s \subseteq m => s = m
  <2>1. Bad \in SUBSET (SUBSET S)
    OBVIOUS
  <2> HIDE DEF Bad
  <2> QED
    BY <2>1, Smallest
<1>2. m # {}
  BY DEF SumsOn
<1>3. /\ g[m] = v[Chosen(m)] + g[m \ {Chosen(m)}]
      /\ h[m] = v[Chosen(m)] + h[m \ {Chosen(m)}]
  BY <1>2 DEF SumsOn
<1>4. g[m \ {Chosen(m)}] = h[m \ {Chosen(m)}]
  BY <1>1, <1>2, ChosenIn
<1> QED
  BY <1>3, <1>4

LEMMA SumsExist ==
    ASSUME NEW S, IsFiniteSet(S), NEW v
    PROVE  \E h : SumsOn(h, v, S)
<1> DEFINE Bad == {T \in SUBSET S : ~\E h : SumsOn(h, v, T)}
<1> SUFFICES ASSUME Bad # {} PROVE FALSE
  OBVIOUS
<1>1. PICK T \in Bad : \A s \in Bad : s \subseteq T => s = T
  <2>1. Bad \in SUBSET (SUBSET S)
    OBVIOUS
  <2> HIDE DEF Bad
  <2> QED
    BY <2>1, Smallest
<1> DEFINE below(s) == s \ {Chosen(s)}
           sol(s) == CHOOSE h : SumsOn(h, v, s)
           h == [s \in SUBSET T |-> IF s = {} THEN 0 ELSE v[Chosen(s)] + sol(below(s))[below(s)]]
<1>2. \A s \in SUBSET T : s # T => SumsOn(sol(s), v, s)
  BY <1>1
<1>3. ASSUME NEW s \in SUBSET T, s # {} PROVE sol(below(s))[below(s)] = h[below(s)]
  <2> DEFINE r == below(s)
  <2>1. r \in SUBSET T /\ r # T
    BY <1>3, ChosenIn
  <2> HIDE DEF r
  <2>2. SumsOn(sol(r), v, r)
    BY <1>2, <2>1
  <2> HIDE DEF sol
  <2>3. CASE r = {}
    <3>1. sol(r)[r] = 0
      BY <2>2, <2>3 DEF SumsOn
    <3> QED
      BY <3>1, <2>1, <2>3 DEF r
  <2>4. CASE r # {}
    <3>1. below(r) \in SUBSET r /\ below(r) # r /\ below(r) \in SUBSET T /\ below(r) # T
      BY <2>1, <2>4, ChosenIn
    <3>2. sol(r)[r] = v[Chosen(r)] + sol(r)[below(r)]
      BY <2>2, <2>4 DEF SumsOn
    <3>3. SumsOn(sol(below(r)), v, below(r))
      BY <3>1, <1>2
    <3>4. sol(r)[below(r)] = sol(below(r))[below(r)]
      <4>1. r \in SUBSET S /\ below(r) \in SUBSET S
        BY <2>1, <3>1
      <4> HIDE DEF below
      <4> QED
        <5> DEFINE p == below(r)
        <5>1. p \in SUBSET (r \cap p)
          BY <3>1
        <5> HIDE DEF p
        <5>2. \A q \in SUBSET (r \cap p) : sol(r)[q] = sol(p)[q]
          BY <4>1, <3>3, <2>2, SumsUnique DEF p
        <5> QED
          BY <5>1, <5>2 DEF p
    <3>5. h[r] = v[Chosen(r)] + sol(below(r))[below(r)]
      BY <2>1, <2>4
    <3> QED
      BY <3>2, <3>4, <3>5 DEF r
  <2> QED
    BY <2>3, <2>4
<1>4. SumsOn(h, v, T)
  <2> HIDE DEF sol
  <2>1. /\ h[{}] = 0
        /\ \A s \in SUBSET T : s # {} => h[s] = v[Chosen(s)] + sol(below(s))[below(s)]
    OBVIOUS
  <2>2. h = [s \in SUBSET T |-> h[s]]
    OBVIOUS
  <2> HIDE DEF h
  <2>3. \A s \in SUBSET T : h[s] = IF s = {} THEN 0 ELSE v[Chosen(s)] + h[s \ {Chosen(s)}]
    BY <2>1, <1>3
  <2> QED
    BY <2>2, <2>3 DEF SumsOn
<1> QED
  BY <1>1, <1>4

Total(v, S) == MapThenSumSet(LAMBDA x : v[x], S)

LEMMA TotalSums ==
    ASSUME NEW S, IsFiniteSet(S), NEW v
    PROVE  \E h : SumsOn(h, v, S) /\ Total(v, S) = h[S]
<1> DEFINE h == CHOOSE g : SumsOn(g, v, S)
<1>1. SumsOn(h, v, S)
  BY SumsExist
<1>2. Total(v, S) = h[S]
  BY DEF Total, MapThenSumSet, MapThenFoldSet, SumsOn, Chosen
<1> QED
  BY <1>1, <1>2

LEMMA TotalZero ==
    ASSUME NEW S, IsFiniteSet(S)
    PROVE  Total([x \in S |-> 0], S) = 0
<1> DEFINE v == [x \in S |-> 0]
<1>1. PICK h : SumsOn(h, v, S) /\ Total(v, S) = h[S]
  BY TotalSums
<1> DEFINE Bad == {s \in SUBSET S : h[s] # 0}
<1>2. ASSUME Bad # {} PROVE FALSE
  <2>1. PICK m \in Bad : \A s \in Bad : s \subseteq m => s = m
    <3>1. Bad \in SUBSET (SUBSET S)
      OBVIOUS
    <3> HIDE DEF Bad
    <3> QED
      BY <1>2, <3>1, Smallest
  <2>2. m # {}
    BY <1>1 DEF SumsOn
  <2>3. h[m] = v[Chosen(m)] + h[m \ {Chosen(m)}]
    BY <1>1, <2>2 DEF SumsOn
  <2>4. h[m \ {Chosen(m)}] = 0 /\ v[Chosen(m)] = 0
    BY <2>1, <2>2, ChosenIn
  <2> QED
    BY <2>3, <2>4
<1> QED
  BY <1>1, <1>2

\* One term grows by e, and so does the sum.
LEMMA TotalGrows ==
    ASSUME NEW S, IsFiniteSet(S), NEW v \in [S -> Nat], NEW x \in S, NEW e \in Nat
    PROVE  /\ Total(v, S) \in Nat
           /\ Total([v EXCEPT ![x] = @ + e], S) = Total(v, S) + e
<1> DEFINE w == [v EXCEPT ![x] = @ + e]
<1>1. PICK g : SumsOn(g, v, S) /\ Total(v, S) = g[S]
  BY TotalSums
<1>2. PICK h : SumsOn(h, w, S) /\ Total(w, S) = h[S]
  BY TotalSums
<1> DEFINE More(s) == IF x \in s THEN e ELSE 0
           Bad == {s \in SUBSET S : ~(g[s] \in Nat /\ h[s] = g[s] + More(s))}
<1>3. ASSUME Bad # {} PROVE FALSE
  <2>1. PICK m \in Bad : \A s \in Bad : s \subseteq m => s = m
    <3>1. Bad \in SUBSET (SUBSET S)
      OBVIOUS
    <3> HIDE DEF Bad
    <3> QED
      BY <1>3, <3>1, Smallest
  <2>2. m # {}
    <3>1. g[{}] = 0 /\ h[{}] = 0
      BY <1>1, <1>2 DEF SumsOn
    <3> QED
      BY <3>1
  <2> DEFINE y == Chosen(m)
             r == m \ {y}
  <2>3. g[m] = v[y] + g[r] /\ h[m] = w[y] + h[r]
    BY <1>1, <1>2, <2>2 DEF SumsOn
  <2>4. y \in m /\ y \in S
    BY <2>2, ChosenIn
  <2> HIDE DEF y
  <2>5. g[r] \in Nat /\ h[r] = g[r] + More(r)
    BY <2>1, <2>4
  <2>6. v[y] \in Nat /\ w[y] = v[y] + (IF y = x THEN e ELSE 0)
    BY <2>4
  <2>7. More(m) = (IF y = x THEN e ELSE 0) + More(r) /\ More(r) \in Nat
    BY <2>4
  <2> QED
    BY <2>3, <2>5, <2>6, <2>7
<1> QED
  BY <1>1, <1>2, <1>3

\* A sum of larger terms is no smaller, and larger if one of them is.
LEMMA TotalMonotone ==
    ASSUME NEW S, IsFiniteSet(S), NEW v \in [S -> Nat], NEW w \in [S -> Nat],
           \A x \in S : v[x] <= w[x]
    PROVE  /\ Total(v, S) \in Nat /\ Total(w, S) \in Nat
           /\ Total(v, S) <= Total(w, S)
           /\ (\E x \in S : v[x] < w[x]) => Total(v, S) < Total(w, S)
<1>1. PICK g : SumsOn(g, v, S) /\ Total(v, S) = g[S]
  BY TotalSums
<1>2. PICK h : SumsOn(h, w, S) /\ Total(w, S) = h[S]
  BY TotalSums
<1> DEFINE Less(s) == /\ g[s] \in Nat /\ h[s] \in Nat /\ g[s] <= h[s]
                      /\ (\E x \in s : v[x] < w[x]) => g[s] < h[s]
           Bad == {s \in SUBSET S : ~Less(s)}
<1>3. ASSUME Bad # {} PROVE FALSE
  <2>1. PICK m \in Bad : \A s \in Bad : s \subseteq m => s = m
    <3>1. Bad \in SUBSET (SUBSET S)
      OBVIOUS
    <3> HIDE DEF Bad
    <3> QED
      BY <1>3, <3>1, Smallest
  <2>2. m # {}
    <3>1. g[{}] = 0 /\ h[{}] = 0
      BY <1>1, <1>2 DEF SumsOn
    <3> QED
      BY <3>1
  <2> DEFINE y == Chosen(m)
             r == m \ {y}
  <2>3. g[m] = v[y] + g[r] /\ h[m] = w[y] + h[r]
    BY <1>1, <1>2, <2>2 DEF SumsOn
  <2>4. y \in m /\ y \in S
    BY <2>2, ChosenIn
  <2> HIDE DEF y
  <2>5. Less(r)
    BY <2>1, <2>4
  <2>6. v[y] \in Nat /\ w[y] \in Nat /\ v[y] <= w[y]
    BY <2>4
  <2>7. (\E x \in m : v[x] < w[x]) => v[y] < w[y] \/ \E x \in r : v[x] < w[x]
    OBVIOUS
  <2>8. Less(m)
    BY <2>3, <2>5, <2>6, <2>7
  <2> QED
    BY <2>8
<1>4. Less(S)
  BY <1>3
<1> QED
  BY <1>1, <1>2, <1>4

-----------------------------------------------------------------------------
(***************************************************************************)
(* Any member of the set may be the first that is added.                   *)
(***************************************************************************)

LEMMA TotalEmpty == ASSUME NEW v PROVE Total(v, {}) = 0
<1>1. IsFiniteSet({})
  BY FS_EmptySet
<1>2. PICK h : SumsOn(h, v, {}) /\ Total(v, {}) = h[{}]
  BY <1>1, TotalSums
<1> QED
  BY <1>2 DEF SumsOn

LEMMA SumsPick ==
    ASSUME NEW S, IsFiniteSet(S), NEW v, \A x \in S : v[x] \in Int, NEW h, SumsOn(h, v, S)
    PROVE  \A s \in SUBSET S : /\ h[s] \in Int
                               /\ \A x \in s : h[s] = v[x] + h[s \ {x}]
<1> DEFINE Good(s) == h[s] \in Int /\ \A x \in s : h[s] = v[x] + h[s \ {x}]
           Bad == {s \in SUBSET S : ~Good(s)}
<1>1. ASSUME Bad # {} PROVE FALSE
  <2>1. PICK m \in Bad : \A s \in Bad : s \subseteq m => s = m
    <3>1. Bad \in SUBSET (SUBSET S)
      OBVIOUS
    <3> HIDE DEF Bad
    <3> QED
      BY <1>1, <3>1, Smallest
  <2>2. m # {}
    <3>1. h[{}] = 0
      BY DEF SumsOn
    <3> QED
      BY <3>1
  <2> DEFINE y == Chosen(m)
  <2>3. y \in m /\ h[m] = v[y] + h[m \ {y}]
    BY <2>2, ChosenIn DEF SumsOn
  <2> HIDE DEF y
  <2>4. \A x \in m : Good(m \ {x})
    BY <2>1
  <2>5. h[m] \in Int
    BY <2>3, <2>4
  <2>6. ASSUME NEW x \in m, x # y PROVE h[m] = v[x] + h[m \ {x}]
    <3> DEFINE r == (m \ {x}) \ {y}
    <3>1. r = (m \ {y}) \ {x} /\ x \in m \ {y} /\ y \in m \ {x}
      BY <2>3, <2>6
    <3> HIDE DEF r
    <3>2. h[m \ {y}] = v[x] + h[r]
      BY <2>3, <2>4, <3>1
    <3>3. h[m \ {x}] = v[y] + h[r]
      BY <2>4, <3>1 DEF r
    <3>4. h[r] \in Int
      <4>1. r \in SUBSET m /\ r # m
        BY <3>1
      <4> QED
        BY <2>1, <4>1
    <3>5. v[x] \in Int /\ v[y] \in Int
      BY <2>3
    <3> QED
      BY <2>3, <3>2, <3>3, <3>4, <3>5
  <2> QED
    BY <2>1, <2>3, <2>5, <2>6
<1> QED
  BY <1>1

LEMMA TotalPick ==
    ASSUME NEW S, IsFiniteSet(S), NEW v, \A x \in S : v[x] \in Int
    PROVE  /\ Total(v, S) \in Int
           /\ \A x \in S : Total(v, S) = v[x] + Total(v, S \ {x})
<1>1. PICK h : SumsOn(h, v, S) /\ Total(v, S) = h[S]
  BY TotalSums
<1>2. h[S] \in Int /\ \A x \in S : h[S] = v[x] + h[S \ {x}]
  <2>1. \A s \in SUBSET S : h[s] \in Int /\ \A x \in s : h[s] = v[x] + h[s \ {x}]
    BY <1>1, SumsPick
  <2> QED
    BY <2>1
<1>3. ASSUME NEW x \in S PROVE Total(v, S \ {x}) = h[S \ {x}]
  <2> DEFINE T == S \ {x}
  <2>1. IsFiniteSet(T) /\ T \in SUBSET S /\ T \in SUBSET (S \cap T) /\ S \in SUBSET S
    BY FS_Subset
  <2> HIDE DEF T
  <2>2. PICK g : SumsOn(g, v, T) /\ Total(v, T) = g[T]
    BY <2>1, TotalSums
  <2>3. \A s \in SUBSET (S \cap T) : h[s] = g[s]
    BY <1>1, <2>1, <2>2, SumsUnique
  <2> QED
    BY <2>1, <2>2, <2>3 DEF T
<1> QED
  BY <1>1, <1>2, <1>3

\* One more member.
LEMMA TotalAdd ==
    ASSUME NEW S, IsFiniteSet(S), NEW x, x \notin S, NEW v,
           v[x] \in Int, \A y \in S : v[y] \in Int
    PROVE  Total(v, S \cup {x}) = v[x] + Total(v, S)
<1> DEFINE T == S \cup {x}
<1>1. IsFiniteSet(T) /\ x \in T /\ T \ {x} = S /\ \A y \in T : v[y] \in Int
  BY FS_AddElement
<1> HIDE DEF T
<1>2. Total(v, T) = v[x] + Total(v, T \ {x})
  BY <1>1, TotalPick
<1> QED
  BY <1>1, <1>2 DEF T

\* c times each term make c times the sum.
LEMMA TotalScaled ==
    ASSUME NEW S, IsFiniteSet(S), NEW v, NEW w, NEW c \in Int,
           \A x \in S : v[x] \in Int /\ w[x] = c * v[x]
    PROVE  Total(w, S) = c * Total(v, S)
<1> DEFINE Bad == {s \in SUBSET S : Total(w, s) # c * Total(v, s)}
<1>1. ASSUME Bad # {} PROVE FALSE
  <2>1. PICK m \in Bad : \A s \in Bad : s \subseteq m => s = m
    <3>1. Bad \in SUBSET (SUBSET S)
      OBVIOUS
    <3> HIDE DEF Bad
    <3> QED
      BY <1>1, <3>1, Smallest
  <2>2. PICK x \in m : TRUE
    <3>1. Total(w, {}) = 0 /\ Total(v, {}) = 0 /\ c * 0 = 0
      BY TotalEmpty
    <3>2. Total(w, m) # c * Total(v, m)
      OBVIOUS
    <3> QED
      BY <3>1, <3>2
  <2> DEFINE r == m \ {x}
  <2>3. IsFiniteSet(m) /\ IsFiniteSet(r)
    BY FS_Subset
  <2>4. \A y \in m : v[y] \in Int /\ w[y] \in Int
    OBVIOUS
  <2>5. Total(w, m) = w[x] + Total(w, r) /\ Total(v, m) = v[x] + Total(v, r)
    BY <2>3, <2>4, TotalPick
  <2>6. Total(v, r) \in Int
    BY <2>3, <2>4, TotalPick
  <2>7. Total(w, r) = c * Total(v, r)
    BY <2>1
  <2>8. Total(w, m) = c * (v[x] + Total(v, r))
    BY <2>4, <2>5, <2>6, <2>7
  <2> QED
    BY <2>5, <2>8
<1> QED
  BY <1>1

\* The sum of two terms each.
LEMMA TotalPlus ==
    ASSUME NEW S, IsFiniteSet(S), NEW u, NEW v, NEW w,
           \A x \in S : u[x] \in Int /\ v[x] \in Int /\ w[x] = u[x] + v[x]
    PROVE  Total(w, S) = Total(u, S) + Total(v, S)
<1> DEFINE Bad == {s \in SUBSET S : Total(w, s) # Total(u, s) + Total(v, s)}
<1>1. ASSUME Bad # {} PROVE FALSE
  <2>1. PICK m \in Bad : \A s \in Bad : s \subseteq m => s = m
    <3>1. Bad \in SUBSET (SUBSET S)
      OBVIOUS
    <3> HIDE DEF Bad
    <3> QED
      BY <1>1, <3>1, Smallest
  <2>2. PICK x \in m : TRUE
    <3>1. Total(w, {}) = 0 /\ Total(u, {}) = 0 /\ Total(v, {}) = 0
      BY TotalEmpty
    <3>2. Total(w, m) # Total(u, m) + Total(v, m)
      OBVIOUS
    <3> QED
      BY <3>1, <3>2
  <2> DEFINE r == m \ {x}
  <2>3. IsFiniteSet(m) /\ IsFiniteSet(r)
    BY FS_Subset
  <2>4. \A y \in m : u[y] \in Int /\ v[y] \in Int /\ w[y] \in Int /\ w[y] = u[y] + v[y]
    OBVIOUS
  <2>5. /\ Total(w, m) = w[x] + Total(w, r) /\ Total(v, m) = v[x] + Total(v, r)
        /\ Total(u, m) = u[x] + Total(u, r)
    BY <2>3, <2>4, TotalPick
  <2>6. Total(v, r) \in Int /\ Total(u, r) \in Int
    BY <2>3, <2>4, TotalPick
  <2>7. Total(w, r) = Total(u, r) + Total(v, r)
    BY <2>1
  <2>8. Total(w, m) # Total(u, m) + Total(v, m)
    OBVIOUS
  <2> QED
    BY <2>4, <2>5, <2>6, <2>7, <2>8
<1> QED
  BY <1>1

\* The sum depends on the terms only.
LEMMA TotalSame ==
    ASSUME NEW S, IsFiniteSet(S), NEW v, NEW w, \A x \in S : v[x] \in Int /\ w[x] = v[x]
    PROVE  Total(w, S) = Total(v, S)
<1>1. \A x \in S : v[x] \in Int /\ w[x] = 1 * v[x]
  OBVIOUS
<1>2. Total(w, S) = 1 * Total(v, S) /\ Total(v, S) \in Int
  BY <1>1, TotalScaled, TotalPick
<1> QED
  BY <1>2

\* Equal terms.
LEMMA TotalConstant ==
    ASSUME NEW S, IsFiniteSet(S), NEW v, NEW c \in Int, \A x \in S : v[x] = c
    PROVE  Total(v, S) = c * Cardinality(S)
<1> DEFINE Bad == {s \in SUBSET S : Total(v, s) # c * Cardinality(s)}
<1>1. ASSUME Bad # {} PROVE FALSE
  <2>1. PICK m \in Bad : \A s \in Bad : s \subseteq m => s = m
    <3>1. Bad \in SUBSET (SUBSET S)
      OBVIOUS
    <3> HIDE DEF Bad
    <3> QED
      BY <1>1, <3>1, Smallest
  <2>2. PICK x \in m : TRUE
    <3>1. Total(v, {}) = 0 /\ Cardinality({}) = 0
      BY TotalEmpty, FS_EmptySet
    <3> QED
      BY <3>1
  <2> DEFINE r == m \ {x}
  <2>3. IsFiniteSet(m) /\ IsFiniteSet(r)
    BY FS_Subset
  <2>4. Total(v, m) = c + Total(v, r)
    BY <2>3, TotalPick
  <2>5. Total(v, r) = c * Cardinality(r)
    BY <2>1
  <2>6. Cardinality(r) = Cardinality(m) - 1 /\ Cardinality(m) \in Nat
    BY <2>3, FS_RemoveElement, FS_CardinalityType
  <2> QED
    BY <2>4, <2>5, <2>6
<1> QED
  BY <1>1

\* A sum has the sign of its terms.
LEMMA TotalSigns ==
    ASSUME NEW S, IsFiniteSet(S), S # {}, NEW v, \A x \in S : v[x] \in Int
    PROVE  /\ Total(v, S) \in Int
           /\ (\A x \in S : v[x] >= 0) => Total(v, S) >= 0
           /\ (\A x \in S : v[x] > 0) => Total(v, S) > 0
           /\ (\A x \in S : v[x] <= 0) => Total(v, S) <= 0
           /\ (\A x \in S : v[x] < 0) => Total(v, S) < 0
<1>1. Cardinality(S) \in Nat /\ Cardinality(S) > 0
  BY FS_CardinalityType, FS_EmptySet
<1>2. Total(v, S) \in Int
  BY TotalPick
<1>3. ASSUME NEW w, \A x \in S : w[x] \in Int, NEW c \in Nat, \A x \in S : w[x] >= c
      PROVE  Total(w, S) >= c * Cardinality(S)
  <2> DEFINE rest == [x \in S |-> w[x] - c]
             flat == [x \in S |-> c]
  <2>1. rest \in [S -> Nat] /\ \A x \in S : rest[x] <= rest[x]
    BY <1>3
  <2>2. \A x \in S : rest[x] \in Int /\ flat[x] \in Int /\ w[x] = rest[x] + flat[x]
    BY <1>3
  <2>3. \A x \in S : flat[x] = c
    OBVIOUS
  <2> HIDE DEF rest, flat
  <2>4. Total(rest, S) \in Nat
    BY <2>1, TotalMonotone
  <2>5. Total(w, S) = Total(rest, S) + Total(flat, S)
    BY <2>2, TotalPlus
  <2>6. Total(flat, S) = c * Cardinality(S)
    BY <2>3, TotalConstant
  <2>7. c * Cardinality(S) \in Nat
    BY <1>1
  <2> QED
    BY <2>4, <2>5, <2>6, <2>7
<1> DEFINE turned == [x \in S |-> -v[x]]
<1>4. (\A x \in S : turned[x] = (-1) * v[x]) /\ (\A x \in S : turned[x] \in Int)
  OBVIOUS
<1>5. \A x \in S : turned[x] = -v[x]
  OBVIOUS
<1> HIDE DEF turned
<1>6. Total(turned, S) = -Total(v, S)
  <2>1. Total(turned, S) = (-1) * Total(v, S)
    BY <1>4, TotalScaled
  <2> QED
    BY <1>2, <2>1
<1>7. (\A x \in S : v[x] >= 0) => Total(v, S) >= 0
  <2>1. (\A x \in S : v[x] >= 0) => Total(v, S) >= 0 * Cardinality(S)
    BY <1>3
  <2> QED
    BY <1>1, <2>1
<1>8. (\A x \in S : v[x] > 0) => Total(v, S) > 0
  <2>1. (\A x \in S : v[x] >= 1) => Total(v, S) >= 1 * Cardinality(S)
    BY <1>3
  <2> QED
    BY <1>1, <1>2, <2>1
<1>9. (\A x \in S : v[x] <= 0) => Total(v, S) <= 0
  <2>1. (\A x \in S : turned[x] >= 0) => Total(turned, S) >= 0 * Cardinality(S)
    BY <1>3, <1>4
  <2> QED
    BY <1>1, <1>2, <1>5, <1>6, <2>1
<1>10. (\A x \in S : v[x] < 0) => Total(v, S) < 0
  <2>1. (\A x \in S : turned[x] >= 1) => Total(turned, S) >= 1 * Cardinality(S)
    BY <1>3, <1>4
  <2> QED
    BY <1>1, <1>2, <1>5, <1>6, <2>1
<1> QED
  BY <1>2, <1>7, <1>8, <1>9, <1>10

LEMMA SumIsTotal == ASSUME NEW v PROVE SumFunction(v) = Total(v, DOMAIN v)
BY DEF SumFunction, SumFunctionOnSet, FoldFunctionOnSet, Total, MapThenSumSet, MapThenFoldSet

-----------------------------------------------------------------------------
(***************************************************************************)
(* Counting by parts.                                                      *)
(***************************************************************************)

\* Two parts of a finite set that exclude each other.
LEMMA DisjointParts ==
    ASSUME NEW S, IsFiniteSet(S), NEW A \in SUBSET S, NEW B \in SUBSET S, A \cap B = {}
    PROVE  Cardinality(A \cup B) = Cardinality(A) + Cardinality(B)
<1>1. IsFiniteSet(A) /\ IsFiniteSet(B)
  BY FS_Subset
<1>2. Cardinality(A \cup B) = Cardinality(A) + Cardinality(B) - Cardinality(A \cap B)
  BY <1>1, FS_Union
<1>3. Cardinality(A) \in Nat /\ Cardinality(B) \in Nat /\ Cardinality(A \cap B) = 0
  BY <1>1, FS_CardinalityType, FS_EmptySet
<1> QED
  BY <1>2, <1>3

\* The members of A are counted group by group.
LEMMA CountByGroup ==
    ASSUME NEW G, IsFiniteSet(G), NEW A, IsFiniteSet(A), NEW group,
           \A i \in A : group[i] \in G
    PROVE  Total([g \in G |-> Cardinality({i \in A : group[i] = g})], G) = Cardinality(A)
<1> DEFINE Of(g) == {i \in A : group[i] = g}
           Among(s) == {i \in A : group[i] \in s}
           v == [g \in G |-> Cardinality(Of(g))]
           Bad == {s \in SUBSET G : Total(v, s) # Cardinality(Among(s))}
<1>1. ASSUME Bad # {} PROVE FALSE
  <2>1. PICK m \in Bad : \A s \in Bad : s \subseteq m => s = m
    <3>1. Bad \in SUBSET (SUBSET G)
      OBVIOUS
    <3> HIDE DEF Bad
    <3> QED
      BY <1>1, <3>1, Smallest
  <2>2. PICK g \in m : TRUE
    <3>1. Total(v, {}) = 0 /\ Cardinality(Among({})) = 0
      BY TotalEmpty, FS_EmptySet
    <3> HIDE DEF v, Among
    <3> QED
      BY <3>1
  <2> DEFINE r == m \ {g}
  <2>3. IsFiniteSet(m) /\ IsFiniteSet(Of(g)) /\ IsFiniteSet(Among(r))
    BY FS_Subset
  <2>4. \A x \in m : v[x] \in Int
    <3>1. \A x \in m : IsFiniteSet(Of(x))
      BY FS_Subset
    <3> HIDE DEF Of
    <3> QED
      BY <3>1, FS_CardinalityType
  <2>5. Total(v, m) = Cardinality(Of(g)) + Total(v, r)
    <3>1. v[g] = Cardinality(Of(g))
      OBVIOUS
    <3> HIDE DEF v
    <3> QED
      BY <2>3, <2>4, <3>1, TotalPick
  <2>6. Total(v, r) = Cardinality(Among(r))
    <3> HIDE DEF v, Among
    <3> QED
      BY <2>1
  <2>7. Among(m) = Of(g) \cup Among(r) /\ Of(g) \cap Among(r) = {}
    OBVIOUS
  <2>8. Cardinality(Among(m)) = Cardinality(Of(g)) + Cardinality(Among(r))
    <3> DEFINE a == Of(g)
               b == Among(r)
               c == Among(m)
    <3>1. a \in SUBSET A /\ b \in SUBSET A /\ c = a \cup b /\ a \cap b = {}
      BY <2>7
    <3> HIDE DEF a, b, c
    <3>2. Cardinality(c) = Cardinality(a) + Cardinality(b)
      BY <3>1, DisjointParts
    <3> QED
      BY <3>2 DEF a, b, c
  <2> HIDE DEF v, Among, Of
  <2> QED
    BY <2>5, <2>6, <2>8
<1>2. Among(G) = A
  OBVIOUS
<1> HIDE DEF Among
<1> QED
  BY <1>1, <1>2
=============================================================================
