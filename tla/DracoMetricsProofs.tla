--------------------------- MODULE DracoMetricsProofs ---------------------------
(***************************************************************************)
(* Proofs about the metrics of DracoModule, alone and under                *)
(* SecureComputing: the sums rmmod prints agree, for any number of tasks,  *)
(* blocks and tables.                                                      *)
(*                                                                         *)
(* What a sum over a finite set does is shown by the smallest set for      *)
(* which it would not (SmallestPart): the induction theorems of the        *)
(* library are about operators, this is about sets.                        *)
(***************************************************************************)
EXTENDS SecureComputingProofs, WellFoundedInduction

-----------------------------------------------------------------------------
(* Sums over finite sets.                                                  *)

\* Among sets of parts of a finite set there is always a smallest one.
LEMMA SmallestPart ==
  ASSUME NEW S, IsFiniteSet(S), NEW B, B \subseteq SUBSET S, B # {}
  PROVE  \E m \in B : \A U \in B : U \subseteq m => U = m
<1>1. IsWellFoundedOn(StrictSubsetOrdering(S), SUBSET S)
  BY FS_StrictSubsetOrderingWellFounded, FS_FiniteSubsetsOfFinite
<1>2. PICK m \in B : \A U \in B : <<U, m>> \notin StrictSubsetOrdering(S)
  BY <1>1, WFMin, Zenon
<1>3. ASSUME NEW U \in B, U \subseteq m PROVE U = m
  BY <1>2, <1>3 DEF StrictSubsetOrdering
<1> QED
  BY <1>3

Some(s) == CHOOSE x \in s : TRUE
Solves(g, f, S) ==
    g = [s \in SUBSET S |-> IF s = {} THEN 0 ELSE f[Some(s)] + g[s \ {Some(s)}]]
Solution(f, S) == CHOOSE g : Solves(g, f, S)

LEMMA SumUnfolds ==
  ASSUME NEW f, NEW S
  PROVE  SumFunctionOnSet(f, S) = Solution(f, S)[S]
BY Zenon DEF SumFunctionOnSet, FoldFunctionOnSet, MapThenFoldSet, Solves, Solution, Some

LEMMA SomeIsIn == ASSUME NEW s, s # {} PROVE Some(s) \in s
BY DEF Some

LEMMA SolvesAt ==
  ASSUME NEW f, NEW S, NEW g, Solves(g, f, S), NEW s, s \subseteq S
  PROVE  /\ s = {} => g[s] = 0
         /\ s # {} => g[s] = f[Some(s)] + g[s \ {Some(s)}]
<1>1. g = [u \in SUBSET S |-> IF u = {} THEN 0 ELSE f[Some(u)] + g[u \ {Some(u)}]]
  BY DEF Solves
<1>2. s \in SUBSET S
  OBVIOUS
<1>3. g[s] = IF s = {} THEN 0 ELSE f[Some(s)] + g[s \ {Some(s)}]
  BY <1>1, <1>2, Zenon
<1> QED
  BY <1>3

LEMMA SolutionsAgree ==
  ASSUME NEW f, NEW S, IsFiniteSet(S), NEW T, NEW g, NEW h,
         Solves(g, f, S), Solves(h, f, T), NEW s, s \subseteq S, s \subseteq T
  PROVE  g[s] = h[s]
<1> DEFINE B == {u \in SUBSET S : u \subseteq T /\ g[u] # h[u]}
<1>1. SUFFICES B = {}
  OBVIOUS
<1>2. SUFFICES ASSUME B # {} PROVE FALSE
  OBVIOUS
<1>3. PICK m \in B : \A u \in B : u \subseteq m => u = m
  <2>1. B \subseteq SUBSET S
    OBVIOUS
  <2> HIDE DEF B
  <2> QED
    BY <1>2, <2>1, SmallestPart
<1>4. m # {}
  BY SolvesAt
<1> DEFINE n == m \ {Some(m)}
<1>5. n \notin B /\ n \subseteq S /\ n \subseteq T
  BY <1>3, <1>4, SomeIsIn
<1>6. g[n] = h[n]
  BY <1>5
<1>7. g[m] = f[Some(m)] + g[n] /\ h[m] = f[Some(m)] + h[n]
  BY <1>4, SolvesAt
<1> QED
  BY <1>6, <1>7

LEMMA SolutionExists ==
  ASSUME NEW f, NEW S, IsFiniteSet(S)
  PROVE  Solves(Solution(f, S), f, S)
<1> DEFINE B == {u \in SUBSET S : ~ \E g : Solves(g, f, u)}
<1>1. SUFFICES B = {}
  <2>1. \E g : Solves(g, f, S)
    BY <1>1
  <2> QED
    BY <2>1 DEF Solution
<1>2. SUFFICES ASSUME B # {} PROVE FALSE
  OBVIOUS
<1>3. PICK m \in B : \A u \in B : u \subseteq m => u = m
  <2>1. B \subseteq SUBSET S
    OBVIOUS
  <2> HIDE DEF B
  <2> QED
    BY <1>2, <2>1, SmallestPart
<1>4. \A u \in SUBSET m : u # m => Solves(Solution(f, u), f, u)
  <2> SUFFICES ASSUME NEW u \in SUBSET m, u # m PROVE Solves(Solution(f, u), f, u)
    OBVIOUS
  <2>1. \E g : Solves(g, f, u)
    BY <1>3
  <2> QED
    BY <2>1 DEF Solution
<1>5. \A u \in SUBSET m : IsFiniteSet(u)
  BY FS_Subset
<1> DEFINE below(u) == Solution(f, u)[u]
           value(u) == IF u = {} THEN 0 ELSE f[Some(u)] + below(u \ {Some(u)})
           g == [u \in SUBSET m |-> value(u)]
<1>6. ASSUME NEW u \in SUBSET m, u # m PROVE below(u) = value(u)
  <2>1. Solves(Solution(f, u), f, u)
    BY <1>4, <1>6
  <2>2. CASE u = {}
    BY <2>1, <2>2, SolvesAt
  <2>3. CASE u # {}
    <3> DEFINE v == u \ {Some(u)}
    <3>1. v \in SUBSET m /\ v # m /\ v \subseteq u
      BY <2>3, SomeIsIn
    <3>2. Solves(Solution(f, v), f, v)
      BY <1>4, <3>1
    <3> HIDE DEF v
    <3>3. Solution(f, u)[v] = Solution(f, v)[v]
      BY <1>5, <1>6, <2>1, <3>1, <3>2, SolutionsAgree
    <3>4. Solution(f, u)[u] = f[Some(u)] + Solution(f, u)[v]
      BY <2>1, <2>3, SolvesAt DEF v
    <3> QED
      BY <2>3, <3>3, <3>4 DEF v
  <2> QED
    BY <2>2, <2>3
<1>7. \A u \in SUBSET m : u # {} => g[u] = f[Some(u)] + g[u \ {Some(u)}]
  <2> SUFFICES ASSUME NEW u \in SUBSET m, u # {}
               PROVE  g[u] = f[Some(u)] + g[u \ {Some(u)}]
    OBVIOUS
  <2> DEFINE v == u \ {Some(u)}
  <2>1. v \in SUBSET m /\ v # m
    BY SomeIsIn
  <2>2. g[u] = f[Some(u)] + below(v)
    OBVIOUS
  <2>3. below(v) = value(v)
    <3> HIDE DEF v, below, value
    <3> QED
      BY <1>6, <2>1
  <2>4. g[v] = value(v)
    <3> HIDE DEF v, value
    <3> QED
      BY <2>1
  <2> HIDE DEF g, below, value
  <2> QED
    BY <2>2, <2>3, <2>4
<1>8. {} \in SUBSET m /\ g[{}] = 0
  OBVIOUS
<1>9. g = [u \in SUBSET m |-> g[u]]
  BY Zenon
<1>10. \A u \in SUBSET m : g[u] = IF u = {} THEN 0 ELSE f[Some(u)] + g[u \ {Some(u)}]
  <2> HIDE DEF g
  <2> QED
    BY <1>7, <1>8
<1>11. Solves(g, f, m)
  <2> HIDE DEF g
  <2>1. [u \in SUBSET m |-> g[u]]
          = [u \in SUBSET m |-> IF u = {} THEN 0 ELSE f[Some(u)] + g[u \ {Some(u)}]]
    BY <1>10, Zenon
  <2> QED
    BY <1>9, <2>1 DEF Solves
<1> QED
  BY <1>11


\* The sum over a set takes one element after the other.
LEMMA SumStep ==
  ASSUME NEW f, NEW S, IsFiniteSet(S)
  PROVE  /\ S = {} => SumFunctionOnSet(f, S) = 0
         /\ S # {} => SumFunctionOnSet(f, S)
                        = f[Some(S)] + SumFunctionOnSet(f, S \ {Some(S)})
<1> DEFINE R == S \ {Some(S)}
<1>1. /\ Solves(Solution(f, S), f, S)
      /\ SumFunctionOnSet(f, S) = Solution(f, S)[S]
  BY SolutionExists, SumUnfolds
<1>2. S = {} => SumFunctionOnSet(f, S) = 0
  BY <1>1, SolvesAt
<1>3. ASSUME S # {} PROVE SumFunctionOnSet(f, S) = f[Some(S)] + SumFunctionOnSet(f, R)
  <2>1. R \subseteq S /\ IsFiniteSet(R)
    BY FS_Subset
  <2>2. /\ Solves(Solution(f, R), f, R)
        /\ SumFunctionOnSet(f, R) = Solution(f, R)[R]
    BY <2>1, SolutionExists, SumUnfolds
  <2>3. Solution(f, S)[S] = f[Some(S)] + Solution(f, S)[R]
    BY <1>1, <1>3, SolvesAt
  <2> HIDE DEF R
  <2>4. Solution(f, S)[R] = Solution(f, R)[R]
    BY <1>1, <2>1, <2>2, SolutionsAgree
  <2> QED
    BY <1>1, <2>2, <2>3, <2>4
<1> QED
  BY <1>2, <1>3

LEMMA SumNat ==
  ASSUME NEW f, NEW S, IsFiniteSet(S), \A x \in S : f[x] \in Nat
  PROVE  SumFunctionOnSet(f, S) \in Nat
<1> DEFINE B == {s \in SUBSET S : SumFunctionOnSet(f, s) \notin Nat}
<1>1. SUFFICES ASSUME B # {} PROVE FALSE
  OBVIOUS
<1>2. PICK m \in B : \A u \in B : u \subseteq m => u = m
  <2>1. B \subseteq SUBSET S
    OBVIOUS
  <2> HIDE DEF B
  <2> QED
    BY <1>1, <2>1, SmallestPart
<1>3. IsFiniteSet(m)
  BY FS_Subset
<1>4. m # {}
  <2>1. SumFunctionOnSet(f, m) \notin Nat
    OBVIOUS
  <2>2. m = {} => SumFunctionOnSet(f, m) = 0
    <3> HIDE DEF B
    <3> QED
      BY <1>3, SumStep
  <2> HIDE DEF B
  <2> QED
    BY <2>1, <2>2
<1> DEFINE n == m \ {Some(m)}
<1>5. n \notin B /\ n \subseteq S /\ Some(m) \in S
  BY <1>2, <1>4, SomeIsIn
<1>6. SumFunctionOnSet(f, m) = f[Some(m)] + SumFunctionOnSet(f, n)
  BY <1>3, <1>4, SumStep
<1>7. SumFunctionOnSet(f, n) \in Nat
  BY <1>5
<1>8. SumFunctionOnSet(f, m) \in Nat
  <2> HIDE DEF n
  <2> QED
    BY <1>5, <1>6, <1>7
<1> QED
  BY <1>8

\* Any element can be taken first.
LEMMA SumTakes ==
  ASSUME NEW f, NEW S, IsFiniteSet(S), \A x \in S : f[x] \in Nat, NEW x \in S
  PROVE  SumFunctionOnSet(f, S) = f[x] + SumFunctionOnSet(f, S \ {x})
<1> DEFINE Takes(s, y) == SumFunctionOnSet(f, s) = f[y] + SumFunctionOnSet(f, s \ {y})
           B == {s \in SUBSET S : \E y \in s : ~ Takes(s, y)}
<1>1. SUFFICES ASSUME B # {} PROVE FALSE
  OBVIOUS
<1>2. PICK m \in B : \A u \in B : u \subseteq m => u = m
  <2>1. B \subseteq SUBSET S
    OBVIOUS
  <2> HIDE DEF B
  <2> QED
    BY <1>1, <2>1, SmallestPart
<1>3. PICK y \in m : ~ Takes(m, y)
  OBVIOUS
<1> DEFINE c == Some(m)
<1>4. c \in m /\ m \subseteq S
  BY SomeIsIn
<1>5. \A s \in SUBSET m : IsFiniteSet(s) /\ SumFunctionOnSet(f, s) \in Nat
  BY FS_Subset, SumNat
<1>6. \A s \in SUBSET m : s # m => \A z \in s : Takes(s, z)
  BY <1>2, <1>4
<1>7. Takes(m, c)
  BY <1>4, <1>5, SumStep
<1>8. c # y
  BY <1>3, <1>7
<1> HIDE DEF c
<1> DEFINE mc == m \ {c}
           my == m \ {y}
           rest == m \ {c, y}
<1>9. /\ mc \in SUBSET m /\ mc # m /\ y \in mc /\ mc \ {y} = rest
      /\ my \in SUBSET m /\ my # m /\ c \in my /\ my \ {c} = rest
      /\ rest \in SUBSET m
  BY <1>4, <1>8
<1>10. SumFunctionOnSet(f, mc) = f[y] + SumFunctionOnSet(f, rest)
  <2>1. Takes(mc, y)
    <3> HIDE DEF mc, Takes
    <3> QED
      BY <1>6, <1>9
  <2> QED
    BY <1>9, <2>1
<1>11. SumFunctionOnSet(f, my) = f[c] + SumFunctionOnSet(f, rest)
  <2>1. Takes(my, c)
    <3> HIDE DEF my, Takes
    <3> QED
      BY <1>6, <1>9
  <2> QED
    BY <1>9, <2>1
<1>12. SumFunctionOnSet(f, m) = f[c] + SumFunctionOnSet(f, mc)
  BY <1>7
<1>13. f[c] \in Nat /\ f[y] \in Nat /\ SumFunctionOnSet(f, rest) \in Nat
  BY <1>4, <1>5, <1>9
<1>14. SumFunctionOnSet(f, m) = f[y] + SumFunctionOnSet(f, my)
  <2> HIDE DEF mc, my, rest
  <2> QED
    BY <1>10, <1>11, <1>12, <1>13
<1> QED
  BY <1>3, <1>14

\* Functions that agree have one sum.
LEMMA SumSame ==
  ASSUME NEW f, NEW g, NEW S, IsFiniteSet(S), \A x \in S : f[x] = g[x]
  PROVE  SumFunctionOnSet(f, S) = SumFunctionOnSet(g, S)
<1> DEFINE B == {s \in SUBSET S : SumFunctionOnSet(f, s) # SumFunctionOnSet(g, s)}
<1>1. SUFFICES ASSUME B # {} PROVE FALSE
  OBVIOUS
<1>2. PICK m \in B : \A u \in B : u \subseteq m => u = m
  <2>1. B \subseteq SUBSET S
    OBVIOUS
  <2> HIDE DEF B
  <2> QED
    BY <1>1, <2>1, SmallestPart
<1>3. IsFiniteSet(m)
  BY FS_Subset
<1>4. m # {}
  BY <1>3, SumStep
<1> DEFINE n == m \ {Some(m)}
<1>5. n \notin B /\ n \subseteq S /\ Some(m) \in S
  BY <1>2, <1>4, SomeIsIn
<1>6. /\ SumFunctionOnSet(f, m) = f[Some(m)] + SumFunctionOnSet(f, n)
      /\ SumFunctionOnSet(g, m) = g[Some(m)] + SumFunctionOnSet(g, n)
  BY <1>3, <1>4, SumStep
<1>7. SumFunctionOnSet(f, n) = SumFunctionOnSet(g, n) /\ f[Some(m)] = g[Some(m)]
  BY <1>5
<1>8. SumFunctionOnSet(f, m) = SumFunctionOnSet(g, m)
  BY <1>6, <1>7
<1> QED
  BY <1>8

\* A sum of zeros is zero.
LEMMA SumZero ==
  ASSUME NEW f, NEW S, IsFiniteSet(S), \A x \in S : f[x] = 0
  PROVE  SumFunctionOnSet(f, S) = 0
<1> DEFINE B == {s \in SUBSET S : SumFunctionOnSet(f, s) # 0}
<1>1. SUFFICES ASSUME B # {} PROVE FALSE
  OBVIOUS
<1>2. PICK m \in B : \A u \in B : u \subseteq m => u = m
  <2>1. B \subseteq SUBSET S
    OBVIOUS
  <2> HIDE DEF B
  <2> QED
    BY <1>1, <2>1, SmallestPart
<1>3. IsFiniteSet(m)
  BY FS_Subset
<1>4. m # {}
  BY <1>3, SumStep
<1> DEFINE n == m \ {Some(m)}
<1>5. n \notin B /\ n \subseteq S /\ Some(m) \in S
  BY <1>2, <1>4, SomeIsIn
<1>6. SumFunctionOnSet(f, m) = f[Some(m)] + SumFunctionOnSet(f, n)
  BY <1>3, <1>4, SumStep
<1>7. SumFunctionOnSet(f, n) = 0 /\ f[Some(m)] = 0
  BY <1>5
<1>8. SumFunctionOnSet(f, m) = 0
  BY <1>6, <1>7
<1> QED
  BY <1>8

\* A sum moves by what one of its terms moves.
LEMMA SumMoves ==
  ASSUME NEW f, NEW g, NEW S, IsFiniteSet(S), NEW x \in S,
         \A y \in S : f[y] \in Nat /\ g[y] \in Nat,
         \A y \in S \ {x} : f[y] = g[y]
  PROVE  SumFunctionOnSet(g, S) = SumFunctionOnSet(f, S) - f[x] + g[x]
<1> DEFINE R == S \ {x}
<1>1. IsFiniteSet(R)
  BY FS_Subset
<1>2. SumFunctionOnSet(f, S) = f[x] + SumFunctionOnSet(f, R)
  BY SumTakes
<1>3. SumFunctionOnSet(g, S) = g[x] + SumFunctionOnSet(g, R)
  BY SumTakes
<1>4. SumFunctionOnSet(f, R) = SumFunctionOnSet(g, R)
  BY <1>1, SumSame
<1>5. f[x] \in Nat /\ g[x] \in Nat /\ SumFunctionOnSet(f, R) \in Nat
  BY <1>1, SumNat
<1> HIDE DEF R
<1> QED
  BY <1>2, <1>3, <1>4, <1>5

\* A new element brings its term.
LEMMA SumAdds ==
  ASSUME NEW f, NEW S, IsFiniteSet(S), NEW x, x \notin S,
         \A y \in S \cup {x} : f[y] \in Nat
  PROVE  SumFunctionOnSet(f, S \cup {x}) = SumFunctionOnSet(f, S) + f[x]
<1> DEFINE T == S \cup {x}
<1>1. IsFiniteSet(T) /\ x \in T /\ T \ {x} = S
  BY FS_AddElement
<1>2. SumFunctionOnSet(f, T) = f[x] + SumFunctionOnSet(f, S)
  BY <1>1, SumTakes
<1>3. f[x] \in Nat /\ SumFunctionOnSet(f, S) \in Nat
  BY SumNat
<1> HIDE DEF T
<1> QED
  BY <1>2, <1>3 DEF T

\* f moves by d at i and nowhere else.
MovesAt(f, g, i, d) ==
    /\ \A j \in Table : f[j] \in Nat /\ g[j] \in Nat
    /\ g[i] = f[i] + d
    /\ \A j \in Table \ {i} : g[j] = f[j]

\* What becomes of a sum over the tables of a block when table i, which counts
\* nothing if it is new to the block, moves by d.
LEMMA SumAfter ==
  ASSUME NEW f, NEW g, NEW i \in Table, NEW d \in Int, MovesAt(f, g, i, d),
         NEW old \in SUBSET Table, IsFiniteSet(old), i \in old \/ f[i] = 0
  PROVE  SumFunctionOnSet(g, old \cup {i}) = SumFunctionOnSet(f, old) + d
<1> USE DEF MovesAt
<1> DEFINE new == old \cup {i}
<1>1. IsFiniteSet(new)
  BY FS_AddElement
<1>2. SumFunctionOnSet(f, new) = SumFunctionOnSet(f, old)
  <2>1. CASE i \in old
    <3>1. new = old
      BY <2>1
    <3> QED
      BY <3>1
  <2>2. CASE i \notin old
    <3>1. SumFunctionOnSet(f, new) = SumFunctionOnSet(f, old) + f[i]
      BY <2>2, SumAdds
    <3>2. SumFunctionOnSet(f, old) \in Nat
      BY SumNat
    <3> QED
      BY <2>2, <3>1, <3>2
  <2> QED
    BY <2>1, <2>2
<1>3. i \in new /\ new \subseteq Table
  OBVIOUS
<1> HIDE DEF new
<1>4. SumFunctionOnSet(g, new) = SumFunctionOnSet(f, new) - f[i] + g[i]
  <2>1. /\ \A y \in new : f[y] \in Nat /\ g[y] \in Nat
        /\ \A y \in new \ {i} : f[y] = g[y]
    BY <1>3
  <2> QED
    BY <1>1, <1>3, <2>1, SumMoves
<1>5. SumFunctionOnSet(f, new) \in Nat /\ f[i] \in Nat
  BY <1>1, <1>3, SumNat
<1>6. SumFunctionOnSet(g, new) = SumFunctionOnSet(f, old) + d
  BY <1>2, <1>4, <1>5
<1> QED
  BY <1>6 DEF new

-----------------------------------------------------------------------------
(* What a call of the handler counts.                                      *)

\* The block a call starts from.
BlockOf(t, h) == IF HasHook(t) THEN per_process[h] ELSE FreshProcess

\* Whether the call draws a table.
Draws(t, s, h) == ~ (HasHook(t) /\ TableAt(h, s) # NULL)

\* The totals move by the call, a argument sets, c of them dropped, and k hits.
TotalsMove(t, s, a, c, k) ==
    /\ hash_table'.total_argument_count = hash_table.total_argument_count + a
    /\ hash_table'.total_conflict_count = hash_table.total_conflict_count + c
    /\ hash_table'.total_hit_count = hash_table.total_hit_count + k
    /\ hash_table'.total_syscall_count =
          hash_table.total_syscall_count + (IF s \in syscall_number THEN 0 ELSE 1)
    /\ hash_table'.total_process_count =
          hash_table.total_process_count + (IF HasHook(t) THEN 0 ELSE 1)

\* The block moves by as much, n tables and m calls.
BlockMoves(t, h, a, c, n, m) ==
    /\ \A g \in Hook \ {h} : per_process'[g] = per_process[g]
    /\ per_process'[h].per_process_argument_count
         = BlockOf(t, h).per_process_argument_count + a
    /\ per_process'[h].per_process_conflict_count
         = BlockOf(t, h).per_process_conflict_count + c
    /\ per_process'[h].per_process_syscall_count
         = BlockOf(t, h).per_process_syscall_count + n
    /\ per_process'[h].per_process_call_count
         = BlockOf(t, h).per_process_call_count + m

\* Table i becomes tab, with a row more unless the argument set was dropped.
TableMoves(i, tab, a, c) ==
    /\ tab.per_syscall_call_count = pool[i].per_syscall_call_count + 1
    /\ tab.per_syscall_argument_count = pool[i].per_syscall_argument_count + a
    /\ tab.per_syscall_conflict_count = pool[i].per_syscall_conflict_count + c
    /\ IsFiniteSet(FlaggedSlots(pool[i])) =>
          /\ IsFiniteSet(FlaggedSlots(tab))
          /\ Cardinality(FlaggedSlots(tab)) = Cardinality(FlaggedSlots(pool[i])) + (a - c)

LEMMA CountedCounts ==
  ASSUME hash_table \in HashTable, NEW s
  PROVE  LET ht == Counted(s) IN
         /\ ht.total_argument_count = hash_table.total_argument_count
         /\ ht.total_conflict_count = hash_table.total_conflict_count
         /\ ht.total_hit_count = hash_table.total_hit_count
         /\ ht.total_process_count = hash_table.total_process_count
         /\ ht.total_syscall_count = hash_table.total_syscall_count
                                        + (IF s \in syscall_number THEN 0 ELSE 1)
<1> DEFINE calls == hash_table.total_call_count + 1
           numbers == hash_table.total_syscall_count
                        + (IF s \in syscall_number THEN 0 ELSE 1)
<1>1. Counted(s) = [hash_table EXCEPT !.total_call_count = calls,
                                      !.total_syscall_count = numbers]
  BY DEF Counted, HashTable
<1>2. \A x, y : LET ht == [hash_table EXCEPT !.total_call_count = x,
                                             !.total_syscall_count = y] IN
         /\ ht.total_argument_count = hash_table.total_argument_count
         /\ ht.total_conflict_count = hash_table.total_conflict_count
         /\ ht.total_hit_count = hash_table.total_hit_count
         /\ ht.total_process_count = hash_table.total_process_count
         /\ ht.total_syscall_count = y
  BY DEF HashTable
<1> HIDE DEF calls, numbers
<1>3. LET ht == Counted(s) IN
         /\ ht.total_argument_count = hash_table.total_argument_count
         /\ ht.total_conflict_count = hash_table.total_conflict_count
         /\ ht.total_hit_count = hash_table.total_hit_count
         /\ ht.total_process_count = hash_table.total_process_count
         /\ ht.total_syscall_count = numbers
  BY <1>1, <1>2
<1> QED
  BY <1>3 DEF numbers

\* The counters a table that is drawn or a process that is listed leave alone.
SameCounts(ht, new) ==
    /\ new.total_argument_count = ht.total_argument_count
    /\ new.total_conflict_count = ht.total_conflict_count
    /\ new.total_hit_count = ht.total_hit_count
    /\ new.total_syscall_count = ht.total_syscall_count

LEMMA LinkedCounts ==
  ASSUME NEW ht \in HashTable, NEW t
  PROVE  /\ SameCounts(ht, Linked(ht, t))
         /\ Linked(ht, t).total_process_count = ht.total_process_count + 1
<1> DEFINE head == <<t>> \o ht.process_head
           count == ht.total_process_count + 1
<1>1. Linked(ht, t) = [ht EXCEPT !.total_process_count = count, !.process_head = head]
  BY DEF Linked, HashTable
<1> HIDE DEF head, count
<1>2. /\ SameCounts(ht, Linked(ht, t))
      /\ Linked(ht, t).total_process_count = count
  BY <1>1 DEF HashTable, SameCounts
<1> QED
  BY <1>2 DEF count

LEMMA DrawnCounts ==
  ASSUME NEW ht \in HashTable, NEW proc, NEW s
  PROVE  /\ SameCounts(ht, Drawn(ht, proc, s))
         /\ Drawn(ht, proc, s).total_process_count = ht.total_process_count
<1> DEFINE moved == ht.cursor + 1
<1>1. Drawn(ht, proc, s) = IF NeedsTable(proc, s) THEN [ht EXCEPT !.cursor = moved] ELSE ht
  BY DEF Drawn
<1> HIDE DEF moved
<1> QED
  BY <1>1 DEF HashTable, SameCounts

LEMMA EnteredCounts ==
  ASSUME hash_table \in HashTable, NEW t \in Task, NEW s
  PROVE  /\ Entered(t, s) \in HashTable
         /\ SameCounts(Counted(s), Entered(t, s))
         /\ Entered(t, s).total_process_count =
              hash_table.total_process_count + (IF HasHook(t) THEN 0 ELSE 1)
<1>1. /\ Counted(s) \in HashTable
      /\ Counted(s).total_process_count = hash_table.total_process_count
      /\ hash_table.total_process_count \in Nat
  BY CountedType, CountedCounts DEF HashTable
<1>2. CASE HasHook(t)
  BY <1>1, <1>2, EnteredType DEF Entered, SameCounts
<1>3. CASE ~ HasHook(t)
  <2>1. Entered(t, s) = Linked(Counted(s), t)
    BY <1>3 DEF Entered
  <2> QED
    BY <1>1, <1>3, <2>1, LinkedCounts, EnteredType
<1> QED
  BY <1>2, <1>3

\* The totals as they are when the probe ends, and then moved.
LEMMA TotalsAfter ==
  ASSUME TypeOK, NEW t \in Task, NEW s, NEW proc,
         ~ (NeedsTable(proc, s) /\ PoolEmpty),
         NEW a, NEW c, NEW k,
         NEW ht, ht = Drawn(Entered(t, s), proc, s),
         hash_table'.total_argument_count = ht.total_argument_count + a,
         hash_table'.total_conflict_count = ht.total_conflict_count + c,
         hash_table'.total_hit_count = ht.total_hit_count + k,
         hash_table'.total_syscall_count = ht.total_syscall_count,
         hash_table'.total_process_count = ht.total_process_count
  PROVE  TotalsMove(t, s, a, c, k)
<1>1. hash_table \in HashTable
  BY DEF TypeOK
<1>2. /\ Entered(t, s) \in HashTable
      /\ SameCounts(Counted(s), Entered(t, s))
      /\ Entered(t, s).total_process_count =
              hash_table.total_process_count + (IF HasHook(t) THEN 0 ELSE 1)
  BY <1>1, EnteredCounts
<1>3. /\ SameCounts(Entered(t, s), ht)
      /\ ht.total_process_count = Entered(t, s).total_process_count
  BY <1>2, DrawnCounts
<1>4. SameCounts(Counted(s), ht)
  BY <1>2, <1>3 DEF SameCounts
<1>5. /\ ht.total_argument_count = hash_table.total_argument_count
      /\ ht.total_conflict_count = hash_table.total_conflict_count
      /\ ht.total_hit_count = hash_table.total_hit_count
      /\ ht.total_syscall_count = hash_table.total_syscall_count
                                     + (IF s \in syscall_number THEN 0 ELSE 1)
  BY <1>1, <1>4, CountedCounts DEF SameCounts
<1> QED
  BY <1>2, <1>3, <1>5 DEF TotalsMove

LEMMA ChargedCounts ==
  ASSUME per_process \in [Hook -> PerProcess], NEW t \in Task, NEW h \in Hook
  PROVE  LET new == Charged(t, h) old == BlockOf(t, h) IN
         /\ new.per_process_argument_count = old.per_process_argument_count
         /\ new.per_process_conflict_count = old.per_process_conflict_count
         /\ new.per_process_syscall_count = old.per_process_syscall_count
         /\ new.per_process_call_count = old.per_process_call_count + 1
<1> DEFINE old == BlockOf(t, h)
           calls == old.per_process_call_count + 1
<1>1. old \in PerProcess
  BY FreshProcessType DEF BlockOf
<1>2. Charged(t, h) = [old EXCEPT !.per_process_call_count = calls]
  BY DEF Charged, BlockOf
<1> HIDE DEF old, calls
<1>3. /\ Charged(t, h).per_process_argument_count = old.per_process_argument_count
      /\ Charged(t, h).per_process_conflict_count = old.per_process_conflict_count
      /\ Charged(t, h).per_process_syscall_count = old.per_process_syscall_count
      /\ Charged(t, h).per_process_call_count = calls
  BY <1>1, <1>2 DEF PerProcess
<1> QED
  BY <1>3 DEF old, calls

LEMMA ProvidedCounts ==
  ASSUME NEW proc \in PerProcess, NEW s
  PROVE  LET new == Provided(proc, s) IN
         /\ new.per_process_argument_count = proc.per_process_argument_count
         /\ new.per_process_conflict_count = proc.per_process_conflict_count
         /\ new.per_process_call_count = proc.per_process_call_count
         /\ new.per_process_syscall_count =
              proc.per_process_syscall_count + (IF NeedsTable(proc, s) THEN 1 ELSE 0)
<1>1. CASE NeedsTable(proc, s)
  <2> DEFINE slots == [proc.syscall_table EXCEPT ![s] = hash_table.cursor]
             count == proc.per_process_syscall_count + 1
  <2>1. Provided(proc, s) = [proc EXCEPT !.syscall_table = slots,
                                         !.per_process_syscall_count = count]
    BY <1>1 DEF Provided, PerProcess
  <2> HIDE DEF slots, count
  <2>2. LET new == Provided(proc, s) IN
         /\ new.per_process_argument_count = proc.per_process_argument_count
         /\ new.per_process_conflict_count = proc.per_process_conflict_count
         /\ new.per_process_call_count = proc.per_process_call_count
         /\ new.per_process_syscall_count = count
    BY <2>1 DEF PerProcess
  <2> QED
    BY <1>1, <2>2 DEF count
<1>2. CASE ~ NeedsTable(proc, s)
  <2>1. proc.per_process_syscall_count \in Nat
    BY DEF PerProcess
  <2> QED
    BY <1>2, <2>1 DEF Provided
<1> QED
  BY <1>1, <1>2

\* The block of the call when the probe ends, and then moved.
LEMMA BlockAfter ==
  ASSUME TypeOK, NEW t \in Task, NEW s \in Syscall, NEW h \in Hook,
         NEW proc, proc = Charged(t, h), ~ (NeedsTable(proc, s) /\ PoolEmpty),
         NEW block, per_process' = [per_process EXCEPT ![h] = block],
         NEW a, NEW c, NEW provided, provided = Provided(proc, s),
         block.per_process_argument_count = provided.per_process_argument_count + a,
         block.per_process_conflict_count = provided.per_process_conflict_count + c,
         block.per_process_syscall_count = provided.per_process_syscall_count,
         block.per_process_call_count = provided.per_process_call_count
  PROVE  BlockMoves(t, h, a, c, IF Draws(t, s, h) THEN 1 ELSE 0, 1)
<1>1. per_process \in [Hook -> PerProcess]
  BY DEF TypeOK
<1>2. proc \in PerProcess /\ (NeedsTable(proc, s) <=> Draws(t, s, h))
  BY TableOfLookup DEF Draws
<1>3. /\ per_process'[h] = block
      /\ \A g \in Hook \ {h} : per_process'[g] = per_process[g]
  BY <1>1
<1>4. /\ provided.per_process_argument_count = BlockOf(t, h).per_process_argument_count
      /\ provided.per_process_conflict_count = BlockOf(t, h).per_process_conflict_count
      /\ provided.per_process_call_count = BlockOf(t, h).per_process_call_count + 1
      /\ provided.per_process_syscall_count =
            BlockOf(t, h).per_process_syscall_count
              + (IF NeedsTable(proc, s) THEN 1 ELSE 0)
  BY <1>1, <1>2, ChargedCounts, ProvidedCounts
<1> QED
  BY <1>2, <1>3, <1>4 DEF BlockMoves


\* A complete lookup and all it counts: either a hit, or an argument set.
Measured(t, s, h) ==
    \E i \in Table, tab \in SyscallTable, a \in {0, 1}, c \in {0, 1} :
        /\ c <= a
        /\ LookedUp(t, s, h, i, tab)
        /\ TotalsMove(t, s, a, c, 1 - a)
        /\ BlockMoves(t, h, a, c, IF Draws(t, s, h) THEN 1 ELSE 0, 1)
        /\ TableMoves(i, tab, a, c)

LEMMA LookupTable ==
  ASSUME TypeOK, NEW t \in Task, NEW s \in Syscall, NEW h \in Hook,
         NEW proc, proc = Charged(t, h), ~ (NeedsTable(proc, s) /\ PoolEmpty),
         NEW i, i = TableFor(proc, s), NEW new, pool' = [pool EXCEPT ![i] = new],
         NEW j, NEW tab, LookedUp(t, s, h, j, tab)
  PROVE  j = i /\ tab = new
<1>1. j = i
  BY TableOfLookup DEF LookedUp
<1>2. i \in Table /\ pool'[j] = tab
  BY <1>1 DEF LookedUp
<1> QED
  BY <1>1, <1>2 DEF TypeOK

LEMMA SameSlots ==
  ASSUME NEW tab, NEW new, SameRows(tab, new)
  PROVE  FlaggedSlots(new) = FlaggedSlots(tab)
BY DEF SameRows, FlaggedSlots

LEMMA HitMeasured ==
  ASSUME TypeOK, AllSound, NEW t \in Task, NEW s, NEW h \in Hook, NEW regs \in Regs,
         NEW w \in Way, HandleHit(t, s, h, regs, w)
  PROVE  s \in Syscall /\ Measured(t, s, h)
<1> DEFINE proc == Charged(t, h)
           i == TableFor(proc, s)
           key == KeyOf(t, s, regs)
           calls == pool[i].per_syscall_call_count + 1
           new == [pool[i] EXCEPT !.per_syscall_call_count = calls]
           ht == Drawn(Entered(t, s), proc, s)
           hits == ht.total_hit_count + 1
           block == Provided(proc, s)
<1>1. /\ Lookup(t, s, h, key, i, Hash[key], w)
      /\ per_process' = [per_process EXCEPT ![h] = block]
      /\ pool' = [pool EXCEPT ![i] = new]
      /\ hash_table' = [ht EXCEPT !.total_hit_count = hits]
  BY DEF HandleHit, KeyOf
<1>2. s \in Syscall /\ ~ (NeedsTable(proc, s) /\ PoolEmpty)
  BY <1>1 DEF Lookup
<1>3. /\ pool[i] \in SyscallTable
      /\ block \in PerProcess
      /\ ht \in HashTable
  BY <1>1, LookupTypes
<1>4. PICK j \in Table, tab \in SyscallTable :
          LookedUp(t, s, h, j, tab) /\ SameRows(pool[j], tab)
  BY HitDoes DEF HitBy
<1>5. j = i /\ tab = new
  <2>1. proc = Charged(t, h) /\ i = TableFor(proc, s)
    OBVIOUS
  <2>2. pool' = [pool EXCEPT ![i] = new]
    BY <1>1
  <2> HIDE DEF proc, i, new
  <2> QED
    BY <1>2, <1>4, <2>1, <2>2, LookupTable
<1>6. TotalsMove(t, s, 0, 0, 1)
  <2> HIDE DEF hits, ht, proc
  <2>1. /\ hash_table'.total_argument_count = ht.total_argument_count
        /\ hash_table'.total_conflict_count = ht.total_conflict_count
        /\ hash_table'.total_hit_count = hits
        /\ hash_table'.total_syscall_count = ht.total_syscall_count
        /\ hash_table'.total_process_count = ht.total_process_count
    BY <1>1, <1>3 DEF HashTable
  <2>2. ht.total_argument_count \in Nat /\ ht.total_conflict_count \in Nat
    BY <1>3 DEF HashTable
  <2>3. /\ hash_table'.total_argument_count = ht.total_argument_count + 0
        /\ hash_table'.total_conflict_count = ht.total_conflict_count + 0
        /\ hash_table'.total_hit_count = ht.total_hit_count + 1
    BY <2>1, <2>2 DEF hits
  <2> QED
    BY <1>2, <2>1, <2>3, TotalsAfter DEF ht
<1>7. BlockMoves(t, h, 0, 0, IF Draws(t, s, h) THEN 1 ELSE 0, 1)
  <2> HIDE DEF block, proc
  <2>1. /\ block.per_process_argument_count = block.per_process_argument_count + 0
        /\ block.per_process_conflict_count = block.per_process_conflict_count + 0
    BY <1>3 DEF PerProcess
  <2> QED
    BY <1>1, <1>2, <2>1, BlockAfter DEF block, proc
<1>8. TableMoves(j, tab, 0, 0)
  <2> HIDE DEF calls, i
  <2>1. /\ new.per_syscall_call_count = calls
        /\ new.per_syscall_argument_count = pool[i].per_syscall_argument_count
        /\ new.per_syscall_conflict_count = pool[i].per_syscall_conflict_count
    BY <1>3 DEF SyscallTable
  <2>2. FlaggedSlots(tab) = FlaggedSlots(pool[j])
    BY <1>4, SameSlots
  <2>3. IsFiniteSet(FlaggedSlots(tab)) => Cardinality(FlaggedSlots(tab)) \in Nat
    BY FS_CardinalityType
  <2>4. pool[i].per_syscall_argument_count \in Nat /\ pool[i].per_syscall_conflict_count \in Nat
    BY <1>3 DEF SyscallTable
  <2> QED
    BY <1>5, <2>1, <2>2, <2>3, <2>4 DEF TableMoves, calls
<1> HIDE DEF proc, i, key, calls, new, ht, hits, block
<1>9. \E a, c \in {0, 1} :
          /\ c <= a
          /\ TotalsMove(t, s, a, c, 1 - a)
          /\ BlockMoves(t, h, a, c, IF Draws(t, s, h) THEN 1 ELSE 0, 1)
          /\ TableMoves(j, tab, a, c)
  <2>1. 1 - 0 = 1 /\ 0 <= 0 /\ 0 \in {0, 1}
    OBVIOUS
  <2> QED
    BY <1>6, <1>7, <1>8, <2>1
<1> QED
  BY <1>2, <1>4, <1>9 DEF Measured

LEMMA ConflictMeasured ==
  ASSUME TypeOK, AllSound, NEW t \in Task, NEW s, NEW h \in Hook, NEW regs \in Regs,
         HandleConflict(t, s, h, regs)
  PROVE  s \in Syscall /\ Measured(t, s, h)
<1> DEFINE proc == Charged(t, h)
           i == TableFor(proc, s)
           key == KeyOf(t, s, regs)
           calls == pool[i].per_syscall_call_count + 1
           arguments == pool[i].per_syscall_argument_count + 1
           conflicts == pool[i].per_syscall_conflict_count + 1
           new == [pool[i] EXCEPT !.per_syscall_call_count = calls,
                                  !.per_syscall_argument_count = arguments,
                                  !.per_syscall_conflict_count = conflicts]
           ht == Drawn(Entered(t, s), proc, s)
           provided == Provided(proc, s)
           charged == ChargeArgument(provided)
           block == [charged EXCEPT !.per_process_conflict_count = @ + 1]
<1>1. /\ Lookup(t, s, h, key, i, Hash[key], Asos)
      /\ per_process' = [per_process EXCEPT ![h] = block]
      /\ hash_table' = [ht EXCEPT !.total_argument_count = @ + 1,
                                  !.total_conflict_count = @ + 1]
  BY DEF HandleConflict, KeyOf
<1>2. s \in Syscall /\ ~ (NeedsTable(proc, s) /\ PoolEmpty)
  BY <1>1 DEF Lookup
<1>3. /\ i \in Table
      /\ pool[i] \in SyscallTable
      /\ provided \in PerProcess
      /\ ht \in HashTable
  BY <1>1, LookupTypes
<1>4. pool' = [pool EXCEPT ![i] = new]
  BY <1>3 DEF HandleConflict, TypeOK, SyscallTable
<1>5. PICK j \in Table, tab \in SyscallTable :
          LookedUp(t, s, h, j, tab) /\ SameRows(pool[j], tab)
  BY ConflictDoes DEF ConflictBy
<1>6. j = i /\ tab = new
  <2>1. proc = Charged(t, h) /\ i = TableFor(proc, s)
    OBVIOUS
  <2> HIDE DEF proc, i, new
  <2> QED
    BY <1>2, <1>4, <1>5, <2>1, LookupTable
<1>7. TotalsMove(t, s, 1, 1, 0)
  <2> HIDE DEF ht, proc
  <2> DEFINE a == ht.total_argument_count + 1
             c == ht.total_conflict_count + 1
  <2>1. hash_table' = [ht EXCEPT !.total_argument_count = a, !.total_conflict_count = c]
    BY <1>1, <1>3 DEF HashTable
  <2> HIDE DEF a, c
  <2>2. /\ hash_table'.total_argument_count = a
        /\ hash_table'.total_conflict_count = c
        /\ hash_table'.total_hit_count = ht.total_hit_count
        /\ hash_table'.total_syscall_count = ht.total_syscall_count
        /\ hash_table'.total_process_count = ht.total_process_count
    BY <1>3, <2>1 DEF HashTable
  <2>3. ht.total_hit_count \in Nat
    BY <1>3 DEF HashTable
  <2>4. /\ hash_table'.total_argument_count = ht.total_argument_count + 1
        /\ hash_table'.total_conflict_count = ht.total_conflict_count + 1
        /\ hash_table'.total_hit_count = ht.total_hit_count + 0
    BY <2>2, <2>3 DEF a, c
  <2> QED
    BY <1>2, <2>2, <2>4, TotalsAfter DEF ht
<1>8. BlockMoves(t, h, 1, 1, IF Draws(t, s, h) THEN 1 ELSE 0, 1)
  <2> HIDE DEF provided, proc
  <2> DEFINE a == provided.per_process_argument_count + 1
             c == provided.per_process_conflict_count + 1
  <2>1. charged = [provided EXCEPT !.per_process_argument_count = a]
    BY DEF ChargeArgument
  <2>2. charged.per_process_conflict_count = provided.per_process_conflict_count
    BY <1>3 DEF ChargeArgument, PerProcess
  <2>3. block = [provided EXCEPT !.per_process_argument_count = a,
                                 !.per_process_conflict_count = c]
    BY <1>3, <2>1, <2>2 DEF PerProcess
  <2> HIDE DEF a, c, charged, block
  <2>4. /\ block.per_process_argument_count = a
        /\ block.per_process_conflict_count = c
        /\ block.per_process_syscall_count = provided.per_process_syscall_count
        /\ block.per_process_call_count = provided.per_process_call_count
    BY <1>3, <2>3 DEF PerProcess
  <2> QED
    BY <1>1, <1>2, <2>4, BlockAfter DEF a, c, provided, proc
<1>9. TableMoves(j, tab, 1, 1)
  <2> HIDE DEF calls, arguments, conflicts, i
  <2>1. /\ new.per_syscall_call_count = calls
        /\ new.per_syscall_argument_count = arguments
        /\ new.per_syscall_conflict_count = conflicts
    BY <1>3 DEF SyscallTable
  <2>2. FlaggedSlots(tab) = FlaggedSlots(pool[j])
    BY <1>5, SameSlots
  <2>3. IsFiniteSet(FlaggedSlots(tab)) => Cardinality(FlaggedSlots(tab)) \in Nat
    BY FS_CardinalityType
  <2> QED
    BY <1>6, <2>1, <2>2, <2>3 DEF TableMoves, calls, arguments, conflicts
<1> HIDE DEF proc, i, key, calls, arguments, conflicts, new, ht, provided, charged, block
<1>10. \E a, c \in {0, 1} :
          /\ c <= a
          /\ TotalsMove(t, s, a, c, 1 - a)
          /\ BlockMoves(t, h, a, c, IF Draws(t, s, h) THEN 1 ELSE 0, 1)
          /\ TableMoves(j, tab, a, c)
  <2>1. 1 - 1 = 0 /\ 1 <= 1 /\ 1 \in {0, 1}
    OBVIOUS
  <2> QED
    BY <1>7, <1>8, <1>9, <2>1
<1> QED
  BY <1>2, <1>5, <1>10 DEF Measured

\* A free way that is taken is one flagged way more, and nothing is counted.
LEMMA OccupyCounts ==
  ASSUME NEW tab \in SyscallTable, NEW b \in Bucket, NEW w \in Way,
         NEW n \in 0 .. MaxArgumentCount, NEW key \in KeysOf(n)
  PROVE  LET new == Occupy(tab, b, w, key) IN
         /\ new.per_syscall_call_count = tab.per_syscall_call_count
         /\ new.per_syscall_argument_count = tab.per_syscall_argument_count
         /\ new.per_syscall_conflict_count = tab.per_syscall_conflict_count
         /\ FlaggedSlots(new) = FlaggedSlots(tab) \cup {<<b, w>>}
<1> DEFINE new == Occupy(tab, b, w, key)
           flag == [tab.flag EXCEPT ![b] = [tab.flag[b] EXCEPT ![w] = 1]]
           table == [tab.table EXCEPT ![b] =
                        [tab.table[b] EXCEPT ![w] = Overwrite(tab.table[b][w], key)]]
<1>1. new = [tab EXCEPT !.flag = flag, !.table = table]
  BY DEF Occupy, SyscallTable
<1>2. \A c \in Bucket, v \in Way :
          new.flag[c][v] = IF <<c, v>> = <<b, w>> THEN 1 ELSE tab.flag[c][v]
  BY OccupyFields
<1> HIDE DEF new, flag, table
<1>3. /\ new.per_syscall_call_count = tab.per_syscall_call_count
      /\ new.per_syscall_argument_count = tab.per_syscall_argument_count
      /\ new.per_syscall_conflict_count = tab.per_syscall_conflict_count
  BY <1>1 DEF SyscallTable
<1>4. FlaggedSlots(new) = FlaggedSlots(tab) \cup {<<b, w>>}
  <2>1. \A slot \in Bucket \X Way :
            slot \in FlaggedSlots(new) <=> slot \in FlaggedSlots(tab) \cup {<<b, w>>}
    <3> SUFFICES ASSUME NEW c \in Bucket, NEW v \in Way
                 PROVE  <<c, v>> \in FlaggedSlots(new)
                          <=> <<c, v>> \in FlaggedSlots(tab) \cup {<<b, w>>}
      OBVIOUS
    <3> QED
      BY <1>2 DEF FlaggedSlots
  <2>2. FlaggedSlots(new) \subseteq Bucket \X Way /\ FlaggedSlots(tab) \subseteq Bucket \X Way
    BY DEF FlaggedSlots
  <2>3. <<b, w>> \in Bucket \X Way
    OBVIOUS
  <2> QED
    BY <2>1, <2>2, <2>3
<1> QED
  BY <1>3, <1>4 DEF new

LEMMA InsertMeasured ==
  ASSUME TypeOK, AllSound, NEW t \in Task, NEW s, NEW h \in Hook, NEW regs \in Regs,
         NEW w \in Way, HandleInsert(t, s, h, regs, w)
  PROVE  s \in Syscall /\ Measured(t, s, h)
<1> DEFINE proc == Charged(t, h)
           i == TableFor(proc, s)
           key == KeyOf(t, s, regs)
           b == Hash[key]
           taken == Occupy(pool[i], b, w, key)
           calls == taken.per_syscall_call_count + 1
           arguments == taken.per_syscall_argument_count + 1
           new == [taken EXCEPT !.per_syscall_call_count = calls,
                                !.per_syscall_argument_count = arguments]
           ht == Drawn(Entered(t, s), proc, s)
           provided == Provided(proc, s)
           block == ChargeArgument(provided)
<1>1. /\ Lookup(t, s, h, key, i, b, w)
      /\ w < Asos /\ ~ Found(pool[i], b, w)
      /\ per_process' = [per_process EXCEPT ![h] = block]
      /\ hash_table' = [ht EXCEPT !.total_argument_count = @ + 1]
  BY DEF HandleInsert, KeyOf
<1>2. s \in Syscall /\ ~ (NeedsTable(proc, s) /\ PoolEmpty)
  BY <1>1 DEF Lookup
<1>3. /\ i \in Table
      /\ pool[i] \in SyscallTable
      /\ provided \in PerProcess
      /\ ht \in HashTable
  BY <1>1, LookupTypes
<1>4. /\ b \in Bucket
      /\ KeyLength(t, s) \in 0 .. MaxArgumentCount
      /\ key \in KeysOf(KeyLength(t, s))
  BY <1>2, KeyOfType
<1>5. /\ taken \in SyscallTable
      /\ taken.per_syscall_call_count = pool[i].per_syscall_call_count
      /\ taken.per_syscall_argument_count = pool[i].per_syscall_argument_count
      /\ taken.per_syscall_conflict_count = pool[i].per_syscall_conflict_count
      /\ FlaggedSlots(taken) = FlaggedSlots(pool[i]) \cup {<<b, w>>}
  <2> HIDE DEF key, i, b
  <2> QED
    BY <1>3, <1>4, OccupyFields, OccupyCounts
<1>6. pool' = [pool EXCEPT ![i] = new]
  <2>1. pool' = [pool EXCEPT ![i] = [taken EXCEPT !.per_syscall_call_count = @ + 1,
                                                  !.per_syscall_argument_count = @ + 1]]
    BY DEF HandleInsert, KeyOf
  <2> HIDE DEF taken
  <2>2. [taken EXCEPT !.per_syscall_call_count = @ + 1,
                      !.per_syscall_argument_count = @ + 1] = new
    BY <1>5 DEF SyscallTable
  <2> QED
    BY <2>1, <2>2
<1>7. PICK j \in Table, tab \in SyscallTable : LookedUp(t, s, h, j, tab)
  BY InsertDoes DEF InsertBy
<1>8. j = i /\ tab = new
  <2>1. proc = Charged(t, h) /\ i = TableFor(proc, s)
    OBVIOUS
  <2> HIDE DEF proc, i, new
  <2> QED
    BY <1>2, <1>6, <1>7, <2>1, LookupTable
<1>9. TotalsMove(t, s, 1, 0, 0)
  <2> HIDE DEF ht, proc
  <2> DEFINE a == ht.total_argument_count + 1
  <2>1. hash_table' = [ht EXCEPT !.total_argument_count = a]
    BY <1>1
  <2> HIDE DEF a
  <2>2. /\ hash_table'.total_argument_count = a
        /\ hash_table'.total_conflict_count = ht.total_conflict_count
        /\ hash_table'.total_hit_count = ht.total_hit_count
        /\ hash_table'.total_syscall_count = ht.total_syscall_count
        /\ hash_table'.total_process_count = ht.total_process_count
    BY <1>3, <2>1 DEF HashTable
  <2>3. ht.total_hit_count \in Nat /\ ht.total_conflict_count \in Nat
    BY <1>3 DEF HashTable
  <2>4. /\ hash_table'.total_argument_count = ht.total_argument_count + 1
        /\ hash_table'.total_conflict_count = ht.total_conflict_count + 0
        /\ hash_table'.total_hit_count = ht.total_hit_count + 0
    BY <2>2, <2>3 DEF a
  <2> QED
    BY <1>2, <2>2, <2>4, TotalsAfter DEF ht
<1>10. BlockMoves(t, h, 1, 0, IF Draws(t, s, h) THEN 1 ELSE 0, 1)
  <2> HIDE DEF provided, proc
  <2> DEFINE a == provided.per_process_argument_count + 1
  <2>1. block = [provided EXCEPT !.per_process_argument_count = a]
    BY DEF ChargeArgument
  <2> HIDE DEF a, block
  <2>2. /\ block.per_process_argument_count = a
        /\ block.per_process_conflict_count = provided.per_process_conflict_count
        /\ block.per_process_syscall_count = provided.per_process_syscall_count
        /\ block.per_process_call_count = provided.per_process_call_count
    BY <1>3, <2>1 DEF PerProcess
  <2>3. provided.per_process_conflict_count = provided.per_process_conflict_count + 0
    BY <1>3 DEF PerProcess
  <2> QED
    BY <1>1, <1>2, <2>2, <2>3, BlockAfter DEF a, provided, proc
<1>11. TableMoves(j, tab, 1, 0)
  <2> HIDE DEF calls, arguments, i, taken, b
  <2>1. /\ new.per_syscall_call_count = calls
        /\ new.per_syscall_argument_count = arguments
        /\ new.per_syscall_conflict_count = taken.per_syscall_conflict_count
        /\ FlaggedSlots(new) = FlaggedSlots(taken)
    BY <1>5 DEF SyscallTable, FlaggedSlots
  <2>2. pool[i].per_syscall_conflict_count \in Nat
    BY <1>3 DEF SyscallTable
  <2>3. <<b, w>> \notin FlaggedSlots(pool[i])
    BY <1>1 DEF Found, FlaggedSlots
  <2>4. ASSUME IsFiniteSet(FlaggedSlots(pool[i]))
        PROVE  /\ IsFiniteSet(FlaggedSlots(tab))
               /\ Cardinality(FlaggedSlots(tab)) = Cardinality(FlaggedSlots(pool[i])) + 1
    BY <1>5, <1>8, <2>1, <2>3, <2>4, FS_AddElement
  <2> QED
    BY <1>5, <1>8, <2>1, <2>2, <2>4 DEF TableMoves, calls, arguments
<1> HIDE DEF proc, i, key, b, taken, calls, arguments, new, ht, provided, block
<1>12. \E a, c \in {0, 1} :
          /\ c <= a
          /\ TotalsMove(t, s, a, c, 1 - a)
          /\ BlockMoves(t, h, a, c, IF Draws(t, s, h) THEN 1 ELSE 0, 1)
          /\ TableMoves(j, tab, a, c)
  <2>1. 1 - 1 = 0 /\ 0 <= 1 /\ 1 \in {0, 1} /\ 0 \in {0, 1}
    OBVIOUS
  <2> QED
    BY <1>9, <1>10, <1>11, <2>1
<1> QED
  BY <1>2, <1>7, <1>12 DEF Measured

\* A call that got to a block but not to a table.
MeasuredEarly(t, s, h) ==
    /\ EndedEarly(t, s, h)
    /\ TotalsMove(t, s, 0, 0, 0)
    /\ \E m \in {0, 1} : BlockMoves(t, h, 0, 0, 0, m)

LEMMA TotalsEarly ==
  ASSUME TypeOK, NEW t \in Task, NEW s, NEW ht \in HashTable,
         SameCounts(Counted(s), ht),
         ht.total_process_count =
             hash_table.total_process_count + (IF HasHook(t) THEN 0 ELSE 1),
         SameCounts(ht, hash_table'),
         hash_table'.total_process_count = ht.total_process_count
  PROVE  TotalsMove(t, s, 0, 0, 0)
<1>1. hash_table \in HashTable
  BY DEF TypeOK
<1>2. /\ hash_table.total_argument_count \in Nat
      /\ hash_table.total_conflict_count \in Nat
      /\ hash_table.total_hit_count \in Nat
  BY <1>1 DEF HashTable
<1>3. SameCounts(Counted(s), hash_table')
  BY DEF SameCounts
<1>4. /\ hash_table'.total_argument_count = hash_table.total_argument_count
      /\ hash_table'.total_conflict_count = hash_table.total_conflict_count
      /\ hash_table'.total_hit_count = hash_table.total_hit_count
      /\ hash_table'.total_syscall_count = hash_table.total_syscall_count
                                              + (IF s \in syscall_number THEN 0 ELSE 1)
  BY <1>1, <1>3, CountedCounts DEF SameCounts
<1> QED
  BY <1>2, <1>4 DEF TotalsMove

LEMMA PoolEmptyMeasured ==
  ASSUME TypeOK, AllSound, NEW t \in Task, NEW s, NEW h \in Hook, NEW regs \in Regs,
         HandlePoolEmpty(t, s, h, regs)
  PROVE  s \in Syscall /\ MeasuredEarly(t, s, h)
<1> DEFINE proc == Charged(t, h)
<1>1. /\ s \in Syscall
      /\ per_process' = [per_process EXCEPT ![h] = proc]
      /\ hash_table' = Entered(t, s)
  BY DEF HandlePoolEmpty
<1>2. EndedEarly(t, s, h)
  BY PoolEmptyDoes DEF TurnedAway
<1>3. hash_table \in HashTable /\ per_process \in [Hook -> PerProcess]
  BY DEF TypeOK
<1>4. TotalsMove(t, s, 0, 0, 0)
  <2>1. SameCounts(Entered(t, s), Entered(t, s))
    BY DEF SameCounts
  <2> QED
    BY <1>1, <1>3, <2>1, EnteredCounts, TotalsEarly
<1>5. BlockMoves(t, h, 0, 0, 0, 1)
  <2>1. BlockOf(t, h) \in PerProcess
    BY <1>3, FreshProcessType DEF BlockOf
  <2>2. /\ BlockOf(t, h).per_process_argument_count \in Nat
        /\ BlockOf(t, h).per_process_conflict_count \in Nat
        /\ BlockOf(t, h).per_process_syscall_count \in Nat
    BY <2>1 DEF PerProcess
  <2>3. /\ proc.per_process_argument_count = BlockOf(t, h).per_process_argument_count
        /\ proc.per_process_conflict_count = BlockOf(t, h).per_process_conflict_count
        /\ proc.per_process_syscall_count = BlockOf(t, h).per_process_syscall_count
        /\ proc.per_process_call_count = BlockOf(t, h).per_process_call_count + 1
    BY <1>3, ChargedCounts
  <2> HIDE DEF proc
  <2>4. per_process'[h] = proc /\ \A g \in Hook \ {h} : per_process'[g] = per_process[g]
    BY <1>1, <1>3
  <2> QED
    BY <2>2, <2>3, <2>4 DEF BlockMoves
<1> QED
  BY <1>1, <1>2, <1>4, <1>5 DEF MeasuredEarly

LEMMA NodeFailureMeasured ==
  ASSUME TypeOK, AllSound, NEW t \in Task, NEW s, NEW h \in Hook,
         HandleNodeFailure(t, s, h)
  PROVE  s \in Syscall /\ MeasuredEarly(t, s, h)
<1> DEFINE ht == Linked(Counted(s), t)
<1>1. /\ s \in Syscall
      /\ ~ HasHook(t)
      /\ per_process' = [per_process EXCEPT ![h] = FreshProcess]
      /\ hash_table' = [ht EXCEPT !.process_head = << >>]
  BY DEF HandleNodeFailure
<1>2. EndedEarly(t, s, h)
  BY NodeFailureDoes DEF NotListed
<1>3. hash_table \in HashTable /\ per_process \in [Hook -> PerProcess]
  BY DEF TypeOK
<1>4. /\ ht \in HashTable
      /\ SameCounts(Counted(s), ht)
      /\ ht.total_process_count = hash_table.total_process_count + 1
  <2>1. Counted(s) \in HashTable
    BY <1>3, CountedType
  <2> QED
    BY <1>3, <2>1, LinkedType, LinkedCounts, CountedCounts
<1> HIDE DEF ht
<1>5. /\ SameCounts(ht, hash_table')
      /\ hash_table'.total_process_count = ht.total_process_count
  BY <1>1, <1>4 DEF HashTable, SameCounts
<1>6. TotalsMove(t, s, 0, 0, 0)
  BY <1>1, <1>4, <1>5, TotalsEarly
<1>7. BlockMoves(t, h, 0, 0, 0, 0)
  <2>1. per_process'[h] = FreshProcess /\ \A g \in Hook \ {h} : per_process'[g] = per_process[g]
    BY <1>1, <1>3
  <2> QED
    BY <1>1, <2>1 DEF BlockMoves, BlockOf, FreshProcess
<1> QED
  BY <1>1, <1>2, <1>6, <1>7 DEF MeasuredEarly

-----------------------------------------------------------------------------
(* The balance.                                                            *)

\* That the sets which are counted are finite has to be kept as well: nothing
\* says so of the hooks or the buckets.
Metered ==
    /\ IsFiniteSet(usable)
    /\ \A i \in Table : IsFiniteSet(FlaggedSlots(pool[i]))
    /\ MetricsBalance

LEMMA TableFinite == IsFiniteSet(Table)
BY Constants, FS_Interval DEF Table

LEMMA TablesOfFinite ==
  ASSUME TypeOK, NEW h \in Hook
  PROVE  TablesOf(h) \in SUBSET Table /\ IsFiniteSet(TablesOf(h))
<1>1. TablesOf(h) \in SUBSET Table
  BY DEF TypeOK, PerProcess, TablesOf, TableAt
<1> QED
  BY <1>1, TableFinite, FS_Subset

\* The tables the block of a call has when the call comes.
OldTables(t, h) == IF HasHook(t) THEN TablesOf(h) ELSE {}

LEMMA OldTablesFinite ==
  ASSUME TypeOK, NEW t, NEW h \in Hook
  PROVE  OldTables(t, h) \in SUBSET Table /\ IsFiniteSet(OldTables(t, h))
BY TablesOfFinite, FS_EmptySet DEF OldTables

LEMMA LookupTables ==
  ASSUME TypeOK, PoolOwned, NEW t \in Task, NEW s \in Syscall, NEW h \in Hook,
         NEW i \in Table, NEW tab, LookedUp(t, s, h, i, tab)
  PROVE  /\ TablesOf(h)' = OldTables(t, h) \cup {i}
         /\ IF Draws(t, s, h)
            THEN i \notin OldTables(t, h) /\ pool[i] = BlankTable
            ELSE i \in OldTables(t, h)
         /\ \A g \in usable \ {h} : TablesOf(g)' = TablesOf(g) /\ i \notin TablesOf(g)
<1>1. /\ SlotFilled(t, s, h, i)
      /\ IF Draws(t, s, h) THEN i = hash_table.cursor ELSE i = TableAt(h, s)
      /\ Served(t, s, h)
  BY DEF LookedUp, Draws
<1>2. HasHook(t) => h \in usable
  BY <1>1 DEF Served, Hooked
<1>3. usable \subseteq Hook
  BY DEF TypeOK
<1>4. i # NULL
  BY Constants
<1>5. \A r \in Syscall : TableAt(h, r)' =
          IF r = s THEN i ELSE IF HasHook(t) THEN TableAt(h, r) ELSE NULL
  BY <1>1 DEF SlotFilled
<1>6. TablesOf(h)' = OldTables(t, h) \cup {i}
  <2>1. TablesOf(h)' = {TableAt(h, r)' : r \in Syscall} \ {NULL}
    BY DEF TablesOf
  <2>2. CASE HasHook(t)
    <3>1. OldTables(t, h) = {TableAt(h, r) : r \in Syscall} \ {NULL}
      BY <2>2 DEF OldTables, TablesOf
    <3>2. TableAt(h, s) \in {NULL, i}
      BY <1>1, <2>2 DEF Draws
    <3> QED
      BY <1>4, <1>5, <2>1, <2>2, <3>1, <3>2
  <2>3. CASE ~ HasHook(t)
    <3>1. OldTables(t, h) = {}
      BY <2>3 DEF OldTables
    <3> QED
      BY <1>4, <1>5, <2>1, <2>3, <3>1
  <2> QED
    BY <2>2, <2>3
<1>7. ASSUME Draws(t, s, h)
      PROVE  /\ i \notin OldTables(t, h)
             /\ pool[i] = BlankTable
             /\ \A g \in usable : i \notin TablesOf(g)
  <2>1. i = hash_table.cursor /\ i \in Int
    BY <1>1, <1>7, Constants DEF Table
  <2>2. \A g \in usable : i \notin TablesOf(g)
    BY <2>1 DEF PoolOwned, TablesOf
  <2>3. pool[i] = BlankTable
    BY <1>1, <2>1 DEF PoolOwned, Served
  <2> QED
    BY <1>2, <2>2, <2>3 DEF OldTables
<1>8. ASSUME ~ Draws(t, s, h)
      PROVE  /\ i \in OldTables(t, h)
             /\ \A g \in usable \ {h} : i \notin TablesOf(g)
  <2>1. HasHook(t) /\ i = TableAt(h, s) /\ h \in usable
    BY <1>1, <1>2, <1>8 DEF Draws
  <2>2. i \in TablesOf(h)
    BY <1>4, <2>1 DEF TablesOf
  <2>3. \A g \in usable \ {h} : i \notin TablesOf(g)
    BY <1>4, <2>1 DEF PoolOwned, TablesOf
  <2> QED
    BY <2>1, <2>2, <2>3 DEF OldTables
<1>9. \A g \in usable \ {h} : TablesOf(g)' = TablesOf(g)
  BY <1>1, <1>3 DEF SlotFilled, TablesOf
<1> QED
  BY <1>6, <1>7, <1>8, <1>9

\* What becomes of the sums over one kind of count, f before and g after a call
\* under block h that adds d of them.
SumsMove(f, g, t, h, d) ==
    /\ SumFunctionOnSet(g, Table) = SumFunctionOnSet(f, Table) + d
    /\ SumFunctionOnSet(g, TablesOf(h)') = SumFunctionOnSet(f, OldTables(t, h)) + d
    /\ \A k \in usable \ {h} :
          SumFunctionOnSet(g, TablesOf(k)') = SumFunctionOnSet(f, TablesOf(k))

LEMMA LookupSums ==
  ASSUME TypeOK, PoolOwned, NEW t \in Task, NEW s \in Syscall, NEW h \in Hook,
         NEW i \in Table, NEW tab, LookedUp(t, s, h, i, tab),
         NEW f, NEW g, NEW d \in Int, MovesAt(f, g, i, d),
         pool[i] = BlankTable => f[i] = 0
  PROVE  SumsMove(f, g, t, h, d)
<1>0. ASSUME NEW old \in SUBSET Table, IsFiniteSet(old), i \in old \/ f[i] = 0
      PROVE  SumFunctionOnSet(g, old \cup {i}) = SumFunctionOnSet(f, old) + d
  BY <1>0, SumAfter
<1>1. SumFunctionOnSet(g, Table) = SumFunctionOnSet(f, Table) + d
  <2>1. Table \cup {i} = Table /\ Table \in SUBSET Table
    OBVIOUS
  <2>2. SumFunctionOnSet(g, Table \cup {i}) = SumFunctionOnSet(f, Table) + d
    BY <1>0, <2>1, TableFinite
  <2> QED
    BY <2>1, <2>2
<1>2. SumFunctionOnSet(g, TablesOf(h)') = SumFunctionOnSet(f, OldTables(t, h)) + d
  <2>1. /\ TablesOf(h)' = OldTables(t, h) \cup {i}
        /\ i \in OldTables(t, h) \/ f[i] = 0
    BY LookupTables
  <2>2. OldTables(t, h) \in SUBSET Table /\ IsFiniteSet(OldTables(t, h))
    BY OldTablesFinite
  <2>3. SumFunctionOnSet(g, OldTables(t, h) \cup {i})
          = SumFunctionOnSet(f, OldTables(t, h)) + d
    BY <1>0, <2>1, <2>2
  <2> QED
    BY <2>1, <2>3
<1>3. ASSUME NEW k \in usable \ {h}
      PROVE  SumFunctionOnSet(g, TablesOf(k)') = SumFunctionOnSet(f, TablesOf(k))
  <2>1. TablesOf(k)' = TablesOf(k) /\ i \notin TablesOf(k)
    BY LookupTables
  <2>2. TablesOf(k) \in SUBSET Table /\ IsFiniteSet(TablesOf(k))
    BY TablesOfFinite DEF TypeOK
  <2>3. \A j \in TablesOf(k) : f[j] = g[j]
    BY <2>1, <2>2 DEF MovesAt
  <2>4. SumFunctionOnSet(f, TablesOf(k)) = SumFunctionOnSet(g, TablesOf(k))
    BY <2>2, <2>3, SumSame
  <2> QED
    BY <2>1, <2>4
<1> QED
  BY <1>1, <1>2, <1>3 DEF SumsMove

FlagsFinite == \A i \in Table : IsFiniteSet(FlaggedSlots(pool[i]))

LEMMA BlankCounts ==
  FlaggedSlots(BlankTable) = {} /\ IsFiniteSet(FlaggedSlots(BlankTable))
<1>1. FlaggedSlots(BlankTable) = {}
  BY DEF FlaggedSlots, BlankTable
<1> QED
  BY <1>1, FS_EmptySet

LEMMA LookupMoves ==
  ASSUME TypeOK, FlagsFinite, NEW t, NEW s, NEW h, NEW i \in Table, NEW tab,
         LookedUp(t, s, h, i, tab), NEW a \in {0, 1}, NEW c \in {0, 1}, c <= a,
         TableMoves(i, tab, a, c)
  PROVE  /\ FlagsFinite'
         /\ MovesAt(RowCounts, RowCounts', i, a - c)
         /\ MovesAt(Calls, Calls', i, 1)
         /\ MovesAt(Arguments, Arguments', i, a)
         /\ MovesAt(Conflicts, Conflicts', i, c)
<1>1. /\ \A j \in Table : pool'[j] = IF j = i THEN tab ELSE pool[j]
      /\ pool' \in [Table -> SyscallTable]
      /\ pool \in [Table -> SyscallTable]
  BY DEF LookedUp, Served, TypeOK
<1>2. pool'[i] = tab /\ \A j \in Table \ {i} : pool'[j] = pool[j]
  BY <1>1
<1>3. /\ IsFiniteSet(FlaggedSlots(tab))
      /\ Cardinality(FlaggedSlots(tab)) = Cardinality(FlaggedSlots(pool[i])) + (a - c)
  BY DEF FlagsFinite, TableMoves
<1>4. \A j \in Table : IsFiniteSet(FlaggedSlots(pool'[j]))
  BY <1>2, <1>3 DEF FlagsFinite
<1>5. FlagsFinite'
  BY <1>4 DEF FlagsFinite
<1>6. MovesAt(RowCounts, RowCounts', i, a - c)
  <2> DEFINE f == RowCounts
             g == RowCounts'
  <2>1. \A j \in Table : /\ f[j] = Cardinality(FlaggedSlots(pool[j]))
                         /\ g[j] = Cardinality(FlaggedSlots(pool'[j]))
    BY DEF RowCounts
  <2>2. \A j \in Table : /\ Cardinality(FlaggedSlots(pool[j])) \in Nat
                         /\ Cardinality(FlaggedSlots(pool'[j])) \in Nat
    BY <1>4, FS_CardinalityType DEF FlagsFinite
  <2>3. \A j \in Table : f[j] \in Nat /\ g[j] \in Nat
    BY <2>1, <2>2
  <2>4. g[i] = f[i] + (a - c)
    BY <1>2, <1>3, <2>1
  <2>5. \A j \in Table \ {i} : g[j] = f[j]
    BY <1>2, <2>1
  <2> HIDE DEF f, g
  <2>6. MovesAt(f, g, i, a - c)
    BY <2>3, <2>4, <2>5 DEF MovesAt
  <2> QED
    BY <2>6 DEF f, g
<1>7. \A j \in Table :
         /\ pool[j].per_syscall_call_count \in Nat
         /\ pool'[j].per_syscall_call_count \in Nat
         /\ pool[j].per_syscall_argument_count \in Nat
         /\ pool'[j].per_syscall_argument_count \in Nat
         /\ pool[j].per_syscall_conflict_count \in Nat
         /\ pool'[j].per_syscall_conflict_count \in Nat
  BY <1>1 DEF SyscallTable
<1>8. MovesAt(Calls, Calls', i, 1)
  BY <1>2, <1>7 DEF MovesAt, Calls, TableMoves
<1>9. MovesAt(Arguments, Arguments', i, a)
  BY <1>2, <1>7 DEF MovesAt, Arguments, TableMoves
<1>10. MovesAt(Conflicts, Conflicts', i, c)
  BY <1>2, <1>7 DEF MovesAt, Conflicts, TableMoves
<1> QED
  BY <1>5, <1>6, <1>8, <1>9, <1>10

LEMMA LookupSumsMove ==
  ASSUME TypeOK, PoolOwned, FlagsFinite, NEW t \in Task, NEW s \in Syscall,
         NEW h \in Hook, NEW i \in Table, NEW tab, LookedUp(t, s, h, i, tab),
         NEW a \in {0, 1}, NEW c \in {0, 1}, c <= a, TableMoves(i, tab, a, c)
  PROVE  /\ FlagsFinite'
         /\ SumsMove(RowCounts, RowCounts', t, h, a - c)
         /\ SumsMove(Calls, Calls', t, h, 1)
         /\ SumsMove(Arguments, Arguments', t, h, a)
         /\ SumsMove(Conflicts, Conflicts', t, h, c)
<1>1. /\ FlagsFinite'
      /\ MovesAt(RowCounts, RowCounts', i, a - c)
      /\ MovesAt(Calls, Calls', i, 1)
      /\ MovesAt(Arguments, Arguments', i, a)
      /\ MovesAt(Conflicts, Conflicts', i, c)
  BY LookupMoves
<1>2. pool[i] = BlankTable =>
         /\ RowCounts[i] = 0
         /\ Calls[i] = 0
         /\ Arguments[i] = 0
         /\ Conflicts[i] = 0
  <2>1. pool[i] = BlankTable => RowCounts[i] = 0
    BY BlankCounts, FS_EmptySet DEF RowCounts
  <2> QED
    BY <2>1 DEF Calls, Arguments, Conflicts, BlankTable
<1>3. a - c \in Int /\ 1 \in Int /\ a \in Int /\ c \in Int
  OBVIOUS
<1>4. ASSUME NEW f, NEW g, NEW d \in Int, MovesAt(f, g, i, d),
             pool[i] = BlankTable => f[i] = 0
      PROVE  SumsMove(f, g, t, h, d)
  BY <1>4, LookupSums
<1>5. SumsMove(RowCounts, RowCounts', t, h, a - c)
  BY <1>1, <1>2, <1>3, <1>4
<1>6. SumsMove(Calls, Calls', t, h, 1)
  BY <1>1, <1>2, <1>3, <1>4
<1>7. SumsMove(Arguments, Arguments', t, h, a)
  BY <1>1, <1>2, <1>3, <1>4
<1>8. SumsMove(Conflicts, Conflicts', t, h, c)
  BY <1>1, <1>2, <1>3, <1>4
<1> QED
  BY <1>1, <1>5, <1>6, <1>7, <1>8

-----------------------------------------------------------------------------
(* The blocks.                                                             *)

\* What the balance says of a block and of the tables it has.
BlockBalances(block, tables, calls, arguments, conflicts) ==
    /\ block.per_process_argument_count = SumFunctionOnSet(arguments, tables)
    /\ block.per_process_conflict_count = SumFunctionOnSet(conflicts, tables)
    /\ block.per_process_syscall_count = Cardinality(tables)
    /\ block.per_process_call_count >= SumFunctionOnSet(calls, tables)

LEMMA OldBlock ==
  ASSUME TypeOK, MetricsBalance, NEW t \in Task, NEW s, NEW h \in Hook, Served(t, s, h)
  PROVE  BlockBalances(BlockOf(t, h), OldTables(t, h), Calls, Arguments, Conflicts)
<1>1. draco_checker = "handler" /\ (HasHook(t) => h \in usable)
  BY DEF Served, Hooked
<1>2. CASE HasHook(t)
  BY <1>1, <1>2 DEF MetricsBalance, BlockBalances, BlockOf, OldTables
<1>3. CASE ~ HasHook(t)
  <2>1. BlockOf(t, h) = FreshProcess /\ OldTables(t, h) = {}
    BY <1>3 DEF BlockOf, OldTables
  <2>2. \A f : SumFunctionOnSet(f, {}) = 0
    BY FS_EmptySet, SumStep
  <2>3. IsFiniteSet({}) /\ Cardinality({}) = 0
    BY FS_EmptySet
  <2> QED
    BY <2>1, <2>2, <2>3 DEF BlockBalances, FreshProcess
<1> QED
  BY <1>2, <1>3

\* The sum over the blocks moves by what the block of the call moves.
LEMMA BlockSumMoves ==
  ASSUME TypeOK, IsFiniteSet(usable), NEW t \in Task, NEW s, NEW h \in Hook,
         Served(t, s, h), NEW a \in {0, 1}, NEW c, NEW n, NEW m,
         BlockMoves(t, h, a, c, n, m)
  PROVE  /\ IsFiniteSet(usable')
         /\ Cardinality(usable') = Cardinality(usable) + (IF HasHook(t) THEN 0 ELSE 1)
         /\ SumFunctionOnSet(BlockArguments', usable')
              = SumFunctionOnSet(BlockArguments, usable) + a
<1> DEFINE f == BlockArguments
           g == BlockArguments'
<1>1. \A k \in Hook : /\ f[k] = per_process[k].per_process_argument_count
                      /\ g[k] = per_process'[k].per_process_argument_count
                      /\ f[k] \in Nat
                      /\ g[k] \in Nat
  BY DEF BlockArguments, TypeOK, Served, PerProcess
<1>2. /\ \A k \in Hook \ {h} : f[k] = g[k]
      /\ g[h] = (IF HasHook(t) THEN f[h] ELSE 0) + a
  BY <1>1 DEF BlockMoves, BlockOf, FreshProcess
<1>3. usable \subseteq Hook
  BY DEF TypeOK
<1>4. Cardinality(usable) \in Nat
  BY FS_CardinalityType
<1> HIDE DEF f, g
<1>5. SumFunctionOnSet(f, usable) \in Nat
  BY <1>1, <1>3, SumNat
<1>6. ASSUME HasHook(t)
      PROVE  /\ IsFiniteSet(usable')
             /\ Cardinality(usable') = Cardinality(usable)
             /\ SumFunctionOnSet(g, usable') = SumFunctionOnSet(f, usable) + a
  <2>1. usable' = usable /\ h \in usable
    BY <1>6 DEF Served, Hooked
  <2>2. /\ \A k \in usable : f[k] \in Nat /\ g[k] \in Nat
        /\ \A k \in usable \ {h} : f[k] = g[k]
    BY <1>1, <1>2, <1>3
  <2>3. SumFunctionOnSet(g, usable) = SumFunctionOnSet(f, usable) - f[h] + g[h]
    BY <2>1, <2>2, SumMoves
  <2>4. f[h] \in Nat /\ g[h] = f[h] + a
    BY <1>1, <1>2, <1>6
  <2> QED
    BY <1>5, <2>1, <2>3, <2>4
<1>7. ASSUME ~ HasHook(t)
      PROVE  /\ IsFiniteSet(usable')
             /\ Cardinality(usable') = Cardinality(usable) + 1
             /\ SumFunctionOnSet(g, usable') = SumFunctionOnSet(f, usable) + a
  <2>1. usable' = usable \cup {h} /\ h \notin usable
    BY <1>7 DEF Served, Hooked
  <2>2. IsFiniteSet(usable') /\ Cardinality(usable') = Cardinality(usable) + 1
    BY <2>1, FS_AddElement
  <2>3. SumFunctionOnSet(f, usable) = SumFunctionOnSet(g, usable)
    <3>1. \A k \in usable : f[k] = g[k]
      BY <1>2, <1>3, <2>1
    <3> QED
      BY <3>1, SumSame
  <2>4. \A k \in usable \cup {h} : g[k] \in Nat
    BY <1>1, <1>3
  <2>5. SumFunctionOnSet(g, usable \cup {h}) = SumFunctionOnSet(g, usable) + g[h]
    BY <2>1, <2>4, SumAdds
  <2>6. g[h] = a
    BY <1>2, <1>7
  <2> QED
    BY <2>1, <2>2, <2>3, <2>5, <2>6
<1>8. /\ IsFiniteSet(usable')
      /\ Cardinality(usable') = Cardinality(usable) + (IF HasHook(t) THEN 0 ELSE 1)
      /\ SumFunctionOnSet(g, usable') = SumFunctionOnSet(f, usable) + a
  BY <1>4, <1>6, <1>7
<1> QED
  BY <1>8 DEF f, g

\* The counted calls.
LEMMA NumbersMove ==
  ASSUME TypeOK, NEW s, syscall_number' = syscall_number \cup {s}
  PROVE  Cardinality(syscall_number')
           = Cardinality(syscall_number) + (IF s \in syscall_number THEN 0 ELSE 1)
<1>1. IsFiniteSet(Syscall)
  BY Constants, FS_Interval DEF Syscall
<1>2. IsFiniteSet(syscall_number)
  BY <1>1, FS_Subset DEF TypeOK
<1>3. Cardinality(syscall_number) \in Nat
  BY <1>2, FS_CardinalityType
<1>4. CASE s \in syscall_number
  <2>1. syscall_number' = syscall_number
    BY <1>4
  <2> QED
    BY <1>3, <1>4, <2>1
<1>5. CASE s \notin syscall_number
  BY <1>2, <1>5, FS_AddElement
<1> QED
  BY <1>4, <1>5

-----------------------------------------------------------------------------
(* The balance is kept.                                                    *)

\* The totals, as numbers that balance.
TotalsBalance(ht, rowSum, callSum, argumentSum, blocks, numbers) ==
    /\ ht.total_argument_count - ht.total_conflict_count = rowSum
    /\ ht.total_argument_count = argumentSum
    /\ ht.total_hit_count + ht.total_argument_count = callSum
    /\ ht.total_syscall_count = numbers
    /\ ht.total_process_count = blocks

TotalsBalanceNow ==
    TotalsBalance(hash_table, SumFunctionOnSet(RowCounts, Table),
                  SumFunctionOnSet(Calls, Table),
                  SumFunctionOnSet(BlockArguments, usable),
                  Cardinality(usable), Cardinality(syscall_number))

BlocksBalanceNow ==
    \A h \in usable :
        BlockBalances(per_process[h], TablesOf(h), Calls, Arguments, Conflicts)

LEMMA BalanceIs ==
  MetricsBalance <=> (draco_checker = "handler" => TotalsBalanceNow /\ BlocksBalanceNow)
BY DEF MetricsBalance, TotalsBalanceNow, BlocksBalanceNow, TotalsBalance, BlockBalances

\* The totals after a call that counts a, c and k.
LEMMA TotalsKept ==
  ASSUME TypeOK, Metered, NEW t \in Task, NEW s \in Syscall, NEW h \in Hook,
         Served(t, s, h), NEW a \in {0, 1}, NEW c \in {0, 1}, NEW k \in {0, 1},
         NEW n, NEW m, TotalsMove(t, s, a, c, k), BlockMoves(t, h, a, c, n, m),
         SumFunctionOnSet(RowCounts', Table)
           = SumFunctionOnSet(RowCounts, Table) + (a - c),
         SumFunctionOnSet(Calls', Table) = SumFunctionOnSet(Calls, Table) + (a + k)
  PROVE  IsFiniteSet(usable') /\ TotalsBalanceNow'
<1>1. TotalsBalanceNow /\ IsFiniteSet(usable)
  BY BalanceIs DEF Metered, Served
<1>2. syscall_number' = syscall_number \cup {s}
  BY DEF Served
<1>3. /\ IsFiniteSet(usable')
      /\ Cardinality(usable') = Cardinality(usable) + (IF HasHook(t) THEN 0 ELSE 1)
      /\ SumFunctionOnSet(BlockArguments', usable')
           = SumFunctionOnSet(BlockArguments, usable) + a
  BY <1>1, BlockSumMoves
<1>4. Cardinality(syscall_number')
        = Cardinality(syscall_number) + (IF s \in syscall_number THEN 0 ELSE 1)
  BY <1>2, NumbersMove
<1>5. /\ hash_table.total_argument_count \in Nat
      /\ hash_table.total_conflict_count \in Nat
      /\ hash_table.total_hit_count \in Nat
      /\ hash_table.total_syscall_count \in Nat
      /\ hash_table.total_process_count \in Nat
  BY DEF TypeOK, HashTable
<1>6. TotalsBalance(hash_table', SumFunctionOnSet(RowCounts', Table),
                    SumFunctionOnSet(Calls', Table),
                    SumFunctionOnSet(BlockArguments', usable'),
                    Cardinality(usable'), Cardinality(syscall_number'))
  <2>1. /\ hash_table'.total_argument_count - hash_table'.total_conflict_count
             = SumFunctionOnSet(RowCounts', Table)
        /\ hash_table'.total_hit_count + hash_table'.total_argument_count
             = SumFunctionOnSet(Calls', Table)
    BY <1>1, <1>5 DEF TotalsBalanceNow, TotalsBalance, TotalsMove
  <2>2. hash_table'.total_argument_count = SumFunctionOnSet(BlockArguments', usable')
    BY <1>1, <1>3 DEF TotalsBalanceNow, TotalsBalance, TotalsMove
  <2>3. /\ hash_table'.total_syscall_count = Cardinality(syscall_number')
        /\ hash_table'.total_process_count = Cardinality(usable')
    BY <1>1, <1>3, <1>4 DEF TotalsBalanceNow, TotalsBalance, TotalsMove
  <2> QED
    BY <2>1, <2>2, <2>3 DEF TotalsBalance
<1> QED
  BY <1>3, <1>6 DEF TotalsBalanceNow

\* The blocks other than that of the call are in use before it.
LEMMA OtherBlocks ==
  ASSUME NEW t, NEW s, NEW h, Served(t, s, h)
  PROVE  usable' \ {h} = usable \ {h}
BY DEF Served, Hooked

LEMMA LookupBalances ==
  ASSUME TypeOK, PoolOwned, Metered, NEW t \in Task, NEW s \in Syscall,
         NEW h \in Hook, Measured(t, s, h)
  PROVE  Metered'
<1>1. PICK i \in Table, tab \in SyscallTable, a \in {0, 1}, c \in {0, 1} :
        /\ c <= a
        /\ LookedUp(t, s, h, i, tab)
        /\ TotalsMove(t, s, a, c, 1 - a)
        /\ BlockMoves(t, h, a, c, IF Draws(t, s, h) THEN 1 ELSE 0, 1)
        /\ TableMoves(i, tab, a, c)
  BY DEF Measured
<1>2. Served(t, s, h)
  BY <1>1 DEF LookedUp
<1>3. FlagsFinite /\ MetricsBalance /\ BlocksBalanceNow
  BY <1>2, BalanceIs DEF Metered, FlagsFinite, Served
<1>4. /\ FlagsFinite'
      /\ SumsMove(RowCounts, RowCounts', t, h, a - c)
      /\ SumsMove(Calls, Calls', t, h, 1)
      /\ SumsMove(Arguments, Arguments', t, h, a)
      /\ SumsMove(Conflicts, Conflicts', t, h, c)
  BY <1>1, <1>3, LookupSumsMove
<1>5. IsFiniteSet(usable') /\ TotalsBalanceNow'
  <2>1. 1 - a \in {0, 1} /\ a + (1 - a) = 1
    OBVIOUS
  <2> DEFINE k == 1 - a
             n == IF Draws(t, s, h) THEN 1 ELSE 0
  <2>2. k \in {0, 1} /\ TotalsMove(t, s, a, c, k) /\ BlockMoves(t, h, a, c, n, 1)
    BY <1>1, <2>1
  <2>3. /\ SumFunctionOnSet(RowCounts', Table)
             = SumFunctionOnSet(RowCounts, Table) + (a - c)
        /\ SumFunctionOnSet(Calls', Table) = SumFunctionOnSet(Calls, Table) + (a + k)
    BY <1>4, <2>1 DEF SumsMove
  <2> HIDE DEF k, n
  <2> QED
    BY <1>2, <2>2, <2>3, TotalsKept
<1>6. /\ TablesOf(h)' = OldTables(t, h) \cup {i}
      /\ IF Draws(t, s, h) THEN i \notin OldTables(t, h) ELSE i \in OldTables(t, h)
      /\ \A g \in usable \ {h} : TablesOf(g)' = TablesOf(g)
  BY <1>1, LookupTables, PoolOwned
<1>7. Cardinality(TablesOf(h)')
        = Cardinality(OldTables(t, h)) + (IF Draws(t, s, h) THEN 1 ELSE 0)
  <2>1. IsFiniteSet(OldTables(t, h))
    BY OldTablesFinite
  <2>2. Cardinality(OldTables(t, h)) \in Nat
    BY <2>1, FS_CardinalityType
  <2>3. CASE Draws(t, s, h)
    BY <1>6, <2>1, <2>3, FS_AddElement
  <2>4. CASE ~ Draws(t, s, h)
    <3>1. TablesOf(h)' = OldTables(t, h)
      BY <1>6, <2>4
    <3> QED
      BY <2>2, <2>4, <3>1
  <2> QED
    BY <2>3, <2>4
<1>8. BlockBalances(per_process'[h], TablesOf(h)', Calls', Arguments', Conflicts')
  <2>1. BlockBalances(BlockOf(t, h), OldTables(t, h), Calls, Arguments, Conflicts)
    BY <1>2, <1>3, OldBlock
  <2>2. /\ per_process'[h].per_process_argument_count
             = SumFunctionOnSet(Arguments', TablesOf(h)')
        /\ per_process'[h].per_process_conflict_count
             = SumFunctionOnSet(Conflicts', TablesOf(h)')
    BY <1>1, <1>4, <2>1 DEF BlockBalances, BlockMoves, SumsMove
  <2>3. per_process'[h].per_process_syscall_count = Cardinality(TablesOf(h)')
    BY <1>1, <1>7, <2>1 DEF BlockBalances, BlockMoves
  <2>4. per_process'[h].per_process_call_count >= SumFunctionOnSet(Calls', TablesOf(h)')
    <3>1. BlockOf(t, h).per_process_call_count \in Nat
      BY FreshProcessType DEF BlockOf, TypeOK, PerProcess
    <3>2. SumFunctionOnSet(Calls, OldTables(t, h)) \in Nat
      <4>1. OldTables(t, h) \in SUBSET Table /\ IsFiniteSet(OldTables(t, h))
        BY OldTablesFinite
      <4>2. \A j \in Table : Calls[j] \in Nat
        BY DEF Calls, TypeOK, SyscallTable
      <4> QED
        BY <4>1, <4>2, SumNat
    <3> QED
      BY <1>1, <1>4, <2>1, <3>1, <3>2 DEF BlockBalances, BlockMoves, SumsMove
  <2> QED
    BY <2>2, <2>3, <2>4 DEF BlockBalances
<1>9. ASSUME NEW g \in usable' \ {h}
      PROVE  BlockBalances(per_process'[g], TablesOf(g)', Calls', Arguments', Conflicts')
  <2>1. g \in usable \ {h} /\ g \in Hook
    BY <1>2, OtherBlocks DEF TypeOK
  <2>2. per_process'[g] = per_process[g] /\ TablesOf(g)' = TablesOf(g)
    BY <1>1, <1>6, <2>1 DEF BlockMoves
  <2>3. BlockBalances(per_process[g], TablesOf(g), Calls, Arguments, Conflicts)
    BY <1>3, <2>1 DEF BlocksBalanceNow
  <2>4. /\ SumFunctionOnSet(Calls', TablesOf(g)') = SumFunctionOnSet(Calls, TablesOf(g))
        /\ SumFunctionOnSet(Arguments', TablesOf(g)')
             = SumFunctionOnSet(Arguments, TablesOf(g))
        /\ SumFunctionOnSet(Conflicts', TablesOf(g)')
             = SumFunctionOnSet(Conflicts, TablesOf(g))
    BY <1>4, <2>1 DEF SumsMove
  <2> QED
    BY <2>2, <2>3, <2>4 DEF BlockBalances
<1>10. BlocksBalanceNow'
  BY <1>8, <1>9 DEF BlocksBalanceNow
<1>11. MetricsBalance'
  BY <1>5, <1>10, BalanceIs, PTL
<1> QED
  BY <1>4, <1>5, <1>11 DEF Metered, FlagsFinite

LEMMA EarlyBalances ==
  ASSUME TypeOK, Metered, NEW t \in Task, NEW s \in Syscall, NEW h \in Hook,
         MeasuredEarly(t, s, h)
  PROVE  Metered'
<1>1. PICK m \in {0, 1} : BlockMoves(t, h, 0, 0, 0, m)
  BY DEF MeasuredEarly
<1>2. /\ Served(t, s, h)
      /\ pool' = pool
      /\ \A g \in Hook, r \in Syscall :
            TableAt(g, r)' = IF g = h /\ ~ HasHook(t) THEN NULL ELSE TableAt(g, r)
      /\ TotalsMove(t, s, 0, 0, 0)
  BY DEF MeasuredEarly, EndedEarly
<1>3. FlagsFinite /\ MetricsBalance /\ BlocksBalanceNow
  BY <1>2, BalanceIs DEF Metered, FlagsFinite, Served
<1>4. RowCounts' = RowCounts /\ Calls' = Calls /\ Arguments' = Arguments
      /\ Conflicts' = Conflicts
  BY <1>2 DEF RowCounts, Calls, Arguments, Conflicts
<1>5. FlagsFinite'
  BY <1>2, <1>3 DEF FlagsFinite
<1>6. IsFiniteSet(usable') /\ TotalsBalanceNow'
  <2>1. 0 \in {0, 1}
    OBVIOUS
  <2>2. /\ SumFunctionOnSet(RowCounts, Table) \in Nat
        /\ SumFunctionOnSet(Calls, Table) \in Nat
    <3>1. \A j \in Table : RowCounts[j] \in Nat
      BY <1>3, FS_CardinalityType DEF FlagsFinite, RowCounts
    <3>2. \A j \in Table : Calls[j] \in Nat
      BY DEF Calls, TypeOK, SyscallTable
    <3> QED
      BY <3>1, <3>2, TableFinite, SumNat
  <2>3. /\ SumFunctionOnSet(RowCounts', Table)
             = SumFunctionOnSet(RowCounts, Table) + (0 - 0)
        /\ SumFunctionOnSet(Calls', Table) = SumFunctionOnSet(Calls, Table) + (0 + 0)
    BY <1>4, <2>2
  <2> QED
    BY <1>1, <1>2, <2>1, <2>3, TotalsKept
<1>7. /\ TablesOf(h)' = OldTables(t, h)
      /\ \A g \in Hook \ {h} : TablesOf(g)' = TablesOf(g)
  BY <1>2 DEF TablesOf, OldTables
<1>8. BlockBalances(per_process'[h], TablesOf(h)', Calls', Arguments', Conflicts')
  <2>1. BlockBalances(BlockOf(t, h), OldTables(t, h), Calls, Arguments, Conflicts)
    BY <1>2, <1>3, OldBlock
  <2>2. /\ BlockOf(t, h).per_process_argument_count \in Nat
        /\ BlockOf(t, h).per_process_conflict_count \in Nat
        /\ BlockOf(t, h).per_process_syscall_count \in Nat
        /\ BlockOf(t, h).per_process_call_count \in Nat
    BY FreshProcessType DEF BlockOf, TypeOK, PerProcess
  <2>3. SumFunctionOnSet(Calls, OldTables(t, h)) \in Nat
    <3>1. OldTables(t, h) \in SUBSET Table /\ IsFiniteSet(OldTables(t, h))
      BY OldTablesFinite
    <3>2. \A j \in Table : Calls[j] \in Nat
      BY DEF Calls, TypeOK, SyscallTable
    <3> QED
      BY <3>1, <3>2, SumNat
  <2>4. /\ per_process'[h].per_process_argument_count
             = BlockOf(t, h).per_process_argument_count
        /\ per_process'[h].per_process_conflict_count
             = BlockOf(t, h).per_process_conflict_count
        /\ per_process'[h].per_process_syscall_count
             = BlockOf(t, h).per_process_syscall_count
        /\ per_process'[h].per_process_call_count
             = BlockOf(t, h).per_process_call_count + m
    BY <1>1, <2>2 DEF BlockMoves
  <2> QED
    BY <1>4, <1>7, <2>1, <2>2, <2>3, <2>4 DEF BlockBalances
<1>9. ASSUME NEW g \in usable' \ {h}
      PROVE  BlockBalances(per_process'[g], TablesOf(g)', Calls', Arguments', Conflicts')
  <2>1. g \in usable \ {h} /\ g \in Hook
    BY <1>2, OtherBlocks DEF TypeOK
  <2>2. per_process'[g] = per_process[g] /\ TablesOf(g)' = TablesOf(g)
    BY <1>1, <1>7, <2>1 DEF BlockMoves
  <2>3. BlockBalances(per_process[g], TablesOf(g), Calls, Arguments, Conflicts)
    BY <1>3, <2>1 DEF BlocksBalanceNow
  <2> QED
    BY <1>4, <2>2, <2>3
<1>10. BlocksBalanceNow'
  BY <1>8, <1>9 DEF BlocksBalanceNow
<1>11. MetricsBalance'
  BY <1>6, <1>10, BalanceIs, PTL
<1> QED
  BY <1>5, <1>6, <1>11 DEF Metered, FlagsFinite

\* What a call or an unload leaves alone when it reaches no block.
CachesSame == UNCHANGED <<draco_checker, per_process, usable, pool>>

LEMMA CachesSameBalance ==
  ASSUME CachesSame, Metered,
         hash_table'.total_argument_count = hash_table.total_argument_count,
         hash_table'.total_conflict_count = hash_table.total_conflict_count,
         hash_table'.total_hit_count = hash_table.total_hit_count,
         hash_table'.total_process_count = hash_table.total_process_count,
         draco_checker = "handler" /\ hash_table.total_syscall_count = Cardinality(syscall_number)
           => hash_table'.total_syscall_count = Cardinality(syscall_number')
  PROVE  Metered'
<1>1. /\ RowCounts' = RowCounts
      /\ Calls' = Calls
      /\ Arguments' = Arguments
      /\ Conflicts' = Conflicts
      /\ BlockArguments' = BlockArguments
      /\ \A h : TablesOf(h)' = TablesOf(h)
  BY DEF CachesSame, RowCounts, Calls, Arguments, Conflicts, BlockArguments,
         TablesOf, TableAt
<1>2. IsFiniteSet(usable') /\ \A i \in Table : IsFiniteSet(FlaggedSlots(pool'[i]))
  BY DEF CachesSame, Metered
<1>3. ASSUME draco_checker' = "handler" PROVE TotalsBalanceNow' /\ BlocksBalanceNow'
  <2>1. draco_checker = "handler" /\ TotalsBalanceNow /\ BlocksBalanceNow
    BY <1>3, BalanceIs DEF CachesSame, Metered
  <2>2. BlocksBalanceNow'
    BY <1>1, <2>1 DEF CachesSame, BlocksBalanceNow
  <2>3. TotalsBalanceNow'
    BY <1>1, <2>1 DEF CachesSame, TotalsBalanceNow, TotalsBalance
  <2> QED
    BY <2>2, <2>3
<1>4. MetricsBalance'
  <2>1. (draco_checker = "handler" => TotalsBalanceNow /\ BlocksBalanceNow)'
    BY <1>3
  <2> QED
    BY <2>1, BalanceIs, PTL
<1> QED
  BY <1>2, <1>4 DEF Metered

LEMMA ProcessFailureBalances ==
  ASSUME TypeOK, Metered, NEW t, NEW s, HandleProcessFailure(t, s)
  PROVE  Metered'
<1>1. /\ CachesSame
      /\ syscall_number' = syscall_number \cup {s}
      /\ hash_table' = Counted(s)
  BY DEF HandleProcessFailure, CachesSame, Count
<1>2. hash_table \in HashTable
  BY DEF TypeOK
<1>3. /\ hash_table'.total_argument_count = hash_table.total_argument_count
      /\ hash_table'.total_conflict_count = hash_table.total_conflict_count
      /\ hash_table'.total_hit_count = hash_table.total_hit_count
      /\ hash_table'.total_process_count = hash_table.total_process_count
      /\ hash_table'.total_syscall_count
           = hash_table.total_syscall_count + (IF s \in syscall_number THEN 0 ELSE 1)
  BY <1>1, <1>2, CountedCounts
<1>4. Cardinality(syscall_number')
        = Cardinality(syscall_number) + (IF s \in syscall_number THEN 0 ELSE 1)
  BY <1>1, NumbersMove
<1> QED
  BY <1>1, <1>3, <1>4, CachesSameBalance

LEMMA OutOfRangeBalances ==
  ASSUME Metered, NEW t, NEW s, HandleOutOfRange(t, s)
  PROVE  Metered'
<1>1. CachesSame /\ hash_table' = hash_table /\ syscall_number' = syscall_number
  BY DEF HandleOutOfRange, CachesSame
<1> QED
  BY <1>1, CachesSameBalance

LEMMA QuietBalances ==
  ASSUME Metered, ModuleSame
  PROVE  Metered'
<1>1. CachesSame /\ hash_table' = hash_table /\ syscall_number' = syscall_number
  BY DEF ModuleSame, CachesSame
<1> QED
  BY <1>1, CachesSameBalance

LEMMA HandleBalances ==
  ASSUME MInv, Metered, NEW t \in Task, NEW s, NEW regs \in Regs, Handle(t, s, regs)
  PROVE  Metered'
<1>1. TypeOK /\ AllSound /\ PoolOwned
  BY DEF MInv
<1>2. CASE HandleOutOfRange(t, s)
  BY <1>2, OutOfRangeBalances
<1>3. CASE HandleProcessFailure(t, s)
  BY <1>1, <1>3, ProcessFailureBalances
<1>4. ASSUME NEW h \in Hook, HandleNodeFailure(t, s, h) PROVE Metered'
  <2>1. s \in Syscall /\ MeasuredEarly(t, s, h)
    BY <1>1, <1>4, NodeFailureMeasured
  <2> QED
    BY <1>1, <2>1, EarlyBalances
<1>5. ASSUME NEW h \in Hook, HandlePoolEmpty(t, s, h, regs) PROVE Metered'
  <2>1. s \in Syscall /\ MeasuredEarly(t, s, h)
    BY <1>1, <1>5, PoolEmptyMeasured
  <2> QED
    BY <1>1, <2>1, EarlyBalances
<1>6. ASSUME NEW h \in Hook, NEW w \in Way, HandleHit(t, s, h, regs, w) PROVE Metered'
  <2>1. s \in Syscall /\ Measured(t, s, h)
    BY <1>1, <1>6, HitMeasured
  <2> QED
    BY <1>1, <2>1, LookupBalances
<1>7. ASSUME NEW h \in Hook, HandleConflict(t, s, h, regs) PROVE Metered'
  <2>1. s \in Syscall /\ Measured(t, s, h)
    BY <1>1, <1>7, ConflictMeasured
  <2> QED
    BY <1>1, <2>1, LookupBalances
<1>8. ASSUME NEW h \in Hook, NEW w \in Way, HandleInsert(t, s, h, regs, w)
      PROVE  Metered'
  <2>1. s \in Syscall /\ Measured(t, s, h)
    BY <1>1, <1>8, InsertMeasured
  <2> QED
    BY <1>1, <2>1, LookupBalances
<1> QED
  BY <1>2, <1>3, <1>4, <1>5, <1>6, <1>7, <1>8 DEF Handle

\* insmod starts from a blank pool and no block in use.
LEMMA LoadBalances ==
  ASSUME MInv, DracoInit
  PROVE  Metered'
<1>1. /\ hash_table' = FreshHashTable
      /\ pool' = [i \in Table |-> BlankTable]
      /\ syscall_number' = {}
      /\ usable' = {}
  BY DEF DracoInit, MInv, HooksLive
<1>2. \A i \in Table : pool'[i] = BlankTable
  BY <1>1
<1>3. IsFiniteSet(usable') /\ \A i \in Table : IsFiniteSet(FlaggedSlots(pool'[i]))
  BY <1>1, <1>2, BlankCounts, FS_EmptySet
<1>4. /\ SumFunctionOnSet(RowCounts', Table) = 0
      /\ SumFunctionOnSet(Calls', Table) = 0
  <2>1. \A i \in Table : RowCounts'[i] = 0
    BY <1>2, BlankCounts, FS_EmptySet DEF RowCounts
  <2>2. \A i \in Table : Calls'[i] = 0
    BY <1>2 DEF Calls, BlankTable
  <2> QED
    BY <2>1, <2>2, TableFinite, SumZero
<1>5. SumFunctionOnSet(BlockArguments', usable') = 0
  BY <1>1, FS_EmptySet, SumStep
<1>6. Cardinality(usable') = 0 /\ Cardinality(syscall_number') = 0
  BY <1>1, FS_EmptySet
<1>7. TotalsBalanceNow'
  BY <1>1, <1>4, <1>5, <1>6 DEF TotalsBalanceNow, TotalsBalance, FreshHashTable
<1>8. BlocksBalanceNow'
  BY <1>1 DEF BlocksBalanceNow
<1>9. MetricsBalance'
  BY <1>7, <1>8, BalanceIs, PTL
<1> QED
  BY <1>3, <1>9 DEF Metered

LEMMA UnloadBalances ==
  ASSUME Metered, DracoExit
  PROVE  Metered'
<1>1. /\ draco_checker' = "empty_draco"
      /\ usable' = {}
      /\ pool' = pool
  BY DEF DracoExit
<1>2. MetricsBalance'
  BY <1>1 DEF MetricsBalance
<1> QED
  BY <1>1, <1>2, FS_EmptySet DEF Metered

LEMMA InitMetered == Init => Metered
<1> SUFFICES ASSUME Init PROVE Metered
  OBVIOUS
<1>1. /\ draco_checker = "empty_draco"
      /\ usable = {}
      /\ pool = [i \in Table |-> BlankTable]
  BY DEF Init, ModuleInit
<1> QED
  BY <1>1, BlankCounts, FS_EmptySet DEF Metered, MetricsBalance

LEMMA NextMetered == MInv /\ Metered /\ [Next]_vars => Metered'
<1> SUFFICES ASSUME MInv, Metered, [Next]_vars PROVE Metered'
  OBVIOUS
<1>1. CASE Profile
  BY <1>1, QuietBalances DEF Profile, ModuleSame
<1>2. CASE UNCHANGED vars
  BY <1>2, QuietBalances DEF vars, ModuleSame
<1> QED
  BY <1>1, <1>2, HandleBalances, LoadBalances, UnloadBalances DEF Next

\* The metrics rmmod prints add up.
THEOREM MetricsAlwaysBalance == Spec => []MetricsBalance
<1>1. Metered => MetricsBalance
  BY DEF Metered
<1> QED
  BY <1>1, InitMetered, NextMetered, AlwaysInv, PTL DEF Spec

LEMMA SCNextMetered == MInv /\ Metered /\ [SCNext]_scVars => Metered'
<1> SUFFICES ASSUME MInv, Metered, [SCNext]_scVars PROVE Metered'
  OBVIOUS
<1>1. TypeOK /\ AllSound
  BY DEF MInv
<1>2. ASSUME NEW t \in Task, NEW r \in Rule, NEW taken, RuleAdd(t, r, taken)
      PROVE  Metered'
  BY <1>1, <1>2, RuleAddChanges, QuietBalances
<1>3. ASSUME NEW t \in Task, FilterLoad(t) PROVE Metered'
  BY <1>1, <1>3, FilterLoadChanges, QuietBalances
<1>4. ASSUME NEW t \in Task, FilterLoadFails(t) PROVE Metered'
  BY <1>1, <1>4, FilterLoadFailsChanges, QuietBalances
<1>5. ASSUME NEW t \in Task, NEW u \in Task, SCFork(t, u) PROVE Metered'
  BY <1>1, <1>5, SCForkChanges, QuietBalances
<1>6. ASSUME NEW t \in Task, NEW s, NEW regs \in Regs, SystemCall(t, s, regs)
      PROVE  Metered'
  BY <1>6, HandleBalances DEF SystemCall
<1>7. ASSUME UNCHANGED vars PROVE Metered'
  BY <1>7, QuietBalances DEF vars, ModuleSame
<1>8. ASSUME NEW t \in Task, FilterReset(t) PROVE UNCHANGED vars
  BY <1>8 DEF FilterReset
<1>9. ASSUME NEW t, NEW s, NEW regs, SystemCallUnchecked(t, s, regs)
      PROVE  UNCHANGED vars
  BY <1>9 DEF SystemCallUnchecked
<1>10. UNCHANGED scVars => UNCHANGED vars
  BY DEF scVars
<1> QED
  BY <1>2, <1>3, <1>4, <1>5, <1>6, <1>7, <1>8, <1>9, <1>10,
     LoadBalances, UnloadBalances DEF SCNext

\* They add up under every program.
THEOREM SCMetricsAlwaysBalance == SCSpec => []MetricsBalance
<1>1. SCInit => Metered
  BY InitMetered DEF SCInit
<1>2. Metered => MetricsBalance
  BY DEF Metered
<1> QED
  BY <1>1, <1>2, SCNextMetered, SCAlwaysInv, PTL DEF SCSpec

=============================================================================
