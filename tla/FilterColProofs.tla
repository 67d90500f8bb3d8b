----------------------------- MODULE FilterColProofs ------------------------------
(***************************************************************************)
(* Proofs about FilterCol: the byte order of a collection, what a merge    *)
(* keeps and thread synchronisation, for any contexts, architectures,      *)
(* tables of calls, rules and any operations on a single filter.           *)
(*                                                                         *)
(* Adding a rule folds over the filters; that the fold is defined, and     *)
(* what it preserves, is shown by the smallest set of filters for which it *)
(* would not be (SmallestOf).                                              *)
(*                                                                         *)
(* The last part is about accepted and refused rules. What a filter alone  *)
(* makes of a rule is its hypothesis (FiltersKeepWord).                    *)
(***************************************************************************)
EXTENDS FilterCol, FunctionTheorems, FiniteSetTheorems, SequenceTheorems,
        WellFoundedInduction, TLAPS

-----------------------------------------------------------------------------
(* Lists of filters.                                                       *)

IsFilter(f) ==
    f \in [arch : Arch, h : {f.h}, sys : {f.sys}, rules : {f.rules},
           promised : {f.promised}]

FilterList(fs) == \E S : fs \in Seq(S) /\ \A f \in S : IsFilter(f)

\* A list with the architectures of another, in the same places.
KeepsArchs(fs, gs) ==
    /\ FilterList(gs)
    /\ DOMAIN gs = DOMAIN fs
    /\ \A i \in DOMAIN fs : gs[i].arch = fs[i].arch

LEMMA ListParts ==
  ASSUME NEW fs, FilterList(fs)
  PROVE  /\ Len(fs) \in Nat /\ DOMAIN fs = 1 .. Len(fs)
         /\ fs = [i \in 1 .. Len(fs) |-> fs[i]]
         /\ \A i \in DOMAIN fs : IsFilter(fs[i])
<1>1. PICK S : fs \in Seq(S) /\ \A f \in S : IsFilter(f)
  BY DEF FilterList
<1>2. Len(fs) \in Nat /\ fs \in [1 .. Len(fs) -> S] /\ DOMAIN fs = 1 .. Len(fs)
  BY <1>1, LenProperties
<1> QED
  BY <1>1, <1>2

LEMMA ListOf ==
  ASSUME NEW n \in Nat, NEW fs, fs = [i \in 1 .. n |-> fs[i]],
         \A i \in 1 .. n : IsFilter(fs[i])
  PROVE  FilterList(fs) /\ DOMAIN fs = 1 .. n /\ Len(fs) = n
<1> DEFINE S == {fs[i] : i \in 1 .. n}
<1>1. DOMAIN fs = 1 .. n
  <2>1. DOMAIN [i \in 1 .. n |-> fs[i]] = 1 .. n
    OBVIOUS
  <2> QED
    BY <2>1, Zenon
<1>2. fs \in [1 .. n -> S]
  <2>1. [i \in 1 .. n |-> fs[i]] \in [1 .. n -> S]
    OBVIOUS
  <2> QED
    BY <2>1, Zenon
<1>3. fs \in Seq(S)
  BY <1>2, SeqDef
<1>4. Len(fs) = n
  BY <1>1, <1>3, LenProperties
<1>5. \A f \in S : IsFilter(f)
  OBVIOUS
<1> HIDE DEF S
<1> QED
  BY <1>1, <1>3, <1>4, <1>5 DEF FilterList

LEMMA KeepsRefl == ASSUME NEW fs, FilterList(fs) PROVE KeepsArchs(fs, fs)
BY DEF KeepsArchs

LEMMA KeepsTrans ==
  ASSUME NEW fs, NEW gs, NEW hs, KeepsArchs(fs, gs), KeepsArchs(gs, hs)
  PROVE  KeepsArchs(fs, hs)
BY DEF KeepsArchs

\* A list built from another one filter by filter.
LEMMA KeepsEach ==
  ASSUME NEW fs, FilterList(fs), NEW gs, gs = [i \in DOMAIN fs |-> gs[i]],
         \A i \in DOMAIN fs : IsFilter(gs[i]) /\ gs[i].arch = fs[i].arch
  PROVE  KeepsArchs(fs, gs)
<1>1. Len(fs) \in Nat /\ DOMAIN fs = 1 .. Len(fs)
  BY ListParts
<1>2. gs = [i \in 1 .. Len(fs) |-> gs[i]]
  BY <1>1
<1>3. FilterList(gs) /\ DOMAIN gs = 1 .. Len(fs)
  BY <1>1, <1>2, ListOf
<1> QED
  BY <1>1, <1>3 DEF KeepsArchs

-----------------------------------------------------------------------------
(* One filter is given a rule.                                             *)

LEMMA WithDbKeeps ==
  ASSUME NEW f, IsFilter(f), NEW db
  PROVE  IsFilter(WithDb(f, db)) /\ WithDb(f, db).arch = f.arch
BY DEF WithDb, IsFilter

LEMMA TookKeeps ==
  ASSUME NEW f, IsFilter(f), NEW rule
  PROVE  IsFilter(Took(f, rule).f) /\ Took(f, rule).f.arch = f.arch
<1>1. PICK kept, db, g :
         /\ g = IF db.rc = "ok" THEN [f EXCEPT !.rules = @ \o kept] ELSE f
         /\ Took(f, rule).f = WithDb(g, db)
  BY DEF Took, Taken
<1> DEFINE r == f.rules \o kept
<1>2. g = IF db.rc = "ok" THEN [f EXCEPT !.rules = r] ELSE f
  BY <1>1
<1> HIDE DEF r
<1>3. IsFilter(g) /\ g.arch = f.arch
  BY <1>2 DEF IsFilter
<1>4. IsFilter(WithDb(g, db)) /\ WithDb(g, db).arch = g.arch
  BY <1>3, WithDbKeeps
<1> QED
  BY <1>1, <1>3, <1>4, Zenon

LEMMA AddedIs ==
  ASSUME NEW fs, NEW i, NEW rule
  PROVE  /\ Added(fs, i, rule) = [fs |-> [fs EXCEPT ![i] = Took(fs[i], rule).f],
                                  rc |-> Took(fs[i], rule).rc]
BY DEF Added

LEMMA AddedKeeps ==
  ASSUME NEW fs, FilterList(fs), NEW i \in DOMAIN fs, NEW rule
  PROVE  KeepsArchs(fs, Added(fs, i, rule).fs)
<1> DEFINE g == Took(fs[i], rule).f
<1>1. IsFilter(g) /\ g.arch = fs[i].arch
  BY ListParts, TookKeeps
<1> HIDE DEF g
<1> DEFINE gs == [fs EXCEPT ![i] = g]
<1>2. gs = [j \in DOMAIN fs |-> gs[j]]
  OBVIOUS
<1>3. \A j \in DOMAIN fs : IsFilter(gs[j]) /\ gs[j].arch = fs[j].arch
  BY <1>1, ListParts
<1>4. KeepsArchs(fs, gs)
  <2> HIDE DEF gs
  <2> QED
    BY <1>2, <1>3, KeepsEach
<1> QED
  BY <1>4, AddedIs DEF g

LEMMA AbortedKeeps ==
  ASSUME NEW fs, FilterList(fs), NEW snap
  PROVE  KeepsArchs(fs, Aborted(fs, snap))
<1> DEFINE gs == Aborted(fs, snap)
<1>1. gs = [i \in DOMAIN fs |-> WithDb(fs[i], snap[i])]
  BY DEF Aborted
<1>2. \A i \in DOMAIN fs : IsFilter(gs[i]) /\ gs[i].arch = fs[i].arch
  BY <1>1, ListParts, WithDbKeeps
<1>3. gs = [i \in DOMAIN fs |-> gs[i]]
  BY <1>1, Zenon
<1> HIDE DEF gs
<1> QED
  BY <1>2, <1>3, KeepsEach DEF gs

LEMMA FilterRuleAddKeeps ==
  ASSUME NEW fs, FilterList(fs), NEW i \in DOMAIN fs, NEW strict, NEW rule
  PROVE  KeepsArchs(fs, FilterRuleAdd(fs, i, strict, rule).fs)
<1>1. \E r : LET a == Added(fs, i, r)
             IN  \/ FilterRuleAdd(fs, i, strict, rule).fs = fs
                 \/ FilterRuleAdd(fs, i, strict, rule) = a
                 \/ FilterRuleAdd(fs, i, strict, rule) = Transaction(fs, a, Snapshot(fs))
  BY Zenon DEF FilterRuleAdd
<1>2. PICK r : LET a == Added(fs, i, r)
               IN  \/ FilterRuleAdd(fs, i, strict, rule).fs = fs
                   \/ FilterRuleAdd(fs, i, strict, rule) = a
                   \/ FilterRuleAdd(fs, i, strict, rule) = Transaction(fs, a, Snapshot(fs))
  BY <1>1, Zenon
<1> DEFINE a == Added(fs, i, r)
<1>3. KeepsArchs(fs, a.fs)
  BY AddedKeeps
<1>4. KeepsArchs(fs, Transaction(fs, a, Snapshot(fs)).fs)
  <2> DEFINE snap == Snapshot(fs)
             gs == Aborted(a.fs, snap)
  <2>1. KeepsArchs(fs, gs)
    BY <1>3, AbortedKeeps, KeepsTrans DEF KeepsArchs
  <2>2. a = [fs |-> a.fs, rc |-> a.rc]
    BY DEF Added
  <2>3. [a EXCEPT !.fs = gs].fs = gs
    <3> HIDE DEF gs, a
    <3> QED
      BY <2>2
  <2>4. Transaction(fs, a, snap).fs \in {fs, gs, a.fs}
    <3> HIDE DEF snap, a
    <3> QED
      BY <2>3 DEF Transaction
  <2> HIDE DEF gs, a
  <2> QED
    BY <1>3, <2>1, <2>4, KeepsRefl
<1> HIDE DEF a
<1> QED
  BY <1>2, <1>3, <1>4, KeepsRefl DEF a

-----------------------------------------------------------------------------
(* The fold over the filters. x packs what it is of: the filters, strict,  *)
(* and the rule.                                                           *)

Highest(s) == Max(s)
Ask(x, acc, i) ==
    Answered(acc, FilterRuleAdd(acc.fs, i, x.strict, x.rule), x.fs[i].arch)
Index(x) == [i \in DOMAIN x.fs |-> i]
Nobody(x) == [fs |-> x.fs, rc |-> "ok", refused |-> {}]

\* iter folds over every part of the set S of filters.
Folds(iter, x, S) ==
    iter = [s \in SUBSET S |-> IF s = {} THEN Nobody(x)
                               ELSE Ask(x, iter[s \ {Highest(s)}], Index(x)[Highest(s)])]
Folded(x, S) == CHOOSE iter : Folds(iter, x, S)

LEMMA ColRuleAddFolds ==
  ASSUME NEW fs, NEW strict, NEW rule
  PROVE  LET x == [fs |-> fs, strict |-> strict, rule |-> rule]
         IN  ColRuleAdd(fs, strict, rule) = Folded(x, DOMAIN Index(x))[DOMAIN Index(x)]
<1> DEFINE x == [fs |-> fs, strict |-> strict, rule |-> rule]
<1>1. x.fs = fs /\ x.strict = strict /\ x.rule = rule
  OBVIOUS
<1> HIDE DEF x
<1> SUFFICES ColRuleAdd(fs, strict, rule) = Folded(x, DOMAIN Index(x))[DOMAIN Index(x)]
  BY Zenon DEF x
<1>2. ColRuleAdd(x.fs, x.strict, x.rule) = Folded(x, DOMAIN Index(x))[DOMAIN Index(x)]
  BY Zenon DEF ColRuleAdd, FoldLeftDomain, FoldLeft, MapThenFoldSet, Folded, Folds,
               Ask, Index, Nobody, Highest
<1> QED
  BY <1>1, <1>2, Zenon

LEMMA SmallestOf ==
  ASSUME NEW S, IsFiniteSet(S), NEW B, B \subseteq SUBSET S, B # {}
  PROVE  \E m \in B : \A U \in B : U \subseteq m => U = m
<1>1. IsWellFoundedOn(StrictSubsetOrdering(S), SUBSET S)
  BY FS_StrictSubsetOrderingWellFounded, FS_FiniteSubsetsOfFinite
<1>2. PICK m \in B : \A U \in B : <<U, m>> \notin StrictSubsetOrdering(S)
  BY <1>1, WFMin, Zenon
<1> QED
  BY <1>2 DEF StrictSubsetOrdering

\* Some of the numbers up to n have a least one: the numbers below it, of
\* which it leaves fewest, would otherwise leave fewer.
LEMMA LeastOf ==
  ASSUME NEW n \in Nat, NEW s \in SUBSET (1 .. n), s # {}
  PROVE  \E m \in s : \A k \in s : m <= k
<1> DEFINE below(m) == {k \in 1 .. n : k < m}
           D == 1 .. n
           B == {below(m) : m \in s}
<1>1. B \subseteq SUBSET D /\ B # {}
  OBVIOUS
<1>2. IsFiniteSet(D)
  BY FS_Interval
<1>3. PICK u \in B : \A v \in B : v \subseteq u => v = u
  <2> HIDE DEF B, D
  <2> QED
    BY <1>1, <1>2, SmallestOf
<1>4. PICK m \in s : u = below(m)
  BY <1>3
<1>5. \A k \in s : below(k) \in B
  OBVIOUS
<1>6. \A k \in s : below(k) \subseteq below(m) => below(k) = below(m)
  <2> HIDE DEF B, below
  <2> QED
    BY <1>3, <1>4, <1>5
<1>7. ASSUME NEW k \in s, k < m PROVE FALSE
  <2>1. below(k) \subseteq below(m) /\ k \in below(m) /\ k \notin below(k)
    BY <1>7
  <2> QED
    BY <1>6, <2>1
<1> QED
  BY <1>7

LEMMA HighestIsIn ==
  ASSUME NEW n \in Nat, NEW s \in SUBSET (1 .. n), s # {}
  PROVE  Highest(s) \in s
<1> DEFINE u == {n + 1 - k : k \in s}
<1>1. u \in SUBSET (1 .. n) /\ u # {}
  OBVIOUS
<1>2. PICK m \in u : \A k \in u : m <= k
  <2> HIDE DEF u
  <2> QED
    BY <1>1, LeastOf
<1>3. PICK l \in s : m = n + 1 - l
  BY <1>2
<1>4. \A k \in s : l >= k
  <2> SUFFICES ASSUME NEW k \in s PROVE l >= k
    OBVIOUS
  <2>1. m <= n + 1 - k
    BY <1>2
  <2> QED
    BY <1>3, <2>1
<1> QED
  BY <1>4 DEF Highest, Max

LEMMA FoldsAt ==
  ASSUME NEW x, NEW S, NEW g, Folds(g, x, S), NEW s, s \subseteq S
  PROVE  /\ s = {} => g[s] = Nobody(x)
         /\ s # {} => g[s] = Ask(x, g[s \ {Highest(s)}], Index(x)[Highest(s)])
<1>1. s \in SUBSET S
  OBVIOUS
<1>2. g[s] = IF s = {} THEN Nobody(x)
                       ELSE Ask(x, g[s \ {Highest(s)}], Index(x)[Highest(s)])
  BY <1>1, Zenon DEF Folds
<1> QED
  BY <1>2


\* What the lemmas on folds ask of the set: places of a list.
Places(S) == \E n \in Nat : S \subseteq 1 .. n

LEMMA PlacesParts ==
  ASSUME NEW S, Places(S)
  PROVE  IsFiniteSet(S) /\ \A s \in SUBSET S : Places(s) /\ (s # {} => Highest(s) \in s)
<1>1. PICK n \in Nat : S \subseteq 1 .. n
  BY DEF Places
<1>2. IsFiniteSet(S)
  <2>1. IsFiniteSet(1 .. n)
    BY FS_Interval
  <2> QED
    BY <1>1, <2>1, FS_Subset
<1>3. \A s \in SUBSET S : Places(s) /\ s \in SUBSET (1 .. n)
  BY <1>1 DEF Places
<1> QED
  BY <1>2, <1>3, HighestIsIn

LEMMA FoldsAgree ==
  ASSUME NEW x, NEW S, Places(S), NEW T, NEW g, NEW h,
         Folds(g, x, S), Folds(h, x, T), NEW s, s \subseteq S, s \subseteq T
  PROVE  g[s] = h[s]
<1> DEFINE B == {u \in SUBSET S : u \subseteq T /\ g[u] # h[u]}
<1>1. SUFFICES ASSUME B # {} PROVE FALSE
  OBVIOUS
<1>2. PICK m \in B : \A u \in B : u \subseteq m => u = m
  <2>1. B \subseteq SUBSET S /\ IsFiniteSet(S)
    BY PlacesParts
  <2> HIDE DEF B
  <2> QED
    BY <1>1, <2>1, SmallestOf
<1>3. m # {} /\ Highest(m) \in m
  <2>1. m # {}
    BY FoldsAt
  <2> QED
    BY <2>1, PlacesParts
<1> DEFINE n == m \ {Highest(m)}
<1>4. n \notin B /\ n \subseteq S /\ n \subseteq T
  BY <1>2, <1>3
<1>5. g[n] = h[n]
  BY <1>4
<1>6. m \subseteq S /\ m \subseteq T /\ g[m] # h[m]
  OBVIOUS
<1> HIDE DEF B
<1>7. g[m] = Ask(x, g[n], Index(x)[Highest(m)])
  BY <1>3, <1>6, FoldsAt
<1>8. h[m] = Ask(x, h[n], Index(x)[Highest(m)])
  BY <1>3, <1>6, FoldsAt
<1> HIDE DEF n
<1> QED
  BY <1>5, <1>6, <1>7, <1>8

LEMMA FoldExists ==
  ASSUME NEW x, NEW S, Places(S)
  PROVE  Folds(Folded(x, S), x, S)
<1> DEFINE B == {u \in SUBSET S : ~ \E g : Folds(g, x, u)}
<1>1. SUFFICES B = {}
  <2>1. \E g : Folds(g, x, S)
    BY <1>1
  <2> QED
    BY <2>1 DEF Folded
<1>2. SUFFICES ASSUME B # {} PROVE FALSE
  OBVIOUS
<1>3. PICK m \in B : \A u \in B : u \subseteq m => u = m
  <2>1. B \subseteq SUBSET S /\ IsFiniteSet(S)
    BY PlacesParts
  <2> HIDE DEF B
  <2> QED
    BY <1>2, <2>1, SmallestOf
<1>4. \A u \in SUBSET m : u # m => Folds(Folded(x, u), x, u)
  <2> SUFFICES ASSUME NEW u \in SUBSET m, u # m PROVE Folds(Folded(x, u), x, u)
    OBVIOUS
  <2>1. \E g : Folds(g, x, u)
    BY <1>3
  <2> QED
    BY <2>1 DEF Folded
<1>5. \A u \in SUBSET m : Places(u) /\ (u # {} => Highest(u) \in u)
  BY PlacesParts
<1> DEFINE below(u) == Folded(x, u)[u]
           asked(u) == Ask(x, below(u \ {Highest(u)}), Index(x)[Highest(u)])
           value(u) == IF u = {} THEN Nobody(x) ELSE asked(u)
           g == [u \in SUBSET m |-> value(u)]
<1>6. ASSUME NEW u \in SUBSET m, u # m PROVE below(u) = value(u)
  <2>1. Folds(Folded(x, u), x, u)
    BY <1>4, <1>6
  <2>2. CASE u = {}
    BY <2>1, <2>2, FoldsAt
  <2>3. CASE u # {}
    <3> DEFINE v == u \ {Highest(u)}
    <3>1. v \in SUBSET m /\ v # m /\ v \subseteq u
      BY <1>5, <2>3
    <3>2. Folds(Folded(x, v), x, v)
      BY <1>4, <3>1
    <3>3. Folded(x, u)[u] = Ask(x, Folded(x, u)[v], Index(x)[Highest(u)])
      BY <2>1, <2>3, FoldsAt
    <3> HIDE DEF v
    <3>4. Folded(x, u)[v] = Folded(x, v)[v]
      BY <1>5, <2>1, <3>1, <3>2, FoldsAgree
    <3> QED
      BY <2>3, <3>3, <3>4 DEF v
  <2> QED
    BY <2>2, <2>3
<1>7. \A u \in SUBSET m : u # {} => g[u] = Ask(x, g[u \ {Highest(u)}], Index(x)[Highest(u)])
  <2> SUFFICES ASSUME NEW u \in SUBSET m, u # {}
               PROVE  g[u] = Ask(x, g[u \ {Highest(u)}], Index(x)[Highest(u)])
    OBVIOUS
  <2> DEFINE v == u \ {Highest(u)}
  <2>1. v \in SUBSET m /\ v # m
    BY <1>5
  <2>2. g[u] = Ask(x, below(v), Index(x)[Highest(u)])
    OBVIOUS
  <2>3. below(v) = value(v)
    <3> HIDE DEF v, below, value
    <3> QED
      BY <1>6, <2>1
  <2>4. g[v] = value(v)
    <3> HIDE DEF v, value
    <3> QED
      BY <2>1
  <2> HIDE DEF g, below, value
  <2> QED
    BY <2>2, <2>3, <2>4
<1>8. g[{}] = Nobody(x)
  OBVIOUS
<1>9. g = [u \in SUBSET m |-> g[u]]
  BY Zenon
<1>10. \A u \in SUBSET m : g[u] = IF u = {} THEN Nobody(x)
                                  ELSE Ask(x, g[u \ {Highest(u)}], Index(x)[Highest(u)])
  <2> HIDE DEF g
  <2> QED
    BY <1>7, <1>8
<1>11. Folds(g, x, m)
  <2> HIDE DEF g
  <2>1. [u \in SUBSET m |-> g[u]]
          = [u \in SUBSET m |-> IF u = {} THEN Nobody(x)
                                ELSE Ask(x, g[u \ {Highest(u)}], Index(x)[Highest(u)])]
    BY <1>10, Zenon
  <2> QED
    BY <1>9, <2>1 DEF Folds
<1> QED
  BY <1>11

\* The architectures stay where they are, whatever filter says what.
LEMMA ColRuleAddKeeps ==
  ASSUME NEW fs, FilterList(fs), NEW strict, NEW rule
  PROVE  KeepsArchs(fs, ColRuleAdd(fs, strict, rule).fs)
<1> DEFINE x == [fs |-> fs, strict |-> strict, rule |-> rule]
           S == DOMAIN fs
           g == Folded(x, S)
<1>1. x.fs = fs /\ DOMAIN Index(x) = S /\ \A i \in S : Index(x)[i] = i
  BY DEF Index
<1>2. ColRuleAdd(fs, strict, rule) = g[S]
  <2>1. ColRuleAdd(fs, strict, rule) = Folded(x, DOMAIN Index(x))[DOMAIN Index(x)]
    BY ColRuleAddFolds
  <2> QED
    BY <1>1, <2>1, Zenon
<1>3. Places(S)
  BY ListParts DEF Places
<1>4. Folds(g, x, S)
  BY <1>3, FoldExists
<1> HIDE DEF x, g
<1> DEFINE B == {s \in SUBSET S : ~ KeepsArchs(fs, g[s].fs)}
<1>5. SUFFICES ASSUME B # {} PROVE FALSE
  BY <1>2
<1>6. PICK m \in B : \A u \in B : u \subseteq m => u = m
  <2>1. B \subseteq SUBSET S /\ IsFiniteSet(S)
    BY <1>3, PlacesParts
  <2> HIDE DEF B
  <2> QED
    BY <1>5, <2>1, SmallestOf
<1>7. m \in SUBSET S /\ ~ KeepsArchs(fs, g[m].fs)
  OBVIOUS
<1>8. m # {}
  <2>1. m = {} => g[m] = Nobody(x)
    BY <1>4, FoldsAt
  <2> QED
    BY <1>1, <1>7, <2>1, KeepsRefl DEF Nobody
<1> DEFINE n == m \ {Highest(m)}
<1>9. Highest(m) \in m /\ n \notin B /\ n \subseteq S
  BY <1>3, <1>6, <1>8, PlacesParts
<1>10. KeepsArchs(fs, g[n].fs)
  BY <1>9
<1>11. g[m] = Ask(x, g[n], Highest(m))
  BY <1>1, <1>4, <1>7, <1>8, <1>9, FoldsAt
<1> HIDE DEF B, n
<1>12. FilterList(g[n].fs) /\ Highest(m) \in DOMAIN g[n].fs
  BY <1>7, <1>9, <1>10 DEF KeepsArchs
<1>13. g[m].fs = FilterRuleAdd(g[n].fs, Highest(m), x.strict, x.rule).fs
  BY <1>11 DEF Ask, Answered
<1>14. KeepsArchs(g[n].fs, g[m].fs)
  BY <1>12, <1>13, FilterRuleAddKeeps
<1> QED
  BY <1>7, <1>10, <1>14, KeepsTrans

-----------------------------------------------------------------------------
(* What a call makes of a list of filters.                                 *)

LEMMA ListEmpty ==
  ASSUME NEW fs, FilterList(fs)
  PROVE  Len(fs) = 0 <=> fs = << >>
<1>1. PICK S : fs \in Seq(S)
  BY DEF FilterList
<1> QED
  BY <1>1, EmptySeq

LEMMA NewFilterIs ==
  ASSUME NEW a \in Arch
  PROVE  IsFilter(NewFilter(a)) /\ NewFilter(a).arch = a
BY DEF NewFilter, IsFilter

LEMMA ListConcat ==
  ASSUME NEW fs, NEW gs, FilterList(fs), FilterList(gs)
  PROVE  /\ FilterList(fs \o gs)
         /\ Len(fs \o gs) = Len(fs) + Len(gs)
         /\ \A i \in 1 .. Len(fs) + Len(gs) :
               (fs \o gs)[i] = IF i <= Len(fs) THEN fs[i] ELSE gs[i - Len(fs)]
<1>1. PICK S : fs \in Seq(S) /\ \A f \in S : IsFilter(f)
  BY DEF FilterList
<1>2. PICK T : gs \in Seq(T) /\ \A f \in T : IsFilter(f)
  BY DEF FilterList
<1> DEFINE U == S \cup T
<1>3. fs \in Seq(U) /\ gs \in Seq(U)
  BY <1>1, <1>2, SeqMonotonic
<1>4. \A f \in U : IsFilter(f)
  BY <1>1, <1>2
<1> HIDE DEF U
<1> QED
  BY <1>3, <1>4, ConcatProperties DEF FilterList

LEMMA ListOfOne ==
  ASSUME NEW f, IsFilter(f)
  PROVE  FilterList(<<f>>) /\ Len(<<f>>) = 1 /\ <<f>>[1] = f /\ DOMAIN <<f>> = 1 .. 1
<1>1. FilterList(<<f>>)
  <2> DEFINE S == {f}
  <2>1. <<f>> \in Seq(S) /\ \A g \in S : IsFilter(g)
    OBVIOUS
  <2> HIDE DEF S
  <2> QED
    BY <2>1 DEF FilterList
<1> QED
  BY <1>1

LEMMA ListAppend ==
  ASSUME NEW fs, FilterList(fs), NEW f, IsFilter(f)
  PROVE  /\ FilterList(Append(fs, f))
         /\ Len(Append(fs, f)) = Len(fs) + 1
         /\ \A i \in 1 .. Len(fs) : Append(fs, f)[i] = fs[i]
         /\ Append(fs, f)[Len(fs) + 1] = f
<1>1. PICK S : fs \in Seq(S) /\ \A g \in S : IsFilter(g)
  BY DEF FilterList
<1> DEFINE U == S \cup {f}
<1>2. fs \in Seq(U) /\ f \in U
  BY <1>1, SeqMonotonic
<1>3. \A g \in U : IsFilter(g)
  BY <1>1
<1> HIDE DEF U
<1> QED
  BY <1>2, <1>3, AppendProperties DEF FilterList

LEMMA ListRemoveAt ==
  ASSUME NEW fs, FilterList(fs), NEW i \in 1 .. Len(fs)
  PROVE  /\ FilterList(RemoveAt(fs, i))
         /\ Len(RemoveAt(fs, i)) = Len(fs) - 1
         /\ \A j \in 1 .. Len(fs) - 1 :
               RemoveAt(fs, i)[j] = IF j < i THEN fs[j] ELSE fs[j + 1]
<1> DEFINE n == Len(fs)
           lo == SubSeq(fs, 1, i - 1)
           hi == SubSeq(fs, i + 1, n)
<1>1. PICK S : fs \in Seq(S) /\ \A f \in S : IsFilter(f)
  BY DEF FilterList
<1>2. n \in Nat /\ \A j \in 1 .. n : fs[j] \in S
  BY <1>1, LenProperties, ElementOfSeq
<1>3. /\ lo \in Seq(S) /\ Len(lo) = i - 1
      /\ \A j \in 1 .. i - 1 : lo[j] = fs[j]
  <2>1. \A j \in 1 .. i - 1 : fs[j] \in S
    BY <1>2
  <2> QED
    BY <1>2, <2>1, SubSeqProperties
<1>4. /\ hi \in Seq(S) /\ Len(hi) = n - i
      /\ \A j \in 1 .. n - i : hi[j] = fs[i + j]
  <2>1. \A j \in i + 1 .. n : fs[j] \in S
    BY <1>2
  <2> QED
    BY <1>2, <2>1, SubSeqProperties
<1> HIDE DEF lo, hi
<1>5. /\ lo \o hi \in Seq(S) /\ Len(lo \o hi) = n - 1
      /\ \A j \in 1 .. n - 1 : (lo \o hi)[j] = IF j <= Len(lo) THEN lo[j] ELSE hi[j - Len(lo)]
  <2>1. Len(lo) + Len(hi) = n - 1
    BY <1>2, <1>3, <1>4
  <2>2. /\ lo \o hi \in Seq(S)
        /\ Len(lo \o hi) = Len(lo) + Len(hi)
        /\ \A j \in 1 .. Len(lo) + Len(hi) :
              (lo \o hi)[j] = IF j <= Len(lo) THEN lo[j] ELSE hi[j - Len(lo)]
    BY <1>3, <1>4, ConcatProperties
  <2> QED
    BY <2>1, <2>2
<1>6. \A j \in 1 .. n - 1 : (lo \o hi)[j] = IF j < i THEN fs[j] ELSE fs[j + 1]
  BY <1>2, <1>3, <1>4, <1>5
<1> QED
  BY <1>1, <1>5, <1>6 DEF lo, hi, RemoveAt, FilterList

\* Removing an architecture takes one filter out, at some place.
LEMMA RemovedPlace ==
  ASSUME NEW fs, FilterList(fs), NEW a, a \in ArchsOf(fs)
  PROVE  \E i \in 1 .. Len(fs) :
            WithoutArch(fs, a) = RemoveAt(fs, i)
<1> DEFINE I == {i \in 1 .. Len(fs) : fs[i].arch = a}
<1>1. Len(fs) \in Nat /\ DOMAIN fs = 1 .. Len(fs)
  BY ListParts
<1>2. I # {} /\ \E i \in 1 .. Len(fs) : fs[i].arch = a
  BY <1>1 DEF ArchsOf
<1>3. Min(I) \in I
  <2>1. \E i \in I : \A j \in I : i <= j
    <3>1. I \in SUBSET (1 .. Len(fs))
      OBVIOUS
    <3> HIDE DEF I
    <3> QED
      BY <1>1, <1>2, <3>1, LeastOf
  <2> QED
    BY <2>1 DEF Min
<1>4. WithoutArch(fs, a) = RemoveAt(fs, Min(I))
  BY <1>2, Zenon DEF WithoutArch, RemoveFirstMatch, SelectInSeq
<1> QED
  BY <1>3, <1>4

-----------------------------------------------------------------------------
(* The invariant: what is in a collection, and when it may have tsync.     *)

IsCol(k) ==
    k \in [valid : BOOLEAN, filters : {k.filters}, endian : {k.endian},
           act_default : {k.act_default}, act_badarch : {k.act_badarch},
           nnp : BOOLEAN, tsync : BOOLEAN]

Distinct(fs) == \A i, j \in DOMAIN fs : fs[i].arch = fs[j].arch => i = j

\* One byte order: that of every filter, none without a filter.
Uniform(fs, endian) ==
    /\ Len(fs) = 0 => endian = NULL
    /\ \A i \in DOMAIN fs : Endian[fs[i].arch] = endian

Good(k, supported) ==
    /\ IsCol(k)
    /\ FilterList(k.filters)
    /\ k.valid => Distinct(k.filters) /\ Uniform(k.filters, k.endian)
    /\ k.tsync => supported = 1

ColInv ==
    /\ native \in Arch
    /\ support \in {-1, 0, 1}
    /\ col = [c \in Ctx |-> col[c]]
    /\ \A c \in Ctx : Good(col[c], support)

\* A collection with a list of filters in the place of its own.
LEMMA GoodFilters ==
  ASSUME NEW k, NEW s, Good(k, s), NEW fs, FilterList(fs),
         k.valid => Distinct(fs) /\ Uniform(fs, k.endian)
  PROVE  Good([k EXCEPT !.filters = fs], s)
<1> DEFINE n == [k EXCEPT !.filters = fs]
<1>1. /\ n.filters = fs /\ n.endian = k.endian /\ n.valid = k.valid
      /\ n.tsync = k.tsync /\ IsCol(n)
  BY DEF Good, IsCol
<1> HIDE DEF n
<1>2. Good(n, s)
  BY <1>1 DEF Good
<1> QED
  BY <1>2 DEF n

LEMMA GoodKeeps ==
  ASSUME NEW k, NEW s, Good(k, s), NEW fs, KeepsArchs(k.filters, fs)
  PROVE  Good([k EXCEPT !.filters = fs], s)
<1> DEFINE gs == k.filters
           e == k.endian
<1>1. FilterList(gs) /\ FilterList(fs) /\ DOMAIN fs = DOMAIN gs
  BY DEF Good, KeepsArchs
<1>2. Len(fs) = 0 => Len(gs) = 0
  BY <1>1, ListParts
<1>3. \A i \in DOMAIN gs : fs[i].arch = gs[i].arch
  BY DEF KeepsArchs
<1>4. k.valid => Distinct(gs) /\ Uniform(gs, e)
  BY DEF Good
<1> HIDE DEF gs, e
<1>5. k.valid => Distinct(fs) /\ Uniform(fs, e)
  BY <1>1, <1>2, <1>3, <1>4 DEF Distinct, Uniform
<1> QED
  BY <1>1, <1>5, GoodFilters DEF e

LEMMA ColOfGood ==
  ASSUME NEW a \in Arch, NEW action, NEW s
  PROVE  Good(ColOf(a, action), s)
<1> DEFINE fs == <<NewFilter(a)>>
           k == ColOf(a, action)
<1>1. /\ k.filters = fs /\ k.endian = Endian[a] /\ ~ k.tsync /\ IsCol(k)
  BY DEF ColOf, IsCol
<1>2. FilterList(fs) /\ Len(fs) = 1 /\ DOMAIN fs = 1 .. 1 /\ fs[1].arch = a
  BY NewFilterIs, ListOfOne
<1> HIDE DEF fs, k
<1>3. Distinct(fs) /\ Uniform(fs, Endian[a])
  BY <1>2 DEF Distinct, Uniform
<1> QED
  BY <1>1, <1>2, <1>3 DEF Good, k

LEMMA EmptyList == FilterList(<< >>) /\ Len(<< >>) = 0 /\ DOMAIN << >> = {}
<1>1. << >> \in Seq({})
  OBVIOUS
<1> DEFINE S == {}
<1>2. << >> \in Seq(S) /\ \A f \in S : IsFilter(f)
  OBVIOUS
<1>3. FilterList(<< >>)
  <2> HIDE DEF S
  <2> QED
    BY <1>2 DEF FilterList
<1> QED
  BY <1>3

\* An API call that leaves its collection good leaves all of them good.
LEMMA CallGood ==
  ASSUME ColInv, NEW c \in Ctx, NEW op, NEW rc, NEW new, Call(op, c, rc, new),
         native' = native, support' \in {-1, 0, 1}, support = 1 => support' = 1,
         Good(new, support')
  PROVE  ColInv'
<1>1. col' = [d \in Ctx |-> IF d = c THEN new ELSE col[d]]
  BY DEF ColInv, Call
<1>2. \A d \in Ctx : col'[d] = IF d = c THEN new ELSE col[d]
  BY <1>1
<1>3. col' = [d \in Ctx |-> col'[d]]
  BY <1>1, <1>2
<1>4. ASSUME NEW d \in Ctx PROVE Good(col'[d], support')
  <2>1. CASE d = c
    BY <1>2, <2>1
  <2>2. CASE d # c
    <3>1. Good(col[d], support) /\ col'[d] = col[d]
      BY <1>2, <2>2 DEF ColInv
    <3> QED
      BY <3>1 DEF Good
  <2> QED
    BY <2>1, <2>2
<1> QED
  BY <1>3, <1>4 DEF ColInv

LEMMA InitGood == Init => ColInv
<1> SUFFICES ASSUME Init PROVE ColInv
  OBVIOUS
<1>1. PICK default \in [Ctx -> Default], a \in [Ctx -> Arch] :
         col = [c \in Ctx |-> ColOf(a[c], default[c])]
  BY DEF Init
<1>2. \A c \in Ctx : col[c] = ColOf(a[c], default[c]) /\ a[c] \in Arch
  BY <1>1
<1>3. col = [c \in Ctx |-> col[c]]
  BY <1>1, <1>2
<1>4. \A c \in Ctx : Good(col[c], support)
  BY <1>2, ColOfGood
<1>5. native \in Arch /\ support = -1
  BY FilterColAssumption DEF Init
<1> QED
  BY <1>3, <1>4, <1>5 DEF ColInv

-----------------------------------------------------------------------------
(* Every call leaves the collections good.                                 *)

LEMMA ResetGood ==
  ASSUME ColInv, NEW c \in Ctx, NEW action, SeccompReset(c, action)
  PROVE  ColInv'
<1>1. /\ Call("reset", c, "ok", ColOf(native, action))
      /\ native' = native /\ support' = support
  BY DEF SeccompReset
<1>2. Good(ColOf(native, action), support')
  BY ColOfGood DEF ColInv
<1> QED
  BY <1>1, <1>2, CallGood DEF ColInv

LEMMA ReleaseGood ==
  ASSUME ColInv, NEW c \in Ctx, SeccompRelease(c)
  PROVE  ColInv'
<1> DEFINE k == col[c]
           n == [k EXCEPT !.valid = FALSE, !.filters = << >>]
<1>1. /\ Call("release", c, "ok", n)
      /\ native' = native /\ support' = support
  BY DEF SeccompRelease
<1>2. Good(k, support)
  BY DEF ColInv
<1>3. n.filters = << >> /\ ~ n.valid /\ n.tsync = k.tsync /\ IsCol(n)
  <2> HIDE DEF k
  <2> QED
    BY <1>2 DEF Good, IsCol
<1> HIDE DEF k, n
<1>4. Good(n, support')
  BY <1>1, <1>2, <1>3, EmptyList DEF Good
<1> QED
  BY <1>1, <1>4, CallGood DEF ColInv

LEMMA ArchAddGood ==
  ASSUME ColInv, NEW c \in Ctx, NEW a \in Arch, SeccompArchAdd(c, a)
  PROVE  ColInv'
<1> DEFINE k == col[c]
           fs == k.filters
           gs == Append(fs, NewFilter(a))
           n == [k EXCEPT !.filters = gs, !.endian = Endian[a]]
<1>1. /\ \/ /\ ~ ArchExist(c, a) /\ k.endian \in {NULL, Endian[a]}
            /\ Call("arch_add", c, "ok", n)
         \/ Call("arch_add", c, "EEXIST", k)
      /\ native' = native /\ support' = support
  BY DEF SeccompArchAdd
<1>2. Good(k, support) /\ support \in {-1, 0, 1}
  BY DEF ColInv
<1>3. ASSUME ~ ArchExist(c, a), k.endian \in {NULL, Endian[a]} PROVE Good(n, support)
  <2>1. \A i \in DOMAIN fs : fs[i].arch # a
    BY <1>3 DEF ArchExist, ArchsOf
  <2>2. /\ n.filters = gs /\ n.endian = Endian[a] /\ n.valid = k.valid
        /\ n.tsync = k.tsync /\ IsCol(n)
    <3> DEFINE e == Endian[a]
    <3> HIDE DEF k, gs, e
    <3> QED
      BY <1>2 DEF Good, IsCol
  <2>3. FilterList(fs) /\ Len(fs) \in Nat /\ DOMAIN fs = 1 .. Len(fs) 
        /\ \A i \in DOMAIN fs : fs[i].arch \in Arch
    BY <1>2, ListParts DEF Good, IsFilter
  <2>4. /\ FilterList(gs) /\ Len(gs) = Len(fs) + 1
        /\ \A i \in 1 .. Len(fs) : gs[i] = fs[i]
        /\ gs[Len(fs) + 1].arch = a
    BY <2>3, NewFilterIs, ListAppend
  <2>5. DOMAIN gs = 1 .. Len(fs) + 1
    <3> HIDE DEF gs
    <3> QED
      BY <2>4, ListParts
  <2>6. k.valid => Distinct(fs) /\ Uniform(fs, k.endian)
    BY <1>2 DEF Good
  <2>7. \A i \in DOMAIN fs : Endian[fs[i].arch] # NULL
    BY <2>3, FilterColAssumption
  <2> HIDE DEF k, fs, gs, n
  <2>8. k.valid => Distinct(gs)
    BY <2>1, <2>3, <2>4, <2>5, <2>6 DEF Distinct
  <2>9. k.valid => Uniform(gs, Endian[a])
    BY <1>3, <2>3, <2>4, <2>5, <2>6, <2>7 DEF Uniform
  <2> QED
    BY <1>2, <2>2, <2>4, <2>8, <2>9 DEF Good
<1> HIDE DEF n
<1>4. CASE Call("arch_add", c, "EEXIST", k)
  BY <1>1, <1>2, <1>4, CallGood DEF ColInv
<1>5. ASSUME ~ ArchExist(c, a), k.endian \in {NULL, Endian[a]}, Call("arch_add", c, "ok", n)
      PROVE  ColInv'
  <2>1. Good(n, support')
    BY <1>1, <1>3, <1>5
  <2> QED
    BY <1>1, <1>2, <1>5, <2>1, CallGood
<1> QED
  BY <1>1, <1>4, <1>5

LEMMA RemovedGood ==
  ASSUME ColInv, NEW c \in Ctx, NEW a, ArchExist(c, a)
  PROVE  Good(Removed(c, a), support)
<1> DEFINE k == col[c]
           fs == k.filters
           gs == WithoutArch(fs, a)
           e == IF gs = << >> THEN NULL ELSE k.endian
           n == [k EXCEPT !.filters = gs, !.endian = e]
<1>1. Removed(c, a) = n
  BY DEF Removed
<1>2. Good(k, support)
  BY DEF ColInv
<1>3. FilterList(fs) /\ Len(fs) \in Nat /\ DOMAIN fs = 1 .. Len(fs)
  BY <1>2, ListParts DEF Good
<1>4. PICK i \in 1 .. Len(fs) : gs = RemoveAt(fs, i)
  <2>1. a \in ArchsOf(fs)
    BY DEF ArchExist
  <2> QED
    BY <1>3, <2>1, RemovedPlace, Zenon
<1> HIDE DEF gs
<1>5. /\ FilterList(gs) /\ Len(gs) = Len(fs) - 1
      /\ \A j \in 1 .. Len(fs) - 1 : gs[j] = IF j < i THEN fs[j] ELSE fs[j + 1]
  BY <1>3, <1>4, ListRemoveAt
<1>6. DOMAIN gs = 1 .. Len(fs) - 1 /\ (Len(gs) = 0 <=> gs = << >>)
  BY <1>5, ListParts, ListEmpty
<1>7. /\ n.filters = gs /\ n.endian = e /\ n.valid = k.valid /\ n.tsync = k.tsync
      /\ IsCol(n)
  <2> HIDE DEF k, e
  <2> QED
    BY <1>2 DEF Good, IsCol
<1>8. k.valid => Distinct(fs) /\ Uniform(fs, k.endian)
  BY <1>2 DEF Good
<1> HIDE DEF k, fs, n
<1>9. k.valid => Distinct(gs)
  <2> DEFINE from(j) == IF j < i THEN j ELSE j + 1
  <2>1. \A j \in DOMAIN gs : from(j) \in DOMAIN fs /\ gs[j] = fs[from(j)]
    BY <1>3, <1>5, <1>6
  <2>2. \A j, l \in DOMAIN gs : from(j) = from(l) => j = l
    BY <1>3, <1>6
  <2>3. k.valid => \A p, q \in DOMAIN fs : fs[p].arch = fs[q].arch => p = q
    BY <1>8 DEF Distinct
  <2> HIDE DEF from
  <2>4. k.valid => \A j, l \in DOMAIN gs : gs[j].arch = gs[l].arch => j = l
    BY <2>1, <2>2, <2>3
  <2> QED
    BY <2>4 DEF Distinct
<1>10. k.valid => Uniform(gs, e)
  <2> SUFFICES ASSUME k.valid PROVE Uniform(gs, e)
    OBVIOUS
  <2>1. Len(gs) = 0 => e = NULL
    BY <1>6
  <2>2. ASSUME NEW j \in DOMAIN gs PROVE Endian[gs[j].arch] = e
    <3>1. gs # << >>
      BY <1>3, <1>5, <1>6
    <3>2. \A m \in 1 .. Len(fs) : Endian[fs[m].arch] = k.endian
      BY <1>3, <1>8 DEF Uniform
    <3>3. \E m \in 1 .. Len(fs) : gs[j] = fs[m]
      BY <1>3, <1>5, <1>6
    <3>4. Endian[gs[j].arch] = k.endian
      BY <3>2, <3>3
    <3> QED
      BY <3>1, <3>4
  <2> HIDE DEF e
  <2> QED
    BY <2>1, <2>2 DEF Uniform
<1> HIDE DEF e
<1>11. Good(n, support)
  BY <1>2, <1>5, <1>7, <1>9, <1>10 DEF Good
<1> QED
  BY <1>1, <1>11

LEMMA ArchRemoveGood ==
  ASSUME ColInv, NEW c \in Ctx, NEW a, SeccompArchRemove(c, a)
  PROVE  ColInv'
<1>1. /\ \/ ArchExist(c, a) /\ Call("arch_remove", c, "ok", Removed(c, a))
         \/ Call("arch_remove", c, "EEXIST", col[c])
      /\ native' = native /\ support' = support
  BY DEF SeccompArchRemove
<1>2. ArchExist(c, a) => Good(Removed(c, a), support')
  BY <1>1, RemovedGood
<1>3. Good(col[c], support')
  BY <1>1 DEF ColInv
<1> QED
  BY <1>1, <1>2, <1>3, CallGood DEF ColInv

\* A merge is of two different collections: the other one is released.
LEMMA MergeEffect ==
  ASSUME ColInv, NEW c \in Ctx, NEW src \in Ctx \ {c},
         col' = [col EXCEPT ![c].filters = @ \o col[src].filters,
                            ![src].filters = << >>, ![src].valid = FALSE]
  PROVE  col' = [d \in Ctx |->
                   IF d = c THEN [col[c] EXCEPT !.filters = col[c].filters \o col[src].filters]
                   ELSE IF d = src THEN [col[src] EXCEPT !.filters = << >>, !.valid = FALSE]
                   ELSE col[d]]
<1> DEFINE o == col[src]
           hs == col[c].filters \o o.filters
           n == [col[c] EXCEPT !.filters = hs]
           r == [o EXCEPT !.filters = << >>, !.valid = FALSE]
<1>0. SUFFICES col' = [d \in Ctx |-> IF d = c THEN n ELSE IF d = src THEN r ELSE col[d]]
  BY Zenon
<1> DEFINE one == [col EXCEPT ![c].filters = hs]
           two == [one EXCEPT ![src].filters = << >>]
<1>1. col' = [two EXCEPT ![src].valid = FALSE]
  BY Zenon
<1>2. one = [d \in Ctx |-> IF d = c THEN n ELSE col[d]]
  BY DEF ColInv
<1> HIDE DEF one
<1>3. two = [d \in Ctx |-> IF d = src THEN [o EXCEPT !.filters = << >>] ELSE one[d]]
  BY <1>2
<1> HIDE DEF two
<1>4. two[src] = [o EXCEPT !.filters = << >>]
  BY <1>3
<1>5. col' = [d \in Ctx |-> IF d = src THEN r ELSE two[d]]
  <2>1. [two[src] EXCEPT !.valid = FALSE] = r
    BY <1>4, Zenon
  <2>2. col' = [two EXCEPT ![src] = [two[src] EXCEPT !.valid = FALSE]]
    BY <1>1
  <2> HIDE DEF r
  <2> QED
    BY <1>3, <2>1, <2>2
<1> HIDE DEF n, r
<1> QED
  BY <1>2, <1>3, <1>5

LEMMA MergeGood ==
  ASSUME ColInv, NEW c \in Ctx, NEW src \in Ctx \ {c}, SeccompMerge(c, src)
  PROVE  ColInv'
<1> DEFINE k == col[c]
           o == col[src]
           fs == k.filters
           gs == o.filters
           hs == fs \o gs
           n == [k EXCEPT !.filters = hs]
           r == [o EXCEPT !.filters = << >>, !.valid = FALSE]
<1>1. native' = native /\ support' = support
  BY DEF SeccompMerge
<1>2. CASE col' = col
  BY <1>1, <1>2 DEF ColInv
<1>3. ASSUME Mergeable(c, src),
             col' = [col EXCEPT ![c].filters = @ \o col[src].filters,
                                ![src].filters = << >>, ![src].valid = FALSE]
      PROVE  ColInv'
  <2>1. Good(k, support) /\ Good(o, support)
    BY DEF ColInv
  <2>2. /\ k.valid /\ o.valid /\ k.endian = o.endian
        /\ \A i \in DOMAIN fs : \A j \in DOMAIN gs : fs[i].arch # gs[j].arch
    <3>1. \A attr \in {"act_default", "nnp", "tsync", "endian"} : k[attr] = o[attr]
      BY <1>3 DEF Mergeable
    <3> QED
      BY <1>3, <3>1 DEF Mergeable, ColValid, ArchsOf
  <2>3. /\ FilterList(fs) /\ Len(fs) \in Nat /\ DOMAIN fs = 1 .. Len(fs)
        /\ FilterList(gs) /\ Len(gs) \in Nat /\ DOMAIN gs = 1 .. Len(gs)
    BY <2>1, ListParts DEF Good
  <2>4. /\ FilterList(hs) /\ Len(hs) = Len(fs) + Len(gs)
        /\ \A i \in 1 .. Len(fs) + Len(gs) :
              hs[i] = IF i <= Len(fs) THEN fs[i] ELSE gs[i - Len(fs)]
    BY <2>3, ListConcat
  <2>5. DOMAIN hs = 1 .. Len(fs) + Len(gs)
    <3> HIDE DEF hs
    <3> QED
      BY <2>4, ListParts
  <2>6. Distinct(fs) /\ Uniform(fs, k.endian) /\ Distinct(gs) /\ Uniform(gs, k.endian)
    BY <2>1, <2>2 DEF Good
  <2>7. Good(n, support)
    <3> DEFINE e == k.endian
    <3> HIDE DEF fs, gs, hs, e
    <3>1. Distinct(hs)
      <4> SUFFICES ASSUME NEW i \in DOMAIN hs, NEW j \in DOMAIN hs, hs[i].arch = hs[j].arch
                   PROVE  i = j
        BY DEF Distinct
      <4>1. /\ i \in 1 .. Len(fs) + Len(gs) /\ j \in 1 .. Len(fs) + Len(gs)
            /\ hs[i] = IF i <= Len(fs) THEN fs[i] ELSE gs[i - Len(fs)]
            /\ hs[j] = IF j <= Len(fs) THEN fs[j] ELSE gs[j - Len(fs)]
        BY <2>4, <2>5
      <4>2. CASE i <= Len(fs) /\ j <= Len(fs)
        BY <2>3, <2>6, <4>1, <4>2 DEF Distinct
      <4>3. CASE i > Len(fs) /\ j > Len(fs)
        <5>1. i - Len(fs) \in DOMAIN gs /\ j - Len(fs) \in DOMAIN gs
          BY <2>3, <4>1, <4>3
        <5>2. gs[i - Len(fs)].arch = gs[j - Len(fs)].arch
          BY <2>3, <4>1, <4>3
        <5>3. i - Len(fs) = j - Len(fs)
          BY <2>6, <5>1, <5>2 DEF Distinct
        <5> QED
          BY <2>3, <4>1, <5>3
      <4>4. CASE i <= Len(fs) /\ j > Len(fs)
        <5>1. i \in DOMAIN fs /\ j - Len(fs) \in DOMAIN gs
          BY <2>3, <4>1, <4>4
        <5> QED
          BY <2>2, <2>3, <4>1, <4>4, <5>1
      <4>5. CASE i > Len(fs) /\ j <= Len(fs)
        <5>1. j \in DOMAIN fs /\ i - Len(fs) \in DOMAIN gs
          BY <2>3, <4>1, <4>5
        <5> QED
          BY <2>2, <2>3, <4>1, <4>5, <5>1
      <4> QED
        BY <2>3, <4>1, <4>2, <4>3, <4>4, <4>5
    <3>2. Uniform(hs, e)
      BY <2>3, <2>4, <2>5, <2>6 DEF Uniform, e
    <3> QED
      BY <2>1, <2>4, <3>1, <3>2, GoodFilters DEF e
  <2>8. Good(r, support)
    <3>1. r.filters = << >> /\ ~ r.valid /\ r.tsync = o.tsync /\ IsCol(r)
      <4> HIDE DEF o
      <4> QED
        BY <2>1 DEF Good, IsCol
    <3> HIDE DEF r, o
    <3> QED
      BY <2>1, <3>1, EmptyList DEF Good
  <2>9. col' = [d \in Ctx |-> IF d = c THEN n ELSE IF d = src THEN r ELSE col[d]]
    BY <1>3, MergeEffect, Zenon
  <2> HIDE DEF n, r
  <2>10. \A d \in Ctx : col'[d] = IF d = c THEN n ELSE IF d = src THEN r ELSE col[d]
    BY <2>9
  <2>11. col' = [d \in Ctx |-> col'[d]]
    BY <2>9, <2>10
  <2>12. \A d \in Ctx : Good(col'[d], support)
    BY <2>7, <2>8, <2>10 DEF ColInv
  <2> QED
    BY <1>1, <2>11, <2>12 DEF ColInv
<1> QED
  BY <1>2, <1>3 DEF SeccompMerge

LEMMA RuleAddGood ==
  ASSUME ColInv, NEW c \in Ctx, NEW strict, NEW rule, SeccompRuleAdd(c, strict, rule)
  PROVE  ColInv'
<1> DEFINE k == col[c]
           fs == k.filters
           a == ColRuleAdd(fs, strict, rule)
<1>1. native' = native /\ support' = support
  BY DEF SeccompRuleAdd
<1>2. Good(k, support) /\ support \in {-1, 0, 1}
  BY DEF ColInv
<1>3. CASE \E rc : Call("rule_add", c, rc, k)
  BY <1>1, <1>2, <1>3, CallGood
<1>4. CASE RuleAnswer(c, rule, a)
  <2>1. KeepsArchs(fs, a.fs)
    BY <1>2, ColRuleAddKeeps DEF Good
  <2> DEFINE promise(f) == [f EXCEPT !.promised = @ \cup {rule}]
             ps == [i \in DOMAIN a.fs |-> promise(a.fs[i])]
             gs == IF a.rc = "ok" THEN ps ELSE a.fs
             n == [k EXCEPT !.filters = gs]
  <2>2. col' = [col EXCEPT ![c].filters = gs]
    BY <1>4 DEF RuleAnswer
  <2> HIDE DEF a
  <2>3. KeepsArchs(a.fs, ps)
    <3>1. FilterList(a.fs)
      BY <2>1 DEF KeepsArchs
    <3>2. \A i \in DOMAIN a.fs : ps[i] = promise(a.fs[i])
      OBVIOUS
    <3>3. ASSUME NEW f, IsFilter(f) PROVE IsFilter(promise(f)) /\ promise(f).arch = f.arch
      <4> DEFINE p == f.promised \cup {rule}
      <4>1. promise(f) = [f EXCEPT !.promised = p]
        OBVIOUS
      <4> HIDE DEF p
      <4>2. IsFilter([f EXCEPT !.promised = p]) /\ [f EXCEPT !.promised = p].arch = f.arch
        BY <3>3 DEF IsFilter
      <4> HIDE DEF promise
      <4> QED
        BY <4>1, <4>2
    <3>4. \A i \in DOMAIN a.fs : IsFilter(ps[i]) /\ ps[i].arch = a.fs[i].arch
      <4> HIDE DEF promise, ps
      <4> QED
        BY <3>1, <3>2, <3>3, ListParts
    <3>5. ps = [i \in DOMAIN a.fs |-> ps[i]]
      BY <3>2, Zenon
    <3> HIDE DEF ps
    <3> QED
      BY <3>1, <3>4, <3>5, KeepsEach
  <2> HIDE DEF ps
  <2>4. KeepsArchs(fs, gs)
    BY <2>1, <2>3, KeepsTrans
  <2> HIDE DEF gs
  <2>5. Good(n, support)
    BY <1>2, <2>4, GoodKeeps
  <2>6. col' = [d \in Ctx |-> IF d = c THEN n ELSE col[d]]
    BY <2>2 DEF ColInv
  <2> HIDE DEF n
  <2>7. \A d \in Ctx : col'[d] = IF d = c THEN n ELSE col[d]
    BY <2>6
  <2>8. col' = [d \in Ctx |-> col'[d]]
    BY <2>6, <2>7
  <2>9. \A d \in Ctx : Good(col'[d], support)
    BY <2>5, <2>7 DEF ColInv
  <2> QED
    BY <1>1, <2>8, <2>9 DEF ColInv
<1> QED
  BY <1>3, <1>4 DEF SeccompRuleAdd

LEMMA HintedIs ==
  ASSUME NEW f, NEW nr, NEW p
  PROVE  Hinted(f, nr, p) = f \/ \E sys : Hinted(f, nr, p) = [f EXCEPT !.sys = sys]
BY Zenon DEF Hinted

LEMMA PriorityGood ==
  ASSUME ColInv, NEW c \in Ctx, NEW nr, NEW p, SeccompSyscallPriority(c, nr, p)
  PROVE  ColInv'
<1> DEFINE k == col[c]
           fs == k.filters
<1>1. native' = native /\ support' = support
  BY DEF SeccompSyscallPriority
<1>2. Good(k, support) /\ support \in {-1, 0, 1}
  BY DEF ColInv
<1>3. PICK gs, rc :
         /\ Call("priority", c, rc, IF rc = "EINVAL" THEN k ELSE [k EXCEPT !.filters = gs])
         /\ gs = [i \in DOMAIN fs |-> gs[i]]
         /\ \A i \in DOMAIN fs : \/ gs[i] = fs[i]
                                 \/ \E sys : gs[i] = [fs[i] EXCEPT !.sys = sys]
  <2> DEFINE hint(f) == Hinted(f, nr, p)
             gs == [i \in DOMAIN fs |-> hint(fs[i])]
  <2>1. \A i \in DOMAIN fs : gs[i] = hint(fs[i])
    OBVIOUS
  <2>2. \A i \in DOMAIN fs : \/ hint(fs[i]) = fs[i]
                             \/ \E sys : hint(fs[i]) = [fs[i] EXCEPT !.sys = sys]
    BY HintedIs
  <2>3. gs = [i \in DOMAIN fs |-> gs[i]]
    <3> HIDE DEF hint, fs
    <3> QED
      BY <2>1, Zenon
  <2>4. \E rc : Call("priority", c, rc, IF rc = "EINVAL" THEN k ELSE [k EXCEPT !.filters = gs])
    BY Zenon DEF SeccompSyscallPriority
  <2> HIDE DEF gs, hint, k
  <2>5. \A i \in DOMAIN fs : \/ gs[i] = fs[i]
                             \/ \E sys : gs[i] = [fs[i] EXCEPT !.sys = sys]
    <3> HIDE DEF fs
    <3> QED
      BY <2>1, <2>2, Zenon
  <2> QED
    BY <2>3, <2>4, <2>5, Zenon
<1>4. \A i \in DOMAIN fs : IsFilter(gs[i]) /\ gs[i].arch = fs[i].arch
  <2>1. \A i \in DOMAIN fs : IsFilter(fs[i])
    BY <1>2, ListParts DEF Good
  <2> QED
    BY <1>3, <2>1 DEF IsFilter
<1>5. KeepsArchs(fs, gs)
  BY <1>2, <1>3, <1>4, KeepsEach DEF Good
<1>6. Good([k EXCEPT !.filters = gs], support)
  BY <1>2, <1>5, GoodKeeps
<1> DEFINE n == IF rc = "EINVAL" THEN k ELSE [k EXCEPT !.filters = gs]
<1>7. Good(n, support') /\ Call("priority", c, rc, n)
  BY <1>1, <1>2, <1>3, <1>6
<1> HIDE DEF n
<1> QED
  BY <1>1, <1>2, <1>7, CallGood

LEMMA ChkKeeps ==
  ASSUME ColInv
  PROVE  ChkSeccompSyscall \in {0, 1} /\ (support = 1 => ChkSeccompSyscall = 1)
BY DEF ColInv, ChkSeccompSyscall

LEMMA AttrSetGood ==
  ASSUME ColInv, NEW c \in Ctx, SeccompAttrSet(c)
  PROVE  ColInv'
<1> DEFINE k == col[c]
<1>1. Good(k, support) /\ support \in {-1, 0, 1}
  BY DEF ColInv
<1>2. /\ native' = native
      /\ \/ support' = support
         \/ support' = ChkSeccompSyscall
  BY DEF SeccompAttrSet
<1>3. support' \in {-1, 0, 1} /\ (support = 1 => support' = 1)
  BY <1>1, <1>2, ChkKeeps
<1>4. PICK rc, n : /\ Call("attr_set", c, rc, n)
                   /\ \/ n = k
                      \/ \E action : n = [k EXCEPT !.act_badarch = action]
                      \/ \E on \in BOOLEAN : n = [k EXCEPT !.nnp = on]
                      \/ support' = 1 /\ \E on \in BOOLEAN : n = [k EXCEPT !.tsync = on]
  BY Zenon DEF SeccompAttrSet
<1>5. Good(n, support')
  <2>1. Good(k, support')
    BY <1>1, <1>3 DEF Good
  <2> HIDE DEF k
  <2>2. IsCol(n) /\ n.filters = k.filters /\ n.valid = k.valid /\ n.endian = k.endian
    BY <1>4, <2>1 DEF Good, IsCol
  <2>3. n.tsync => support' = 1
    BY <1>4, <2>1 DEF Good, IsCol
  <2> QED
    BY <2>1, <2>2, <2>3 DEF Good
<1> QED
  BY <1>2, <1>3, <1>4, <1>5, CallGood

LEMMA LoadGood ==
  ASSUME ColInv, NEW c \in Ctx, SeccompLoad(c)
  PROVE  ColInv'
<1>1. Good(col[c], support) /\ support \in {-1, 0, 1}
  BY DEF ColInv
<1>2. /\ native' = native
      /\ \/ support' = support
         \/ support' = ChkSeccompSyscall
  BY DEF SeccompLoad
<1>3. support' \in {-1, 0, 1} /\ (support = 1 => support' = 1)
  BY <1>1, <1>2, ChkKeeps
<1>4. \E op, rc : Call(op, c, rc, col[c])
  BY Zenon DEF SeccompLoad
<1>5. Good(col[c], support')
  BY <1>1, <1>3 DEF Good
<1> QED
  BY <1>2, <1>3, <1>4, <1>5, CallGood

LEMMA StepGood == ColInv /\ [Next]_colVars => ColInv'
<1>1. ASSUME ColInv, UNCHANGED colVars PROVE ColInv'
  BY <1>1 DEF ColInv, colVars
<1>2. ASSUME ColInv, Next PROVE ColInv'
  <2>1. PICK c \in Ctx :
           \/ \E action \in Default : SeccompReset(c, action)
           \/ SeccompRelease(c)
           \/ \E a \in Arch : SeccompArchAdd(c, a)
           \/ \E a \in Arch : SeccompArchRemove(c, a)
           \/ \E src \in Ctx \ {c} : SeccompMerge(c, src)
           \/ \E rule \in Rule[native], strict \in BOOLEAN : SeccompRuleAdd(c, strict, rule)
           \/ \E nr \in Priority[native] : SeccompSyscallPriority(c, nr, 1)
           \/ SeccompAttrSet(c)
           \/ SeccompLoad(c)
    BY <1>2 DEF Next
  <2> QED
    BY <1>2, <2>1, ResetGood, ReleaseGood, ArchAddGood, ArchRemoveGood, MergeGood,
       RuleAddGood, PriorityGood, AttrSetGood, LoadGood
<1> QED
  BY <1>1, <1>2

LEMMA AlwaysGood == Spec => []ColInv
BY InitGood, StepGood, PTL DEF Spec

-----------------------------------------------------------------------------
(* The theorems.                                                           *)

\* The places of a list with distinct architectures are as many as these.
LEMMA DistinctCount ==
  ASSUME NEW fs, FilterList(fs), Distinct(fs)
  PROVE  Cardinality(ArchsOf(fs)) = Len(fs)
<1>1. Len(fs) \in Nat /\ DOMAIN fs = 1 .. Len(fs)
  BY ListParts
<1> DEFINE D == 1 .. Len(fs)
           g == [i \in D |-> fs[i].arch]
<1>2. g \in Bijection(D, ArchsOf(fs))
  <2>1. \A i \in D : g[i] = fs[i].arch
    OBVIOUS
  <2>2. g \in [D -> ArchsOf(fs)]
    BY <1>1 DEF ArchsOf
  <2>3. \A i, j \in D : g[i] = g[j] => i = j
    BY <1>1, <2>1 DEF Distinct
  <2>4. \A a \in ArchsOf(fs) : \E i \in D : g[i] = a
    BY <1>1, <2>1 DEF ArchsOf
  <2> HIDE DEF g, D
  <2> QED
    BY <2>2, <2>3, <2>4 DEF Bijection, Injection, Surjection, IsInjective
<1>3. IsFiniteSet(D) /\ Cardinality(D) = Len(fs)
  <2>1. /\ IsFiniteSet(D)
        /\ Cardinality(D) = IF 1 > Len(fs) THEN 0 ELSE Len(fs) - 1 + 1
    BY <1>1, FS_Interval
  <2> HIDE DEF D
  <2> QED
    BY <1>1, <2>1
<1> HIDE DEF D, g
<1> QED
  BY <1>2, <1>3, FS_Bijection DEF ExistsBijection

\* What each call leaves as the last operation.
LEMMA OpsApart ==
  ASSUME Next
  PROVE  /\ last'.op = "merge" => \E c \in Ctx : \E src \in Ctx \ {c} : SeccompMerge(c, src)
         /\ last'.op = "prctl" => \E c \in Ctx : SeccompLoad(c)
<1>1. ASSUME NEW op, NEW c, NEW rc, NEW new, Call(op, c, rc, new) PROVE last'.op = op
  BY <1>1 DEF Call
<1>2. PICK c \in Ctx :
         \/ \E action \in Default : SeccompReset(c, action)
         \/ SeccompRelease(c)
         \/ \E a \in Arch : SeccompArchAdd(c, a)
         \/ \E a \in Arch : SeccompArchRemove(c, a)
         \/ \E src \in Ctx \ {c} : SeccompMerge(c, src)
         \/ \E rule \in Rule[native], strict \in BOOLEAN : SeccompRuleAdd(c, strict, rule)
         \/ \E nr \in Priority[native] : SeccompSyscallPriority(c, nr, 1)
         \/ SeccompAttrSet(c)
         \/ SeccompLoad(c)
  BY DEF Next
<1>3. \A action : SeccompReset(c, action) => last'.op = "reset"
  BY <1>1 DEF SeccompReset
<1>4. SeccompRelease(c) => last'.op = "release"
  BY <1>1 DEF SeccompRelease
<1>5. \A a : SeccompArchAdd(c, a) => last'.op = "arch_add"
  BY <1>1, Zenon DEF SeccompArchAdd
<1>6. \A a : SeccompArchRemove(c, a) => last'.op = "arch_remove"
  BY <1>1, Zenon DEF SeccompArchRemove
<1>7. \A src : SeccompMerge(c, src) => last'.op = "merge"
  BY DEF SeccompMerge
<1>8. \A strict, rule : SeccompRuleAdd(c, strict, rule) => last'.op = "rule_add"
  <2>1. \A rule, a : RuleAnswer(c, rule, a) => last'.op = "rule_add"
    BY DEF RuleAnswer
  <2> QED
    BY <1>1, <2>1, Zenon DEF SeccompRuleAdd
<1>9. \A nr, p : SeccompSyscallPriority(c, nr, p) => last'.op = "priority"
  BY <1>1, Zenon DEF SeccompSyscallPriority
<1>10. SeccompAttrSet(c) => last'.op = "attr_set"
  BY <1>1, Zenon DEF SeccompAttrSet
<1>11. SeccompLoad(c) => last'.op \in {"load", "seccomp", "prctl"}
  <2>1. SeccompLoad(c) =>
           \/ \E rc : Call("load", c, rc, col[c])
           \/ \E rc : Call("seccomp", c, rc, col[c])
           \/ \E rc : Call("prctl", c, rc, col[c])
    BY DEF SeccompLoad
  <2> QED
    BY <1>1, <2>1
<1> QED
  BY <1>2, <1>3, <1>4, <1>5, <1>6, <1>7, <1>8, <1>9, <1>10, <1>11

\* For any architectures, rules and operations on a filter: the byte order a
\* valid collection notes is that of all its filters, none when it has none,
\* and no architecture is in it twice.
THEOREM ByteOrderIsOne == Spec => []OneEndian
<1>1. ColInv => OneEndian
  <2> SUFFICES ASSUME ColInv, NEW c \in Ctx, col[c].valid
               PROVE  LET fs == col[c].filters
                      IN  /\ {Endian[a] : a \in ArchsOf(fs)} =
                                IF col[c].endian = NULL THEN {} ELSE {col[c].endian}
                          /\ Cardinality(ArchsOf(fs)) = Len(fs)
    BY DEF OneEndian
  <2> DEFINE fs == col[c].filters
             e == col[c].endian
  <2>1. FilterList(fs) /\ Distinct(fs) /\ Uniform(fs, e)
    BY DEF ColInv, Good
  <2> HIDE DEF fs, e
  <2>2. /\ Len(fs) \in Nat /\ DOMAIN fs = 1 .. Len(fs)
        /\ \A i \in DOMAIN fs : fs[i].arch \in Arch
    BY <2>1, ListParts DEF IsFilter
  <2>3. CASE Len(fs) = 0
    <3>1. ArchsOf(fs) = {} /\ e = NULL
      BY <2>1, <2>2, <2>3 DEF ArchsOf, Uniform
    <3>2. {Endian[a] : a \in ArchsOf(fs)} = IF e = NULL THEN {} ELSE {e}
      BY <3>1
    <3> QED
      BY <2>1, <3>2, DistinctCount DEF fs, e
  <2>4. CASE Len(fs) # 0
    <3>1. 1 \in DOMAIN fs
      BY <2>2, <2>4
    <3>2. \A i \in DOMAIN fs : Endian[fs[i].arch] = e
      BY <2>1 DEF Uniform
    <3>3. e # NULL
      BY <2>2, <3>1, <3>2, FilterColAssumption
    <3>4. {Endian[a] : a \in ArchsOf(fs)} = {e}
      BY <3>1, <3>2 DEF ArchsOf
    <3>5. {Endian[a] : a \in ArchsOf(fs)} = IF e = NULL THEN {} ELSE {e}
      BY <3>3, <3>4
    <3> QED
      BY <2>1, <3>5, DistinctCount DEF fs, e
  <2> QED
    BY <2>3, <2>4
<1> QED
  BY <1>1, AlwaysGood, PTL

\* A collection with tsync never goes to the kernel by prctl, which would
\* reach only the calling thread: that a collection has tsync means the probe
\* found seccomp(), and what the probe found stays.
THEOREM TsyncIsHonoured == Spec => []TsyncHonoured
<1>1. Init => TsyncHonoured
  BY DEF Init, TsyncHonoured
<1>2. ColInv /\ TsyncHonoured /\ [Next]_colVars => TsyncHonoured'
  <2>1. ASSUME TsyncHonoured, UNCHANGED colVars PROVE TsyncHonoured'
    BY <2>1 DEF TsyncHonoured, colVars
  <2>2. ASSUME ColInv, NEW c \in Ctx, NEW rc, Call("prctl", c, rc, col[c]),
               ChkSeccompSyscall # 1
        PROVE  TsyncHonoured'
    <3>1. last'.ctx = c /\ col'[c] = col[c]
      BY <2>2 DEF Call, ColInv
    <3>2. ~ col[c].tsync
      BY <2>2, ChkKeeps DEF ColInv, Good
    <3> QED
      BY <3>1, <3>2 DEF TsyncHonoured
  <2>3. ASSUME Next, last'.op = "prctl"
        PROVE  \E c \in Ctx : SeccompLoad(c)
    BY <2>3, OpsApart
  <2>4. ASSUME NEW c \in Ctx, SeccompLoad(c), last'.op = "prctl"
        PROVE  ChkSeccompSyscall # 1 /\ \E rc : Call("prctl", c, rc, col[c])
    BY <2>4 DEF SeccompLoad, Call
  <2>5. last'.op # "prctl" => TsyncHonoured'
    BY DEF TsyncHonoured
  <2> QED
    BY <2>1, <2>2, <2>3, <2>4, <2>5
<1> QED
  BY <1>1, <1>2, AlwaysGood, PTL DEF Spec

\* A merge that succeeds keeps every filter of both collections, and what each
\* says of any call: the other collection has the same default action.
THEOREM MergesKeepVerdicts == Spec => MergeKeepsVerdicts
<1> DEFINE taken == {c \in Ctx : col[c] # col'[c] \/ c = last'.ctx}
           kept(c, f) == \E g \in ToSet(col'[last'.ctx].filters) :
                            /\ g.arch = f.arch
                            /\ SameVerdicts(f, col[c].act_default, g,
                                            col'[last'.ctx].act_default)
           step == last'.op = "merge" /\ last'.rc = "ok" =>
                      \A c \in taken : \A f \in ToSet(col[c].filters) : kept(c, f)
<1>1. ASSUME NEW f, IsFilter(f), NEW default PROVE SameVerdicts(f, default, f, default)
  <2>1. [f EXCEPT !.arch = f.arch] = f
    BY <1>1 DEF IsFilter
  <2> QED
    BY <2>1, Zenon DEF SameVerdicts
<1>2. ColInv /\ Next => step
  <2> SUFFICES ASSUME ColInv, Next, last'.op = "merge", last'.rc = "ok",
                      NEW c \in taken, NEW f \in ToSet(col[c].filters)
               PROVE  kept(c, f)
    BY Zenon
  <2>0. PICK dst \in Ctx : \E src \in Ctx \ {dst} : SeccompMerge(dst, src)
    BY OpsApart
  <2>1. PICK src \in Ctx \ {dst} : SeccompMerge(dst, src)
    BY <2>0
  <2>2. last'.ctx = dst /\ Mergeable(dst, src)
    BY <2>1 DEF SeccompMerge
  <2> DEFINE k == col[dst]
             fs == k.filters
             gs == col[src].filters
             hs == fs \o gs
             n == [k EXCEPT !.filters = hs]
  <2>3. /\ col'[dst] = n
        /\ \A d \in Ctx \ {dst, src} : col'[d] = col[d]
    BY <2>1, <2>2, MergeEffect DEF SeccompMerge
  <2>4. Good(k, support) /\ FilterList(fs) /\ FilterList(gs)
    BY DEF ColInv, Good
  <2>5. n.filters = hs /\ n.act_default = k.act_default
    <3> HIDE DEF hs, k
    <3> QED
      BY <2>4 DEF Good, IsCol
  <2>6. c \in {dst, src} /\ col[c].act_default = k.act_default
    <3>1. c \in {dst, src}
      BY <2>2, <2>3
    <3>2. \A attr \in {"act_default", "nnp", "tsync", "endian"} : k[attr] = col[src][attr]
      BY <2>2 DEF Mergeable
    <3> QED
      BY <3>1, <3>2
  <2>7. /\ Len(fs) \in Nat /\ DOMAIN fs = 1 .. Len(fs)
        /\ Len(gs) \in Nat /\ DOMAIN gs = 1 .. Len(gs)
    BY <2>4, ListParts
  <2>8. /\ FilterList(hs) /\ Len(hs) = Len(fs) + Len(gs)
        /\ \A i \in 1 .. Len(fs) + Len(gs) :
              hs[i] = IF i <= Len(fs) THEN fs[i] ELSE gs[i - Len(fs)]
    BY <2>4, ListConcat
  <2> HIDE DEF hs
  <2>9. DOMAIN hs = 1 .. Len(fs) + Len(gs)
    BY <2>8, ListParts
  <2>10. f \in ToSet(fs) \/ f \in ToSet(gs)
    BY <2>6
  <2> HIDE DEF fs, gs
  <2>11. f \in ToSet(hs)
    <3>1. ASSUME NEW i \in DOMAIN fs, f = fs[i] PROVE f \in ToSet(hs)
      BY <2>7, <2>8, <2>9, <3>1 DEF ToSet
    <3>2. ASSUME NEW i \in DOMAIN gs, f = gs[i] PROVE f \in ToSet(hs)
      <4>1. i + Len(fs) \in DOMAIN hs /\ hs[i + Len(fs)] = gs[i]
        BY <2>7, <2>8, <2>9
      <4> QED
        BY <3>2, <4>1 DEF ToSet
    <3> QED
      BY <2>10, <3>1, <3>2 DEF ToSet
  <2>12. IsFilter(f)
    BY <2>8, <2>11, ListParts DEF ToSet
  <2>13. SameVerdicts(f, k.act_default, f, k.act_default)
    BY <1>1, <2>12
  <2> HIDE DEF n, k
  <2> QED
    BY <2>2, <2>3, <2>5, <2>6, <2>11, <2>13, Zenon
<1>3. ColInv /\ Next => [step]_colVars
  BY <1>2
<1> QED
  BY <1>3, AlwaysGood, PTL DEF Spec, MergeKeepsVerdicts

-----------------------------------------------------------------------------
(* A rule in the terms of one architecture.                                *)

\* A list of anything.
IsList(s) == \E S : s \in Seq(S)

\* A rule in the numbers of architecture a, on machine m (Translate).
OwnNumber(m, a, nr) ==
    IF a = m THEN nr
    ELSE IF nr \in DOMAIN Names[m] /\ Names[m][nr] \in DOMAIN Numbers[a]
    THEN Numbers[a][Names[m][nr]]
    ELSE NULL
Own(m, a, rule) == [rule EXCEPT !.syscall = OwnNumber(m, a, rule.syscall)]

\* The calls a rule becomes are on the list of a filter, with numbers that
\* tasks can use.
Listed(f, r) ==
    \A p \in ToSet(Parts(f.arch, r)) :
        p \in ToSet(f.rules) /\ ~ (f.arch = "x86" /\ p.syscall < 0)

IsRule(rule) ==
    rule = [syscall |-> rule.syscall, action |-> rule.action, args |-> rule.args]

LEMMA OwnIs ==
  ASSUME NEW a, NEW rule, IsRule(rule)
  PROVE  /\ OwnNumber(native, a, rule.syscall) = Translate(a, rule.syscall)
         /\ Own(native, a, rule) = [rule EXCEPT !.syscall = Translate(a, rule.syscall)]
         /\ Own(native, a, rule).syscall = Translate(a, rule.syscall)
         /\ IsRule(Own(native, a, rule))
<1> DEFINE nr == Translate(a, rule.syscall)
<1>1. OwnNumber(native, a, rule.syscall) = nr
  BY Zenon DEF OwnNumber, Translate
<1>2. Own(native, a, rule) = [rule EXCEPT !.syscall = nr]
  BY <1>1, Zenon DEF Own
<1> HIDE DEF nr
<1> QED
  BY <1>1, <1>2 DEF IsRule, nr

LEMMA SockDemuxUsable == \A m \in DOMAIN SockDemux : ~ (SockDemux[m] < 0)
<1> DEFINE direct == <<359, 361, 362, 363, NULL, 367, 368, 360, NULL, NULL, 369, 371,
                       373, 366, 365, 370, 372, 364, 337, 345>>
           D == {m \in -120 .. -101 : direct[-100 - m] # NULL}
<1>1. \A k \in 1 .. 20 : direct[k] = NULL \/ ~ (direct[k] < 0)
  OBVIOUS
<1>2. \A m \in -120 .. -101 : -100 - m \in 1 .. 20
  OBVIOUS
<1> HIDE DEF direct
<1>3. \A m \in D : ~ (direct[-100 - m] < 0)
  BY <1>1, <1>2
<1>4. SockDemux = [m \in D |-> direct[-100 - m]]
  BY Zenon DEF SockDemux, direct
<1> HIDE DEF D
<1> QED
  BY <1>3, <1>4

LEMMA ToSetOne == ASSUME NEW r PROVE ToSet(<<r>>) = {r}
BY DEF ToSet

LEMMA ToSetNone == ToSet(<< >>) = {}
BY DEF ToSet

LEMMA ToSetConcat ==
  ASSUME NEW s, NEW t, IsList(s), IsList(t)
  PROVE  IsList(s \o t) /\ ToSet(s \o t) = ToSet(s) \cup ToSet(t)
<1>1. PICK S : s \in Seq(S)
  BY DEF IsList
<1>2. PICK T : t \in Seq(T)
  BY DEF IsList
<1> DEFINE U == S \cup T
<1>3. s \in Seq(U) /\ t \in Seq(U)
  BY <1>1, <1>2, SeqMonotonic
<1> HIDE DEF U
<1>4. /\ s \o t \in Seq(U) /\ Len(s \o t) = Len(s) + Len(t)
      /\ \A i \in 1 .. Len(s) + Len(t) : (s \o t)[i] = IF i <= Len(s) THEN s[i] ELSE t[i - Len(s)]
  BY <1>3, ConcatProperties
<1> DEFINE u == s \o t
<1>5. /\ Len(s) \in Nat /\ DOMAIN s = 1 .. Len(s)
      /\ Len(t) \in Nat /\ DOMAIN t = 1 .. Len(t)
  BY <1>3, LenProperties
<1>6. DOMAIN u = 1 .. Len(s) + Len(t)
  <2> HIDE DEF u
  <2>1. u \in Seq(U) /\ Len(u) = Len(s) + Len(t)
    BY <1>4 DEF u
  <2> QED
    BY <2>1, LenProperties
<1>7. \A i \in 1 .. Len(s) + Len(t) : u[i] = IF i <= Len(s) THEN s[i] ELSE t[i - Len(s)]
  BY <1>4
<1>8. IsList(u)
  BY <1>4 DEF IsList
<1> HIDE DEF u
<1>9. \A i \in DOMAIN s : i \in DOMAIN u /\ u[i] = s[i]
  BY <1>5, <1>6, <1>7
<1>10. \A i \in DOMAIN t : i + Len(s) \in DOMAIN u /\ u[i + Len(s)] = t[i]
  BY <1>5, <1>6, <1>7
<1>11. \A i \in DOMAIN u : \/ i \in DOMAIN s /\ u[i] = s[i]
                           \/ i - Len(s) \in DOMAIN t /\ u[i] = t[i - Len(s)]
  BY <1>5, <1>6, <1>7
<1>12. ToSet(u) = ToSet(s) \cup ToSet(t)
  BY <1>9, <1>10, <1>11 DEF ToSet
<1> QED
  BY <1>8, <1>12 DEF u

LEMMA PartsAre ==
  ASSUME NEW a, NEW r, IsRule(r)
  PROVE  /\ IsList(Parts(a, r))
         /\ \A p \in ToSet(Parts(a, r)) : ~ (a = "x86" /\ p.syscall < 0)
<1> DEFINE nr == r.syscall
           mux == IF nr > 0 THEN SockMux(nr) ELSE nr
           demuxed == SockDemux[mux]
           other == [r EXCEPT !.syscall = demuxed]
           direct == IF mux \in DOMAIN SockDemux THEN <<other>> ELSE << >>
           sock == Multiplexed(r, 102, -mux - 100)
           ipc == Multiplexed(r, 117, -nr - 200)
<1>1. \/ Parts(a, r) = <<sock>> \o direct
      \/ Parts(a, r) = <<ipc>>
      \/ Parts(a, r) = << >>
      \/ ~ (a = "x86" /\ nr < 0) /\ Parts(a, r) = <<r>>
  BY Zenon DEF Parts
<1>2. \A n, k : Multiplexed(r, n, k).syscall = n
  <2> SUFFICES ASSUME NEW n, NEW k PROVE Multiplexed(r, n, k).syscall = n
    OBVIOUS
  <2>1. PICK args : Multiplexed(r, n, k) = [r EXCEPT !.syscall = n, !.args = args]
    BY Zenon DEF Multiplexed
  <2> QED
    BY <2>1 DEF IsRule
<1>3. sock.syscall = 102 /\ ipc.syscall = 117
  BY <1>2
<1>4. mux \in DOMAIN SockDemux => ~ (other.syscall < 0)
  <2>1. mux \in DOMAIN SockDemux => ~ (demuxed < 0)
    BY SockDemuxUsable
  <2> HIDE DEF mux, demuxed
  <2> QED
    BY <2>1 DEF IsRule
<1> HIDE DEF sock, ipc, other, mux
<1>5. \A q : IsList(<<q>>) /\ ToSet(<<q>>) = {q}
  <2>1. \A q : <<q>> \in Seq({q})
    OBVIOUS
  <2> QED
    BY <2>1, ToSetOne DEF IsList
<1>6. IsList(<< >>) /\ ToSet(<< >>) = {}
  <2>1. << >> \in Seq({})
    OBVIOUS
  <2> QED
    BY <2>1, ToSetNone DEF IsList
<1>7. IsList(direct) /\ \A p \in ToSet(direct) : ~ (p.syscall < 0)
  BY <1>4, <1>5, <1>6
<1> HIDE DEF direct
<1>8. /\ IsList(<<sock>> \o direct)
      /\ ToSet(<<sock>> \o direct) = {sock} \cup ToSet(direct)
  <2>1. IsList(<<sock>>) /\ ToSet(<<sock>>) = {sock}
    BY <1>5
  <2> QED
    BY <1>7, <2>1, ToSetConcat
<1> DEFINE both == <<sock>> \o direct
<1> HIDE DEF both
<1>9. IsList(both) /\ ToSet(both) = {sock} \cup ToSet(direct)
  BY <1>8 DEF both
<1>10. \A p \in ToSet(both) : ~ (p.syscall < 0)
  BY <1>3, <1>7, <1>9
<1>11. Parts(a, r) \in {both, <<ipc>>, << >>} \/ (~ (a = "x86" /\ nr < 0) /\ Parts(a, r) = <<r>>)
  BY <1>1 DEF both
<1> QED
  BY <1>3, <1>5, <1>6, <1>9, <1>10, <1>11

-----------------------------------------------------------------------------
(* A filter and the copies of it.                                          *)

\* One filter is another one but for its heap and its list of calls.
SameLists(f, g) ==
    /\ IsFilter(g) /\ g.arch = f.arch
    /\ g.rules = f.rules /\ g.promised = f.promised

LEMMA WithDbSame ==
  ASSUME NEW f, IsFilter(f), NEW db
  PROVE  SameLists(f, WithDb(f, db))
BY DEF WithDb, IsFilter, SameLists

\* What counts of a filter's heap and calls is the last they were set to.
LEMMA WithDbTwice ==
  ASSUME NEW f, NEW g, IsFilter(f), SameLists(f, g), NEW db
  PROVE  WithDb(g, db) = WithDb(f, db)
BY DEF WithDb, IsFilter, SameLists

\* The copy of f an abort would put in its place is g.
IsCopy(f, g) ==
    LET copy == DbReplay(f.arch, f.rules) IN ~ copy.fails /\ g = WithDb(f, copy)

LEMMA VersionIs ==
  ASSUME NEW f, NEW g
  PROVE  g \in Versions(f) <=> g = f \/ IsCopy(f, g)
BY Zenon DEF Versions, IsCopy

LEMMA VersionSame ==
  ASSUME NEW f, IsFilter(f), NEW g \in Versions(f)
  PROVE  SameLists(f, g)
<1>1. SameLists(f, f)
  BY DEF SameLists
<1>2. IsCopy(f, g) => SameLists(f, g)
  BY WithDbSame, Zenon DEF IsCopy
<1> QED
  BY <1>1, <1>2, VersionIs

\* A copy of what has the same rules is the same copy.
LEMMA CopySame ==
  ASSUME NEW f, NEW g, IsFilter(f), SameLists(f, g), NEW k
  PROVE  IsCopy(f, k) <=> IsCopy(g, k)
<1>1. \A db : WithDb(g, db) = WithDb(f, db)
  BY WithDbTwice
<1>2. g.arch = f.arch /\ g.rules = f.rules
  BY DEF SameLists
<1> QED
  BY <1>1, <1>2, Zenon DEF IsCopy

LEMMA VersionsShrink ==
  ASSUME NEW f, IsFilter(f), NEW g \in Versions(f)
  PROVE  Versions(g) \subseteq Versions(f)
<1> SUFFICES ASSUME NEW k \in Versions(g) PROVE k \in Versions(f)
  OBVIOUS
<1>1. SameLists(f, g)
  BY VersionSame
<1>2. IsCopy(g, k) => IsCopy(f, k)
  BY <1>1, CopySame
<1>3. k = g \/ IsCopy(g, k)
  BY VersionIs
<1> QED
  BY <1>2, <1>3, VersionIs

-----------------------------------------------------------------------------
(* A filter that is asked.                                                 *)

Kept(a, r) == IF Parts(a, r) = << >> THEN <<r>> ELSE Parts(a, r)

LEMMA TookIs ==
  ASSUME NEW f, IsFilter(f), NEW r
  PROVE  LET t == Took(f, r)
         IN  /\ t.rc # "ok" => SameLists(f, t.f)
             /\ t.rc = "ok" => /\ IsFilter(t.f) /\ t.f.arch = f.arch
                               /\ t.f.rules = f.rules \o Kept(f.arch, r)
                               /\ t.f.promised = f.promised
<1> DEFINE t == Took(f, r)
           rules == f.rules \o Kept(f.arch, r)
           g == [f EXCEPT !.rules = rules]
<1>1. PICK db : /\ t.f = WithDb(IF db.rc = "ok" THEN g ELSE f, db)
                /\ t.rc = db.rc
  BY DEF Took, Taken, Kept
<1>2. IsFilter(g) /\ g.arch = f.arch /\ g.rules = rules /\ g.promised = f.promised
  <2> HIDE DEF rules
  <2> QED
    BY DEF IsFilter
<1> HIDE DEF g, t
<1>3. db.rc = "ok" => SameLists(g, t.f)
  BY <1>1, <1>2, WithDbSame
<1>4. db.rc # "ok" => SameLists(f, t.f)
  BY <1>1, WithDbSame
<1>5. SameLists(g, t.f) => /\ IsFilter(t.f) /\ t.f.arch = f.arch /\ t.f.rules = rules
                           /\ t.f.promised = f.promised
  BY <1>2 DEF SameLists
<1> QED
  BY <1>1, <1>3, <1>4, <1>5, Zenon DEF t

\* What a collection counts on in a filter that is to be given a rule.
Sound(f, d, rule) ==
    /\ IsFilter(f) /\ IsList(f.rules)
    /\ \A v \in Versions(f) : InForce(v, d) /\ SameVerdicts(f, d, v, d)
    /\ TakesWell(f, d, rule)

\* What filter f is, as g, from when it was asked until all were: whatever
\* aborts follow.
Asked(f, d, g, r, refused) ==
    /\ IsFilter(g) /\ g.arch = f.arch /\ g.promised = f.promised
    /\ IsList(g.rules) /\ ToSet(f.rules) \subseteq ToSet(g.rules)
    /\ \A w \in Versions(g) : InForce(w, d)
    /\ refused => \A w \in Versions(g) : SameVerdicts(f, d, w, d)
    /\ ~ refused => Listed(g, r)

LEMMA AskedStays ==
  ASSUME NEW f, NEW d, NEW g, NEW r, NEW refused, Asked(f, d, g, r, refused),
         NEW h \in Versions(g)
  PROVE  Asked(f, d, h, r, refused)
<1>1. SameLists(g, h) /\ Versions(h) \subseteq Versions(g)
  BY VersionSame, VersionsShrink DEF Asked
<1>2. Listed(g, r) => Listed(h, r)
  BY <1>1 DEF Listed, SameLists
<1>3. IsFilter(h) /\ h.arch = g.arch /\ h.promised = g.promised /\ h.rules = g.rules
  BY <1>1 DEF SameLists
<1>4. \A w \in Versions(h) : w \in Versions(g)
  BY <1>1
<1> QED
  BY <1>2, <1>3, <1>4 DEF Asked

\* A filter that refuses before it is given anything, or that is a copy.
LEMMA UntouchedRefuses ==
  ASSUME NEW f, NEW d, NEW rule, Sound(f, d, rule), NEW v \in Versions(f), NEW r
  PROVE  Asked(f, d, v, r, TRUE)
<1>1. SameLists(f, v) /\ Versions(v) \subseteq Versions(f)
  BY VersionSame, VersionsShrink DEF Sound
<1>2. IsFilter(v) /\ v.arch = f.arch /\ v.promised = f.promised /\ v.rules = f.rules
  BY <1>1 DEF SameLists
<1>3. \A w \in Versions(v) : InForce(w, d) /\ SameVerdicts(f, d, w, d)
  BY <1>1 DEF Sound
<1> QED
  BY <1>2, <1>3 DEF Asked, Sound

LEMMA TakesWellIs ==
  ASSUME NEW f, NEW d, NEW rule, IsRule(rule), TakesWell(f, d, rule),
         Translate(f.arch, rule.syscall) # NULL, NEW v \in Versions(f)
  PROVE  LET t == Took(v, Own(native, f.arch, rule))
         IN  t.rc = "ok" \/ ~ IsSocket(f.arch, Translate(f.arch, rule.syscall)) =>
                /\ \A w \in Versions(t.f) : InForce(w, d)
                /\ t.rc # "ok" => SameVerdicts(f, d, t.f, d)
<1>1. Own(native, f.arch, rule) = [rule EXCEPT !.syscall = Translate(f.arch, rule.syscall)]
  BY OwnIs
<1> QED
  BY <1>1, Zenon DEF TakesWell

LEMMA TakersAreListed ==
  ASSUME NEW f, NEW d, NEW rule, IsRule(rule), Sound(f, d, rule),
         Translate(f.arch, rule.syscall) # NULL, NEW v \in Versions(f)
  PROVE  LET r == Own(native, f.arch, rule)
             t == Took(v, r)
         IN  t.rc = "ok" => Asked(f, d, t.f, r, FALSE)
<1> DEFINE r == Own(native, f.arch, rule)
           t == Took(v, r)
<1> SUFFICES ASSUME t.rc = "ok" PROVE Asked(f, d, t.f, r, FALSE)
  OBVIOUS
<1>1. SameLists(f, v) /\ IsFilter(f) /\ IsFilter(v)
  BY VersionSame DEF Sound, SameLists
<1>2. IsRule(r)
  BY OwnIs
<1>3. /\ IsFilter(t.f) /\ t.f.arch = v.arch /\ t.f.promised = v.promised
      /\ t.f.rules = v.rules \o Kept(v.arch, r)
  <2> HIDE DEF r
  <2> QED
    BY <1>1, TookIs
<1>4. \A w \in Versions(t.f) : InForce(w, d)
  BY TakesWellIs DEF Sound
<1> HIDE DEF t, r
<1>5. v.arch = f.arch /\ v.promised = f.promised /\ v.rules = f.rules
  BY <1>1 DEF SameLists
<1> DEFINE k == Kept(f.arch, r)
           ps == Parts(f.arch, r)
<1>6. IsList(ps) /\ \A p \in ToSet(ps) : ~ (f.arch = "x86" /\ p.syscall < 0)
  BY <1>2, PartsAre
<1>7. IsList(k) /\ ToSet(ps) \subseteq ToSet(k)
  <2>1. IsList(<<r>>)
    <3>1. <<r>> \in Seq({r})
      OBVIOUS
    <3> QED
      BY <3>1 DEF IsList
  <2>2. k = IF ps = << >> THEN <<r>> ELSE ps
    BY DEF Kept
  <2> HIDE DEF k, ps
  <2> QED
    BY <1>6, <2>1, <2>2, ToSetNone
<1> HIDE DEF k
<1>8. IsList(f.rules)
  BY DEF Sound
<1>9. IsList(t.f.rules) /\ ToSet(t.f.rules) = ToSet(f.rules) \cup ToSet(k)
  <2>1. t.f.rules = f.rules \o k
    BY <1>3, <1>5 DEF k
  <2>2. IsList(f.rules \o k) /\ ToSet(f.rules \o k) = ToSet(f.rules) \cup ToSet(k)
    BY <1>7, <1>8, ToSetConcat
  <2> QED
    BY <2>1, <2>2, Zenon
<1>10. Listed(t.f, r)
  <2>1. t.f.arch = f.arch
    BY <1>3, <1>5
  <2> QED
    BY <1>6, <1>7, <1>9, <2>1 DEF Listed
<1> QED
  BY <1>3, <1>4, <1>5, <1>9, <1>10 DEF Asked

LEMMA RefusersStay ==
  ASSUME NEW f, NEW d, NEW rule, IsRule(rule), Sound(f, d, rule),
         Translate(f.arch, rule.syscall) # NULL, NEW v \in Versions(f)
  PROVE  LET r == Own(native, f.arch, rule)
             t == Took(v, r)
         IN  t.rc # "ok" =>
               /\ SameLists(v, t.f)
               /\ ~ IsSocket(f.arch, Translate(f.arch, rule.syscall)) =>
                     Asked(f, d, t.f, r, TRUE)
<1> DEFINE r == Own(native, f.arch, rule)
           t == Took(v, r)
           g == t.f
<1> SUFFICES ASSUME t.rc # "ok"
             PROVE  /\ SameLists(v, g)
                    /\ ~ IsSocket(f.arch, Translate(f.arch, rule.syscall)) =>
                          Asked(f, d, g, r, TRUE)
  OBVIOUS
<1>1. SameLists(f, v) /\ IsFilter(f) /\ IsFilter(v)
  BY VersionSame DEF Sound, SameLists
<1>2. SameLists(v, g)
  <2> HIDE DEF r
  <2> QED
    BY <1>1, TookIs
<1> SUFFICES ASSUME ~ IsSocket(f.arch, Translate(f.arch, rule.syscall))
             PROVE  Asked(f, d, g, r, TRUE)
  BY <1>2
<1>3. (\A w \in Versions(g) : InForce(w, d)) /\ SameVerdicts(f, d, g, d)
  BY TakesWellIs DEF Sound
<1> HIDE DEF t, r, g
<1>4. SameLists(f, g)
  BY <1>1, <1>2 DEF SameLists
<1>5. \A w \in Versions(g) : SameVerdicts(f, d, w, d)
  <2> SUFFICES ASSUME NEW w \in Versions(g), IsCopy(g, w) PROVE SameVerdicts(f, d, w, d)
    BY <1>3, VersionIs
  <2>1. w \in Versions(f)
    BY <1>1, <1>4, CopySame, VersionIs
  <2> QED
    BY <2>1 DEF Sound
<1> QED
  BY <1>3, <1>4, <1>5 DEF Asked, Sound, SameLists

-----------------------------------------------------------------------------
(* A rule goes to every filter.                                            *)

\* A transaction: copies that cannot be made, copies that are put in place, or
\* what adding the rules made.
LEMMA TransactionIs ==
  ASSUME NEW fs, NEW i, NEW r, NEW snap
  PROVE  LET a == Added(fs, i, r)
             t == Transaction(fs, a, snap)
         IN  \/ t.fs = fs /\ t.rc # "ok"
             \/ /\ ~ \E j \in DOMAIN snap : snap[j].fails
                /\ a.rc # "ok" /\ t.rc # "ok" /\ t.fs = Aborted(a.fs, snap)
             \/ a.rc = "ok" /\ t.rc = "ok" /\ t.fs = a.fs
<1> DEFINE a == Added(fs, i, r)
           gs == Aborted(a.fs, snap)
           t == Transaction(fs, a, snap)
<1>1. a = [fs |-> a.fs, rc |-> a.rc]
  BY DEF Added
<1>2. t = IF \E j \in DOMAIN snap : snap[j].fails THEN [fs |-> fs, rc |-> "ENOMEM"]
          ELSE IF a.rc # "ok" THEN [a EXCEPT !.fs = gs]
          ELSE a
  BY DEF Transaction
<1> SUFFICES \/ t.fs = fs /\ t.rc # "ok"
             \/ /\ ~ \E j \in DOMAIN snap : snap[j].fails
                /\ a.rc # "ok" /\ t.rc # "ok" /\ t.fs = gs
             \/ a.rc = "ok" /\ t.rc = "ok" /\ t.fs = a.fs
  BY Zenon
<1> HIDE DEF a, gs, t
<1>3. [a EXCEPT !.fs = gs].fs = gs /\ [a EXCEPT !.fs = gs].rc = a.rc
  BY <1>1
<1> QED
  BY <1>2, <1>3

LEMMA FilterRuleAddIs ==
  ASSUME NEW fs, NEW i, NEW strict, NEW rule, IsRule(rule)
  PROVE  LET f == fs[i]
             nr == Translate(f.arch, rule.syscall)
             a == Added(fs, i, Own(native, f.arch, rule))
             b == FilterRuleAdd(fs, i, strict, rule)
         IN  \/ b.fs = fs /\ b.rc # "ok"
             \/ nr # NULL /\ ~ IsSocket(f.arch, nr) /\ b = a
             \/ nr # NULL /\ IsSocket(f.arch, nr) /\ b = Transaction(fs, a, Snapshot(fs))
<1> DEFINE f == fs[i]
           nr == Translate(f.arch, rule.syscall)
           a == Added(fs, i, [rule EXCEPT !.syscall = nr])
           b == FilterRuleAdd(fs, i, strict, rule)
           u == Transaction(fs, a, Snapshot(fs))
<1>1. Own(native, f.arch, rule) = [rule EXCEPT !.syscall = nr]
  BY OwnIs
<1>2. \/ \E rc \in {"EFAULT", "EDOM", "EINVAL"} : b = [fs |-> fs, rc |-> rc]
      \/ nr # NULL /\ ~ IsSocket(f.arch, nr) /\ b = a
      \/ nr # NULL /\ IsSocket(f.arch, nr) /\ b = u
  BY Zenon DEF FilterRuleAdd
<1> SUFFICES \/ b.fs = fs /\ b.rc # "ok"
             \/ nr # NULL /\ ~ IsSocket(f.arch, nr) /\ b = a
             \/ nr # NULL /\ IsSocket(f.arch, nr) /\ b = u
  BY <1>1, Zenon
<1> HIDE DEF nr, a, b, u
<1> QED
  BY <1>2

\* Asking the filter at i, which the others may have been aborted for: it took
\* the rule or refused it, and any other is as it was or a copy of that.
LEMMA FilterRuleAddAsks ==
  ASSUME NEW f, NEW d, NEW rule, IsRule(rule), Sound(f, d, rule),
         NEW fs, FilterList(fs), NEW i \in DOMAIN fs, fs[i] \in Versions(f), NEW strict
  PROVE  LET b == FilterRuleAdd(fs, i, strict, rule)
         IN  /\ Asked(f, d, b.fs[i], Own(native, f.arch, rule), b.rc # "ok")
             /\ \A j \in DOMAIN fs \ {i} : b.fs[j] \in Versions(fs[j])
<1> DEFINE v == fs[i]
           r == Own(native, f.arch, rule)
           nr == Translate(f.arch, rule.syscall)
           t == Took(v, r)
           a == Added(fs, i, r)
           b == FilterRuleAdd(fs, i, strict, rule)
           snap == Snapshot(fs)
           done(x) == /\ Asked(f, d, x.fs[i], r, x.rc # "ok")
                      /\ \A j \in DOMAIN fs \ {i} : x.fs[j] \in Versions(fs[j])
<1> SUFFICES done(b)
  BY Zenon
<1>1. SameLists(f, v) /\ IsFilter(f) /\ IsFilter(v) /\ v.arch = f.arch /\ v.rules = f.rules
  BY VersionSame DEF Sound, SameLists
<1>2. \A j \in DOMAIN fs : fs[j] \in Versions(fs[j])
  BY VersionIs
<1>3. Asked(f, d, v, r, TRUE)
  BY UntouchedRefuses
<1>4. \/ b.fs = fs /\ b.rc # "ok"
      \/ nr # NULL /\ ~ IsSocket(f.arch, nr) /\ b = a
      \/ nr # NULL /\ IsSocket(f.arch, nr) /\ b = Transaction(fs, a, snap)
  <2>1. v.arch = f.arch
    BY <1>1
  <2> QED
    BY <2>1, FilterRuleAddIs, Zenon
<1>5. a.fs = [fs EXCEPT ![i] = t.f] /\ a.rc = t.rc
  BY AddedIs
<1>6. \A j \in DOMAIN fs : a.fs[j] = IF j = i THEN t.f ELSE fs[j]
  BY <1>5
<1>7. nr # NULL /\ t.rc = "ok" => Asked(f, d, t.f, r, FALSE)
  BY TakersAreListed
<1>8. nr # NULL /\ t.rc # "ok" =>
         /\ SameLists(v, t.f)
         /\ ~ IsSocket(f.arch, nr) => Asked(f, d, t.f, r, TRUE)
  BY RefusersStay
<1>9. \/ b.fs = fs /\ b.rc # "ok"
      \/ nr # NULL /\ b = a /\ (a.rc = "ok" \/ ~ IsSocket(f.arch, nr))
      \/ nr # NULL /\ b.fs = a.fs /\ b.rc = "ok" /\ a.rc = "ok"
      \/ /\ nr # NULL /\ a.rc # "ok" /\ b.rc # "ok"
         /\ ~ \E j \in DOMAIN snap : snap[j].fails
         /\ b.fs = Aborted(a.fs, snap)
  <2>1. b = Transaction(fs, a, snap) =>
           \/ b.fs = fs /\ b.rc # "ok"
           \/ /\ ~ \E j \in DOMAIN snap : snap[j].fails
              /\ a.rc # "ok" /\ b.rc # "ok" /\ b.fs = Aborted(a.fs, snap)
           \/ a.rc = "ok" /\ b.rc = "ok" /\ b.fs = a.fs
    <3> DEFINE u == Transaction(fs, a, snap)
    <3>1. \/ u.fs = fs /\ u.rc # "ok"
          \/ /\ ~ \E j \in DOMAIN snap : snap[j].fails
             /\ a.rc # "ok" /\ u.rc # "ok" /\ u.fs = Aborted(a.fs, snap)
          \/ a.rc = "ok" /\ u.rc = "ok" /\ u.fs = a.fs
      <4> HIDE DEF snap, r
      <4> QED
        BY TransactionIs
    <3> HIDE DEF u, a, b, snap
    <3> SUFFICES ASSUME b = u
                 PROVE  \/ b.fs = fs /\ b.rc # "ok"
                        \/ /\ ~ \E j \in DOMAIN snap : snap[j].fails
                           /\ a.rc # "ok" /\ b.rc # "ok" /\ b.fs = Aborted(a.fs, snap)
                        \/ a.rc = "ok" /\ b.rc = "ok" /\ b.fs = a.fs
      BY DEF u
    <3> QED
      BY <3>1
  <2> HIDE DEF a, b, snap, nr
  <2> QED
    BY <1>4, <2>1
<1> HIDE DEF a, b, nr, r, t
<1>10. CASE b.fs = fs /\ b.rc # "ok"
  BY <1>2, <1>3, <1>10
<1>11. CASE /\ nr # NULL /\ b.fs = a.fs /\ b.rc = a.rc
            /\ a.rc = "ok" \/ ~ IsSocket(f.arch, nr)
  BY <1>2, <1>5, <1>6, <1>7, <1>8, <1>11
<1>12. CASE /\ nr # NULL /\ a.rc # "ok" /\ b.rc # "ok"
            /\ ~ \E j \in DOMAIN snap : snap[j].fails
            /\ b.fs = Aborted(a.fs, snap)
  <2>1. /\ DOMAIN snap = DOMAIN fs
        /\ \A j \in DOMAIN fs : snap[j] = DbReplay(fs[j].arch, fs[j].rules)
    BY DEF Snapshot
  <2>2. DOMAIN a.fs = DOMAIN fs
    BY <1>5
  <2>3. \A j \in DOMAIN fs : b.fs[j] = WithDb(a.fs[j], snap[j])
    <3> HIDE DEF snap
    <3> QED
      BY <1>12, <2>2, Zenon DEF Aborted
  <2>4. \A j \in DOMAIN fs : IsCopy(fs[j], WithDb(fs[j], snap[j]))
    <3> SUFFICES ASSUME NEW j \in DOMAIN fs PROVE IsCopy(fs[j], WithDb(fs[j], snap[j]))
      OBVIOUS
    <3>1. ~ snap[j].fails /\ snap[j] = DbReplay(fs[j].arch, fs[j].rules)
      BY <1>12, <2>1
    <3> QED
      BY <3>1, Zenon DEF IsCopy
  <2>5. \A j \in DOMAIN fs : WithDb(a.fs[j], snap[j]) = WithDb(fs[j], snap[j])
    <3>1. SameLists(v, t.f)
      BY <1>5, <1>8, <1>12
    <3>2. WithDb(t.f, snap[i]) = WithDb(v, snap[i])
      BY <1>1, <3>1, WithDbTwice
    <3> HIDE DEF snap
    <3> QED
      BY <1>6, <3>2
  <2>6. \A j \in DOMAIN fs : b.fs[j] \in Versions(fs[j])
    BY <2>3, <2>4, <2>5, VersionIs
  <2>7. Asked(f, d, b.fs[i], r, TRUE)
    BY <1>3, <2>6, AskedStays
  <2> QED
    BY <1>12, <2>6, <2>7
<1> QED
  BY <1>9, <1>10, <1>11, <1>12

\* Where asking all filters of fs has got: s holds the places of those asked.
Going(fs, d, rule, s, acc) ==
    /\ KeepsArchs(fs, acc.fs)
    /\ \A i \in DOMAIN fs \ s : acc.fs[i] \in Versions(fs[i])
    /\ \A i \in s : Asked(fs[i], d, acc.fs[i], Own(native, fs[i].arch, rule),
                          fs[i].arch \in acc.refused)
    /\ acc.refused \subseteq {fs[i].arch : i \in s}
    /\ acc.rc = "ok" => acc.refused = {}

LEMMA OneMoreAsked ==
  ASSUME NEW fs, FilterList(fs), Distinct(fs), NEW d, NEW rule, IsRule(rule),
         \A i \in DOMAIN fs : Sound(fs[i], d, rule), NEW strict,
         NEW n \in SUBSET DOMAIN fs, NEW i \in DOMAIN fs \ n, NEW acc,
         Going(fs, d, rule, n, acc), NEW acc2,
         acc2 = Answered(acc, FilterRuleAdd(acc.fs, i, strict, rule), fs[i].arch)
  PROVE  Going(fs, d, rule, n \cup {i}, acc2)
<1> DEFINE gs == acc.fs
           b == FilterRuleAdd(gs, i, strict, rule)
           own(j) == Own(native, fs[j].arch, rule)
<1>1. /\ KeepsArchs(fs, gs)
      /\ \A j \in DOMAIN fs \ n : gs[j] \in Versions(fs[j])
      /\ \A j \in n : Asked(fs[j], d, gs[j], own(j), fs[j].arch \in acc.refused)
      /\ acc.refused \subseteq {fs[j].arch : j \in n}
      /\ acc.rc = "ok" => acc.refused = {}
  BY DEF Going
<1>2. FilterList(gs) /\ DOMAIN gs = DOMAIN fs
  BY <1>1 DEF KeepsArchs
<1>3. KeepsArchs(fs, b.fs)
  BY <1>1, <1>2, FilterRuleAddKeeps, KeepsTrans
<1>4. /\ Asked(fs[i], d, b.fs[i], own(i), b.rc # "ok")
      /\ \A j \in DOMAIN fs \ {i} : b.fs[j] \in Versions(gs[j])
  <2>1. gs[i] \in Versions(fs[i]) /\ Sound(fs[i], d, rule)
    BY <1>1
  <2> HIDE DEF gs
  <2> QED
    BY <1>2, <2>1, FilterRuleAddAsks, Zenon
<1>5. acc2 = [fs |-> b.fs, rc |-> IF acc.rc = "ok" THEN b.rc ELSE acc.rc,
              refused |-> IF b.rc = "ok" THEN acc.refused
                          ELSE acc.refused \cup {fs[i].arch}]
  BY Zenon DEF Answered
<1>6. /\ acc2.fs = b.fs
      /\ acc2.rc = IF acc.rc = "ok" THEN b.rc ELSE acc.rc
      /\ acc2.refused = IF b.rc = "ok" THEN acc.refused ELSE acc.refused \cup {fs[i].arch}
  <2> HIDE DEF b
  <2> QED
    BY <1>5
<1>7. \A j \in DOMAIN fs : IsFilter(fs[j])
  BY ListParts
<1> HIDE DEF b, gs
<1>8. \A j \in DOMAIN fs \ (n \cup {i}) : acc2.fs[j] \in Versions(fs[j])
  <2> SUFFICES ASSUME NEW j \in DOMAIN fs \ (n \cup {i}) PROVE acc2.fs[j] \in Versions(fs[j])
    OBVIOUS
  <2>1. Versions(gs[j]) \subseteq Versions(fs[j])
    BY <1>1, <1>7, VersionsShrink
  <2> QED
    BY <1>4, <1>6, <2>1
<1>9. fs[i].arch \notin acc.refused /\ \A j \in n : fs[j].arch # fs[i].arch
  BY <1>1 DEF Distinct
<1>10. \A j \in n : Asked(fs[j], d, acc2.fs[j], own(j), fs[j].arch \in acc2.refused)
  <2> SUFFICES ASSUME NEW j \in n
               PROVE  Asked(fs[j], d, acc2.fs[j], own(j), fs[j].arch \in acc2.refused)
    OBVIOUS
  <2> DEFINE was == fs[j].arch \in acc.refused
             now == fs[j].arch \in acc2.refused
  <2>1. Asked(fs[j], d, acc2.fs[j], own(j), was)
    <3>1. acc2.fs[j] \in Versions(gs[j]) /\ Asked(fs[j], d, gs[j], own(j), was)
      BY <1>1, <1>4, <1>6
    <3> HIDE DEF was, own
    <3> QED
      BY <3>1, AskedStays
  <2>2. was <=> now
    BY <1>6, <1>9
  <2> HIDE DEF own, was, now
  <2>3. Asked(fs[j], d, acc2.fs[j], own(j), now)
    BY <2>1, <2>2 DEF Asked
  <2> QED
    BY <2>3 DEF now
<1>11. Asked(fs[i], d, acc2.fs[i], own(i), fs[i].arch \in acc2.refused)
  <2> DEFINE was == b.rc # "ok"
             now == fs[i].arch \in acc2.refused
  <2>1. was <=> now
    BY <1>6, <1>9
  <2>2. Asked(fs[i], d, acc2.fs[i], own(i), was)
    BY <1>4, <1>6
  <2> HIDE DEF own, was, now
  <2>3. Asked(fs[i], d, acc2.fs[i], own(i), now)
    BY <2>1, <2>2 DEF Asked
  <2> QED
    BY <2>3 DEF now
<1>12. acc2.refused \subseteq {fs[j].arch : j \in n \cup {i}}
  BY <1>1, <1>6
<1>13. acc2.rc = "ok" => acc2.refused = {}
  BY <1>1, <1>6
<1>14. KeepsArchs(fs, acc2.fs)
  BY <1>3, <1>6
<1> HIDE DEF own
<1>15. \A j \in n \cup {i} : Asked(fs[j], d, acc2.fs[j], own(j), fs[j].arch \in acc2.refused)
  BY <1>10, <1>11
<1> QED
  BY <1>8, <1>12, <1>13, <1>14, <1>15 DEF Going, own

\* Every filter of the collection has been asked.
LEMMA AllAsked ==
  ASSUME NEW fs, FilterList(fs), Distinct(fs), NEW d, NEW rule, IsRule(rule),
         \A i \in DOMAIN fs : Sound(fs[i], d, rule), NEW strict
  PROVE  Going(fs, d, rule, DOMAIN fs, ColRuleAdd(fs, strict, rule))
<1> DEFINE x == [fs |-> fs, strict |-> strict, rule |-> rule]
           S == DOMAIN fs
           g == Folded(x, S)
<1>1. /\ x.fs = fs /\ x.strict = strict /\ x.rule = rule
      /\ DOMAIN Index(x) = S /\ \A i \in S : Index(x)[i] = i
  BY DEF Index
<1>2. ColRuleAdd(fs, strict, rule) = g[S]
  <2>1. ColRuleAdd(fs, strict, rule) = Folded(x, DOMAIN Index(x))[DOMAIN Index(x)]
    BY ColRuleAddFolds
  <2> QED
    BY <1>1, <2>1, Zenon
<1>3. Places(S)
  BY ListParts DEF Places
<1>4. Folds(g, x, S)
  BY <1>3, FoldExists
<1> HIDE DEF x, g
<1> DEFINE B == {s \in SUBSET S : ~ Going(fs, d, rule, s, g[s])}
<1>5. SUFFICES ASSUME B # {} PROVE FALSE
  BY <1>2
<1>6. PICK m \in B : \A u \in B : u \subseteq m => u = m
  <2>1. B \subseteq SUBSET S /\ IsFiniteSet(S)
    BY <1>3, PlacesParts
  <2> HIDE DEF B
  <2> QED
    BY <1>5, <2>1, SmallestOf
<1>7. m \in SUBSET S /\ ~ Going(fs, d, rule, m, g[m])
  OBVIOUS
<1>8. m # {}
  <2>1. m = {} => g[m] = Nobody(x)
    BY <1>4, FoldsAt
  <2>2. \A i \in DOMAIN fs : fs[i] \in Versions(fs[i])
    BY VersionIs
  <2>3. Nobody(x).fs = fs /\ Nobody(x).refused = {}
    BY <1>1 DEF Nobody
  <2>4. Going(fs, d, rule, {}, Nobody(x))
    BY <2>2, <2>3, KeepsRefl DEF Going
  <2> QED
    BY <1>7, <2>1, <2>4
<1> DEFINE n == m \ {Highest(m)}
           i == Highest(m)
<1>9. i \in m /\ n \notin B /\ n \subseteq S /\ m = n \cup {i}
  BY <1>3, <1>6, <1>8, PlacesParts
<1>10. Going(fs, d, rule, n, g[n])
  BY <1>9
<1>11. g[m] = Ask(x, g[n], i)
  BY <1>1, <1>4, <1>7, <1>8, <1>9, FoldsAt
<1>12. i \in S \ n
  BY <1>7, <1>9
<1> HIDE DEF B, n, i
<1>13. g[m] = Answered(g[n], FilterRuleAdd(g[n].fs, i, strict, rule), fs[i].arch)
  BY <1>1, <1>11, Zenon DEF Ask
<1>14. Going(fs, d, rule, n \cup {i}, g[m])
  BY <1>9, <1>10, <1>12, <1>13, OneMoreAsked
<1> QED
  BY <1>7, <1>9, <1>14

-----------------------------------------------------------------------------
(* The invariant of what filters promised.                                 *)

\* A filter in a collection with default action d, on machine m.
Safe(f, d, m) ==
    /\ IsList(f.rules)
    /\ InForce(f, d)
    /\ \A rule \in f.promised : Listed(f, Own(m, f.arch, rule))

SafeCol(k, m) == \A i \in DOMAIN k.filters : Safe(k.filters[i], k.act_default, m)

SafeInv == native \in Native /\ \A c \in Ctx : SafeCol(col[c], native)

LEMMA NewIsSafe ==
  ASSUME NEW a, NEW d, NEW m
  PROVE  Safe(NewFilter(a), d, m)
<1>1. NewFilter(a).rules = << >> /\ NewFilter(a).promised = {}
  BY DEF NewFilter
<1>2. << >> \in Seq({})
  OBVIOUS
<1> QED
  BY <1>1, <1>2, ToSetNone DEF Safe, IsList, InForce

LEMMA ColOfSafe ==
  ASSUME NEW a, NEW d, NEW m
  PROVE  SafeCol(ColOf(a, d), m)
<1>1. ColOf(a, d).filters = <<NewFilter(a)>> /\ ColOf(a, d).act_default = d
  BY DEF ColOf
<1>2. \A f : \A i \in DOMAIN <<f>> : <<f>>[i] = f
  OBVIOUS
<1> QED
  BY <1>1, <1>2, NewIsSafe DEF SafeCol

LEMMA InForceSame ==
  ASSUME NEW f, NEW g, NEW d, g.arch = f.arch, g.h = f.h, g.sys = f.sys, g.rules = f.rules,
         InForce(f, d)
  PROVE  InForce(g, d)
BY DEF InForce, Says

LEMMA SafeAfter ==
  ASSUME NEW f, NEW g, NEW d, NEW m, Safe(f, d, m), NEW r, NEW refused,
         Asked(f, d, g, r, refused)
  PROVE  Safe(g, d, m)
<1>1. InForce(g, d)
  <2>1. g \in Versions(g)
    BY VersionIs
  <2> QED
    BY <2>1 DEF Asked
<1>2. \A rule \in g.promised : Listed(g, Own(m, g.arch, rule))
  <2> SUFFICES ASSUME NEW rule \in f.promised PROVE Listed(g, Own(m, f.arch, rule))
    BY DEF Asked
  <2>1. Listed(f, Own(m, f.arch, rule))
    BY DEF Safe
  <2> QED
    BY <2>1 DEF Listed, Asked
<1> QED
  BY <1>1, <1>2 DEF Safe, Asked

LEMMA SafePromise ==
  ASSUME NEW g, IsFilter(g), NEW d, NEW m, Safe(g, d, m), NEW rule,
         Listed(g, Own(m, g.arch, rule))
  PROVE  Safe([g EXCEPT !.promised = @ \cup {rule}], d, m)
<1> DEFINE ps == g.promised \cup {rule}
           h == [g EXCEPT !.promised = ps]
<1>1. /\ h.arch = g.arch /\ h.h = g.h /\ h.sys = g.sys /\ h.rules = g.rules
      /\ h.promised = ps
  <2> HIDE DEF ps
  <2> QED
    BY DEF IsFilter
<1> HIDE DEF h
<1>2. InForce(h, d)
  BY <1>1, InForceSame DEF Safe
<1>3. \A q \in h.promised : Listed(h, Own(m, h.arch, q))
  <2> SUFFICES ASSUME NEW q \in ps PROVE Listed(h, Own(m, g.arch, q))
    BY <1>1
  <2>1. Listed(g, Own(m, g.arch, q))
    BY DEF Safe
  <2> QED
    BY <1>1, <2>1 DEF Listed
<1>4. Safe(h, d, m)
  BY <1>1, <1>2, <1>3 DEF Safe
<1> QED
  BY <1>4 DEF h

LEMMA SoundFilters ==
  ASSUME ColInv, SafeInv, FiltersKeepWord, last.calls < MaxCalls, NEW c \in Ctx,
         NEW rule \in Rule[native], rule.action # col[c].act_default
  PROVE  \A i \in DOMAIN col[c].filters : Sound(col[c].filters[i], col[c].act_default, rule)
<1> DEFINE fs == col[c].filters
           d == col[c].act_default
<1> SUFFICES ASSUME NEW i \in DOMAIN fs PROVE Sound(fs[i], d, rule)
  OBVIOUS
<1>1. fs[i] \in ToSet(fs)
  BY DEF ToSet
<1>2. /\ \A v \in Versions(fs[i]) : InForce(v, d) /\ SameVerdicts(fs[i], d, v, d)
      /\ TakesWell(fs[i], d, rule)
  BY <1>1, Zenon DEF FiltersKeepWord
<1>3. IsFilter(fs[i])
  BY ListParts DEF ColInv, Good
<1>4. IsList(fs[i].rules)
  BY DEF SafeInv, SafeCol, Safe
<1> QED
  BY <1>2, <1>3, <1>4 DEF Sound

\* What adding a rule leaves: a refusal somewhere is the answer of no success.
LEMMA RuleAnswers ==
  ASSUME ColInv, SafeInv, FiltersKeepWord, NEW c \in Ctx, ColValid(c), NEW strict,
         NEW rule \in Rule[native], rule.action # col[c].act_default,
         RuleAnswer(c, rule, ColRuleAdd(col[c].filters, strict, rule))
  PROVE  LET k == col[c]
             fs == k.filters
             a == ColRuleAdd(fs, strict, rule)
             gs == IF a.rc = "ok"
                   THEN [i \in DOMAIN a.fs |-> [a.fs[i] EXCEPT !.promised = @ \cup {rule}]]
                   ELSE a.fs
         IN  /\ Distinct(fs)
             /\ Going(fs, k.act_default, rule, DOMAIN fs, a)
             /\ col' = [d \in Ctx |-> IF d = c THEN [k EXCEPT !.filters = gs] ELSE col[d]]
             /\ [k EXCEPT !.filters = gs].filters = gs
             /\ [k EXCEPT !.filters = gs].act_default = k.act_default
             /\ last'.ctx = c /\ last'.refused = a.refused
<1> DEFINE k == col[c]
           fs == k.filters
           a == ColRuleAdd(fs, strict, rule)
           gs == IF a.rc = "ok"
                 THEN [i \in DOMAIN a.fs |-> [a.fs[i] EXCEPT !.promised = @ \cup {rule}]]
                 ELSE a.fs
<1>1. Good(k, support) /\ k.valid
  BY DEF ColInv, ColValid
<1>2. FilterList(fs) /\ Distinct(fs)
  BY <1>1 DEF Good
<1>3. IsRule(rule)
  BY FilterColAssumption DEF SafeInv, IsRule
<1>4. Going(fs, k.act_default, rule, DOMAIN fs, a)
  <2>1. \A i \in DOMAIN fs : Sound(fs[i], k.act_default, rule)
    BY SoundFilters DEF RuleAnswer
  <2> HIDE DEF k, fs
  <2> QED
    BY <1>2, <1>3, <2>1, AllAsked DEF fs
<1>5. last'.ctx = c /\ last'.refused = a.refused
  BY DEF RuleAnswer
<1>6. col' = [col EXCEPT ![c].filters = gs]
  BY Zenon DEF RuleAnswer
<1> HIDE DEF gs
<1>7. col' = [d \in Ctx |-> IF d = c THEN [k EXCEPT !.filters = gs] ELSE col[d]]
  BY <1>6 DEF ColInv
<1>8. [k EXCEPT !.filters = gs].filters = gs /\ [k EXCEPT !.filters = gs].act_default = k.act_default
  <2> HIDE DEF k
  <2> QED
    BY <1>1 DEF Good, IsCol
<1> QED
  BY <1>2, <1>4, <1>5, <1>7, <1>8, Zenon DEF gs

LEMMA CallSafe ==
  ASSUME ColInv, SafeInv, NEW c \in Ctx, NEW op, NEW rc, NEW new, Call(op, c, rc, new),
         native' = native, SafeCol(new, native)
  PROVE  SafeInv'
<1>1. \A d \in Ctx : col'[d] = IF d = c THEN new ELSE col[d]
  BY DEF ColInv, Call
<1>2. \A d \in Ctx : SafeCol(col'[d], native)
  BY <1>1 DEF SafeInv
<1> QED
  BY <1>2 DEF SafeInv

LEMMA RuleAddSafe ==
  ASSUME ColInv, SafeInv, FiltersKeepWord, NEW c \in Ctx, NEW strict,
         NEW rule \in Rule[native], SeccompRuleAdd(c, strict, rule)
  PROVE  SafeInv'
<1> DEFINE k == col[c]
           fs == k.filters
           d == k.act_default
           a == ColRuleAdd(fs, strict, rule)
           promise(f) == [f EXCEPT !.promised = @ \cup {rule}]
           gs == IF a.rc = "ok" THEN [i \in DOMAIN a.fs |-> promise(a.fs[i])] ELSE a.fs
           n == [k EXCEPT !.filters = gs]
<1>1. native' = native /\ SafeCol(k, native)
  BY DEF SeccompRuleAdd, SafeInv
<1>2. CASE \E rc : Call("rule_add", c, rc, k)
  BY <1>1, <1>2, CallSafe
<1>3. CASE /\ RuleAnswer(c, rule, a) /\ ColValid(c) /\ rule.action # d
  <2>1. /\ Distinct(fs) /\ Going(fs, d, rule, DOMAIN fs, a)
        /\ col' = [e \in Ctx |-> IF e = c THEN n ELSE col[e]]
        /\ n.filters = gs /\ n.act_default = d
    BY <1>3, RuleAnswers, Zenon
  <2> HIDE DEF a
  <2>2. /\ DOMAIN a.fs = DOMAIN fs
        /\ \A i \in DOMAIN fs : IsFilter(a.fs[i]) /\ a.fs[i].arch = fs[i].arch
    <3>1. KeepsArchs(fs, a.fs)
      BY <2>1 DEF Going
    <3> QED
      BY <3>1, ListParts DEF KeepsArchs
  <2>3. \A i \in DOMAIN fs : Asked(fs[i], d, a.fs[i], Own(native, fs[i].arch, rule),
                                   fs[i].arch \in a.refused)
    BY <2>1 DEF Going
  <2>4. \A i \in DOMAIN fs : Safe(a.fs[i], d, native)
    <3>1. \A i \in DOMAIN fs : Safe(fs[i], d, native)
      BY <1>1 DEF SafeCol
    <3> HIDE DEF fs, d
    <3> QED
      BY <2>3, <3>1, SafeAfter
  <2>5. ASSUME a.rc = "ok", NEW i \in DOMAIN fs PROVE Safe(promise(a.fs[i]), d, native)
    <3>1. fs[i].arch \notin a.refused
      BY <2>1, <2>5 DEF Going
    <3>2. Listed(a.fs[i], Own(native, fs[i].arch, rule))
      BY <2>3, <3>1 DEF Asked
    <3> HIDE DEF fs, d
    <3> QED
      BY <2>2, <2>4, <2>5, <3>2, SafePromise
  <2>6. \A i \in DOMAIN gs : Safe(gs[i], d, native)
    <3>1. CASE a.rc = "ok"
      <4>1. DOMAIN gs = DOMAIN fs /\ \A i \in DOMAIN gs : gs[i] = promise(a.fs[i])
        BY <2>2, <3>1
      <4> HIDE DEF gs, promise
      <4> QED
        BY <2>5, <3>1, <4>1
    <3>2. CASE a.rc # "ok"
      BY <2>2, <2>4, <3>2
    <3> QED
      BY <3>1, <3>2
  <2> HIDE DEF gs, n
  <2>7. SafeCol(n, native)
    BY <2>1, <2>6 DEF SafeCol
  <2>8. \A e \in Ctx : SafeCol(col'[e], native)
    BY <2>1, <2>7 DEF SafeInv
  <2> QED
    BY <1>1, <2>8 DEF SafeInv
<1>4. \/ \E rc : Call("rule_add", c, rc, k)
      \/ RuleAnswer(c, rule, a) /\ ColValid(c) /\ rule.action # d
  BY Zenon DEF SeccompRuleAdd
<1> QED
  BY <1>2, <1>3, <1>4

LEMMA HintedSame ==
  ASSUME NEW f, IsFilter(f), NEW nr, NEW p
  PROVE  SameLists(f, Hinted(f, nr, p))
<1>1. SameLists(f, f)
  BY DEF SameLists
<1>2. \A sys : SameLists(f, [f EXCEPT !.sys = sys])
  BY DEF SameLists, IsFilter
<1> QED
  <2> DEFINE g == Hinted(f, nr, p)
  <2>1. g = f \/ \E sys : g = [f EXCEPT !.sys = sys]
    BY HintedIs
  <2> HIDE DEF g
  <2>2. SameLists(f, g)
    BY <1>1, <1>2, <2>1
  <2> QED
    BY <2>2 DEF g

LEMMA PrioritySafe ==
  ASSUME ColInv, SafeInv, FiltersKeepWord, NEW c \in Ctx, NEW nr \in Priority[native],
         SeccompSyscallPriority(c, nr, 1)
  PROVE  SafeInv'
<1> DEFINE k == col[c]
           fs == k.filters
           d == k.act_default
           gs == [i \in DOMAIN fs |-> Hinted(fs[i], nr, 1)]
           n == [k EXCEPT !.filters = gs]
<1>1. native' = native /\ SafeCol(k, native) /\ Good(k, support)
  BY DEF SeccompSyscallPriority, SafeInv, ColInv
<1>2. \E rc : Call("priority", c, rc, k) \/ Call("priority", c, rc, n)
  BY Zenon DEF SeccompSyscallPriority
<1>3. ASSUME last.calls < MaxCalls PROVE SafeCol(n, native)
  <2>1. \A i \in DOMAIN fs : InForce(Hinted(fs[i], nr, 1), d)
    <3> SUFFICES ASSUME NEW i \in DOMAIN fs PROVE InForce(Hinted(fs[i], nr, 1), d)
      OBVIOUS
    <3>1. fs[i] \in ToSet(fs)
      BY DEF ToSet
    <3> QED
      BY <1>3, <3>1, Zenon DEF FiltersKeepWord
  <2>2. \A i \in DOMAIN fs : SameLists(fs[i], Hinted(fs[i], nr, 1))
    BY <1>1, ListParts, HintedSame DEF Good
  <2>3. \A i \in DOMAIN fs : Safe(fs[i], d, native)
    BY <1>1 DEF SafeCol
  <2>4. \A i \in DOMAIN fs : Safe(Hinted(fs[i], nr, 1), d, native)
    <3> SUFFICES ASSUME NEW i \in DOMAIN fs PROVE Safe(Hinted(fs[i], nr, 1), d, native)
      OBVIOUS
    <3> DEFINE f == fs[i]
               g == Hinted(f, nr, 1)
    <3>1. InForce(g, d) /\ SameLists(f, g) /\ Safe(f, d, native)
      BY <2>1, <2>2, <2>3
    <3> HIDE DEF f, g, d
    <3>2. g.arch = f.arch /\ g.rules = f.rules /\ g.promised = f.promised
      BY <3>1 DEF SameLists
    <3>3. Safe(g, d, native)
      BY <3>1, <3>2 DEF Safe, Listed
    <3> QED
      BY <3>3 DEF f, g
  <2>5. DOMAIN gs = DOMAIN fs /\ \A i \in DOMAIN fs : gs[i] = Hinted(fs[i], nr, 1)
    OBVIOUS
  <2>6. n.filters = gs /\ n.act_default = d
    <3> HIDE DEF gs, k
    <3> QED
      BY <1>1 DEF Good, IsCol
  <2> HIDE DEF gs, n
  <2> QED
    BY <2>4, <2>5, <2>6 DEF SafeCol
<1> HIDE DEF n
<1>4. last.calls < MaxCalls
  BY <1>2 DEF Call
<1> QED
  BY <1>1, <1>2, <1>3, <1>4, CallSafe

LEMMA ArchAddSafe ==
  ASSUME ColInv, SafeInv, NEW c \in Ctx, NEW a \in Arch, SeccompArchAdd(c, a)
  PROVE  SafeInv'
<1> DEFINE k == col[c]
           fs == k.filters
           gs == Append(fs, NewFilter(a))
           e == Endian[a]
           n == [k EXCEPT !.filters = gs, !.endian = e]
<1>1. native' = native /\ SafeCol(k, native) /\ Good(k, support)
  BY DEF SeccompArchAdd, SafeInv, ColInv
<1>2. \E rc : Call("arch_add", c, rc, k) \/ Call("arch_add", c, rc, n)
  BY Zenon DEF SeccompArchAdd
<1>3. SafeCol(n, native)
  <2>1. n.filters = gs /\ n.act_default = k.act_default
    <3> HIDE DEF gs, k, e
    <3> QED
      BY <1>1 DEF Good, IsCol
  <2>2. /\ Len(fs) \in Nat /\ DOMAIN fs = 1 .. Len(fs)
        /\ FilterList(gs) /\ Len(gs) = Len(fs) + 1
        /\ \A i \in 1 .. Len(fs) : gs[i] = fs[i]
        /\ gs[Len(fs) + 1] = NewFilter(a)
    BY <1>1, ListParts, ListAppend, NewFilterIs DEF Good
  <2> HIDE DEF gs, n
  <2>3. DOMAIN gs = 1 .. Len(fs) + 1
    BY <2>2, ListParts
  <2>4. \A i \in DOMAIN gs : (i \in DOMAIN fs /\ gs[i] = fs[i]) \/ gs[i] = NewFilter(a)
    BY <2>2, <2>3
  <2> QED
    BY <1>1, <2>1, <2>4, NewIsSafe DEF SafeCol
<1> HIDE DEF n
<1> QED
  BY <1>1, <1>2, <1>3, CallSafe

LEMMA ArchRemoveSafe ==
  ASSUME ColInv, SafeInv, NEW c \in Ctx, NEW a, SeccompArchRemove(c, a)
  PROVE  SafeInv'
<1> DEFINE k == col[c]
           fs == k.filters
           gs == WithoutArch(fs, a)
           e == IF gs = << >> THEN NULL ELSE k.endian
           n == [k EXCEPT !.filters = gs, !.endian = e]
<1>1. native' = native /\ SafeCol(k, native) /\ Good(k, support)
  BY DEF SeccompArchRemove, SafeInv, ColInv
<1>2. \/ ArchExist(c, a) /\ Call("arch_remove", c, "ok", n)
      \/ Call("arch_remove", c, "EEXIST", k)
  BY Zenon DEF SeccompArchRemove, Removed
<1>3. ASSUME ArchExist(c, a) PROVE SafeCol(n, native)
  <2>1. n.filters = gs /\ n.act_default = k.act_default
    <3> HIDE DEF gs, k, e
    <3> QED
      BY <1>1 DEF Good, IsCol
  <2>2. FilterList(fs) /\ Len(fs) \in Nat /\ DOMAIN fs = 1 .. Len(fs)
    BY <1>1, ListParts DEF Good
  <2>3. PICK i \in 1 .. Len(fs) : gs = RemoveAt(fs, i)
    <3>1. a \in ArchsOf(fs)
      BY <1>3 DEF ArchExist
    <3> QED
      BY <2>2, <3>1, RemovedPlace, Zenon
  <2> HIDE DEF gs, n
  <2>4. /\ FilterList(gs) /\ Len(gs) = Len(fs) - 1
        /\ \A j \in 1 .. Len(fs) - 1 : gs[j] = IF j < i THEN fs[j] ELSE fs[j + 1]
    BY <2>2, <2>3, ListRemoveAt
  <2>5. DOMAIN gs = 1 .. Len(fs) - 1
    BY <2>4, ListParts
  <2>6. \A j \in DOMAIN gs : \E l \in DOMAIN fs : gs[j] = fs[l]
    BY <2>2, <2>4, <2>5
  <2> QED
    BY <1>1, <2>1, <2>6 DEF SafeCol
<1> HIDE DEF n
<1> QED
  BY <1>1, <1>2, <1>3, CallSafe

LEMMA MergeSafe ==
  ASSUME ColInv, SafeInv, NEW c \in Ctx, NEW src \in Ctx \ {c}, SeccompMerge(c, src)
  PROVE  SafeInv'
<1> DEFINE k == col[c]
           o == col[src]
           fs == k.filters
           gs == o.filters
           hs == fs \o gs
           n == [k EXCEPT !.filters = hs]
           r == [o EXCEPT !.filters = << >>, !.valid = FALSE]
<1>1. /\ native' = native
      /\ SafeCol(k, native) /\ Good(k, support) /\ SafeCol(o, native) /\ Good(o, support)
  BY DEF SeccompMerge, SafeInv, ColInv
<1>2. CASE col' = col
  BY <1>1, <1>2 DEF SafeInv
<1>3. ASSUME Mergeable(c, src),
             col' = [col EXCEPT ![c].filters = @ \o col[src].filters,
                                ![src].filters = << >>, ![src].valid = FALSE]
      PROVE  SafeInv'
  <2>1. col' = [d \in Ctx |-> IF d = c THEN n ELSE IF d = src THEN r ELSE col[d]]
    BY <1>3, MergeEffect, Zenon
  <2>2. n.filters = hs /\ n.act_default = k.act_default
    <3> HIDE DEF hs, k
    <3> QED
      BY <1>1 DEF Good, IsCol
  <2>3. r.filters = << >>
    <3> HIDE DEF o
    <3> QED
      BY <1>1 DEF Good, IsCol
  <2>4. o.act_default = k.act_default
    <3>1. \A attr \in {"act_default", "nnp", "tsync", "endian"} : k[attr] = o[attr]
      BY <1>3 DEF Mergeable
    <3> QED
      BY <3>1
  <2>5. /\ FilterList(fs) /\ Len(fs) \in Nat /\ DOMAIN fs = 1 .. Len(fs)
        /\ FilterList(gs) /\ Len(gs) \in Nat /\ DOMAIN gs = 1 .. Len(gs)
    BY <1>1, ListParts DEF Good
  <2>6. /\ FilterList(hs) /\ Len(hs) = Len(fs) + Len(gs)
        /\ \A i \in 1 .. Len(fs) + Len(gs) :
              hs[i] = IF i <= Len(fs) THEN fs[i] ELSE gs[i - Len(fs)]
    BY <2>5, ListConcat
  <2> HIDE DEF hs
  <2>7. DOMAIN hs = 1 .. Len(fs) + Len(gs)
    BY <2>6, ListParts
  <2>8. \A i \in DOMAIN hs : \/ \E j \in DOMAIN fs : hs[i] = fs[j]
                             \/ \E j \in DOMAIN gs : hs[i] = gs[j]
    <3> HIDE DEF fs, gs
    <3> SUFFICES ASSUME NEW i \in DOMAIN hs
                 PROVE  \/ \E j \in DOMAIN fs : hs[i] = fs[j]
                        \/ \E j \in DOMAIN gs : hs[i] = gs[j]
      OBVIOUS
    <3>1. CASE i <= Len(fs)
      BY <2>5, <2>6, <2>7, <3>1
    <3>2. CASE ~ (i <= Len(fs))
      <4>1. i - Len(fs) \in DOMAIN gs /\ hs[i] = gs[i - Len(fs)]
        BY <2>5, <2>6, <2>7, <3>2
      <4> QED
        BY <4>1
    <3> QED
      BY <3>1, <3>2
  <2> HIDE DEF n, r
  <2>9. SafeCol(n, native)
    BY <1>1, <2>2, <2>4, <2>8 DEF SafeCol
  <2>10. SafeCol(r, native)
    BY <2>3, EmptyList DEF SafeCol
  <2>11. \A d \in Ctx : SafeCol(col'[d], native)
    BY <2>1, <2>9, <2>10 DEF SafeInv
  <2> QED
    BY <1>1, <2>11 DEF SafeInv
<1> QED
  BY <1>2, <1>3 DEF SeccompMerge

LEMMA ReleaseSafe ==
  ASSUME ColInv, SafeInv, NEW c \in Ctx, SeccompRelease(c)
  PROVE  SafeInv'
<1> DEFINE k == col[c]
           n == [k EXCEPT !.valid = FALSE, !.filters = << >>]
<1>1. Call("release", c, "ok", n) /\ native' = native
  BY DEF SeccompRelease
<1>2. n.filters = << >>
  <2>1. IsCol(k)
    BY DEF ColInv, Good
  <2> HIDE DEF k
  <2> QED
    BY <2>1 DEF IsCol
<1> HIDE DEF n
<1>3. SafeCol(n, native)
  BY <1>2, EmptyList DEF SafeCol
<1> QED
  BY <1>1, <1>3, CallSafe

LEMMA ResetSafe ==
  ASSUME ColInv, SafeInv, NEW c \in Ctx, NEW action, SeccompReset(c, action)
  PROVE  SafeInv'
<1>1. Call("reset", c, "ok", ColOf(native, action)) /\ native' = native
  BY DEF SeccompReset
<1> QED
  BY <1>1, ColOfSafe, CallSafe

LEMMA AttrSetSafe ==
  ASSUME ColInv, SafeInv, NEW c \in Ctx, SeccompAttrSet(c)
  PROVE  SafeInv'
<1> DEFINE k == col[c]
<1>1. native' = native /\ SafeCol(k, native) /\ IsCol(k)
  BY DEF SeccompAttrSet, SafeInv, ColInv, Good
<1>2. PICK rc, n : /\ Call("attr_set", c, rc, n)
                   /\ \/ n = k
                      \/ \E action : n = [k EXCEPT !.act_badarch = action]
                      \/ \E on \in BOOLEAN : n = [k EXCEPT !.nnp = on]
                      \/ \E on \in BOOLEAN : n = [k EXCEPT !.tsync = on]
  BY Zenon DEF SeccompAttrSet
<1> HIDE DEF k
<1>3. n.filters = k.filters /\ n.act_default = k.act_default
  BY <1>1, <1>2 DEF IsCol
<1>4. SafeCol(n, native)
  BY <1>1, <1>3 DEF SafeCol
<1> QED
  BY <1>1, <1>2, <1>4, CallSafe

LEMMA LoadSafe ==
  ASSUME ColInv, SafeInv, NEW c \in Ctx, SeccompLoad(c)
  PROVE  SafeInv'
<1>1. native' = native /\ SafeCol(col[c], native)
  BY DEF SeccompLoad, SafeInv
<1>2. \E op, rc : Call(op, c, rc, col[c])
  BY Zenon DEF SeccompLoad
<1> QED
  BY <1>1, <1>2, CallSafe

LEMMA StepSafe == ColInv /\ SafeInv /\ FiltersKeepWord /\ [Next]_colVars => SafeInv'
<1>1. ASSUME SafeInv, UNCHANGED colVars PROVE SafeInv'
  BY <1>1 DEF SafeInv, colVars
<1>2. ASSUME ColInv, SafeInv, FiltersKeepWord, Next PROVE SafeInv'
  <2>1. PICK c \in Ctx :
           \/ \E action \in Default : SeccompReset(c, action)
           \/ SeccompRelease(c)
           \/ \E a \in Arch : SeccompArchAdd(c, a)
           \/ \E a \in Arch : SeccompArchRemove(c, a)
           \/ \E src \in Ctx \ {c} : SeccompMerge(c, src)
           \/ \E rule \in Rule[native], strict \in BOOLEAN : SeccompRuleAdd(c, strict, rule)
           \/ \E nr \in Priority[native] : SeccompSyscallPriority(c, nr, 1)
           \/ SeccompAttrSet(c)
           \/ SeccompLoad(c)
    BY <1>2 DEF Next
  <2> QED
    BY <1>2, <2>1, ResetSafe, ReleaseSafe, ArchAddSafe, ArchRemoveSafe, MergeSafe,
       RuleAddSafe, PrioritySafe, AttrSetSafe, LoadSafe
<1> QED
  BY <1>1, <1>2

LEMMA InitSafe == Init => SafeInv
<1> SUFFICES ASSUME Init PROVE SafeInv
  OBVIOUS
<1>1. PICK default \in [Ctx -> Default], a \in [Ctx -> Arch] :
         col = [c \in Ctx |-> ColOf(a[c], default[c])]
  BY DEF Init
<1>2. \A c \in Ctx : SafeCol(col[c], native)
  BY <1>1, ColOfSafe
<1> QED
  BY <1>2 DEF Init, SafeInv

LEMMA AlwaysSafe == Spec /\ []FiltersKeepWord => []SafeInv
BY AlwaysGood, InitSafe, StepSafe, PTL DEF Spec

-----------------------------------------------------------------------------
(* What a collection keeps of what its filters keep. The hypothesis is on  *)
(* each filter alone: TLC checks it where the filters are those of         *)
(* SyscallDB.                                                              *)

\* Only a rule that went to filters is refused by any.
LEMMA OnlyRulesAreRefused ==
  ASSUME Next, last'.refused # {}
  PROVE  \E b \in Ctx : \E strict \in BOOLEAN : \E rule \in Rule[native] :
            /\ ColValid(b) /\ rule.action # col[b].act_default
            /\ RuleAnswer(b, rule, ColRuleAdd(col[b].filters, strict, rule))
<1>1. ASSUME NEW op, NEW c, NEW rc, NEW new, Call(op, c, rc, new) PROVE last'.refused = {}
  BY <1>1 DEF Call
<1>2. PICK c \in Ctx :
         \/ \E action \in Default : SeccompReset(c, action)
         \/ SeccompRelease(c)
         \/ \E a \in Arch : SeccompArchAdd(c, a)
         \/ \E a \in Arch : SeccompArchRemove(c, a)
         \/ \E src \in Ctx \ {c} : SeccompMerge(c, src)
         \/ \E rule \in Rule[native], strict \in BOOLEAN : SeccompRuleAdd(c, strict, rule)
         \/ \E nr \in Priority[native] : SeccompSyscallPriority(c, nr, 1)
         \/ SeccompAttrSet(c)
         \/ SeccompLoad(c)
  BY DEF Next
<1>3. \A action : ~ SeccompReset(c, action)
  BY <1>1 DEF SeccompReset
<1>4. ~ SeccompRelease(c)
  BY <1>1 DEF SeccompRelease
<1>5. \A a : ~ SeccompArchAdd(c, a)
  BY <1>1, Zenon DEF SeccompArchAdd
<1>6. \A a : ~ SeccompArchRemove(c, a)
  BY <1>1, Zenon DEF SeccompArchRemove
<1>7. \A src : ~ SeccompMerge(c, src)
  <2>1. \A src : SeccompMerge(c, src) =>
           \E rc : last' = [op |-> "merge", ctx |-> c, refused |-> {},
                            calls |-> last.calls + 1, rc |-> rc]
    BY Zenon DEF SeccompMerge
  <2>2. \A rc : last' = [op |-> "merge", ctx |-> c, refused |-> {},
                         calls |-> last.calls + 1, rc |-> rc] => last'.refused = {}
    OBVIOUS
  <2> QED
    BY <2>1, <2>2
<1>8. \A nr, p : ~ SeccompSyscallPriority(c, nr, p)
  BY <1>1, Zenon DEF SeccompSyscallPriority
<1>9. ~ SeccompAttrSet(c)
  BY <1>1, Zenon DEF SeccompAttrSet
<1>10. ~ SeccompLoad(c)
  BY <1>1, Zenon DEF SeccompLoad
<1>11. PICK rule \in Rule[native], strict \in BOOLEAN : SeccompRuleAdd(c, strict, rule)
  BY <1>2, <1>3, <1>4, <1>5, <1>6, <1>7, <1>8, <1>9, <1>10
<1>12. /\ ColValid(c) /\ rule.action # col[c].act_default
       /\ RuleAnswer(c, rule, ColRuleAdd(col[c].filters, strict, rule))
  BY <1>1, <1>11, Zenon DEF SeccompRuleAdd
<1> QED
  BY <1>12

\* If each filter alone does what it promised, then for any contexts,
\* architectures and tables of calls, a rule the API accepted is in force in
\* every filter that was there, as each call it becomes on that architecture:
\* no failure or abort in another filter, no merge and no removal loses it.
THEOREM AcceptedStayInForce == Spec /\ []FiltersKeepWord => []AcceptedInForce
<1>1. SafeInv => AcceptedInForce
  <2> SUFFICES ASSUME SafeInv, NEW c \in Ctx, NEW f \in ToSet(col[c].filters),
                      NEW rule \in f.promised,
                      NEW p \in ToSet(Parts(f.arch, [rule EXCEPT !.syscall = Translate(f.arch, @)])),
                      NEW args \in Args, DbMatches(f.arch, p, p.syscall, args)
               PROVE  \E q \in ToSet(f.rules) :
                         /\ DbMatches(f.arch, q, p.syscall, args)
                         /\ q.action = Says(f, col[c].act_default, p.syscall, args)
    BY Zenon DEF AcceptedInForce
  <2>1. Safe(f, col[c].act_default, native)
    BY DEF SafeInv, SafeCol, ToSet
  <2>2. Own(native, f.arch, rule) = [rule EXCEPT !.syscall = Translate(f.arch, @)]
    BY Zenon DEF Own, OwnNumber, Translate
  <2>3. p \in ToSet(f.rules) /\ ~ (f.arch = "x86" /\ p.syscall < 0)
    BY <2>1, <2>2 DEF Safe, Listed
  <2> QED
    BY <2>1, <2>3, Zenon DEF Safe, InForce
<1> QED
  BY <1>1, AlwaysSafe, PTL

\* What a rule that some filter refused leaves.
LEMMA RefusedIs ==
  ASSUME ColInv, SafeInv, FiltersKeepWord, NEW b \in Ctx, ColValid(b), NEW strict,
         NEW rule \in Rule[native], rule.action # col[b].act_default,
         RuleAnswer(b, rule, ColRuleAdd(col[b].filters, strict, rule)),
         last'.refused # {}
  PROVE  LET fs == col[b].filters
             d == col[b].act_default
             a == ColRuleAdd(fs, strict, rule)
         IN  /\ Distinct(fs) /\ Going(fs, d, rule, DOMAIN fs, a)
             /\ col'[b].filters = a.fs /\ col'[b].act_default = d
             /\ last'.ctx = b /\ last'.refused = a.refused
<1> DEFINE k == col[b]
           fs == k.filters
           d == k.act_default
           a == ColRuleAdd(fs, strict, rule)
           promise(f) == [f EXCEPT !.promised = @ \cup {rule}]
           gs == IF a.rc = "ok" THEN [i \in DOMAIN a.fs |-> promise(a.fs[i])] ELSE a.fs
           n == [k EXCEPT !.filters = gs]
<1>1. /\ Distinct(fs) /\ Going(fs, d, rule, DOMAIN fs, a)
      /\ col' = [e \in Ctx |-> IF e = b THEN n ELSE col[e]]
      /\ n.filters = gs /\ n.act_default = d
      /\ last'.ctx = b /\ last'.refused = a.refused
  BY RuleAnswers, Zenon
<1> HIDE DEF a, n
<1>2. a.rc # "ok"
  BY <1>1 DEF Going
<1>3. gs = a.fs
  BY <1>2
<1> HIDE DEF gs
<1>4. col'[b] = n
  BY <1>1
<1> QED
  BY <1>1, <1>3, <1>4 DEF a

\* If each filter alone does what it promised, then for any contexts,
\* architectures and tables of calls, a filter that refuses a rule says what it
\* said before, whether it took the first of two calls and was aborted, or was
\* exchanged for its copy when another filter was aborted later.
THEOREM AbortsRestore == Spec /\ []FiltersKeepWord => AbortRestores
<1> DEFINE step ==
             \A c \in Ctx :
                 \A f \in ToSet(col[c].filters), g \in ToSet(col'[c].filters) :
                     c = last'.ctx /\ f.arch = g.arch /\ f.arch \in last'.refused =>
                         SameVerdicts(f, col[c].act_default, g, col'[c].act_default)
<1>1. ColInv /\ SafeInv /\ FiltersKeepWord /\ Next => step
  <2> SUFFICES ASSUME ColInv, SafeInv, FiltersKeepWord, Next, NEW c \in Ctx,
                      NEW f \in ToSet(col[c].filters), NEW g \in ToSet(col'[c].filters),
                      c = last'.ctx, f.arch = g.arch, f.arch \in last'.refused
               PROVE  SameVerdicts(f, col[c].act_default, g, col'[c].act_default)
    OBVIOUS
  <2>1. PICK b \in Ctx : \E strict \in BOOLEAN : \E rule \in Rule[native] :
           /\ ColValid(b) /\ rule.action # col[b].act_default
           /\ RuleAnswer(b, rule, ColRuleAdd(col[b].filters, strict, rule))
    BY OnlyRulesAreRefused
  <2> DEFINE k == col[b]
             fs == k.filters
             d == k.act_default
  <2>2. PICK strict \in BOOLEAN, rule \in Rule[native] :
           /\ ColValid(b) /\ rule.action # d
           /\ RuleAnswer(b, rule, ColRuleAdd(fs, strict, rule))
    BY <2>1
  <2> DEFINE a == ColRuleAdd(fs, strict, rule)
  <2>3. /\ Distinct(fs) /\ Going(fs, d, rule, DOMAIN fs, a)
        /\ col'[b].filters = a.fs /\ col'[b].act_default = d
        /\ last'.ctx = b /\ last'.refused = a.refused
    BY <2>2, RefusedIs
  <2> HIDE DEF a
  <2>5. b = c
    BY <2>3
  <2>6. col'[c].filters = a.fs /\ col'[c].act_default = d
    BY <2>3, <2>5
  <2>7. PICK i \in DOMAIN fs : f = fs[i]
    BY <2>5 DEF ToSet
  <2>8. PICK j \in DOMAIN a.fs : g = a.fs[j]
    BY <2>6 DEF ToSet
  <2>9. KeepsArchs(fs, a.fs)
    BY <2>3 DEF Going
  <2>10. i = j
    BY <2>3, <2>7, <2>8, <2>9 DEF KeepsArchs, Distinct
  <2>11. Asked(f, d, g, Own(native, f.arch, rule), f.arch \in a.refused)
    BY <2>3, <2>7, <2>8, <2>10 DEF Going
  <2>12. g \in Versions(g)
    BY VersionIs
  <2>13. SameVerdicts(f, d, g, d)
    BY <2>3, <2>11, <2>12 DEF Asked
  <2> QED
    BY <2>5, <2>6, <2>13
<1>2. ColInv /\ SafeInv /\ FiltersKeepWord /\ [Next]_colVars => [step]_colVars
  BY <1>1
<1> QED
  BY <1>2, AlwaysGood, AlwaysSafe, PTL DEF Spec, AbortRestores

=============================================================================
