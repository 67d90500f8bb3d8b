------------------------------ MODULE BpfBuildProofs ------------------------------
(***************************************************************************)
(* Proofs about BpfBuild, for any list of blocks the first half of the     *)
(* function makes and any longest jump: no list ends in -EFAULT, every     *)
(* jump of a program fits its field, and a jump to a copy leads where a    *)
(* jump to the block does.                                                 *)
(*                                                                         *)
(* A block is put behind another one by Inserted, and what is said of a    *)
(* list is carried over to the longer one place by place (Past).           *)
(***************************************************************************)
EXTENDS BpfBuild, FunctionTheorems, FiniteSetTheorems, SequenceTheorems,
        WellFoundedInduction, TLAPS

-----------------------------------------------------------------------------
(* The inductive invariant.                                                *)

TableOK(tbl) ==
    /\ IsSeq(tbl)
    /\ \A h \in DOMAIN tbl :
           /\ IsSeq(tbl[h].code)
           /\ Goals(tbl[h].code) \subseteq 1 .. h - 1
           /\ \A at \in DOMAIN tbl[h].code :
                  tbl[h].code[at].op = "ret" => tbl[h].code[at] = Return(tbl[h].code[at].action)

\* A block as it was made, or with its own load in front.
Made(tbl, b) ==
    b.code \in {tbl[b.hash].code, ReloadCode(tbl[b.hash].acc_start) \o tbl[b.hash].code}

Awaits(tbl, fnd, b) == (Goals(b.code) \cap DOMAIN tbl) \ fnd
LedTo(tbl, hash) == \E h \in DOMAIN tbl : hash \in Goals(tbl[h].code)

\* A list into which blocks are pulled. A block that others lead to was made
\* after every one behind it that waits for a block.
PullOK(tbl, bs, fnd) ==
    /\ IsSeq(bs)
    /\ fnd = {bs[p].hash : p \in DOMAIN bs}
    /\ \A p \in DOMAIN bs :
           /\ bs[p].hash \in DOMAIN tbl
           /\ Made(tbl, bs[p])
           /\ \A h \in Goals(bs[p].code) \cap fnd : Behind(bs, p, h) # {}
    /\ \A p, q \in DOMAIN bs :
           p < q => /\ bs[p].hash # bs[q].hash
                    /\ Awaits(tbl, fnd, bs[q]) # {} /\ LedTo(tbl, bs[p].hash)
                           => bs[q].hash < bs[p].hash

\* A list that is complete: what a block leads to is behind it.
Forward(bs) ==
    \A p \in DOMAIN bs : \A h \in Goals(bs[p].code) : Behind(bs, p, h) # {}

LeadsOn(tbl, bs, p) ==
    IF p = LastOf(bs, bs[p].hash) THEN Made(tbl, bs[p])
    ELSE \/ bs[p].code = <<LongJump(bs[p].hash)>>
         \/ /\ IsReturn(bs[LastOf(bs, bs[p].hash)].code)
            /\ bs[p].code = bs[LastOf(bs, bs[p].hash)].code

ListOK(tbl, bs) ==
    /\ IsSeq(bs)
    /\ Forward(bs)
    /\ \A p \in DOMAIN bs :
           bs[p].hash \in DOMAIN tbl /\ IsSeq(bs[p].code) /\ LeadsOn(tbl, bs, p)

FitBehind(bs, i) ==
    \A p \in i + 1 .. Len(bs) : \A at \in DOMAIN bs[p].code : JumpFits(bs, p, at)
FitAfter(bs, i, n) == \A at \in DOMAIN bs[i].code : at > n => JumpFits(bs, i, at)

BuildInv ==
    /\ stage \in {"idle", "pull", "jumps", "built"}
    /\ grown \in BOOLEAN
    /\ stage = "idle" => blocks = << >>
    /\ stage # "idle" => TableOK(table)
    /\ stage = "pull" => PullOK(table, blocks, found)
    /\ stage \in {"jumps", "built"} =>
           ListOK(table, blocks) /\ place \in 0 .. Len(blocks) /\ FitBehind(blocks, place)
    /\ stage = "jumps" =>
           /\ iter \in 0 .. From(blocks, place)
           /\ place # 0 /\ ~ grown => FitAfter(blocks, place, iter)

-----------------------------------------------------------------------------
(* Lists, and a list with one block more.                                  *)

LEMMA SeqParts ==
  ASSUME NEW s, IsSeq(s)
  PROVE  /\ Len(s) \in Nat /\ DOMAIN s = 1 .. Len(s)
         /\ s \in Seq({s[k] : k \in 1 .. Len(s)})
<1>1. Len(s) \in Nat /\ s = [k \in 1 .. Len(s) |-> s[k]]
  BY DEF IsSeq
<1> DEFINE n == Len(s)
           S == {s[k] : k \in 1 .. n}
<1>2. DOMAIN s = 1 .. n
  <2>1. DOMAIN [k \in 1 .. n |-> s[k]] = 1 .. n
    OBVIOUS
  <2> QED
    BY <1>1, <2>1, Zenon
<1>3. s \in [1 .. n -> S]
  <2>1. [k \in 1 .. n |-> s[k]] \in [1 .. n -> S]
    OBVIOUS
  <2> QED
    BY <1>1, <2>1, Zenon
<1>4. s \in Seq(S)
  BY <1>1, <1>3, SeqDef
<1> QED
  BY <1>1, <1>2, <1>4

LEMMA SeqIs ==
  ASSUME NEW S, NEW s \in Seq(S)
  PROVE  IsSeq(s)
<1>1. Len(s) \in Nat /\ s \in [1 .. Len(s) -> S]
  BY LenProperties
<1>2. s = [k \in 1 .. Len(s) |-> s[k]]
  BY <1>1
<1> QED
  BY <1>1, <1>2 DEF IsSeq

\* t is s and then r.
Joined(s, r, t) ==
    /\ IsSeq(t) /\ Len(t) = Len(s) + Len(r)
    /\ \A k \in 1 .. Len(s) : t[k] = s[k]
    /\ \A k \in 1 .. Len(r) : t[Len(s) + k] = r[k]

LEMMA ConcatIs ==
  ASSUME NEW s, NEW r, IsSeq(s), IsSeq(r)
  PROVE  Joined(s, r, s \o r)
<1> DEFINE S == {s[k] : k \in 1 .. Len(s)} \cup {r[k] : k \in 1 .. Len(r)}
<1>1. Len(s) \in Nat /\ Len(r) \in Nat
  BY SeqParts
<1>2. s \in Seq(S) /\ r \in Seq(S)
  <2>1. s \in Seq({s[k] : k \in 1 .. Len(s)}) /\ r \in Seq({r[k] : k \in 1 .. Len(r)})
    BY SeqParts
  <2> QED
    BY <2>1
<1> HIDE DEF S
<1>3. /\ s \o r \in Seq(S)
      /\ Len(s \o r) = Len(s) + Len(r)
      /\ \A i \in 1 .. Len(s) + Len(r) : (s \o r)[i] =
              IF i <= Len(s) THEN s[i] ELSE r[i - Len(s)]
  BY <1>2, ConcatProperties
<1>4. IsSeq(s \o r)
  BY <1>3, SeqIs
<1>5. \A k \in 1 .. Len(s) : (s \o r)[k] = s[k]
  BY <1>1, <1>3
<1>6. \A k \in 1 .. Len(r) : (s \o r)[Len(s) + k] = r[k]
  <2> SUFFICES ASSUME NEW k \in 1 .. Len(r) PROVE (s \o r)[Len(s) + k] = r[k]
    OBVIOUS
  <2>1. Len(s) + k \in 1 .. Len(s) + Len(r) /\ ~ Len(s) + k <= Len(s)
        /\ Len(s) + k - Len(s) = k
    BY <1>1
  <2> QED
    BY <1>3, <2>1
<1> QED
  BY <1>3, <1>4, <1>5, <1>6 DEF Joined

\* t is the part of s from m to n.
PartOf(s, m, n, t) ==
    /\ IsSeq(t) /\ Len(t) = IF m <= n THEN n - m + 1 ELSE 0
    /\ \A k \in 1 .. n - m + 1 : t[k] = s[m + k - 1]

LEMMA SubSeqIs ==
  ASSUME NEW s, IsSeq(s), NEW m \in Int, NEW n \in Int, m >= 1, n <= Len(s)
  PROVE  PartOf(s, m, n, SubSeq(s, m, n))
<1> DEFINE S == {s[k] : k \in 1 .. Len(s)}
<1>1. Len(s) \in Nat
  BY SeqParts
<1>2. \A k \in m .. n : s[k] \in S
  BY <1>1
<1> HIDE DEF S
<1>3. /\ SubSeq(s, m, n) \in Seq(S)
      /\ Len(SubSeq(s, m, n)) = IF m <= n THEN n - m + 1 ELSE 0
      /\ \A k \in 1 .. n - m + 1 : SubSeq(s, m, n)[k] = s[m + k - 1]
  BY <1>2, SubSeqProperties
<1> QED
  BY <1>3, SeqIs DEF PartOf

\* Where a block is once there is another one behind block i.
Past(i, k) == IF k <= i THEN k ELSE k + 1

\* t is bs with e behind block i.
Inserted(bs, i, e, t) ==
    /\ IsSeq(bs) /\ i \in 1 .. Len(bs)
    /\ IsSeq(t) /\ Len(t) = Len(bs) + 1
    /\ t[i + 1] = e
    /\ \A k \in 1 .. Len(bs) : t[Past(i, k)] = bs[k]

LEMMA InsertAtIs ==
  ASSUME NEW bs, IsSeq(bs), NEW i \in 1 .. Len(bs), NEW e
  PROVE  Inserted(bs, i, e, InsertAt(bs, i + 1, e))
<1> DEFINE a == SubSeq(bs, 1, i)
           c == SubSeq(bs, i + 1, Len(bs))
           o == <<e>>
           t == a \o o \o c
<1>1. Len(bs) \in Nat
  BY SeqParts
<1>2. IsSeq(a) /\ Len(a) = i /\ \A k \in 1 .. i : a[k] = bs[k]
  <2>1. PartOf(bs, 1, i, a)
    BY <1>1, SubSeqIs
  <2> HIDE DEF a
  <2> QED
    BY <1>1, <2>1 DEF PartOf
<1>3. IsSeq(c) /\ Len(c) = Len(bs) - i /\ \A k \in 1 .. Len(bs) - i : c[k] = bs[i + k]
  <2>1. PartOf(bs, i + 1, Len(bs), c)
    BY <1>1, SubSeqIs
  <2> HIDE DEF c
  <2> QED
    BY <1>1, <2>1 DEF PartOf
<1>4. IsSeq(o) /\ Len(o) = 1 /\ o[1] = e
  <2>1. o \in Seq({e}) /\ Len(o) = 1 /\ o[1] = e
    OBVIOUS
  <2> QED
    BY <2>1, SeqIs
<1>5. InsertAt(bs, i + 1, e) = t
  <2>1. SubSeq(bs, 1, (i + 1) - 1) = a
    <3>1. (i + 1) - 1 = i
      OBVIOUS
    <3> QED
      BY <3>1, Zenon
  <2> HIDE DEF a
  <2> QED
    BY <2>1, Zenon DEF InsertAt
<1> HIDE DEF a, c, o, t
<1>6. /\ IsSeq(a \o o) /\ Len(a \o o) = i + 1
      /\ \A k \in 1 .. i : (a \o o)[k] = a[k]
      /\ (a \o o)[i + 1] = e
  <2>1. Joined(a, o, a \o o)
    <3>1. IsSeq(a) /\ IsSeq(o)
      BY <1>2, <1>4
    <3> QED
      BY <3>1, ConcatIs, Zenon
  <2> QED
    BY <1>2, <1>4, <2>1 DEF Joined
<1> DEFINE u == a \o o
<1>7. /\ IsSeq(u \o c) /\ Len(u \o c) = Len(bs) + 1
      /\ \A k \in 1 .. i + 1 : (u \o c)[k] = u[k]
      /\ \A k \in 1 .. Len(bs) - i : (u \o c)[i + 1 + k] = c[k]
  <2>1. IsSeq(u) /\ Len(u) = i + 1
    BY <1>6
  <2> HIDE DEF u
  <2>2. Joined(u, c, u \o c)
    <3>1. IsSeq(u) /\ IsSeq(c)
      BY <1>3, <2>1
    <3> QED
      BY <3>1, ConcatIs, Zenon
  <2> QED
    BY <1>1, <1>3, <2>1, <2>2 DEF Joined
<1>8. t = u \o c
  BY DEF t
<1>10. /\ \A k \in 1 .. i : u[k] = bs[k]
       /\ u[i + 1] = e
  BY <1>2, <1>6
<1> HIDE DEF u
<1>9. ASSUME NEW k \in 1 .. Len(bs) PROVE t[Past(i, k)] = bs[k]
  <2>1. CASE k <= i
    BY <1>1, <1>7, <1>8, <1>10, <2>1 DEF Past
  <2>2. CASE ~ k <= i
    <3> DEFINE d == k - i
    <3>1. d \in 1 .. Len(bs) - i /\ i + d = k /\ Past(i, k) = i + 1 + d
      BY <1>1, <2>2 DEF Past
    <3> HIDE DEF d
    <3> QED
      BY <1>3, <1>7, <1>8, <3>1
  <2> QED
    BY <2>1, <2>2
<1>11. IsSeq(t) /\ Len(t) = Len(bs) + 1 /\ t[i + 1] = e
  BY <1>1, <1>7, <1>8, <1>10
<1> QED
  BY <1>5, <1>9, <1>11 DEF Inserted

LEMMA PastOf ==
  ASSUME NEW bs, NEW i, NEW e, NEW t, Inserted(bs, i, e, t)
  PROVE  /\ Len(bs) \in Nat /\ i \in 1 .. Len(bs) /\ i + 1 \in DOMAIN t
         /\ DOMAIN bs = 1 .. Len(bs) /\ DOMAIN t = 1 .. Len(bs) + 1
         /\ \A k \in DOMAIN bs : Past(i, k) \in DOMAIN t /\ t[Past(i, k)] = bs[k]
         /\ \A m \in DOMAIN t : m = i + 1 \/ \E k \in DOMAIN bs : m = Past(i, k)
         /\ \A k, l \in DOMAIN bs : Past(i, k) < Past(i, l) <=> k < l
         /\ \A k, l \in DOMAIN bs : Past(i, k) = Past(i, l) <=> k = l
         /\ \A k \in DOMAIN bs : Past(i, k) # i + 1 /\ (Past(i, k) < i + 1 <=> k <= i)
<1>1. /\ IsSeq(bs) /\ i \in 1 .. Len(bs) /\ IsSeq(t) /\ Len(t) = Len(bs) + 1
      /\ \A k \in 1 .. Len(bs) : t[Past(i, k)] = bs[k]
  BY DEF Inserted
<1>2. Len(bs) \in Nat /\ DOMAIN bs = 1 .. Len(bs) /\ DOMAIN t = 1 .. Len(bs) + 1
  BY <1>1, SeqParts
<1>3. \A k \in DOMAIN bs : Past(i, k) \in DOMAIN t
  BY <1>1, <1>2 DEF Past
<1>4. ASSUME NEW m \in DOMAIN t, m # i + 1 PROVE \E k \in DOMAIN bs : m = Past(i, k)
  <2>1. CASE m <= i
    <3>1. m \in DOMAIN bs /\ m = Past(i, m)
      BY <1>1, <1>2, <2>1 DEF Past
    <3> QED
      BY <3>1
  <2>2. CASE ~ m <= i
    <3>1. m - 1 \in DOMAIN bs /\ m = Past(i, m - 1)
      BY <1>1, <1>2, <1>4, <2>2 DEF Past
    <3> QED
      BY <3>1
  <2> QED
    BY <2>1, <2>2
<1>5. /\ \A k, l \in DOMAIN bs : Past(i, k) < Past(i, l) <=> k < l
      /\ \A k, l \in DOMAIN bs : Past(i, k) = Past(i, l) <=> k = l
      /\ \A k \in DOMAIN bs : Past(i, k) # i + 1 /\ (Past(i, k) < i + 1 <=> k <= i)
  BY <1>1, <1>2 DEF Past
<1> QED
  BY <1>1, <1>2, <1>3, <1>4, <1>5

-----------------------------------------------------------------------------
(* The first and the last of some places.                                  *)

LEMMA SmallestOf ==
  ASSUME NEW S, IsFiniteSet(S), NEW B, B \subseteq SUBSET S, B # {}
  PROVE  \E m \in B : \A U \in B : U \subseteq m => U = m
<1>1. IsWellFoundedOn(StrictSubsetOrdering(S), SUBSET S)
  BY FS_StrictSubsetOrderingWellFounded, FS_FiniteSubsetsOfFinite
<1>2. PICK m \in B : \A U \in B : <<U, m>> \notin StrictSubsetOrdering(S)
  BY <1>1, WFMin, Zenon
<1> QED
  BY <1>2 DEF StrictSubsetOrdering

\* Some of the numbers up to n have a least one: the numbers below it, of
\* which it leaves fewest, would otherwise leave fewer.
LEMMA MinIs ==
  ASSUME NEW n \in Nat, NEW s \in SUBSET (1 .. n), s # {}
  PROVE  Min(s) \in s /\ \A k \in s : Min(s) <= k
<1> DEFINE below(m) == {k \in 1 .. n : k < m}
           D == 1 .. n
           B == {below(m) : m \in s}
<1>1. B \subseteq SUBSET D /\ B # {}
  OBVIOUS
<1>2. IsFiniteSet(D)
  BY FS_Interval
<1>3. PICK u \in B : \A v \in B : v \subseteq u => v = u
  <2> HIDE DEF B, D
  <2> QED
    BY <1>1, <1>2, SmallestOf
<1>4. PICK m \in s : u = below(m)
  BY <1>3
<1>5. \A k \in s : below(k) \in B
  OBVIOUS
<1>6. \A k \in s : below(k) \subseteq below(m) => below(k) = below(m)
  <2> HIDE DEF B, below
  <2> QED
    BY <1>3, <1>4, <1>5
<1>7. ASSUME NEW k \in s, k < m PROVE FALSE
  <2>1. below(k) \subseteq below(m) /\ k \in below(m) /\ k \notin below(k)
    BY <1>7
  <2> QED
    BY <1>6, <2>1
<1>8. \A k \in s : m <= k
  BY <1>7
<1> QED
  BY <1>8 DEF Min

LEMMA MaxIs ==
  ASSUME NEW n \in Nat, NEW s \in SUBSET (1 .. n), s # {}
  PROVE  Max(s) \in s /\ \A k \in s : Max(s) >= k
<1> DEFINE u == {n + 1 - k : k \in s}
<1>1. u \in SUBSET (1 .. n) /\ u # {}
  <2>1. \A k \in s : n + 1 - k \in 1 .. n /\ n + 1 - k \in u
    OBVIOUS
  <2>2. u \in SUBSET (1 .. n)
    <3>1. \A k \in s : n + 1 - k \in 1 .. n
      OBVIOUS
    <3> QED
      BY <3>1, Zenon
  <2> QED
    BY <2>1, <2>2
<1>2. Min(u) \in u /\ \A k \in u : Min(u) <= k
  <2> HIDE DEF u
  <2> QED
    BY <1>1, MinIs
<1>3. PICK l \in s : Min(u) = n + 1 - l
  BY <1>2
<1>4. \A k \in s : l >= k
  <2> SUFFICES ASSUME NEW k \in s PROVE l >= k
    OBVIOUS
  <2>1. Min(u) <= n + 1 - k
    BY <1>2
  <2> HIDE DEF u
  <2> QED
    BY <1>3, <2>1
<1> QED
  BY <1>4 DEF Max

\* The last block of a hash, and what says that a block is the last.
LEMMA LastOfIs ==
  ASSUME NEW bs, IsSeq(bs), NEW p \in DOMAIN bs, NEW hash, hash = bs[p].hash
  PROVE  /\ LastOf(bs, hash) \in DOMAIN bs
         /\ bs[LastOf(bs, hash)].hash = hash
         /\ p <= LastOf(bs, hash)
         /\ \A l \in DOMAIN bs :
                bs[l].hash = hash /\ (\A k \in DOMAIN bs : bs[k].hash = hash => k <= l)
                    => l = LastOf(bs, hash)
<1> DEFINE s == {j \in DOMAIN bs : bs[j].hash = hash}
<1>1. Len(bs) \in Nat /\ DOMAIN bs = 1 .. Len(bs)
  BY SeqParts
<1>2. s \in SUBSET (1 .. Len(bs)) /\ p \in s
  BY <1>1
<1>3. Max(s) \in s /\ \A k \in s : Max(s) >= k
  <2> HIDE DEF s
  <2> QED
    BY <1>1, <1>2, MaxIs
<1>4. LastOf(bs, hash) = Max(s)
  BY DEF LastOf
<1>5. /\ LastOf(bs, hash) \in DOMAIN bs
      /\ bs[LastOf(bs, hash)].hash = hash
      /\ \A k \in DOMAIN bs : bs[k].hash = hash => k <= LastOf(bs, hash)
  <2> DEFINE l == Max(s)
  <2>1. l \in DOMAIN bs /\ bs[l].hash = hash
    BY <1>3
  <2>2. ASSUME NEW k \in DOMAIN bs, bs[k].hash = hash PROVE k <= l
    <3>1. k \in s
      BY <2>2
    <3> HIDE DEF s
    <3> QED
      BY <1>1, <1>2, <1>3, <3>1
  <2> HIDE DEF s, l
  <2> QED
    BY <1>4, <2>1, <2>2 DEF l
<1> QED
  BY <1>1, <1>5

LEMMA BehindParts ==
  ASSUME NEW bs, IsSeq(bs), NEW p \in DOMAIN bs, NEW hash
  PROVE  /\ \A j : j \in Behind(bs, p, hash) <=> j \in DOMAIN bs /\ p < j /\ bs[j].hash = hash
         /\ Behind(bs, p, hash) # {} =>
                /\ Min(Behind(bs, p, hash)) \in Behind(bs, p, hash)
                /\ \A j \in Behind(bs, p, hash) : Min(Behind(bs, p, hash)) <= j
                /\ LastOf(bs, hash) \in Behind(bs, p, hash)
<1>1. Len(bs) \in Nat /\ DOMAIN bs = 1 .. Len(bs)
  BY SeqParts
<1>2. \A j : j \in Behind(bs, p, hash) <=> j \in DOMAIN bs /\ p < j /\ bs[j].hash = hash
  BY <1>1 DEF Behind
<1>3. ASSUME Behind(bs, p, hash) # {}
      PROVE  /\ Min(Behind(bs, p, hash)) \in Behind(bs, p, hash)
             /\ \A j \in Behind(bs, p, hash) : Min(Behind(bs, p, hash)) <= j
  <2>1. Behind(bs, p, hash) \in SUBSET (1 .. Len(bs))
    BY <1>1, <1>2
  <2> QED
    BY <1>1, <1>3, <2>1, MinIs
<1>4. ASSUME Behind(bs, p, hash) # {} PROVE LastOf(bs, hash) \in Behind(bs, p, hash)
  <2>1. PICK j : j \in Behind(bs, p, hash)
    BY <1>4
  <2>2. j \in DOMAIN bs /\ p < j /\ hash = bs[j].hash
    BY <1>2, <2>1
  <2>3. LastOf(bs, hash) \in DOMAIN bs /\ bs[LastOf(bs, hash)].hash = hash
        /\ j <= LastOf(bs, hash)
    BY <2>2, LastOfIs
  <2> QED
    BY <1>1, <1>2, <2>2, <2>3
<1> QED
  BY <1>2, <1>3, <1>4

-----------------------------------------------------------------------------
(* The fold that counts the instructions of some blocks, x: that it is     *)
(* defined is shown by the smallest set of places for which it would not   *)
(* be.                                                                     *)

Highest(s) == Max(s)
Longer(x, n, k) == n + Len(x[k].code)

\* sums folds over every part of the set S of places.
Folds(sums, x, S) ==
    sums = [s \in SUBSET S |-> IF s = {} THEN 0
                               ELSE Longer(x, sums[s \ {Highest(s)}], Highest(s))]
Folded(x, S) == CHOOSE sums : Folds(sums, x, S)

LEMMA BetweenFolds ==
  ASSUME NEW bs, NEW i, NEW j, NEW x, x = SubSeq(bs, i + 1, j - 1)
  PROVE  Between(bs, i, j) = Folded(x, DOMAIN x)[DOMAIN x]
<1>1. Between(bs, i, j)
        = Folded(SubSeq(bs, i + 1, j - 1), DOMAIN SubSeq(bs, i + 1, j - 1))
              [DOMAIN SubSeq(bs, i + 1, j - 1)]
  BY Zenon DEF Between, FoldLeft, MapThenFoldSet, Folded, Folds, Longer, Highest
<1> QED
  BY <1>1, Zenon

LEMMA FoldsAt ==
  ASSUME NEW x, NEW S, NEW g, Folds(g, x, S), NEW s, s \subseteq S
  PROVE  /\ s = {} => g[s] = 0
         /\ s # {} => g[s] = Longer(x, g[s \ {Highest(s)}], Highest(s))
<1>1. s \in SUBSET S
  OBVIOUS
<1>2. g[s] = IF s = {} THEN 0
                       ELSE Longer(x, g[s \ {Highest(s)}], Highest(s))
  BY <1>1, Zenon DEF Folds
<1> QED
  BY <1>2

\* What the lemmas on folds ask of the set: places of a list.
Places(S) == \E n \in Nat : S \subseteq 1 .. n

LEMMA PlacesParts ==
  ASSUME NEW S, Places(S)
  PROVE  IsFiniteSet(S) /\ \A s \in SUBSET S : Places(s) /\ (s # {} => Highest(s) \in s)
<1>1. PICK n \in Nat : S \subseteq 1 .. n
  BY DEF Places
<1>2. IsFiniteSet(S)
  <2>1. IsFiniteSet(1 .. n)
    BY FS_Interval
  <2> QED
    BY <1>1, <2>1, FS_Subset
<1>3. \A s \in SUBSET S : Places(s) /\ s \in SUBSET (1 .. n)
  BY <1>1 DEF Places
<1> QED
  BY <1>2, <1>3, MaxIs DEF Highest

LEMMA FoldsAgree ==
  ASSUME NEW x, NEW S, Places(S), NEW T, NEW g, NEW h,
         Folds(g, x, S), Folds(h, x, T), NEW s, s \subseteq S, s \subseteq T
  PROVE  g[s] = h[s]
<1> DEFINE B == {u \in SUBSET S : u \subseteq T /\ g[u] # h[u]}
<1>1. SUFFICES ASSUME B # {} PROVE FALSE
  OBVIOUS
<1>2. PICK m \in B : \A u \in B : u \subseteq m => u = m
  <2>1. B \subseteq SUBSET S /\ IsFiniteSet(S)
    BY PlacesParts
  <2> HIDE DEF B
  <2> QED
    BY <1>1, <2>1, SmallestOf
<1>3. m # {} /\ Highest(m) \in m
  <2>1. m # {}
    BY FoldsAt
  <2> QED
    BY <2>1, PlacesParts
<1> DEFINE n == m \ {Highest(m)}
<1>4. n \notin B /\ n \subseteq S /\ n \subseteq T
  BY <1>2, <1>3
<1>5. g[n] = h[n]
  BY <1>4
<1>6. m \subseteq S /\ m \subseteq T /\ g[m] # h[m]
  OBVIOUS
<1> HIDE DEF B
<1>7. g[m] = Longer(x, g[n], Highest(m))
  BY <1>3, <1>6, FoldsAt
<1>8. h[m] = Longer(x, h[n], Highest(m))
  BY <1>3, <1>6, FoldsAt
<1> HIDE DEF n
<1> QED
  BY <1>5, <1>6, <1>7, <1>8

LEMMA FoldExists ==
  ASSUME NEW x, NEW S, Places(S)
  PROVE  Folds(Folded(x, S), x, S)
<1> DEFINE B == {u \in SUBSET S : ~ \E g : Folds(g, x, u)}
<1>1. SUFFICES B = {}
  <2>1. \E g : Folds(g, x, S)
    BY <1>1
  <2> QED
    BY <2>1 DEF Folded
<1>2. SUFFICES ASSUME B # {} PROVE FALSE
  OBVIOUS
<1>3. PICK m \in B : \A u \in B : u \subseteq m => u = m
  <2>1. B \subseteq SUBSET S /\ IsFiniteSet(S)
    BY PlacesParts
  <2> HIDE DEF B
  <2> QED
    BY <1>2, <2>1, SmallestOf
<1>4. \A u \in SUBSET m : u # m => Folds(Folded(x, u), x, u)
  <2> SUFFICES ASSUME NEW u \in SUBSET m, u # m PROVE Folds(Folded(x, u), x, u)
    OBVIOUS
  <2>1. \E g : Folds(g, x, u)
    BY <1>3
  <2> QED
    BY <2>1 DEF Folded
<1>5. \A u \in SUBSET m : Places(u) /\ (u # {} => Highest(u) \in u)
  BY PlacesParts
<1> DEFINE below(u) == Folded(x, u)[u]
           more(u) == Longer(x, below(u \ {Highest(u)}), Highest(u))
           value(u) == IF u = {} THEN 0 ELSE more(u)
           g == [u \in SUBSET m |-> value(u)]
<1>6. ASSUME NEW u \in SUBSET m, u # m PROVE below(u) = value(u)
  <2>1. Folds(Folded(x, u), x, u)
    BY <1>4, <1>6
  <2>2. CASE u = {}
    BY <2>1, <2>2, FoldsAt
  <2>3. CASE u # {}
    <3> DEFINE v == u \ {Highest(u)}
    <3>1. v \in SUBSET m /\ v # m /\ v \subseteq u
      BY <1>5, <2>3
    <3>2. Folds(Folded(x, v), x, v)
      BY <1>4, <3>1
    <3>3. Folded(x, u)[u] = Longer(x, Folded(x, u)[v], Highest(u))
      BY <2>1, <2>3, FoldsAt
    <3> HIDE DEF v
    <3>4. Folded(x, u)[v] = Folded(x, v)[v]
      BY <1>5, <2>1, <3>1, <3>2, FoldsAgree
    <3> QED
      BY <2>3, <3>3, <3>4 DEF v
  <2> QED
    BY <2>2, <2>3
<1>7. \A u \in SUBSET m : u # {} => g[u] = Longer(x, g[u \ {Highest(u)}], Highest(u))
  <2> SUFFICES ASSUME NEW u \in SUBSET m, u # {}
               PROVE  g[u] = Longer(x, g[u \ {Highest(u)}], Highest(u))
    OBVIOUS
  <2> DEFINE v == u \ {Highest(u)}
  <2>1. v \in SUBSET m /\ v # m
    BY <1>5
  <2>2. g[u] = Longer(x, below(v), Highest(u))
    OBVIOUS
  <2>3. below(v) = value(v)
    <3> HIDE DEF v, below, value
    <3> QED
      BY <1>6, <2>1
  <2>4. g[v] = value(v)
    <3> HIDE DEF v, value
    <3> QED
      BY <2>1
  <2> HIDE DEF g, below, value
  <2> QED
    BY <2>2, <2>3, <2>4
<1>8. g[{}] = 0
  OBVIOUS
<1>9. g = [u \in SUBSET m |-> g[u]]
  BY Zenon
<1>10. \A u \in SUBSET m : g[u] = IF u = {} THEN 0
                                  ELSE Longer(x, g[u \ {Highest(u)}], Highest(u))
  <2> HIDE DEF g
  <2> QED
    BY <1>7, <1>8
<1>11. Folds(g, x, m)
  <2> HIDE DEF g
  <2>1. [u \in SUBSET m |-> g[u]]
          = [u \in SUBSET m |-> IF u = {} THEN 0
                                ELSE Longer(x, g[u \ {Highest(u)}], Highest(u))]
    BY <1>10, Zenon
  <2> QED
    BY <1>9, <2>1 DEF Folds
<1> QED
  BY <1>11

LEMMA BetweenNat ==
  ASSUME NEW bs, IsSeq(bs), \A p \in DOMAIN bs : IsSeq(bs[p].code),
         NEW i \in DOMAIN bs, NEW j \in DOMAIN bs
  PROVE  Between(bs, i, j) \in Nat
<1> DEFINE x == SubSeq(bs, i + 1, j - 1)
           S == DOMAIN x
           g == Folded(x, S)
<1>1. Len(bs) \in Nat /\ DOMAIN bs = 1 .. Len(bs)
  BY SeqParts
<1>2. /\ IsSeq(x)
      /\ Len(x) = IF i + 1 <= j - 1 THEN (j - 1) - (i + 1) + 1 ELSE 0
      /\ \A k \in 1 .. (j - 1) - (i + 1) + 1 : x[k] = bs[i + 1 + k - 1]
  <2> DEFINE m == i + 1
             n == j - 1
  <2>1. m \in Int /\ n \in Int /\ m >= 1 /\ n <= Len(bs)
    BY <1>1
  <2> HIDE DEF m, n
  <2>2. PartOf(bs, m, n, SubSeq(bs, m, n))
    BY <2>1, SubSeqIs
  <2> QED
    BY <2>2 DEF PartOf, m, n
<1>3. Between(bs, i, j) = g[S]
  BY BetweenFolds, Zenon
<1> HIDE DEF x
<1>4. Len(x) \in Nat /\ DOMAIN x = 1 .. Len(x)
  BY <1>2, SeqParts
<1>5. \A k \in S : Len(x[k].code) \in Nat
  <2> SUFFICES ASSUME NEW k \in S PROVE Len(x[k].code) \in Nat
    OBVIOUS
  <2>1. i + k \in DOMAIN bs /\ x[k] = bs[i + k]
    <3>1. i + 1 <= j - 1 /\ k \in 1 .. (j - 1) - (i + 1) + 1 /\ i + 1 + k - 1 = i + k
      BY <1>1, <1>2, <1>4
    <3> QED
      BY <1>1, <1>2, <3>1
  <2> QED
    BY <2>1, SeqParts
<1>6. Places(S)
  BY <1>4 DEF Places
<1>7. Folds(g, x, S)
  BY <1>6, FoldExists
<1> HIDE DEF S, g
<1> DEFINE B == {s \in SUBSET S : g[s] \notin Nat}
<1>8. SUFFICES ASSUME B # {} PROVE FALSE
  BY <1>3
<1>9. PICK m \in B : \A u \in B : u \subseteq m => u = m
  <2>1. B \subseteq SUBSET S /\ IsFiniteSet(S)
    BY <1>6, PlacesParts
  <2> HIDE DEF B
  <2> QED
    BY <1>8, <2>1, SmallestOf
<1>10. m \in SUBSET S /\ g[m] \notin Nat
  OBVIOUS
<1>11. m # {} /\ Highest(m) \in m
  <2>1. m # {}
    BY <1>7, <1>10, FoldsAt
  <2> QED
    BY <1>6, <1>10, <2>1, PlacesParts
<1> DEFINE n == m \ {Highest(m)}
<1>12. g[n] \in Nat
  <2>1. n \in SUBSET S /\ n \subseteq m /\ n # m
    BY <1>10, <1>11
  <2> HIDE DEF n
  <2> QED
    BY <1>9, <2>1
<1>13. g[m] = Longer(x, g[n], Highest(m))
  BY <1>7, <1>10, <1>11, FoldsAt
<1>14. Highest(m) \in S
  BY <1>10, <1>11
<1> HIDE DEF n
<1> QED
  BY <1>5, <1>10, <1>12, <1>13, <1>14 DEF Longer

-----------------------------------------------------------------------------
(* What stays of a list when a block is put behind block i.                *)

LEMMA SameSeq ==
  ASSUME NEW s, NEW r, IsSeq(s), IsSeq(r), Len(s) = Len(r),
         \A k \in 1 .. Len(s) : s[k] = r[k]
  PROVE  s = r
<1>1. s = [k \in 1 .. Len(s) |-> s[k]] /\ r = [k \in 1 .. Len(r) |-> r[k]]
  BY DEF IsSeq
<1>2. [k \in 1 .. Len(s) |-> s[k]] = [k \in 1 .. Len(s) |-> r[k]]
  BY Zenon
<1> QED
  BY <1>1, <1>2, Zenon

SamePart(t, c, q, bs, a, b) == SubSeq(t, c, q) = SubSeq(bs, a, b)

LEMMA SubSeqPast ==
  ASSUME NEW bs, NEW i, NEW e, NEW t, Inserted(bs, i, e, t),
         NEW p \in DOMAIN bs, NEW q \in DOMAIN bs, i < p, p < q
  PROVE  SamePart(t, p + 2, q, bs, p + 1, q - 1)
<1> DEFINE a == p + 1
           b == q - 1
           c == p + 2
<1>1. /\ Len(bs) \in Nat /\ i \in 1 .. Len(bs) /\ DOMAIN bs = 1 .. Len(bs)
      /\ \A k \in DOMAIN bs : t[Past(i, k)] = bs[k]
  BY PastOf
<1>2. IsSeq(bs) /\ IsSeq(t) /\ Len(t) = Len(bs) + 1
  BY DEF Inserted
<1>3. /\ a \in Int /\ b \in Int /\ c \in Int /\ q \in Int /\ a >= 1 /\ c >= 1
      /\ b <= Len(bs) /\ q <= Len(t) /\ b - a = q - c /\ (a <= b <=> c <= q)
      /\ b - a + 1 = q - p - 1
  BY <1>1, <1>2
<1>4. \A k \in 1 .. b - a + 1 : t[c + k - 1] = bs[a + k - 1]
  <2> HIDE DEF a, b, c
  <2> SUFFICES ASSUME NEW k \in 1 .. b - a + 1 PROVE t[c + k - 1] = bs[a + k - 1]
    OBVIOUS
  <2>1. k \in 1 .. q - p - 1 /\ p \in Nat /\ q \in Nat /\ q <= Len(bs)
    BY <1>1, <1>3
  <2>2. p + k \in DOMAIN bs /\ Past(i, p + k) = p + k + 1
    BY <1>1, <2>1 DEF Past
  <2>3. c + k - 1 = p + k + 1 /\ a + k - 1 = p + k
    BY <2>1 DEF a, c
  <2> QED
    BY <1>1, <2>2, <2>3
<1> HIDE DEF a, b, c
<1> DEFINE s == SubSeq(bs, a, b)
           r == SubSeq(t, c, q)
<1>5. PartOf(bs, a, b, s)
  BY <1>2, <1>3, SubSeqIs
<1>6. PartOf(t, c, q, r)
  BY <1>2, <1>3, SubSeqIs
<1> HIDE DEF s, r
<1>7. Len(s) = Len(r) /\ \A k \in 1 .. Len(s) : s[k] = r[k]
  <2>1. CASE a <= b
    BY <1>3, <1>4, <1>5, <1>6, <2>1 DEF PartOf
  <2>2. CASE ~ a <= b
    BY <1>3, <1>5, <1>6, <2>2 DEF PartOf
  <2> QED
    BY <2>1, <2>2
<1>8. s = r
  BY <1>5, <1>6, <1>7, SameSeq DEF PartOf
<1> QED
  BY <1>8 DEF SamePart, s, r, a, b, c

CodeLen(x) == FoldLeft(LAMBDA n, b : n + Len(b.code), 0, x)

LEMMA BetweenPast ==
  ASSUME NEW bs, NEW i, NEW e, NEW t, Inserted(bs, i, e, t),
         NEW p \in DOMAIN bs, NEW q \in DOMAIN bs, i < p, p < q
  PROVE  Between(t, p + 1, q + 1) = Between(bs, p, q)
<1>1. SamePart(t, p + 2, q, bs, p + 1, q - 1)
  BY SubSeqPast
<1>2. (p + 1) + 1 = p + 2 /\ (q + 1) - 1 = q
  BY PastOf
<1>3. SubSeq(t, (p + 1) + 1, (q + 1) - 1) = SubSeq(bs, p + 1, q - 1)
  BY <1>1, <1>2, Zenon DEF SamePart
<1>4. Between(t, p + 1, q + 1) = CodeLen(SubSeq(t, (p + 1) + 1, (q + 1) - 1))
      /\ Between(bs, p, q) = CodeLen(SubSeq(bs, p + 1, q - 1))
  BY Zenon DEF Between, CodeLen
<1> QED
  BY <1>3, <1>4, Zenon

LEMMA BehindPast ==
  ASSUME NEW bs, NEW i, NEW e, NEW t, Inserted(bs, i, e, t),
         NEW p \in DOMAIN bs, NEW hash
  PROVE  /\ \A j \in Behind(bs, p, hash) : Past(i, j) \in Behind(t, Past(i, p), hash)
         /\ Behind(bs, p, hash) # {} => Behind(t, Past(i, p), hash) # {}
         /\ i < p /\ Behind(bs, p, hash) # {} =>
                Min(Behind(t, p + 1, hash)) = Min(Behind(bs, p, hash)) + 1
<1>1. /\ Len(bs) \in Nat /\ i \in 1 .. Len(bs) /\ DOMAIN bs = 1 .. Len(bs)
      /\ \A k \in DOMAIN bs : Past(i, k) \in DOMAIN t /\ t[Past(i, k)] = bs[k]
      /\ \A m \in DOMAIN t : m = i + 1 \/ \E k \in DOMAIN bs : m = Past(i, k)
      /\ \A k, l \in DOMAIN bs : Past(i, k) < Past(i, l) <=> k < l
  BY PastOf
<1>2. IsSeq(bs) /\ IsSeq(t)
  BY DEF Inserted
<1>3. \A j : j \in Behind(bs, p, hash) <=> j \in DOMAIN bs /\ p < j /\ bs[j].hash = hash
  BY <1>2, BehindParts
<1>4. \A j : j \in Behind(t, Past(i, p), hash)
                 <=> j \in DOMAIN t /\ Past(i, p) < j /\ t[j].hash = hash
  BY <1>1, <1>2, BehindParts
<1>5. \A j \in Behind(bs, p, hash) : Past(i, j) \in Behind(t, Past(i, p), hash)
  BY <1>1, <1>3, <1>4
<1>6. ASSUME i < p, Behind(bs, p, hash) # {}
      PROVE  Min(Behind(t, p + 1, hash)) = Min(Behind(bs, p, hash)) + 1
  <2> DEFINE B == Behind(bs, p, hash)
             C == Behind(t, p + 1, hash)
  <2>1. Past(i, p) = p + 1 /\ p + 1 \in DOMAIN t
    BY <1>1, <1>6 DEF Past
  <2>2. Min(B) \in B /\ \A j \in B : Min(B) <= j
    BY <1>2, <1>6, BehindParts
  <2>3. C # {}
    BY <1>5, <1>6, <2>1
  <2>4. Min(C) \in C /\ \A j \in C : Min(C) <= j
    BY <1>2, <2>1, <2>3, BehindParts
  <2>5. \A j \in B : j \in Nat /\ j + 1 \in C
    BY <1>1, <1>3, <1>5, <1>6, <2>1 DEF Past
  <2>6. \A m \in C : m \in Nat /\ m - 1 \in B
    <3> SUFFICES ASSUME NEW m \in C PROVE m \in Nat /\ m - 1 \in B
      OBVIOUS
    <3>1. m \in DOMAIN t /\ p + 1 < m /\ t[m].hash = hash
      BY <1>4, <2>1
    <3>2. m # i + 1
      BY <1>1, <1>6, <3>1
    <3>3. PICK k \in DOMAIN bs : m = Past(i, k)
      BY <1>1, <3>1, <3>2
    <3>4. p < k /\ m = k + 1 /\ bs[k].hash = hash
      BY <1>1, <1>6, <3>1, <3>3 DEF Past
    <3> QED
      BY <1>1, <1>3, <3>3, <3>4
  <2> HIDE DEF B, C
  <2>7. Min(B) + 1 \in C /\ Min(C) - 1 \in B /\ Min(B) \in Nat /\ Min(C) \in Nat
    BY <2>2, <2>4, <2>5, <2>6
  <2>8. Min(C) <= Min(B) + 1 /\ Min(B) <= Min(C) - 1
    BY <2>2, <2>4, <2>7
  <2>9. Min(C) = Min(B) + 1
    BY <2>7, <2>8
  <2> QED
    BY <2>9 DEF B, C
<1> QED
  BY <1>5, <1>6

\* A jump that fits goes on fitting when the block is put before it.
LEMMA FitsPast ==
  ASSUME NEW bs, NEW i, NEW e, NEW t, Inserted(bs, i, e, t),
         NEW p \in DOMAIN bs, i < p, NEW at, JumpFits(bs, p, at)
  PROVE  JumpFits(t, p + 1, at)
<1>1. /\ Len(bs) \in Nat /\ i \in 1 .. Len(bs) /\ DOMAIN bs = 1 .. Len(bs)
      /\ \A k \in DOMAIN bs : t[Past(i, k)] = bs[k]
  BY PastOf
<1>2. Past(i, p) = p + 1 /\ t[p + 1] = bs[p]
  BY <1>1 DEF Past
<1>3. IsSeq(bs)
  BY DEF Inserted
<1>4. ASSUME NEW hash, Behind(bs, p, hash) # {}
      PROVE  /\ Behind(t, p + 1, hash) # {}
             /\ JumpLength(t, p + 1, at, hash) = JumpLength(bs, p, at, hash)
  <2> DEFINE q == Min(Behind(bs, p, hash))
  <2>1. Behind(t, p + 1, hash) # {} /\ Min(Behind(t, p + 1, hash)) = q + 1
    BY <1>2, <1>4, BehindPast
  <2>2. q \in DOMAIN bs /\ p < q
    <3>1. q \in Behind(bs, p, hash)
      BY <1>3, <1>4, BehindParts
    <3> QED
      BY <1>3, <3>1, BehindParts
  <2>3. Between(t, p + 1, q + 1) = Between(bs, p, q)
    <3> HIDE DEF q
    <3> QED
      BY <2>2, BetweenPast
  <2> HIDE DEF q
  <2>4. JumpLength(bs, p, at, hash) = Len(bs[p].code) - at + Between(bs, p, q)
    BY Zenon DEF JumpLength, q
  <2>5. JumpLength(t, p + 1, at, hash) = Len(t[p + 1].code) - at + Between(t, p + 1, q + 1)
    BY <2>1, Zenon DEF JumpLength
  <2> QED
    BY <1>2, <2>1, <2>3, <2>4, <2>5
<1> QED
  BY <1>2, <1>4 DEF JumpFits

LEMMA LastOfPast ==
  ASSUME NEW bs, NEW i, NEW e, NEW t, Inserted(bs, i, e, t), NEW hash,
         NEW p \in DOMAIN bs, hash = bs[p].hash,
         e.hash # hash \/ Behind(bs, i, hash) # {}
  PROVE  LastOf(t, hash) = Past(i, LastOf(bs, hash))
<1>1. /\ Len(bs) \in Nat /\ i \in 1 .. Len(bs) /\ DOMAIN bs = 1 .. Len(bs)
      /\ DOMAIN t = 1 .. Len(bs) + 1
      /\ \A k \in DOMAIN bs : Past(i, k) \in DOMAIN t /\ t[Past(i, k)] = bs[k]
      /\ \A m \in DOMAIN t : m = i + 1 \/ \E k \in DOMAIN bs : m = Past(i, k)
      /\ \A k, l \in DOMAIN bs : Past(i, k) < Past(i, l) <=> k < l
      /\ \A k, l \in DOMAIN bs : Past(i, k) = Past(i, l) <=> k = l
  BY PastOf
<1>2. IsSeq(bs) /\ IsSeq(t) /\ t[i + 1] = e
  BY DEF Inserted
<1> DEFINE l == LastOf(bs, hash)
<1>3. l \in DOMAIN bs /\ bs[l].hash = hash
  BY <1>2, LastOfIs
<1>4. \A k \in DOMAIN bs : bs[k].hash = hash => k <= l
  BY <1>2, LastOfIs
<1>5. Behind(bs, i, hash) # {} => i < l
  BY <1>1, <1>2, BehindParts
<1> HIDE DEF l
<1>6. Past(i, l) \in DOMAIN t /\ t[Past(i, l)].hash = hash
  BY <1>1, <1>3
<1>7. ASSUME NEW m \in DOMAIN t, t[m].hash = hash PROVE m <= Past(i, l)
  <2>1. CASE m = i + 1
    BY <1>1, <1>2, <1>3, <1>5, <1>7, <2>1 DEF Past
  <2>2. CASE m # i + 1
    <3>1. PICK k \in DOMAIN bs : m = Past(i, k)
      BY <1>1, <2>2
    <3>2. k <= l
      BY <1>1, <1>4, <1>7, <3>1
    <3> QED
      BY <1>1, <1>3, <3>1, <3>2 DEF Past
  <2> QED
    BY <2>1, <2>2
<1> DEFINE m == Past(i, l)
<1>8. m \in DOMAIN t /\ t[m].hash = hash /\ \A k \in DOMAIN t : t[k].hash = hash => k <= m
  BY <1>6, <1>7
<1> HIDE DEF m
<1>9. m = LastOf(t, hash)
  BY <1>2, <1>8, LastOfIs
<1> QED
  BY <1>9 DEF m, l

-----------------------------------------------------------------------------
(* Blocks as they were made, with a load in front, and copies.             *)

LEMMA SingleCode ==
  ASSUME NEW ins
  PROVE  /\ IsSeq(<<ins>>) /\ Goals(<<ins>>) = Leads(ins)
         /\ DOMAIN <<ins>> = {1} /\ Len(<<ins>>) = 1 /\ <<ins>>[1] = ins
<1>1. <<ins>> \in Seq({ins}) /\ DOMAIN <<ins>> = {1} /\ <<ins>>[1] = ins
  OBVIOUS
<1>2. IsSeq(<<ins>>)
  BY <1>1, SeqIs
<1> QED
  BY <1>1, <1>2 DEF Goals

LEMMA ReloadParts ==
  ASSUME NEW acc
  PROVE  /\ IsSeq(ReloadCode(acc)) /\ Len(ReloadCode(acc)) >= 1
         /\ ReloadCode(acc)[1].op = "ld"
         /\ \A at \in DOMAIN ReloadCode(acc) : Leads(ReloadCode(acc)[at]) = {}
<1> DEFINE ld == Load(acc.offset)
           mk == Mask(acc.mask)
<1>1. ld.op = "ld" /\ Leads(ld) = {} /\ Leads(mk) = {}
  BY DEF Load, Mask, Plain, Leads, NoJump
<1> HIDE DEF ld, mk
<1> DEFINE o == <<ld>>
<1>2. PICK x \in {<<mk>>, << >>} : ReloadCode(acc) = o \o x
  BY Zenon DEF ReloadCode, ld, mk
<1>3. IsSeq(o) /\ Len(o) = 1 /\ DOMAIN o = {1} /\ o[1] = ld
  BY SingleCode
<1>4. IsSeq(x) /\ Len(x) \in Nat /\ DOMAIN x = 1 .. Len(x) /\ \A k \in DOMAIN x : Leads(x[k]) = {}
  <2>1. CASE x = <<mk>>
    BY <1>1, <2>1, SingleCode, SeqParts
  <2>2. CASE x = << >>
    <3>1. << >> \in Seq({}) /\ Len(<< >>) = 0
      OBVIOUS
    <3>2. IsSeq(<< >>)
      BY <3>1, SeqIs
    <3>3. DOMAIN << >> = 1 .. Len(<< >>)
      BY <3>2, SeqParts
    <3>4. \A k \in DOMAIN << >> : Leads(<< >>[k]) = {}
      BY <3>1, <3>3
    <3> QED
      BY <2>2, <3>1, <3>2, <3>3, <3>4
  <2> QED
    BY <1>2, <2>1, <2>2
<1> HIDE DEF o
<1> DEFINE r == o \o x
<1>5. Joined(o, x, r)
  BY <1>3, <1>4, ConcatIs
<1> HIDE DEF r
<1>6. IsSeq(r) /\ Len(r) = 1 + Len(x) /\ DOMAIN r = 1 .. 1 + Len(x) /\ r[1] = ld
      /\ \A k \in 1 .. Len(x) : r[1 + k] = x[k]
  BY <1>3, <1>4, <1>5, SeqParts DEF Joined
<1>7. ASSUME NEW at \in DOMAIN r PROVE Leads(r[at]) = {}
  <2>1. CASE at = 1
    BY <1>1, <1>6, <2>1
  <2>2. CASE at # 1
    <3> DEFINE k == at - 1
    <3>1. k \in 1 .. Len(x) /\ 1 + k = at
      BY <1>4, <1>6, <2>2
    <3> HIDE DEF k
    <3> QED
      BY <1>4, <1>6, <3>1
  <2> QED
    BY <2>1, <2>2
<1>8. ReloadCode(acc) = r
  BY <1>2 DEF r
<1> QED
  BY <1>1, <1>4, <1>6, <1>7, <1>8

\* A load in front leads nowhere, and is no return.
LEMMA MadeParts ==
  ASSUME NEW tbl, TableOK(tbl), NEW b, b.hash \in DOMAIN tbl, Made(tbl, b)
  PROVE  /\ IsSeq(b.code)
         /\ Goals(b.code) = Goals(tbl[b.hash].code)
         /\ IsReturn(b.code) => b.code = <<Return(b.code[1].action)>>
<1> DEFINE c == tbl[b.hash].code
           r == ReloadCode(tbl[b.hash].acc_start)
<1>1. IsSeq(c) /\ \A at \in DOMAIN c : c[at].op = "ret" => c[at] = Return(c[at].action)
  BY DEF TableOK
<1>2. Len(c) \in Nat /\ DOMAIN c = 1 .. Len(c)
  BY <1>1, SeqParts
<1>3. b.code = c \/ b.code = r \o c
  BY DEF Made
<1>4. /\ IsSeq(r) /\ Len(r) >= 1 /\ r[1].op = "ld"
      /\ \A at \in DOMAIN r : Leads(r[at]) = {}
  BY ReloadParts
<1>5. Len(r) \in Nat /\ DOMAIN r = 1 .. Len(r)
  BY <1>4, SeqParts
<1> HIDE DEF c, r
<1>6. CASE b.code = c
  <2>1. ASSUME IsReturn(c) PROVE c = <<Return(c[1].action)>>
    <3>1. Len(c) = 1 /\ c[1] = Return(c[1].action)
      BY <1>1, <1>2, <2>1 DEF IsReturn
    <3>2. c = <<c[1]>>
      <4> DEFINE d == <<c[1]>>
      <4>1. d \in Seq({c[1]}) /\ Len(d) = 1 /\ d[1] = c[1]
        OBVIOUS
      <4> HIDE DEF d
      <4>2. IsSeq(d)
        BY <4>1, SeqIs
      <4>3. c = d
        BY <1>1, <3>1, <4>1, <4>2, SameSeq
      <4> QED
        BY <4>3 DEF d
    <3> QED
      BY <3>1, <3>2, Zenon
  <2> QED
    BY <1>1, <1>6, <2>1 DEF c
<1>7. CASE b.code = r \o c
  <2> DEFINE d == r \o c
  <2>1. Joined(r, c, d)
    BY <1>1, <1>4, ConcatIs
  <2> HIDE DEF d
  <2>2. IsSeq(d) /\ Len(d) = Len(r) + Len(c) /\ DOMAIN d = 1 .. Len(d)
    BY <2>1, SeqParts DEF Joined
  <2>3. d[1].op = "ld"
    BY <1>4, <1>5, <2>1 DEF Joined
  <2>4. ~ IsReturn(d)
    BY <2>3 DEF IsReturn
  <2>5. ASSUME NEW at \in DOMAIN d PROVE Leads(d[at]) \subseteq Goals(c)
    <3>1. CASE at <= Len(r)
      <4>1. at \in 1 .. Len(r) /\ d[at] = r[at]
        BY <1>2, <1>5, <2>1, <2>2, <3>1 DEF Joined
      <4> QED
        BY <1>4, <1>5, <4>1
    <3>2. CASE ~ at <= Len(r)
      <4> DEFINE k == at - Len(r)
      <4>1. k \in 1 .. Len(c) /\ Len(r) + k = at
        BY <1>2, <1>5, <2>2, <3>2
      <4> HIDE DEF k
      <4>2. d[at] = c[k]
        BY <2>1, <4>1 DEF Joined
      <4> QED
        BY <1>2, <4>1, <4>2 DEF Goals
    <3> QED
      BY <3>1, <3>2
  <2>6. ASSUME NEW k \in DOMAIN c PROVE Leads(c[k]) \subseteq Goals(d)
    <3>1. Len(r) + k \in DOMAIN d /\ d[Len(r) + k] = c[k]
      BY <1>2, <1>5, <2>1, <2>2 DEF Joined
    <3> QED
      BY <3>1 DEF Goals
  <2>7. Goals(d) = Goals(c)
    BY <2>5, <2>6 DEF Goals
  <2> QED
    BY <1>7, <2>2, <2>4, <2>7 DEF c, d
<1> QED
  BY <1>3, <1>6, <1>7

\* The copy has no jumps, leads to its hash at most, and says what the block does.
LEMMA CopyIs ==
  ASSUME NEW tbl, TableOK(tbl), NEW bs, ListOK(tbl, bs), NEW i \in DOMAIN bs,
         NEW hash, Behind(bs, i, hash) # {}
  PROVE  /\ Copy(bs, hash).hash = hash /\ hash \in DOMAIN tbl
         /\ IsSeq(Copy(bs, hash).code)
         /\ Goals(Copy(bs, hash).code) \subseteq {hash}
         /\ \A at \in DOMAIN Copy(bs, hash).code :
                JumpTargets(Copy(bs, hash).code[at]) = {}
         /\ \/ Copy(bs, hash).code = <<LongJump(hash)>>
            \/ /\ IsReturn(bs[LastOf(bs, hash)].code)
               /\ Copy(bs, hash).code = bs[LastOf(bs, hash)].code
<1> DEFINE l == LastOf(bs, hash)
           code == Copy(bs, hash).code
           a == bs[l].code[1].action
<1>1. IsSeq(bs)
  BY DEF ListOK
<1>2. l \in DOMAIN bs /\ bs[l].hash = hash
  <2>1. l \in Behind(bs, i, hash)
    BY <1>1, BehindParts
  <2> HIDE DEF l
  <2> QED
    BY <1>1, <2>1, BehindParts
<1>3. hash \in DOMAIN tbl /\ Made(tbl, bs[l])
  <2>1. bs[l].hash \in DOMAIN tbl /\ LeadsOn(tbl, bs, l)
    <3> HIDE DEF l
    <3> QED
      BY <1>2 DEF ListOK
  <2>2. l = LastOf(bs, bs[l].hash)
    BY <1>2
  <2> HIDE DEF l
  <2> QED
    BY <1>2, <2>1, <2>2 DEF LeadsOn
<1>4. IsReturn(bs[l].code) => bs[l].code = <<Return(a)>>
  <2> DEFINE b == bs[l]
  <2>1. Made(tbl, b) /\ b.hash \in DOMAIN tbl
    BY <1>2, <1>3
  <2> HIDE DEF b, l
  <2>2. IsReturn(b.code) => b.code = <<Return(b.code[1].action)>>
    BY <2>1, MadeParts
  <2> QED
    BY <2>2 DEF b
<1>5. Copy(bs, hash).hash = hash
  BY DEF Copy, Block
<1>6. code = IF IsReturn(bs[l].code) THEN <<Return(a)>> ELSE <<LongJump(hash)>>
  BY DEF Copy, Block
<1>7. /\ Leads(Return(a)) = {} /\ JumpTargets(Return(a)) = {}
      /\ Leads(LongJump(hash)) \subseteq {hash} /\ JumpTargets(LongJump(hash)) = {}
  BY DEF Return, LongJump, Plain, Leads, JumpTargets, NoJump
<1> HIDE DEF l, code, a
<1>8. CASE IsReturn(bs[l].code)
  <2>1. code = <<Return(a)>>
    BY <1>6, <1>8
  <2>2. /\ IsSeq(code) /\ Goals(code) = Leads(Return(a))
        /\ \A at \in DOMAIN code : code[at] = Return(a)
    BY <2>1, SingleCode
  <2>3. code = bs[l].code
    BY <1>4, <1>8, <2>1
  <2> QED
    BY <1>3, <1>5, <1>7, <1>8, <2>2, <2>3 DEF code, l
<1>9. CASE ~ IsReturn(bs[l].code)
  <2>1. code = <<LongJump(hash)>>
    BY <1>6, <1>9
  <2>2. /\ IsSeq(code) /\ Goals(code) = Leads(LongJump(hash))
        /\ \A at \in DOMAIN code : code[at] = LongJump(hash)
    BY <2>1, SingleCode
  <2> QED
    BY <1>3, <1>5, <1>7, <2>1, <2>2 DEF code
<1> QED
  BY <1>8, <1>9

LEMMA CopyForward ==
  ASSUME NEW tbl, TableOK(tbl), NEW bs, ListOK(tbl, bs), NEW i \in DOMAIN bs,
         NEW hash, Behind(bs, i, hash) # {},
         NEW t, Inserted(bs, i, Copy(bs, hash), t)
  PROVE  Forward(t)
<1> DEFINE e == Copy(bs, hash)
<1>1. IsSeq(bs) /\ Forward(bs)
  BY DEF ListOK
<1>2. Inserted(bs, i, e, t) /\ IsSeq(t) /\ t[i + 1] = e
  BY DEF Inserted
<1>3. Goals(e.code) \subseteq {hash}
  BY CopyIs
<1> HIDE DEF e
<1>4. /\ i + 1 \in DOMAIN t
      /\ \A k \in DOMAIN bs : Past(i, k) \in DOMAIN t /\ t[Past(i, k)] = bs[k]
      /\ \A m \in DOMAIN t : m = i + 1 \/ \E k \in DOMAIN bs : m = Past(i, k)
      /\ \A k, l \in DOMAIN bs : Past(i, k) < Past(i, l) <=> k < l
      /\ \A k \in DOMAIN bs : Past(i, k) # i + 1 /\ (Past(i, k) < i + 1 <=> k <= i)
  BY <1>2, PastOf
<1>5. ASSUME NEW k \in DOMAIN bs, NEW h \in Goals(t[Past(i, k)].code)
      PROVE  Behind(t, Past(i, k), h) # {}
  <2>1. h \in Goals(bs[k].code)
    BY <1>4, <1>5
  <2>2. Behind(bs, k, h) # {}
    BY <1>1, <2>1 DEF Forward
  <2> QED
    BY <1>2, <2>2, BehindPast
<1>6. Behind(t, i + 1, hash) # {}
  <2>1. PICK j : j \in Behind(bs, i, hash)
    OBVIOUS
  <2>2. j \in DOMAIN bs /\ i < j /\ bs[j].hash = hash
    BY <1>1, <2>1, BehindParts
  <2>3. Past(i, j) \in DOMAIN t /\ i + 1 < Past(i, j) /\ t[Past(i, j)].hash = hash
    <3>1. Len(bs) \in Nat /\ DOMAIN bs = 1 .. Len(bs)
      BY <1>1, SeqParts
    <3> QED
      BY <1>4, <2>2, <3>1 DEF Past
  <2>4. Past(i, j) \in Behind(t, i + 1, hash)
    BY <1>2, <1>4, <2>3, BehindParts
  <2> QED
    BY <2>4
<1> SUFFICES ASSUME NEW m \in DOMAIN t, NEW h \in Goals(t[m].code)
             PROVE  Behind(t, m, h) # {}
  BY DEF Forward
<1>7. CASE m = i + 1
  BY <1>2, <1>3, <1>6, <1>7
<1>8. CASE m # i + 1
  BY <1>4, <1>5, <1>8
<1> QED
  BY <1>7, <1>8

LEMMA CopyLeadsOn ==
  ASSUME NEW tbl, TableOK(tbl), NEW bs, ListOK(tbl, bs), NEW i \in DOMAIN bs,
         NEW hash, Behind(bs, i, hash) # {},
         NEW t, Inserted(bs, i, Copy(bs, hash), t), NEW m \in DOMAIN t
  PROVE  t[m].hash \in DOMAIN tbl /\ IsSeq(t[m].code) /\ LeadsOn(tbl, t, m)
<1> DEFINE e == Copy(bs, hash)
<1>1. IsSeq(bs)
  BY DEF ListOK
<1>2. Inserted(bs, i, e, t) /\ t[i + 1] = e
  BY DEF Inserted
<1>3. /\ e.hash = hash /\ hash \in DOMAIN tbl /\ IsSeq(e.code)
      /\ \/ e.code = <<LongJump(hash)>>
         \/ IsReturn(bs[LastOf(bs, hash)].code) /\ e.code = bs[LastOf(bs, hash)].code
  BY CopyIs
<1> HIDE DEF e
<1>4. /\ \A k \in DOMAIN bs : Past(i, k) \in DOMAIN t /\ t[Past(i, k)] = bs[k]
      /\ \A k \in DOMAIN t : k = i + 1 \/ \E l \in DOMAIN bs : k = Past(i, l)
      /\ \A k, l \in DOMAIN bs : Past(i, k) = Past(i, l) <=> k = l
      /\ \A k \in DOMAIN bs : Past(i, k) # i + 1
  BY <1>2, PastOf
<1>5. ASSUME NEW k \in DOMAIN bs
      PROVE  /\ LastOf(bs, bs[k].hash) \in DOMAIN bs
             /\ LastOf(t, bs[k].hash) = Past(i, LastOf(bs, bs[k].hash))
  <2> DEFINE h == bs[k].hash
  <2>1. e.hash # h \/ Behind(bs, i, h) # {}
    BY <1>3
  <2>2. h = bs[k].hash
    OBVIOUS
  <2> HIDE DEF h
  <2>3. LastOf(bs, h) \in DOMAIN bs
    BY <1>1, <2>2, LastOfIs
  <2>4. LastOf(t, h) = Past(i, LastOf(bs, h))
    BY <1>2, <2>1, <2>2, LastOfPast
  <2> QED
    BY <2>3, <2>4 DEF h
<1>6. CASE m = i + 1
  <2>1. PICK j : j \in Behind(bs, i, hash)
    OBVIOUS
  <2>2. j \in DOMAIN bs /\ bs[j].hash = hash
    BY <1>1, <2>1, BehindParts
  <2> DEFINE l == LastOf(bs, hash)
  <2>3. l \in DOMAIN bs /\ LastOf(t, hash) = Past(i, l)
    BY <1>5, <2>2
  <2>4. \/ e.code = <<LongJump(hash)>>
        \/ IsReturn(bs[l].code) /\ e.code = bs[l].code
    BY <1>3
  <2> HIDE DEF l
  <2>5. m # Past(i, l) /\ t[Past(i, l)] = bs[l] /\ t[m] = e
    BY <1>2, <1>4, <1>6, <2>3
  <2>6. LeadsOn(tbl, t, m)
    BY <1>3, <2>3, <2>4, <2>5 DEF LeadsOn
  <2> QED
    BY <1>3, <2>5, <2>6
<1>7. CASE m # i + 1
  <2>1. PICK k \in DOMAIN bs : m = Past(i, k)
    BY <1>4, <1>7
  <2>2. t[m] = bs[k]
    BY <1>4, <2>1
  <2>3. bs[k].hash \in DOMAIN tbl /\ IsSeq(bs[k].code) /\ LeadsOn(tbl, bs, k)
    BY DEF ListOK
  <2> DEFINE h == bs[k].hash
             l == LastOf(bs, h)
  <2>4. l \in DOMAIN bs /\ LastOf(t, h) = Past(i, l)
    BY <1>5
  <2>5. \/ k = l /\ Made(tbl, bs[k])
        \/ /\ k # l
           /\ \/ bs[k].code = <<LongJump(h)>>
              \/ IsReturn(bs[l].code) /\ bs[k].code = bs[l].code
    BY <2>3 DEF LeadsOn
  <2>6. t[m].hash = h
    BY <2>2
  <2> HIDE DEF h, l
  <2>7. t[Past(i, l)] = bs[l] /\ (m = Past(i, l) <=> k = l)
    BY <1>4, <2>1, <2>4
  <2>8. LeadsOn(tbl, t, m)
    BY <2>2, <2>4, <2>5, <2>6, <2>7 DEF LeadsOn
  <2> QED
    BY <2>2, <2>3, <2>8
<1> QED
  BY <1>6, <1>7

\* t is a longer list in which block i is where it was, and the jumps behind
\* it go on fitting.
Grows(tbl, bs, i, t) ==
    /\ ListOK(tbl, t)
    /\ Len(t) \in Nat /\ Len(t) > Len(bs)
    /\ i \in DOMAIN t /\ t[i] = bs[i]
    /\ FitBehind(bs, i) => FitBehind(t, i)

LEMMA CopyGrows ==
  ASSUME NEW tbl, TableOK(tbl), NEW bs, ListOK(tbl, bs), NEW i \in DOMAIN bs,
         NEW hash, Behind(bs, i, hash) # {},
         NEW t, t = InsertAt(bs, i + 1, Copy(bs, hash))
  PROVE  Grows(tbl, bs, i, t)
<1> DEFINE e == Copy(bs, hash)
<1>1. IsSeq(bs) /\ Len(bs) \in Nat /\ DOMAIN bs = 1 .. Len(bs)
  BY SeqParts DEF ListOK
<1>2. Inserted(bs, i, e, t)
  BY <1>1, InsertAtIs
<1>3. \A at \in DOMAIN e.code : JumpTargets(e.code[at]) = {}
  BY CopyIs
<1>4. IsSeq(t) /\ Len(t) = Len(bs) + 1 /\ t[i + 1] = e
  BY <1>2 DEF Inserted
<1>5. ListOK(tbl, t)
  <2>1. Forward(t)
    BY <1>2, CopyForward
  <2>2. \A m \in DOMAIN t :
            t[m].hash \in DOMAIN tbl /\ IsSeq(t[m].code) /\ LeadsOn(tbl, t, m)
    BY <1>2, CopyLeadsOn
  <2> QED
    BY <1>4, <2>1, <2>2 DEF ListOK
<1> HIDE DEF e
<1>6. /\ \A k \in DOMAIN bs : Past(i, k) \in DOMAIN t /\ t[Past(i, k)] = bs[k]
      /\ \A k \in DOMAIN t : k = i + 1 \/ \E l \in DOMAIN bs : k = Past(i, l)
      /\ \A k \in DOMAIN bs : Past(i, k) < i + 1 <=> k <= i
  BY <1>2, PastOf
<1>7. i \in DOMAIN t /\ t[i] = bs[i]
  BY <1>1, <1>6 DEF Past
<1>8. ASSUME FitBehind(bs, i) PROVE FitBehind(t, i)
  <2> SUFFICES ASSUME NEW m \in i + 1 .. Len(t), NEW at \in DOMAIN t[m].code
               PROVE  JumpFits(t, m, at)
    BY DEF FitBehind
  <2>1. CASE m = i + 1
    BY <1>3, <1>4, <2>1 DEF JumpFits
  <2>2. CASE m # i + 1
    <3>1. m \in DOMAIN t
      BY <1>1, <1>4, SeqParts
    <3>2. PICK k \in DOMAIN bs : m = Past(i, k)
      BY <1>6, <2>2, <3>1
    <3>3. i < k /\ m = k + 1 /\ k \in i + 1 .. Len(bs) /\ t[m] = bs[k]
      BY <1>1, <1>6, <2>2, <3>2 DEF Past
    <3>4. JumpFits(bs, k, at)
      BY <1>8, <3>3 DEF FitBehind
    <3> QED
      BY <1>2, <3>3, <3>4, FitsPast
  <2> QED
    BY <2>1, <2>2
<1> QED
  BY <1>1, <1>4, <1>5, <1>7, <1>8 DEF Grows

LEMMA JumpLengthNat ==
  ASSUME NEW tbl, NEW bs, ListOK(tbl, bs), NEW i \in DOMAIN bs,
         NEW at \in DOMAIN bs[i].code, NEW hash, Behind(bs, i, hash) # {}
  PROVE  JumpLength(bs, i, at, hash) \in Nat
<1> DEFINE j == Min(Behind(bs, i, hash))
<1>1. IsSeq(bs) /\ \A p \in DOMAIN bs : IsSeq(bs[p].code)
  BY DEF ListOK
<1>2. j \in DOMAIN bs
  <2>1. j \in Behind(bs, i, hash)
    BY <1>1, BehindParts
  <2> HIDE DEF j
  <2> QED
    BY <1>1, <2>1, BehindParts
<1>3. Between(bs, i, j) \in Nat
  <2> HIDE DEF j
  <2> QED
    BY <1>1, <1>2, BetweenNat
<1>4. Len(bs[i].code) \in Nat /\ DOMAIN bs[i].code = 1 .. Len(bs[i].code)
  BY <1>1, SeqParts
<1>5. JumpLength(bs, i, at, hash) = Len(bs[i].code) - at + Between(bs, i, j)
  BY Zenon DEF JumpLength
<1> HIDE DEF j
<1> QED
  BY <1>3, <1>4, <1>5

LEMMA ShortenedKeeps ==
  ASSUME NEW tbl, TableOK(tbl), NEW bs, ListOK(tbl, bs), NEW i \in DOMAIN bs,
         NEW at \in DOMAIN bs[i].code, NEW hash,
         hash = NoJump \/ Behind(bs, i, hash) # {}
  PROVE  \/ /\ Shortened(bs, i, at, hash) = bs
            /\ hash # NoJump => JumpLength(bs, i, at, hash) \in 0 .. JumpMax
         \/ Grows(tbl, bs, i, Shortened(bs, i, at, hash))
<1>1. CASE hash = NoJump
  BY <1>1 DEF Shortened
<1>2. CASE hash # NoJump
  <2>1. Behind(bs, i, hash) # {} /\ JumpLength(bs, i, at, hash) \in Nat
    BY <1>2, JumpLengthNat
  <2>2. CASE JumpLength(bs, i, at, hash) <= JumpMax
    BY <2>1, <2>2, JumpMaxAssumption DEF Shortened
  <2>3. CASE ~ JumpLength(bs, i, at, hash) <= JumpMax
    <3>1. Shortened(bs, i, at, hash) = InsertAt(bs, i + 1, Copy(bs, hash))
      BY <1>2, <2>1, <2>3, Zenon DEF Shortened
    <3> QED
      BY <2>1, <3>1, CopyGrows
  <2> QED
    BY <2>2, <2>3
<1> QED
  BY <1>1, <1>2

LEMMA ShortenedAtKeeps ==
  ASSUME NEW tbl, TableOK(tbl), NEW bs, ListOK(tbl, bs), NEW i \in DOMAIN bs,
         NEW at \in DOMAIN bs[i].code
  PROVE  /\ ~ Lost(bs, i, at)
         /\ \/ ShortenedAt(bs, i, at) = bs /\ JumpFits(bs, i, at)
            \/ Grows(tbl, bs, i, ShortenedAt(bs, i, at))
<1> DEFINE ins == bs[i].code[at]
           r1 == Shortened(bs, i, at, ins.jt)
           r2 == Shortened(r1, i, at, ins.jf)
<1>1. JumpTargets(ins) \subseteq Goals(bs[i].code)
  BY DEF JumpTargets, Goals, Leads
<1>2. \A h \in JumpTargets(ins) : Behind(bs, i, h) # {}
  BY <1>1 DEF ListOK, Forward
<1>3. ~ Lost(bs, i, at)
  BY <1>2 DEF Lost
<1>4. ShortenedAt(bs, i, at) = r2
  BY Zenon DEF ShortenedAt
<1>5. /\ ins.jt = NoJump \/ Behind(bs, i, ins.jt) # {}
      /\ ins.jf = NoJump \/ Behind(bs, i, ins.jf) # {}
  BY <1>2 DEF JumpTargets
<1>6. \/ r1 = bs /\ (ins.jt # NoJump => JumpLength(bs, i, at, ins.jt) \in 0 .. JumpMax)
      \/ Grows(tbl, bs, i, r1)
  BY <1>5, ShortenedKeeps
<1>7. CASE /\ r1 = bs
           /\ ins.jt # NoJump => JumpLength(bs, i, at, ins.jt) \in 0 .. JumpMax
  <2>1. \/ /\ Shortened(bs, i, at, ins.jf) = bs
           /\ ins.jf # NoJump => JumpLength(bs, i, at, ins.jf) \in 0 .. JumpMax
        \/ Grows(tbl, bs, i, Shortened(bs, i, at, ins.jf))
    BY <1>5, ShortenedKeeps
  <2>2. r2 = Shortened(bs, i, at, ins.jf)
    BY <1>7, Zenon
  <2>3. ASSUME ins.jf # NoJump => JumpLength(bs, i, at, ins.jf) \in 0 .. JumpMax
        PROVE  JumpFits(bs, i, at)
    BY <1>2, <1>7, <2>3 DEF JumpFits, JumpTargets
  <2> HIDE DEF r1, r2, ins
  <2> QED
    BY <1>3, <1>4, <2>1, <2>2, <2>3
<1>8. CASE Grows(tbl, bs, i, r1)
  <2> DEFINE jf == ins.jf
  <2>1. jf \in Goals(bs[i].code) \/ jf = NoJump
    BY <1>1 DEF JumpTargets
  <2> HIDE DEF jf, r1
  <2>2. ListOK(tbl, r1) /\ i \in DOMAIN r1 /\ r1[i] = bs[i] /\ at \in DOMAIN r1[i].code
    BY <1>8 DEF Grows
  <2>3. jf = NoJump \/ Behind(r1, i, jf) # {}
    BY <2>1, <2>2 DEF ListOK, Forward
  <2> DEFINE r == Shortened(r1, i, at, jf)
  <2>4. r = r1 \/ Grows(tbl, r1, i, r)
    BY <2>2, <2>3, ShortenedKeeps
  <2>5. r2 = r
    BY DEF jf
  <2> HIDE DEF r
  <2>6. Grows(tbl, bs, i, r)
    <3>1. CASE r = r1
      BY <1>8, <3>1
    <3>2. CASE Grows(tbl, r1, i, r)
      <4>1. Len(bs) \in Nat
        BY SeqParts DEF ListOK
      <4> QED
        BY <1>8, <3>2, <4>1 DEF Grows
    <3> QED
      BY <2>4, <3>1, <3>2
  <2> QED
    BY <1>3, <1>4, <2>5, <2>6
<1> QED
  BY <1>6, <1>7, <1>8

-----------------------------------------------------------------------------
(* A block is pulled in.                                                   *)

LEMMA PulledIs ==
  ASSUME TableOK(table), PullOK(table, blocks, found), Wanting # {}
  PROVE  /\ Puller \in DOMAIN blocks
         /\ Pulled \in Awaits(table, found, blocks[Puller])
         /\ \A q \in DOMAIN blocks : q > Puller => Awaits(table, found, blocks[q]) = {}
<1>1. IsSeq(blocks) /\ Len(blocks) \in Nat /\ DOMAIN blocks = 1 .. Len(blocks)
  BY SeqParts DEF PullOK
<1>2. \A q : q \in Wanting <=> q \in DOMAIN blocks /\ Awaits(table, found, blocks[q]) # {}
  BY DEF Wanting, Missing, Awaits
<1>3. Puller \in Wanting /\ \A q \in Wanting : Puller >= q
  <2>1. Wanting \in SUBSET (1 .. Len(blocks))
    BY <1>1, <1>2
  <2> QED
    BY <1>1, <2>1, MaxIs DEF Puller
<1>4. ASSUME NEW q \in DOMAIN blocks, q > Puller PROVE Awaits(table, found, blocks[q]) = {}
  <2>1. Puller \in Nat /\ q \in Nat
    BY <1>1, <1>2, <1>3
  <2>2. q \notin Wanting
    BY <1>3, <1>4, <2>1
  <2> QED
    BY <1>2, <2>2
<1> DEFINE code == blocks[Puller].code
           A == {at \in DOMAIN code : Unfound(code[at]) # {}}
           ins == code[Max(A)]
<1>5. IsSeq(code)
  <2> DEFINE b == blocks[Puller]
  <2>1. b.hash \in DOMAIN table /\ Made(table, b)
    BY <1>2, <1>3 DEF PullOK
  <2> HIDE DEF b
  <2>2. IsSeq(b.code)
    BY <2>1, MadeParts
  <2> QED
    BY <2>2 DEF b
<1>6. Len(code) \in Nat /\ DOMAIN code = 1 .. Len(code)
  BY <1>5, SeqParts
<1>7. A # {}
  <2>1. PICK h : h \in Awaits(table, found, blocks[Puller])
    BY <1>2, <1>3
  <2>2. PICK at \in DOMAIN code : h \in Leads(code[at])
    BY <2>1 DEF Awaits, Goals
  <2>3. h \in Unfound(code[at])
    BY <2>1, <2>2 DEF Awaits, Unfound
  <2> QED
    BY <2>3
<1>8. Max(A) \in A
  <2>1. A \in SUBSET (1 .. Len(code))
    BY <1>6
  <2> HIDE DEF A
  <2> QED
    BY <1>6, <1>7, <2>1, MaxIs
<1>9. Unfound(ins) # {} /\ Unfound(ins) \subseteq Awaits(table, found, blocks[Puller])
  <2> DEFINE at == Max(A)
  <2>1. at \in DOMAIN code /\ Unfound(code[at]) # {}
    BY <1>8
  <2> HIDE DEF at
  <2>2. Leads(code[at]) \subseteq Goals(code)
    BY <2>1 DEF Goals
  <2>3. Unfound(code[at]) \subseteq Awaits(table, found, blocks[Puller])
    BY <2>2 DEF Unfound, Awaits
  <2> QED
    BY <2>1, <2>3 DEF at
<1>10. Pulled = CASE ins.jt \in Unfound(ins) -> ins.jt
                  [] ins.jt \notin Unfound(ins) /\ ins.jf \in Unfound(ins) -> ins.jf
                  [] OTHER -> ins.kt
  BY Zenon DEF Pulled
<1>11. Unfound(ins) \subseteq {ins.jt, ins.jf, ins.kt}
  BY DEF Unfound, Leads
<1> HIDE DEF ins
<1>12. Pulled \in Unfound(ins)
  <2>1. CASE ins.jt \in Unfound(ins)
    BY <1>10, <2>1
  <2>2. CASE ins.jt \notin Unfound(ins) /\ ins.jf \in Unfound(ins)
    BY <1>10, <2>2
  <2>3. CASE ins.jt \notin Unfound(ins) /\ ins.jf \notin Unfound(ins)
    BY <1>9, <1>10, <1>11, <2>3
  <2> QED
    BY <2>1, <2>2, <2>3
<1> QED
  BY <1>2, <1>3, <1>4, <1>9, <1>12

LEMMA ReloadedIs ==
  ASSUME NEW hash, NEW end
  PROVE  Reloaded(hash, end).hash = hash /\ Made(table, Reloaded(hash, end))
<1> DEFINE b == table[hash]
<1>1. CASE b.acc_start.offset = Undef \/ b.acc_start = end
  <2>1. Reloaded(hash, end) = Block(hash, b.code, b.acc_start, b.acc_end)
    BY <1>1, Zenon DEF Reloaded
  <2> QED
    BY <2>1 DEF Block, Made
<1>2. CASE ~ (b.acc_start.offset = Undef \/ b.acc_start = end)
  <2> DEFINE c == ReloadCode(b.acc_start) \o b.code
  <2>1. Reloaded(hash, end) = Block(hash, c, AccUndef, b.acc_end)
    BY <1>2, Zenon DEF Reloaded
  <2>2. c = ReloadCode(table[hash].acc_start) \o table[hash].code
    OBVIOUS
  <2> HIDE DEF c
  <2> QED
    BY <2>1, <2>2 DEF Block, Made
<1> QED
  BY <1>1, <1>2

\* The block pulled in, e, was made before every block it is put behind that
\* others lead to; what it leads to itself was made before it, so that it is
\* further down the list if it is there.
LEMMA PullKeeps ==
  ASSUME NEW tbl, TableOK(tbl), NEW bs, NEW fnd, PullOK(tbl, bs, fnd),
         NEW i \in DOMAIN bs, NEW hash \in Awaits(tbl, fnd, bs[i]),
         \A q \in DOMAIN bs : q > i => Awaits(tbl, fnd, bs[q]) = {},
         NEW e, e.hash = hash, Made(tbl, e),
         NEW t, Inserted(bs, i, e, t)
  PROVE  PullOK(tbl, t, fnd \cup {hash})
<1>1. /\ IsSeq(bs) /\ Len(bs) \in Nat /\ DOMAIN bs = 1 .. Len(bs)
      /\ fnd = {bs[p].hash : p \in DOMAIN bs}
  BY SeqParts DEF PullOK
<1>2. IsSeq(t) /\ t[i + 1] = e
  BY DEF Inserted
<1>3. /\ i + 1 \in DOMAIN t /\ DOMAIN t = 1 .. Len(bs) + 1
      /\ \A k \in DOMAIN bs : Past(i, k) \in DOMAIN t /\ t[Past(i, k)] = bs[k]
      /\ \A m \in DOMAIN t : m = i + 1 \/ \E k \in DOMAIN bs : m = Past(i, k)
      /\ \A k, l \in DOMAIN bs : Past(i, k) < Past(i, l) <=> k < l
      /\ \A k \in DOMAIN bs : Past(i, k) # i + 1 /\ (Past(i, k) < i + 1 <=> k <= i)
  BY PastOf
<1>4. Len(tbl) \in Nat /\ DOMAIN tbl = 1 .. Len(tbl)
  BY SeqParts DEF TableOK
<1>5. /\ \A p \in DOMAIN bs : bs[p].hash \in DOMAIN tbl
      /\ \A p \in DOMAIN bs : Goals(bs[p].code) = Goals(tbl[bs[p].hash].code)
  <2> SUFFICES ASSUME NEW p \in DOMAIN bs
               PROVE  /\ bs[p].hash \in DOMAIN tbl
                      /\ Goals(bs[p].code) = Goals(tbl[bs[p].hash].code)
    OBVIOUS
  <2> DEFINE b == bs[p]
  <2>1. b.hash \in DOMAIN tbl /\ Made(tbl, b)
    BY DEF PullOK
  <2> HIDE DEF b
  <2>2. Goals(b.code) = Goals(tbl[b.hash].code)
    BY <2>1, MadeParts
  <2> QED
    BY <2>1, <2>2 DEF b
<1>6. hash \in DOMAIN tbl /\ hash \notin fnd /\ hash < bs[i].hash
  <2>1. hash \in Goals(tbl[bs[i].hash].code) /\ hash \in DOMAIN tbl /\ hash \notin fnd
    BY <1>5 DEF Awaits
  <2>2. hash \in 1 .. bs[i].hash - 1
    BY <1>5, <2>1 DEF TableOK
  <2> QED
    BY <1>4, <1>5, <2>1, <2>2
<1>7. /\ Goals(e.code) = Goals(tbl[hash].code)
      /\ \A h \in Goals(e.code) : h \in Nat /\ h < hash /\ LedTo(tbl, h)
  <2>1. Goals(e.code) = Goals(tbl[hash].code)
    BY <1>6, MadeParts
  <2>2. \A h \in Goals(e.code) : h \in 1 .. hash - 1
    BY <1>6, <2>1 DEF TableOK
  <2>3. \A h \in Goals(e.code) : LedTo(tbl, h)
    BY <1>6, <2>1 DEF LedTo
  <2> QED
    BY <1>4, <1>6, <2>1, <2>2, <2>3
<1>8. ASSUME NEW k \in DOMAIN bs, NEW l \in DOMAIN bs, k < l
      PROVE  /\ bs[k].hash # bs[l].hash
             /\ Awaits(tbl, fnd, bs[l]) # {} /\ LedTo(tbl, bs[k].hash)
                    => bs[l].hash < bs[k].hash
  BY <1>8 DEF PullOK
<1>9. \A k \in DOMAIN bs :
          k <= i /\ LedTo(tbl, bs[k].hash) => hash < bs[k].hash
  <2> SUFFICES ASSUME NEW k \in DOMAIN bs, k <= i, LedTo(tbl, bs[k].hash)
               PROVE  hash < bs[k].hash
    OBVIOUS
  <2>1. CASE k = i
    BY <1>6, <2>1
  <2>2. CASE k # i
    <3>1. bs[i].hash < bs[k].hash
      <4>1. k < i
        BY <1>1, <2>2
      <4> QED
        BY <1>8, <4>1
    <3> QED
      BY <1>4, <1>5, <1>6, <3>1
  <2> QED
    BY <2>1, <2>2
<1> DEFINE fnd2 == fnd \cup {hash}
<1>10. fnd2 = {t[m].hash : m \in DOMAIN t}
  <2>1. ASSUME NEW m \in DOMAIN t PROVE t[m].hash \in fnd2
    <3>1. CASE m = i + 1
      BY <1>2, <3>1
    <3>2. CASE m # i + 1
      BY <1>1, <1>3, <3>2
    <3> QED
      BY <3>1, <3>2
  <2>2. ASSUME NEW h \in fnd2 PROVE \E m \in DOMAIN t : h = t[m].hash
    <3>1. CASE h = hash
      BY <1>2, <1>3, <3>1
    <3>2. CASE h # hash
      <4>1. PICK k \in DOMAIN bs : h = bs[k].hash
        BY <1>1, <3>2
      <4> QED
        BY <1>3, <4>1
    <3> QED
      BY <3>1, <3>2
  <2> HIDE DEF fnd2
  <2> QED
    BY <2>1, <2>2
<1>11. ASSUME NEW m \in DOMAIN t
       PROVE  t[m].hash \in DOMAIN tbl /\ Made(tbl, t[m])
  <2>1. CASE m = i + 1
    BY <1>2, <1>6, <2>1
  <2>2. CASE m # i + 1
    <3>1. PICK k \in DOMAIN bs : m = Past(i, k)
      BY <1>3, <2>2
    <3> QED
      BY <1>3, <3>1 DEF PullOK
  <2> QED
    BY <2>1, <2>2
<1>12. ASSUME NEW m \in DOMAIN t, NEW h \in Goals(t[m].code) \cap fnd2
       PROVE  Behind(t, m, h) # {}
  <2>1. CASE m = i + 1
    <3>1. h \in Nat /\ h < hash /\ LedTo(tbl, h) /\ h \in fnd
      BY <1>2, <1>4, <1>6, <1>7, <1>12, <2>1
    <3>2. PICK k \in DOMAIN bs : h = bs[k].hash
      BY <1>1, <3>1
    <3>3. ~ k <= i
      BY <1>4, <1>6, <1>9, <3>1, <3>2
    <3>4. Past(i, k) \in DOMAIN t /\ i + 1 < Past(i, k) /\ t[Past(i, k)].hash = h
      BY <1>1, <1>3, <3>2, <3>3 DEF Past
    <3>5. Past(i, k) \in Behind(t, m, h)
      BY <1>2, <2>1, <3>4, BehindParts
    <3> QED
      BY <3>5
  <2>2. CASE m # i + 1
    <3>1. PICK k \in DOMAIN bs : m = Past(i, k)
      BY <1>3, <2>2
    <3>2. h \in Goals(bs[k].code)
      BY <1>3, <1>12, <3>1
    <3>3. CASE h \in fnd
      <4>1. Behind(bs, k, h) # {}
        BY <3>2, <3>3 DEF PullOK
      <4> QED
        BY <3>1, <4>1, BehindPast
    <3>4. CASE h \notin fnd
      <4>1. h = hash
        BY <1>12, <3>4
      <4>2. h \in Awaits(tbl, fnd, bs[k])
        BY <1>6, <3>2, <4>1 DEF Awaits
      <4>3. k <= i
        BY <1>1, <4>2
      <4>4. i + 1 \in DOMAIN t /\ m < i + 1 /\ t[i + 1].hash = h
        BY <1>2, <1>3, <3>1, <4>1, <4>3
      <4>5. i + 1 \in Behind(t, m, h)
        BY <1>2, <4>4, BehindParts
      <4> QED
        BY <4>5
    <3> QED
      BY <3>3, <3>4
  <2> QED
    BY <2>1, <2>2
<1>13. ASSUME NEW m \in DOMAIN t, NEW n \in DOMAIN t, m < n
       PROVE  /\ t[m].hash # t[n].hash
              /\ Awaits(tbl, fnd2, t[n]) # {} /\ LedTo(tbl, t[m].hash)
                     => t[n].hash < t[m].hash
  <2>1. CASE m = i + 1
    <3>1. n # i + 1
      BY <1>1, <1>13, <2>1
    <3>2. PICK l \in DOMAIN bs : n = Past(i, l)
      BY <1>3, <3>1
    <3>3. t[n] = bs[l] /\ i < l
      BY <1>1, <1>3, <1>13, <2>1, <3>2
    <3>4. Awaits(tbl, fnd, bs[l]) = {}
      BY <1>1, <3>3
    <3>5. Awaits(tbl, fnd2, t[n]) = {}
      BY <3>3, <3>4 DEF Awaits
    <3>6. t[n].hash \in fnd
      BY <1>1, <3>3
    <3> QED
      BY <1>2, <1>6, <2>1, <3>5, <3>6
  <2>2. CASE m # i + 1
    <3>1. PICK k \in DOMAIN bs : m = Past(i, k)
      BY <1>3, <2>2
    <3>2. t[m] = bs[k] /\ t[m].hash \in fnd
      BY <1>1, <1>3, <3>1
    <3>3. CASE n = i + 1
      <4>1. k <= i
        BY <1>1, <1>3, <1>13, <3>1, <3>3
      <4> QED
        BY <1>2, <1>6, <1>9, <3>2, <3>3, <4>1
    <3>4. CASE n # i + 1
      <4>1. PICK l \in DOMAIN bs : n = Past(i, l)
        BY <1>3, <3>4
      <4>2. k < l /\ t[n] = bs[l]
        BY <1>3, <1>13, <3>1, <4>1
      <4>3. Awaits(tbl, fnd2, t[n]) # {} => Awaits(tbl, fnd, bs[l]) # {}
        BY <4>2 DEF Awaits
      <4> QED
        BY <1>8, <3>2, <4>2, <4>3
    <3> QED
      BY <3>3, <3>4
  <2> QED
    BY <2>1, <2>2
<1> HIDE DEF fnd2
<1>14. PullOK(tbl, t, fnd2)
  BY <1>2, <1>10, <1>11, <1>12, <1>13 DEF PullOK
<1> QED
  BY <1>14 DEF fnd2

\* When no block waits for another any more, what each leads to is behind it.
LEMMA PullEnd ==
  ASSUME NEW tbl, TableOK(tbl), NEW bs, NEW fnd, PullOK(tbl, bs, fnd),
         \A q \in DOMAIN bs : Awaits(tbl, fnd, bs[q]) = {}
  PROVE  ListOK(tbl, bs)
<1>1. IsSeq(bs) /\ Len(bs) \in Nat /\ DOMAIN bs = 1 .. Len(bs)
  BY SeqParts DEF PullOK
<1>2. Len(tbl) \in Nat /\ DOMAIN tbl = 1 .. Len(tbl)
  BY SeqParts DEF TableOK
<1>3. ASSUME NEW p \in DOMAIN bs
      PROVE  /\ bs[p].hash \in DOMAIN tbl /\ IsSeq(bs[p].code) /\ LeadsOn(tbl, bs, p)
             /\ \A h \in Goals(bs[p].code) : Behind(bs, p, h) # {}
  <2> DEFINE b == bs[p]
  <2>1. b.hash \in DOMAIN tbl /\ Made(tbl, b)
    BY DEF PullOK
  <2>2. p = LastOf(bs, b.hash)
    <3>1. ASSUME NEW k \in DOMAIN bs, bs[k].hash = b.hash PROVE k <= p
      <4>1. ~ p < k
        BY <3>1 DEF PullOK
      <4> QED
        BY <1>1, <4>1
    <3>2. b.hash = bs[p].hash
      OBVIOUS
    <3> HIDE DEF b
    <3> QED
      BY <1>1, <3>1, <3>2, LastOfIs
  <2>3. LeadsOn(tbl, bs, p)
    BY <2>1, <2>2 DEF LeadsOn
  <2>4. \A h \in Goals(b.code) : h \in fnd => Behind(bs, p, h) # {}
    BY DEF PullOK
  <2>5. Awaits(tbl, fnd, b) = {}
    OBVIOUS
  <2> HIDE DEF b
  <2>6. IsSeq(b.code) /\ Goals(b.code) = Goals(tbl[b.hash].code)
    BY <2>1, MadeParts
  <2>7. \A h \in Goals(b.code) : h \in DOMAIN tbl
    <3>1. Goals(b.code) \subseteq 1 .. b.hash - 1
      BY <2>1, <2>6 DEF TableOK
    <3> QED
      BY <1>2, <2>1, <3>1
  <2>8. \A h \in Goals(b.code) : h \in fnd
    BY <2>5, <2>7 DEF Awaits
  <2> QED
    BY <2>1, <2>3, <2>4, <2>6, <2>8 DEF b
<1> QED
  BY <1>1, <1>3 DEF ListOK, Forward

-----------------------------------------------------------------------------
(* The steps.                                                              *)

LEMMA InitInv == BuildInit => BuildInv
<1> SUFFICES ASSUME BuildInit PROVE BuildInv
  OBVIOUS
<1> QED
  BY DEF BuildInit, BuildInv

LEMMA LayKeeps == ASSUME BuildInv, Lay PROVE BuildInv'
<1> DEFINE tbl == table'
           bs == blocks'
           fnd == found'
<1>1. stage' = "pull" /\ Generated(tbl, bs, fnd) /\ grown' = grown
  BY DEF Lay
<1>2. TableOK(tbl)
  <2> HIDE DEF tbl, bs, fnd
  <2> QED
    BY <1>1 DEF Generated, TableOK
<1>3. PullOK(tbl, bs, fnd)
  <2> HIDE DEF tbl, bs, fnd
  <2>1. /\ IsSeq(bs)
        /\ fnd = {bs[p].hash : p \in DOMAIN bs}
        /\ \A p \in DOMAIN bs :
               /\ bs[p].hash \in DOMAIN tbl
               /\ bs[p].code = tbl[bs[p].hash].code
               /\ \A h \in Goals(bs[p].code) \cap fnd : Behind(bs, p, h) # {}
    BY <1>1 DEF Generated
  <2>2. \A p, q \in DOMAIN bs :
            p < q => /\ bs[p].hash # bs[q].hash
                     /\ Awaits(tbl, fnd, bs[q]) # {} /\ LedTo(tbl, bs[p].hash)
                            => bs[q].hash < bs[p].hash
    BY <1>1, Zenon DEF Generated, Awaits, LedTo
  <2> QED
    BY <2>1, <2>2 DEF PullOK, Made
<1> HIDE DEF tbl, bs, fnd
<1> QED
  BY <1>1, <1>2, <1>3 DEF BuildInv, tbl, bs, fnd

LEMMA PullInKeeps == ASSUME BuildInv, PullIn PROVE BuildInv'
<1> DEFINE e == Reloaded(Pulled, blocks[Puller].acc_end)
           t == InsertAt(blocks, Puller + 1, e)
<1>1. /\ stage = "pull" /\ Wanting # {}
      /\ blocks' = t /\ found' = found \cup {Pulled}
      /\ table' = table /\ grown' = grown /\ stage' = "pull"
  BY DEF PullIn
<1>2. TableOK(table) /\ PullOK(table, blocks, found) /\ grown \in BOOLEAN
  BY <1>1 DEF BuildInv
<1>3. /\ Puller \in DOMAIN blocks
      /\ Pulled \in Awaits(table, found, blocks[Puller])
      /\ \A q \in DOMAIN blocks : q > Puller => Awaits(table, found, blocks[q]) = {}
  BY <1>1, <1>2, PulledIs
<1>4. e.hash = Pulled /\ Made(table, e)
  BY ReloadedIs
<1>5. Inserted(blocks, Puller, e, t)
  <2>1. IsSeq(blocks) /\ Puller \in 1 .. Len(blocks)
    BY <1>2, <1>3, SeqParts DEF PullOK
  <2> HIDE DEF e
  <2> QED
    BY <2>1, InsertAtIs
<1> HIDE DEF e, t
<1>6. PullOK(table, t, found \cup {Pulled})
  BY <1>2, <1>3, <1>4, <1>5, PullKeeps
<1> QED
  BY <1>1, <1>2, <1>6 DEF BuildInv

LEMMA PullEndsKeeps == ASSUME BuildInv, PullEnds PROVE BuildInv'
<1>1. /\ stage = "pull" /\ Wanting = {} /\ stage' = "jumps"
      /\ place' = Len(blocks) /\ iter' = From(blocks, Len(blocks))
      /\ table' = table /\ blocks' = blocks /\ grown' = grown
  BY DEF PullEnds
<1>2. TableOK(table) /\ PullOK(table, blocks, found) /\ grown \in BOOLEAN
  BY <1>1 DEF BuildInv
<1>3. \A q \in DOMAIN blocks : Awaits(table, found, blocks[q]) = {}
  BY <1>1 DEF Wanting, Missing, Awaits
<1>4. ListOK(table, blocks)
  BY <1>2, <1>3, PullEnd
<1> DEFINE n == Len(blocks)
           m == From(blocks, n)
<1>5. n \in Nat /\ DOMAIN blocks = 1 .. n
  BY <1>4, SeqParts DEF ListOK
<1>6. n # 0 => IsSeq(blocks[n].code)
  BY <1>4, <1>5 DEF ListOK
<1>7. m \in Nat /\ (n # 0 => \A at \in DOMAIN blocks[n].code : ~ at > m)
  <2>1. CASE n = 0
    BY <2>1 DEF From
  <2>2. CASE n # 0
    BY <1>6, <2>2, SeqParts DEF From
  <2> QED
    BY <2>1, <2>2
<1> HIDE DEF m
<1>8. FitBehind(blocks, n)
  BY <1>5 DEF FitBehind
<1>9. n # 0 => FitAfter(blocks, n, m)
  BY <1>7 DEF FitAfter
<1>10. m \in 0 .. From(blocks, n)
  BY <1>7 DEF m
<1>11. n \in 0 .. Len(blocks)
  BY <1>5
<1> HIDE DEF n
<1>12. stage' = "jumps" /\ place' = n /\ iter' = m /\ table' = table /\ blocks' = blocks
  BY <1>1 DEF n, m
<1> QED
  BY <1>1, <1>2, <1>4, <1>8, <1>9, <1>10, <1>11, <1>12 DEF BuildInv

LEMMA CheckJumpKeeps == ASSUME BuildInv, CheckJump PROVE BuildInv'
<1> DEFINE t == ShortenedAt(blocks, place, iter)
<1>1. /\ stage = "jumps" /\ iter > 0
      /\ stage' = IF Lost(blocks, place, iter) THEN "failed" ELSE "jumps"
      /\ blocks' = t /\ grown' = (grown \/ t # blocks) /\ iter' = iter - 1
      /\ table' = table /\ place' = place
  BY DEF CheckJump
<1>2. /\ TableOK(table) /\ ListOK(table, blocks) /\ grown \in BOOLEAN
      /\ place \in 0 .. Len(blocks) /\ iter \in 0 .. From(blocks, place)
      /\ FitBehind(blocks, place)
      /\ place # 0 /\ ~ grown => FitAfter(blocks, place, iter)
  BY <1>1 DEF BuildInv
<1>3. Len(blocks) \in Nat /\ DOMAIN blocks = 1 .. Len(blocks)
  BY <1>2, SeqParts DEF ListOK
<1>4. place # 0 /\ place \in DOMAIN blocks
  <2>1. place # 0
    BY <1>1, <1>2 DEF From
  <2> QED
    BY <1>2, <1>3, <2>1
<1>5. Len(blocks[place].code) \in Nat /\ DOMAIN blocks[place].code = 1 .. Len(blocks[place].code)
  BY <1>2, <1>4, SeqParts DEF ListOK
<1>6. iter \in DOMAIN blocks[place].code /\ iter \in Nat
  BY <1>1, <1>2, <1>4, <1>5 DEF From
<1>7. /\ ~ Lost(blocks, place, iter)
      /\ \/ t = blocks /\ JumpFits(blocks, place, iter)
         \/ Grows(table, blocks, place, t)
  BY <1>2, <1>4, <1>6, ShortenedAtKeeps
<1> HIDE DEF t
<1>8. stage' = "jumps"
  BY <1>1, <1>7
<1>9. CASE t = blocks /\ JumpFits(blocks, place, iter)
  <2>1. place # 0 /\ ~ grown => FitAfter(blocks, place, iter - 1)
    <3> SUFFICES ASSUME ~ grown, NEW at \in DOMAIN blocks[place].code, at > iter - 1
                 PROVE  JumpFits(blocks, place, at)
      BY DEF FitAfter
    <3>1. at = iter \/ at > iter
      BY <1>5, <1>6
    <3> QED
      BY <1>2, <1>4, <1>9, <3>1 DEF FitAfter
  <2>2. iter - 1 \in 0 .. From(blocks, place)
    BY <1>1, <1>2, <1>4, <1>5, <1>6 DEF From
  <2>3. blocks' = blocks /\ grown' = grown
    BY <1>1, <1>2, <1>9
  <2> QED
    BY <1>1, <1>2, <1>8, <2>1, <2>2, <2>3 DEF BuildInv
<1>10. CASE Grows(table, blocks, place, t)
  <2>1. /\ ListOK(table, t) /\ FitBehind(t, place) /\ t # blocks /\ t[place] = blocks[place]
        /\ place \in 0 .. Len(t)
    <3>1. Len(t) \in Nat /\ Len(t) > Len(blocks)
      BY <1>10 DEF Grows
    <3>2. t # blocks
      <4>1. Len(t) # Len(blocks)
        BY <1>3, <3>1
      <4> QED
        BY <4>1, Zenon
    <3> QED
      BY <1>2, <1>3, <1>10, <3>1, <3>2 DEF Grows
  <2>2. grown' = TRUE
    BY <1>1, <2>1
  <2>3. iter - 1 \in 0 .. From(t, place)
    BY <1>4, <1>5, <1>6, <2>1 DEF From
  <2> QED
    BY <1>1, <1>2, <1>8, <2>1, <2>2, <2>3 DEF BuildInv
<1> QED
  BY <1>7, <1>9, <1>10

LEMMA NextBlockKeeps == ASSUME BuildInv, NextBlock PROVE BuildInv'
<1> DEFINE n == place'
           m == iter'
<1>1. /\ stage = "jumps" /\ iter = 0 /\ place > 0
      /\ n = IF grown THEN place ELSE place - 1
      /\ m = From(blocks, n) /\ grown' = FALSE
      /\ table' = table /\ blocks' = blocks /\ stage' = "jumps"
  BY DEF NextBlock
<1>2. /\ TableOK(table) /\ ListOK(table, blocks) /\ grown \in BOOLEAN
      /\ place \in 0 .. Len(blocks)
      /\ FitBehind(blocks, place)
      /\ place # 0 /\ ~ grown => FitAfter(blocks, place, 0)
  BY <1>1 DEF BuildInv
<1>3. Len(blocks) \in Nat /\ DOMAIN blocks = 1 .. Len(blocks)
  BY <1>2, SeqParts DEF ListOK
<1>4. place \in DOMAIN blocks /\ n \in 0 .. Len(blocks)
  BY <1>1, <1>2, <1>3
<1>5. DOMAIN blocks[place].code = 1 .. Len(blocks[place].code)
  BY <1>2, <1>4, SeqParts DEF ListOK
<1> HIDE DEF n, m
<1>6. FitBehind(blocks, n)
  <2>1. CASE grown
    BY <1>1, <1>2, <2>1
  <2>2. CASE ~ grown
    <3> SUFFICES ASSUME NEW p \in n + 1 .. Len(blocks), NEW at \in DOMAIN blocks[p].code
                 PROVE  JumpFits(blocks, p, at)
      BY DEF FitBehind
    <3>1. CASE p = place
      BY <1>1, <1>2, <1>4, <1>5, <2>2, <3>1 DEF FitAfter
    <3>2. CASE p # place
      <4>1. p \in place + 1 .. Len(blocks)
        BY <1>1, <1>2, <1>3, <2>2, <3>2
      <4> QED
        BY <1>2, <4>1 DEF FitBehind
    <3> QED
      BY <3>1, <3>2
  <2> QED
    BY <1>2, <2>1, <2>2
<1>7. n # 0 => IsSeq(blocks[n].code)
  BY <1>2, <1>3, <1>4 DEF ListOK
<1>8. m \in Nat /\ (n # 0 => \A at \in DOMAIN blocks[n].code : ~ at > m)
  <2>1. CASE n = 0
    BY <1>1, <2>1 DEF From
  <2>2. CASE n # 0
    BY <1>1, <1>7, <2>2, SeqParts DEF From
  <2> QED
    BY <2>1, <2>2
<1>9. n # 0 => FitAfter(blocks, n, m)
  BY <1>8 DEF FitAfter
<1>10. m \in 0 .. From(blocks, n)
  BY <1>1, <1>8
<1>11. place' = n /\ iter' = m
  BY DEF n, m
<1> QED
  BY <1>1, <1>2, <1>4, <1>6, <1>9, <1>10, <1>11 DEF BuildInv

LEMMA ResolveKeeps == ASSUME BuildInv, Resolve PROVE BuildInv'
<1>1. /\ stage = "jumps" /\ place = 0
      /\ stage' = IF \A i \in DOMAIN blocks : \A at \in DOMAIN blocks[i].code :
                         JumpFits(blocks, i, at)
                  THEN "built" ELSE "failed"
      /\ table' = table /\ blocks' = blocks /\ place' = place /\ grown' = grown
  BY DEF Resolve
<1>2. /\ TableOK(table) /\ ListOK(table, blocks) /\ grown \in BOOLEAN
      /\ place \in 0 .. Len(blocks) /\ FitBehind(blocks, place)
  BY <1>1 DEF BuildInv
<1>3. Len(blocks) \in Nat /\ DOMAIN blocks = 1 .. Len(blocks)
  BY <1>2, SeqParts DEF ListOK
<1>4. \A i \in DOMAIN blocks : \A at \in DOMAIN blocks[i].code : JumpFits(blocks, i, at)
  <2>1. \A i \in DOMAIN blocks : i \in place + 1 .. Len(blocks)
    BY <1>1, <1>3
  <2> QED
    BY <1>2, <2>1 DEF FitBehind
<1>5. stage' = "built"
  BY <1>1, <1>4
<1> QED
  BY <1>1, <1>2, <1>5 DEF BuildInv

LEMMA ReleaseKeeps == ASSUME BuildInv, Release PROVE BuildInv'
BY DEF BuildInv, Release

LEMMA NextInv == BuildInv /\ [BuildNext]_buildVars => BuildInv'
<1> SUFFICES ASSUME BuildInv, [BuildNext]_buildVars PROVE BuildInv'
  OBVIOUS
<1>1. CASE Lay
  BY <1>1, LayKeeps
<1>2. CASE PullIn
  BY <1>2, PullInKeeps
<1>3. CASE PullEnds
  BY <1>3, PullEndsKeeps
<1>4. CASE CheckJump
  BY <1>4, CheckJumpKeeps
<1>5. CASE NextBlock
  BY <1>5, NextBlockKeeps
<1>6. CASE Resolve
  BY <1>6, ResolveKeeps
<1>7. CASE Release
  BY <1>7, ReleaseKeeps
<1>8. CASE UNCHANGED buildVars
  BY <1>8 DEF buildVars, BuildInv
<1> QED
  BY <1>1, <1>2, <1>3, <1>4, <1>5, <1>6, <1>7, <1>8 DEF BuildNext, BuildStep

\* What the invariant says of the list of blocks holds in every state: the
\* hashes are made, a list that is complete leads forward.
THEOREM BuildInvariant == BuildSpec => []BuildInv
BY InitInv, NextInv, PTL DEF BuildSpec

\* No list ends in -EFAULT: whatever a block jumps to is behind it in the end
\* (gen_bpf.c, _gen_bpf_build_bpf), for any list Generated describes.
THEOREM NoListFails == BuildSpec => []BuildSucceeds
<1>1. BuildInv => BuildSucceeds
  BY DEF BuildInv, BuildSucceeds
<1> QED
  BY <1>1, BuildInvariant, PTL

\* No copy that is put into the list makes a jump too long that was looked at,
\* and every jump of a program fits its field (_gen_bpf_build_jmp).
THEOREM ProgramsFit == BuildSpec => []JumpsFit
<1>1. BuildInv => JumpsFit
  BY DEF BuildInv, JumpsFit, FitBehind
<1> QED
  BY <1>1, BuildInvariant, PTL

\* A jump to a copy leads where a jump to the block does (_gen_bpf_build_jmp,
\* _gen_bpf_build_jmp_ret).
THEOREM CopiesStandIn == BuildSpec => []CopiesLead
<1>1. BuildInv => CopiesLead
  <2> SUFFICES ASSUME BuildInv PROVE CopiesLead
    OBVIOUS
  <2>1. CASE stage = "idle"
    BY <2>1 DEF BuildInv, CopiesLead
  <2>2. CASE stage = "pull"
    <3> SUFFICES ASSUME NEW i \in DOMAIN blocks
                 PROVE  /\ i = LastOf(blocks, blocks[i].hash)
                        /\ Made(table, blocks[i])
      BY Zenon DEF CopiesLead, Made
    <3> DEFINE h == blocks[i].hash
    <3>1. PullOK(table, blocks, found)
      BY <2>2 DEF BuildInv
    <3>2. IsSeq(blocks) /\ Len(blocks) \in Nat /\ DOMAIN blocks = 1 .. Len(blocks)
      BY <3>1, SeqParts DEF PullOK
    <3>3. Made(table, blocks[i])
      BY <3>1 DEF PullOK
    <3>4. \A k \in DOMAIN blocks : blocks[k].hash = h => k <= i
      <4> SUFFICES ASSUME NEW k \in DOMAIN blocks, blocks[k].hash = h PROVE k <= i
        OBVIOUS
      <4>1. ~ i < k
        BY <3>1 DEF PullOK
      <4> QED
        BY <3>2, <4>1
    <3>5. blocks[i].hash = h
      OBVIOUS
    <3> HIDE DEF h
    <3>6. i = LastOf(blocks, h)
      BY <3>2, <3>4, <3>5, LastOfIs
    <3> QED
      BY <3>3, <3>5, <3>6
  <2>3. CASE stage \in {"jumps", "built"}
    <3>1. \A i \in DOMAIN blocks : LeadsOn(table, blocks, i)
      BY <2>3 DEF BuildInv, ListOK
    <3> QED
      BY <3>1, Zenon DEF CopiesLead, LeadsOn, Made
  <2> QED
    BY <2>1, <2>2, <2>3 DEF BuildInv
<1> QED
  BY <1>1, BuildInvariant, PTL

=============================================================================
