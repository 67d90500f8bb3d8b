--------------------------- MODULE DracoProfileProofs ---------------------------
(***************************************************************************)
(* Proofs about DracoProfile, for any number of tasks and system calls and *)
(* any set of masks that fits a row.                                       *)
(*                                                                         *)
(* The compiled row of a call is defined by ranks: register b sits at the  *)
(* place its number of smaller registers says.  The first lemmas are about *)
(* ranks in a finite set of numbers; the next ones about one structure     *)
(* (what adding a rule and loading the profile preserve and establish);    *)
(* the theorems lift them to every behaviour of ProfileSpec.               *)
(*                                                                         *)
(* The lemmas at the end are about one table of DracoTable, for any number *)
(* of buckets, ways and registers and any hash function: what the key of a *)
(* call is, what a row says of a key, and that inserting a missed key      *)
(* keeps a table in the state in which probes are exact.                   *)
(***************************************************************************)
EXTENDS DracoTable, TLAPS, FiniteSetTheorems, FunctionTheorems

-----------------------------------------------------------------------------
(* Ranks.                                                                  *)

\* A set of bits that a load compiles: without the sign bit.
PlainMask == SUBSET (ArgBit \ {SignBit})

\* Masks are finite and fit a row of sys2arguments.
LEMMA PlainMaskFits ==
  ASSUME NEW bits \in PlainMask
  PROVE  /\ IsFiniteSet(bits)
         /\ Cardinality(bits) \in 0 .. MaxArgumentCount
         /\ bits \subseteq 0 .. SignBit - 1
<1>1. IsFiniteSet(ArgBit \ {SignBit})
  <2>1. IsFiniteSet(0 .. SignBit)
    <3>1. 0 \in Int /\ SignBit \in Int
      BY DEF SignBit
    <3> QED
      BY ONLY <3>1, FS_Interval
  <2>2. ArgBit \ {SignBit} \in SUBSET (0 .. SignBit)
    BY ProfileAssumption
  <2> QED
    BY <2>1, <2>2, FS_Subset
<1>2. IsFiniteSet(bits) /\ Cardinality(bits) <= Cardinality(ArgBit \ {SignBit})
  BY <1>1, FS_Subset DEF PlainMask
<1>3. Cardinality(bits) \in Nat /\ Cardinality(ArgBit \ {SignBit}) \in Nat
  BY <1>1, <1>2, FS_CardinalityType
<1>4. bits \subseteq 0 .. SignBit - 1
  BY ProfileAssumption DEF PlainMask, SignBit
<1> QED
  BY <1>2, <1>3, <1>4, ProfileAssumption

\* What a load compiles of any mask is such a set.
LEMMA LoadedBitsPlain ==
  ASSUME NEW mask \in Mask
  PROVE  LoadedBits(mask) \in PlainMask /\ LoadedBits(mask) \subseteq mask
BY DEF Mask, LoadedBits, PlainMask

\* A rank is a place in the row.
LEMMA RankRange ==
  ASSUME NEW bits \in PlainMask, NEW b \in bits
  PROVE  Rank(bits, b) \in 0 .. Cardinality(bits) - 1
<1> DEFINE below == {c \in bits : c < b}
<1>1. IsFiniteSet(bits) /\ bits \subseteq 0 .. SignBit - 1
  BY PlainMaskFits
<1>2. Cardinality(bits) \in Nat
  BY <1>1, FS_CardinalityType
<1>3. below \in SUBSET bits /\ b \notin below
  BY <1>1 DEF SignBit
<1>4. /\ IsFiniteSet(below)
      /\ Cardinality(below) <= Cardinality(bits)
      /\ Cardinality(bits) = Cardinality(below) => bits = below
  BY <1>1, <1>3, FS_Subset
<1>5. Cardinality(below) \in Nat
  BY <1>4, FS_CardinalityType
<1>6. Cardinality(below) # Cardinality(bits)
  BY <1>3, <1>4
<1> QED
  BY <1>2, <1>4, <1>5, <1>6 DEF Rank

\* The larger register has the larger rank.
LEMMA RankMonotone ==
  ASSUME NEW bits \in PlainMask, NEW b \in bits, NEW c \in bits, b < c
  PROVE  Rank(bits, b) < Rank(bits, c)
<1> DEFINE belowB == {d \in bits : d < b}
           belowC == {d \in bits : d < c}
<1>1. IsFiniteSet(bits) /\ bits \subseteq Int
  BY PlainMaskFits DEF SignBit
<1>2. belowB \in SUBSET belowC /\ b \in belowC /\ b \notin belowB
  <2>1. \A d \in bits : d < b => d < c
    BY <1>1
  <2>2. ~ (b < b)
    BY <1>1
  <2> QED
    BY <2>1, <2>2
<1>3. IsFiniteSet(belowC)
  BY <1>1, FS_Subset
<1>4. /\ IsFiniteSet(belowB)
      /\ Cardinality(belowB) <= Cardinality(belowC)
      /\ Cardinality(belowC) = Cardinality(belowB) => belowC = belowB
  BY <1>2, <1>3, FS_Subset
<1>5. Cardinality(belowB) \in Nat /\ Cardinality(belowC) \in Nat
  BY <1>3, <1>4, FS_CardinalityType
<1>6. Cardinality(belowB) # Cardinality(belowC)
  BY <1>2, <1>4
<1> QED
  BY <1>4, <1>5, <1>6 DEF Rank

\* Two registers never share a place.
LEMMA RankInjective ==
  ASSUME NEW bits \in PlainMask, NEW b \in bits, NEW c \in bits,
         Rank(bits, b) = Rank(bits, c)
  PROVE  b = c
<1>1. b \in Int /\ c \in Int
  BY PlainMaskFits DEF SignBit
<1>2. Rank(bits, b) \in Int /\ Rank(bits, c) \in Int
  BY RankRange
<1>3. ~ (b < c)
  BY <1>2, RankMonotone
<1>4. ~ (c < b)
  BY <1>2, RankMonotone
<1> QED
  BY <1>1, <1>3, <1>4

\* Every place up to the number of registers is taken.
LEMMA RankOnto ==
  ASSUME NEW bits \in PlainMask, NEW k \in 0 .. Cardinality(bits) - 1
  PROVE  \E b \in bits : Rank(bits, b) = k
<1> DEFINE n == Cardinality(bits)
           rank == [b \in bits |-> Rank(bits, b)]
<1>1. IsFiniteSet(bits) /\ n \in Nat
  BY PlainMaskFits, FS_CardinalityType
<1>2. rank \in [bits -> 0 .. n - 1]
  BY RankRange
<1>3. \A b, c \in bits : rank[b] = rank[c] => b = c
  BY RankInjective
<1>4. rank \in Injection(bits, 0 .. n - 1)
  BY <1>2, <1>3, Fun_IsInj
<1>5. IsFiniteSet(0 .. n - 1) /\ Cardinality(0 .. n - 1) = n
  <2>1. 0 \in Int /\ n - 1 \in Int
    BY <1>1
  <2>2. IsFiniteSet(0 .. n - 1)
           /\ Cardinality(0 .. n - 1) = IF 0 > n - 1 THEN 0 ELSE (n - 1) - 0 + 1
    BY <2>1, FS_Interval
  <2> QED
    BY <1>1, <2>2
<1>6. rank \in Surjection(bits, 0 .. n - 1)
  BY <1>1, <1>4, <1>5, FS_Injection
<1>7. \A j \in 0 .. n - 1 : \E b \in bits : rank[b] = j
  BY <1>6 DEF Surjection
<1> QED
  BY <1>7

-----------------------------------------------------------------------------
(* Compiled rows.                                                          *)

\* Entry p of a compiled row, for p up to the number of registers, is the
\* one register of that rank, counted from one.
LEMMA LoadedRowEntry ==
  ASSUME NEW old, NEW bits \in PlainMask, NEW b \in bits
  PROVE  /\ Rank(bits, b) + 1 \in Position
         /\ LoadedRow(old, bits)[Rank(bits, b) + 1] = b + 1
<1> DEFINE p == Rank(bits, b) + 1
<1>1. p \in 1 .. Cardinality(bits) /\ p - 1 = Rank(bits, b)
  BY RankRange, PlainMaskFits
<1>2. p \in Position
  BY <1>1, PlainMaskFits, ProfileAssumption DEF Position
<1>3. \E c \in bits : Rank(bits, c) = p - 1
  BY <1>1
<1>4. (CHOOSE c \in bits : Rank(bits, c) = p - 1) = b
  BY <1>1, <1>3, RankInjective
<1>5. LoadedRow(old, bits)[p] = 1 + (CHOOSE c \in bits : Rank(bits, c) = p - 1)
  BY <1>2, <1>3 DEF LoadedRow
<1>6. b \in Int
  BY PlainMaskFits DEF SignBit
<1>7. LoadedRow(old, bits)[p] = 1 + b
  BY <1>4, <1>5, Zenon
<1>8. 1 + b = b + 1
  BY <1>6
<1> QED
  BY <1>2, <1>7, <1>8, Zenon

\* Conversely the registers of the row's first places are those of the mask,
\* in ascending order.
LEMMA LoadedRowAscending ==
  ASSUME NEW old, NEW bits \in PlainMask
  PROVE  /\ \A p \in 1 .. Cardinality(bits) :
               LoadedRow(old, bits)[p] - 1 \in bits
         /\ \A p, q \in 1 .. Cardinality(bits) :
               p < q => LoadedRow(old, bits)[p] < LoadedRow(old, bits)[q]
<1> DEFINE n == Cardinality(bits)
           row == LoadedRow(old, bits)
<1>1. n \in Nat /\ bits \subseteq Int
  BY PlainMaskFits DEF SignBit
<1>2. ASSUME NEW p \in 1 .. n
      PROVE  \E b \in bits : Rank(bits, b) + 1 = p /\ row[p] = b + 1
  <2>1. p - 1 \in 0 .. n - 1
    BY <1>1
  <2>2. PICK b \in bits : Rank(bits, b) = p - 1
    BY <2>1, RankOnto
  <2>3. Rank(bits, b) + 1 = p
    BY <2>1, <2>2
  <2>4. row[Rank(bits, b) + 1] = b + 1
    BY LoadedRowEntry
  <2> QED
    BY <2>3, <2>4
<1>3. ASSUME NEW p \in 1 .. n
      PROVE  row[p] - 1 \in bits
  <2>1. PICK b \in bits : row[p] = b + 1
    BY <1>2
  <2>2. b \in Int
    BY <1>1
  <2> QED
    BY <2>1, <2>2
<1>4. ASSUME NEW p \in 1 .. n, NEW q \in 1 .. n, p < q
      PROVE  row[p] < row[q]
  <2>1. PICK b \in bits : Rank(bits, b) + 1 = p /\ row[p] = b + 1
    BY <1>2
  <2>2. PICK c \in bits : Rank(bits, c) + 1 = q /\ row[q] = c + 1
    BY <1>2
  <2>3. b \in Int /\ c \in Int
    BY <1>1
  <2>4. Rank(bits, b) \in Int /\ Rank(bits, c) \in Int
    BY RankRange, <1>1
  <2>5. b # c
    BY <1>4, <2>1, <2>2, <2>4
  <2>6. ~ (c < b)
    <3>1. SUFFICES ASSUME c < b PROVE FALSE
      OBVIOUS
    <3>2. Rank(bits, c) < Rank(bits, b)
      BY <3>1, RankMonotone
    <3> QED
      BY <3>2, <1>4, <2>1, <2>2, <2>4
  <2> QED
    BY <2>1, <2>2, <2>3, <2>5, <2>6
<1> QED
  BY <1>3, <1>4

LEMMA LoadedRowType ==
  ASSUME NEW old \in [Position -> 0 .. SignBit], NEW bits \in PlainMask
  PROVE  LoadedRow(old, bits) \in [Position -> 0 .. SignBit]
<1> SUFFICES ASSUME NEW p \in Position
             PROVE  LoadedRow(old, bits)[p] \in 0 .. SignBit
  BY DEF LoadedRow
<1>1. CASE \E b \in bits : Rank(bits, b) = p - 1
  <2>1. PICK b \in bits : Rank(bits, b) = p - 1
    BY <1>1
  <2>2. b \in 0 .. SignBit - 1
    BY PlainMaskFits
  <2>3. Rank(bits, b) + 1 = p
    <3>1. p \in Int
      BY ProfileAssumption DEF Position
    <3> QED
      BY <2>1, <3>1
  <2>4. LoadedRow(old, bits)[p] = b + 1
    BY <2>3, LoadedRowEntry
  <2> QED
    BY <2>2, <2>4 DEF SignBit
<1>2. CASE ~ \E b \in bits : Rank(bits, b) = p - 1
  BY <1>2 DEF LoadedRow
<1> QED
  BY <1>1, <1>2

-----------------------------------------------------------------------------
(* One structure.                                                          *)

\* What holds of every task's structure at every moment: its type, the
\* agreement of bit_map with fill (without it the count could leave bit_map),
\* and the agreement of the compiled rows with the masks.
Sound(sec) == sec \in Struct /\ Enumerates(sec) /\ Profiled(sec)

LEMMA CleanSound == Sound(CleanStruct)
<1>1. SyscallCount \in Nat /\ MaxArgumentCount \in Nat
  BY ProfileAssumption
<1>2. CleanStruct \in Struct
  BY <1>1 DEF CleanStruct, Struct, Syscall, Mask, SignBit
<1>3. Enumerates(CleanStruct)
  BY <1>1 DEF CleanStruct, Enumerates, BitMapped
<1>4. Profiled(CleanStruct)
  BY <1>1 DEF CleanStruct, Profiled
<1> QED
  BY <1>2, <1>3, <1>4 DEF Sound

\* An unfilled slot means that bit_map has room for one more entry: bit_map
\* maps the first draco_count indices injectively to the other calls.
LEMMA FreeSlotHasRoom ==
  ASSUME NEW sec \in Struct, Enumerates(sec),
         NEW s \in Syscall, sec.fill[s] = 0
  PROVE  sec.draco_count \in 0 .. SyscallCount - 1
<1> DEFINE c == sec.draco_count
           others == Syscall \ {s}
           f == [i \in 0 .. c - 1 |-> sec.bit_map[i]]
<1>1. c \in 0 .. SyscallCount /\ SyscallCount \in Nat
  BY ProfileAssumption DEF Struct
<1>2. IsFiniteSet(0 .. c - 1) /\ Cardinality(0 .. c - 1) = c
  <2>1. 0 \in Int /\ c - 1 \in Int
    BY <1>1
  <2>2. IsFiniteSet(0 .. c - 1)
           /\ Cardinality(0 .. c - 1) = IF 0 > c - 1 THEN 0 ELSE (c - 1) - 0 + 1
    BY <2>1, FS_Interval
  <2> QED
    BY <1>1, <2>2
<1>3. IsFiniteSet(Syscall) /\ Cardinality(Syscall) = SyscallCount
  <2>1. 0 \in Int /\ SyscallCount - 1 \in Int
    BY <1>1
  <2>2. IsFiniteSet(0 .. SyscallCount - 1)
           /\ Cardinality(0 .. SyscallCount - 1)
                = IF 0 > SyscallCount - 1 THEN 0 ELSE (SyscallCount - 1) - 0 + 1
    BY <2>1, FS_Interval
  <2> QED
    BY <1>1, <2>2 DEF Syscall
<1>4. IsFiniteSet(others) /\ Cardinality(others) = SyscallCount - 1
  BY <1>3, FS_RemoveElement
<1>5. f \in [0 .. c - 1 -> others]
  <2> SUFFICES ASSUME NEW i \in 0 .. c - 1 PROVE sec.bit_map[i] \in others
    OBVIOUS
  <2>1. sec.bit_map[i] \in BitMapped(sec)
    BY DEF BitMapped
  <2> QED
    BY <2>1 DEF Enumerates
<1>6. \A i, j \in 0 .. c - 1 : f[i] = f[j] => i = j
  BY DEF Enumerates
<1>7. f \in Injection(0 .. c - 1, others)
  BY <1>5, <1>6, Fun_IsInj
<1>8. c <= SyscallCount - 1
  BY <1>2, <1>4, <1>7, FS_Injection
<1> QED
  BY <1>1, <1>8

\* Filling a slot.
LEMMA FillSlotSound ==
  ASSUME NEW sec \in Struct, Enumerates(sec), NEW s \in Syscall
  PROVE  /\ FillSlot(sec, s) \in Struct
         /\ Enumerates(FillSlot(sec, s))
         /\ FillSlot(sec, s).fill[s] = 1
         /\ FillSlot(sec, s).arg_position = sec.arg_position
         /\ FillSlot(sec, s).sys2arguments = sec.sys2arguments
         /\ FillSlot(sec, s).argument_count_table = sec.argument_count_table
<1>1. CASE sec.fill[s] = 1
  BY <1>1 DEF FillSlot
<1>2. CASE sec.fill[s] = 0
  <2> DEFINE c == sec.draco_count
             new == FillSlot(sec, s)
  <2>1. c \in 0 .. SyscallCount - 1 /\ SyscallCount \in Nat /\ c \in Syscall
    BY <1>2, FreeSlotHasRoom, ProfileAssumption DEF Syscall
  <2>2. new = [sec EXCEPT !.fill = [sec.fill EXCEPT ![s] = 1],
                          !.bit_map = [sec.bit_map EXCEPT ![c] = s],
                          !.draco_count = c + 1]
    BY <1>2 DEF FillSlot, Struct
  <2>3. /\ new.fill = [sec.fill EXCEPT ![s] = 1]
        /\ new.bit_map = [sec.bit_map EXCEPT ![c] = s]
        /\ new.draco_count = c + 1
        /\ new.arg_position = sec.arg_position
        /\ new.sys2arguments = sec.sys2arguments
        /\ new.argument_count_table = sec.argument_count_table
        /\ new.mode = sec.mode
        /\ new.draco_hook = sec.draco_hook
    BY <2>2 DEF Struct
  <2>arrays. sec.bit_map \in [Syscall -> Syscall] /\ sec.fill \in [Syscall -> {0, 1}]
    BY DEF Struct
  <2>4. new \in Struct
    <3>1. [sec.fill EXCEPT ![s] = 1] \in [Syscall -> {0, 1}]
      BY <2>arrays
    <3>2. [sec.bit_map EXCEPT ![c] = s] \in [Syscall -> Syscall]
      BY <2>arrays
    <3>3. c + 1 \in 0 .. SyscallCount
      BY <2>1
    <3> HIDE DEF new
    <3> QED
      BY <2>2, <3>1, <3>2, <3>3 DEF Struct
  <2>5. \A i \in 0 .. c : new.bit_map[i] = IF i = c THEN s ELSE sec.bit_map[i]
    <3>1. \A i \in 0 .. c : i \in Syscall
      BY <2>1 DEF Syscall
    <3> QED
      BY <2>3, <2>arrays, <3>1
  <2>6. \A i \in 0 .. c - 1 : sec.bit_map[i] \in BitMapped(sec)
    BY DEF BitMapped
  <2>7. \A i \in 0 .. c - 1 : sec.bit_map[i] # s
    BY <1>2, <2>6 DEF Enumerates
  <2>8. ASSUME NEW i \in 0 .. new.draco_count - 1,
               NEW j \in 0 .. new.draco_count - 1,
               new.bit_map[i] = new.bit_map[j]
        PROVE  i = j
    <3>1. i \in 0 .. c /\ j \in 0 .. c
      BY <2>1, <2>3
    <3>2. CASE i = c \/ j = c
      BY <2>1, <2>5, <2>7, <2>8, <3>1, <3>2
    <3>3. CASE i # c /\ j # c
      <4>1. i \in 0 .. c - 1 /\ j \in 0 .. c - 1
        BY <2>1, <3>1, <3>3
      <4>2. sec.bit_map[i] = sec.bit_map[j]
        BY <2>5, <2>8, <3>1, <3>3
      <4> QED
        BY <4>1, <4>2 DEF Enumerates
    <3> QED
      BY <3>2, <3>3
  <2>9. BitMapped(new) = BitMapped(sec) \cup {s}
    <3>1. \A i \in 0 .. new.draco_count - 1 : i \in 0 .. c
      BY <2>1, <2>3
    <3>2. \A i \in 0 .. c : i \in 0 .. new.draco_count - 1
                              /\ (i = c \/ i \in 0 .. c - 1)
      BY <2>1, <2>3
    <3>3. BitMapped(new) \subseteq BitMapped(sec) \cup {s}
      BY <2>5, <3>1, <3>2 DEF BitMapped
    <3>4. s \in BitMapped(new)
      <4>1. c \in 0 .. c
        BY <2>1
      <4> QED
        BY <2>5, <3>2, <4>1 DEF BitMapped
    <3>5. BitMapped(sec) \subseteq BitMapped(new)
      <4>1. \A i \in 0 .. c - 1 : i \in 0 .. c /\ i # c
        BY <2>1
      <4> QED
        BY <2>5, <3>2, <4>1 DEF BitMapped
    <3> QED
      BY <3>3, <3>4, <3>5
  <2>10. {r \in Syscall : new.fill[r] = 1} = {r \in Syscall : sec.fill[r] = 1} \cup {s}
    BY <2>3 DEF Struct
  <2>11. \A r \in Syscall : new.arg_position[r] # {} => new.fill[r] = 1
    BY <2>3 DEF Enumerates, Struct
  <2>12. Enumerates(new)
    BY <2>8, <2>9, <2>10, <2>11 DEF Enumerates
  <2>13. new.fill[s] = 1
    BY <2>3 DEF Struct
  <2> QED
    BY <2>3, <2>4, <2>12, <2>13
<1> QED
  BY <1>1, <1>2 DEF Struct

\* Adding a rule.
LEMMA AddSound ==
  ASSUME NEW sec, Sound(sec), NEW s \in Syscall, NEW mask \in Mask
  PROVE  /\ Sound(AddSeccomp(sec, s, mask))
         /\ AddSeccomp(sec, s, mask).sys2arguments = sec.sys2arguments
         /\ AddSeccomp(sec, s, mask).argument_count_table = sec.argument_count_table
<1> DEFINE filled == FillSlot(sec, s)
           new == AddSeccomp(sec, s, mask)
<1>1. /\ filled \in Struct
      /\ Enumerates(filled)
      /\ filled.fill[s] = 1
      /\ filled.arg_position = sec.arg_position
      /\ filled.sys2arguments = sec.sys2arguments
      /\ filled.argument_count_table = sec.argument_count_table
  BY FillSlotSound DEF Sound
<1> HIDE DEF filled
<1>2. new = [filled EXCEPT
                !.arg_position = [filled.arg_position EXCEPT
                                    ![s] = filled.arg_position[s] \cup mask]]
  BY <1>1 DEF AddSeccomp, filled, Struct
<1> HIDE DEF new
<1>3. filled.arg_position \in [Syscall -> Mask]
  BY <1>1 DEF Struct
<1>4. /\ new.arg_position = [filled.arg_position EXCEPT
                               ![s] = filled.arg_position[s] \cup mask]
      /\ new.fill = filled.fill
      /\ new.bit_map = filled.bit_map
      /\ new.draco_count = filled.draco_count
      /\ new.sys2arguments = sec.sys2arguments
      /\ new.argument_count_table = sec.argument_count_table
  BY <1>1, <1>2 DEF Struct
<1>5. new \in Struct
  <2>1. filled.arg_position[s] \cup mask \in Mask
    BY <1>3 DEF Mask
  <2>2. [filled.arg_position EXCEPT ![s] = filled.arg_position[s] \cup mask]
            \in [Syscall -> Mask]
    BY <1>3, <2>1
  <2> QED
    BY <1>1, <1>2, <2>2 DEF Struct
<1>6. Enumerates(new)
  <2>1. \A r \in Syscall : new.arg_position[r] # {} => new.fill[r] = 1
    BY <1>1, <1>3, <1>4 DEF Enumerates
  <2>2. BitMapped(new) = BitMapped(filled)
    BY <1>4 DEF BitMapped
  <2> QED
    BY <1>1, <1>4, <2>1, <2>2 DEF Enumerates
<1>7. Profiled(new)
  <2>1. \A r \in Syscall : sec.arg_position[r] \subseteq new.arg_position[r]
    BY <1>1, <1>3, <1>4
  <2> QED
    BY <1>4, <2>1 DEF Profiled, Sound
<1> QED
  BY <1>4, <1>5, <1>6, <1>7 DEF Sound, new

\* What a load writes, slot by slot.
LEMMA LoadFields ==
  ASSUME NEW sec \in Struct
  PROVE  LET new == LoadSeccomp(sec) IN
         /\ new = [sec EXCEPT !.sys2arguments = new.sys2arguments,
                              !.argument_count_table = new.argument_count_table]
         /\ new.mode = sec.mode
         /\ new.draco_hook = sec.draco_hook
         /\ new.draco_count = sec.draco_count
         /\ new.bit_map = sec.bit_map
         /\ new.fill = sec.fill
         /\ new.arg_position = sec.arg_position
         /\ new.sys2arguments = [s \in Syscall |->
              IF s \in BitMapped(sec)
              THEN LoadedRow(sec.sys2arguments[s], LoadedBits(sec.arg_position[s]))
              ELSE sec.sys2arguments[s]]
         /\ new.argument_count_table = [s \in Syscall |->
              IF s \in BitMapped(sec)
              THEN Cardinality(LoadedBits(sec.arg_position[s]))
              ELSE sec.argument_count_table[s]]
BY DEF LoadSeccomp, Struct

\* Loading the profile: every call's key becomes the registers of its mask.
LEMMA LoadSound ==
  ASSUME NEW sec, Sound(sec)
  PROVE  Sound(LoadSeccomp(sec)) /\ Compiled(LoadSeccomp(sec))
<1> DEFINE new == LoadSeccomp(sec)
           bits(s) == LoadedBits(sec.arg_position[s])
<1>1. sec \in Struct /\ Enumerates(sec) /\ Profiled(sec)
  BY DEF Sound
<1>2. /\ new = [sec EXCEPT !.sys2arguments = new.sys2arguments,
                           !.argument_count_table = new.argument_count_table]
      /\ new.draco_count = sec.draco_count
      /\ new.bit_map = sec.bit_map
      /\ new.fill = sec.fill
      /\ new.arg_position = sec.arg_position
      /\ new.sys2arguments = [s \in Syscall |->
           IF s \in BitMapped(sec)
           THEN LoadedRow(sec.sys2arguments[s], bits(s))
           ELSE sec.sys2arguments[s]]
      /\ new.argument_count_table = [s \in Syscall |->
           IF s \in BitMapped(sec) THEN Cardinality(bits(s))
           ELSE sec.argument_count_table[s]]
  BY <1>1, LoadFields
<1> HIDE DEF new
<1>3. ASSUME NEW s \in Syscall
      PROVE  bits(s) \in PlainMask /\ bits(s) \subseteq sec.arg_position[s]
  <2>1. sec.arg_position[s] \in Mask
    BY <1>1 DEF Struct
  <2> QED
    BY <2>1, LoadedBitsPlain
<1>4. new \in Struct
  <2>1. new.sys2arguments \in [Syscall -> [Position -> 0 .. SignBit]]
    <3> SUFFICES ASSUME NEW s \in Syscall
                 PROVE  new.sys2arguments[s] \in [Position -> 0 .. SignBit]
      BY <1>2
    <3>1. sec.sys2arguments[s] \in [Position -> 0 .. SignBit]
      BY <1>1 DEF Struct
    <3>2. LoadedRow(sec.sys2arguments[s], bits(s)) \in [Position -> 0 .. SignBit]
      BY <1>3, <3>1, LoadedRowType
    <3> QED
      BY <1>2, <3>1, <3>2
  <2>2. new.argument_count_table \in [Syscall -> 0 .. MaxArgumentCount]
    <3> SUFFICES ASSUME NEW s \in Syscall
                 PROVE  new.argument_count_table[s] \in 0 .. MaxArgumentCount
      BY <1>2
    <3>1. Cardinality(bits(s)) \in 0 .. MaxArgumentCount
      BY <1>3, PlainMaskFits
    <3>2. sec.argument_count_table[s] \in 0 .. MaxArgumentCount
      BY <1>1 DEF Struct
    <3> QED
      BY <1>2, <3>1, <3>2
  <2> QED
    BY <1>1, <1>2, <2>1, <2>2 DEF Struct
<1>5. Enumerates(new)
  <2>1. BitMapped(new) = BitMapped(sec)
    BY <1>2 DEF BitMapped
  <2>2. \A i, j \in 0 .. new.draco_count - 1 :
           new.bit_map[i] = new.bit_map[j] => i = j
    BY <1>1, <1>2 DEF Enumerates
  <2>3. BitMapped(new) = {s \in Syscall : new.fill[s] = 1}
    BY <1>1, <1>2, <2>1 DEF Enumerates
  <2>4. \A s \in Syscall : new.arg_position[s] # {} => new.fill[s] = 1
    BY <1>1, <1>2 DEF Enumerates
  <2> QED
    BY <2>2, <2>3, <2>4 DEF Enumerates
\* A slot the loop does not reach is unfilled: its mask is empty, and so is
\* its key.
<1>6. ASSUME NEW s \in Syscall, s \notin BitMapped(sec)
      PROVE  /\ sec.arg_position[s] = {}
             /\ new.argument_count_table[s] = 0
  <2>1. sec.fill[s] # 1
    BY <1>1, <1>6 DEF Enumerates
  <2>2. sec.arg_position[s] = {}
    BY <1>1, <2>1 DEF Enumerates
  <2>3. sec.argument_count_table[s] \in Nat
    BY <1>1, ProfileAssumption DEF Struct
  <2>4. \A p \in 1 .. sec.argument_count_table[s] : FALSE
    BY <1>1, <2>2 DEF Profiled
  <2>5. sec.argument_count_table[s] = 0
    BY <2>3, <2>4
  <2> QED
    BY <1>2, <1>6, <2>2, <2>5
<1>7. ASSUME NEW s \in Syscall
      PROVE  /\ \A p \in 1 .. new.argument_count_table[s] :
                   new.sys2arguments[s][p] - 1 \in bits(s)
             /\ \A p, q \in 1 .. new.argument_count_table[s] :
                   p < q => new.sys2arguments[s][p] < new.sys2arguments[s][q]
  <2>1. CASE s \in BitMapped(sec)
    BY <1>2, <1>3, <2>1, LoadedRowAscending
  <2>2. CASE s \notin BitMapped(sec)
    BY <1>6, <2>2
  <2> QED
    BY <2>1, <2>2
<1>8. Profiled(new)
  BY <1>2, <1>3, <1>7 DEF Profiled
<1>9. Compiled(new)
  <2> SUFFICES ASSUME NEW s \in Syscall
               PROVE  KeyPositions(new, s) = {b + 1 : b \in bits(s)}
    BY <1>2 DEF Compiled
  <2>1. ASSUME NEW x \in KeyPositions(new, s)
        PROVE  x \in {b + 1 : b \in bits(s)}
    <3>1. PICK p \in 1 .. new.argument_count_table[s] : x = new.sys2arguments[s][p]
      BY DEF KeyPositions
    <3>2. x - 1 \in bits(s)
      BY <1>7, <3>1
    <3>3. x \in Int
      <4>1. new.argument_count_table[s] \in 0 .. MaxArgumentCount
        BY <1>4 DEF Struct
      <4>2. p \in Position
        BY <3>1, <4>1, ProfileAssumption DEF Position
      <4> QED
        BY <1>4, <3>1, <4>2 DEF Struct, SignBit
    <3> QED
      BY <3>2, <3>3
  <2>2. ASSUME NEW b \in bits(s)
        PROVE  b + 1 \in KeyPositions(new, s)
    <3>1. s \in BitMapped(sec)
      BY <1>3, <1>6
    <3> DEFINE p == Rank(bits(s), b) + 1
    <3>2. p \in 1 .. Cardinality(bits(s))
      <4>1. Rank(bits(s), b) \in 0 .. Cardinality(bits(s)) - 1
        BY <1>3, RankRange
      <4>2. Cardinality(bits(s)) \in Nat
        BY <1>3, PlainMaskFits, ProfileAssumption
      <4> QED
        BY <4>1, <4>2
    <3>3. LoadedRow(sec.sys2arguments[s], bits(s))[p] = b + 1
      BY <1>3, LoadedRowEntry
    <3> QED
      BY <1>2, <3>1, <3>2, <3>3 DEF KeyPositions
  <2> QED
    BY <2>1, <2>2
<1> QED
  BY <1>4, <1>5, <1>8, <1>9 DEF Sound, new

-----------------------------------------------------------------------------
(* Every behaviour.                                                        *)

\* The inductive invariant.
AllSound == seccomp \in [Task -> Struct] /\ \A t \in Task : Sound(seccomp[t])

LEMMA AllSoundImplies ==
  AllSound => ProfileTypeOK /\ BitMapEnumerates /\ KeysAreProfiled
BY DEF AllSound, ProfileTypeOK, BitMapEnumerates, KeysAreProfiled, Sound

LEMMA InitSound == ProfileInit => AllSound
<1> SUFFICES ASSUME ProfileInit PROVE AllSound
  OBVIOUS
<1>1. \A t \in Task : seccomp[t] = CleanStruct
  BY DEF ProfileInit
<1>2. Sound(CleanStruct) /\ CleanStruct \in Struct
  BY CleanSound DEF Sound
<1> QED
  BY <1>1, <1>2 DEF AllSound, ProfileInit

\* Changing one task's structure for a sound one.
LEMMA UpdateSound ==
  ASSUME AllSound, NEW t \in Task, NEW sec, Sound(sec),
         seccomp' = [seccomp EXCEPT ![t] = sec]
  PROVE  AllSound'
<1>1. sec \in Struct
  BY DEF Sound
<1>2. \A u \in Task : seccomp'[u] = IF u = t THEN sec ELSE seccomp[u]
  BY DEF AllSound
<1>3. \A u \in Task : Sound(seccomp'[u])
  BY <1>2 DEF AllSound
<1>4. seccomp' \in [Task -> Struct]
  BY <1>1 DEF AllSound
<1> QED
  BY <1>3, <1>4 DEF AllSound

LEMMA SetModeSound ==
  ASSUME NEW sec, Sound(sec)
  PROVE  /\ Sound([sec EXCEPT !.mode = "filter"])
         /\ [sec EXCEPT !.mode = "filter"].sys2arguments = sec.sys2arguments
         /\ [sec EXCEPT !.mode = "filter"].argument_count_table
              = sec.argument_count_table
<1> DEFINE new == [sec EXCEPT !.mode = "filter"]
<1>1. sec \in Struct /\ Enumerates(sec) /\ Profiled(sec)
  BY DEF Sound
<1>2. /\ new \in Struct
      /\ new.draco_count = sec.draco_count
      /\ new.bit_map = sec.bit_map
      /\ new.fill = sec.fill
      /\ new.arg_position = sec.arg_position
      /\ new.sys2arguments = sec.sys2arguments
      /\ new.argument_count_table = sec.argument_count_table
  BY <1>1 DEF Struct
<1> HIDE DEF new
<1>3. BitMapped(new) = BitMapped(sec)
  BY <1>2 DEF BitMapped
<1>4. \A i, j \in 0 .. new.draco_count - 1 : new.bit_map[i] = new.bit_map[j] => i = j
  BY <1>1, <1>2 DEF Enumerates
<1>5. BitMapped(new) = {s \in Syscall : new.fill[s] = 1}
  BY <1>1, <1>2, <1>3 DEF Enumerates
<1>6. \A s \in Syscall : new.arg_position[s] # {} => new.fill[s] = 1
  BY <1>1, <1>2 DEF Enumerates
<1>7. Enumerates(new)
  BY <1>4, <1>5, <1>6 DEF Enumerates
<1>8. Profiled(new)
  BY <1>1, <1>2 DEF Profiled
<1> QED
  BY <1>2, <1>7, <1>8 DEF Sound, new

LEMMA NextSound == AllSound /\ [ProfileNext]_seccomp => AllSound'
<1> SUFFICES ASSUME AllSound, [ProfileNext]_seccomp PROVE AllSound'
  OBVIOUS
<1>1. ASSUME NEW t \in Task, NEW s \in Number, NEW mask \in Mask,
             PrctlAdd(t, s, mask)
      PROVE  AllSound'
  <2>1. Sound(seccomp[t]) /\ s \in Syscall
    BY <1>1 DEF AllSound, PrctlAdd
  <2>2. Sound(AddSeccomp(seccomp[t], s, mask))
    BY <2>1, AddSound
  <2> QED
    BY <1>1, <2>2, UpdateSound DEF PrctlAdd
<1>2. ASSUME NEW t \in Task, NEW s \in Number, PrctlAddRefused(t, s)
      PROVE  AllSound'
  BY <1>2 DEF PrctlAddRefused, AllSound
<1>3. ASSUME NEW t \in Task, PrctlLoad(t)
      PROVE  AllSound'
  <2>1. Sound(LoadSeccomp(seccomp[t]))
    BY LoadSound DEF AllSound
  <2> QED
    BY <1>3, <2>1, UpdateSound DEF PrctlLoad
<1>4. ASSUME NEW t \in Task, SetModeFilter(t)
      PROVE  AllSound'
  <2>1. Sound([seccomp[t] EXCEPT !.mode = "filter"])
    BY SetModeSound DEF AllSound
  <2> QED
    BY <1>4, <2>1, UpdateSound DEF SetModeFilter
<1>5. ASSUME NEW t \in Task, NEW u \in Task, Fork(t, u)
      PROVE  AllSound'
  <2>1. Sound(seccomp[t])
    BY DEF AllSound
  <2> QED
    BY <1>5, <2>1, UpdateSound DEF Fork
<1>6. CASE UNCHANGED seccomp
  BY <1>6 DEF AllSound
<1> QED
  BY <1>1, <1>2, <1>3, <1>4, <1>5, <1>6 DEF ProfileNext

LEMMA AlwaysSound == ProfileSpec => []AllSound
BY InitSound, NextSound, PTL DEF ProfileSpec

\* The tables of a profile never leave their arrays: draco_count stays
\* within bit_map and compiled rows within sys2arguments.
THEOREM ProfileTypeCorrect == ProfileSpec => []ProfileTypeOK
BY AlwaysSound, AllSoundImplies, PTL

\* bit_map always enumerates the filled slots, each once.
THEOREM BitMapCorrect == ProfileSpec => []BitMapEnumerates
BY AlwaysSound, AllSoundImplies, PTL

\* The key of a call always consists of profiled registers, ascending.
THEOREM KeysCorrect == ProfileSpec => []KeysAreProfiled
BY AlwaysSound, AllSoundImplies, PTL

-----------------------------------------------------------------------------
(* What a step may do to the tables.                                       *)

\* A step that replaces the structure of one task by one with the same
\* compiled tables changes no key.
LEMMA SameTablesKeepKeys ==
  ASSUME AllSound, NEW t \in Task, NEW sec,
         seccomp' = [seccomp EXCEPT ![t] = sec],
         sec.sys2arguments = seccomp[t].sys2arguments,
         sec.argument_count_table = seccomp[t].argument_count_table
  PROVE  CompilesOrCopies /\ WidensKeys
<1>1. \A u \in Task : seccomp'[u] = IF u = t THEN sec ELSE seccomp[u]
  BY DEF AllSound
<1>2. \A u \in Task : /\ seccomp'[u].sys2arguments = seccomp[u].sys2arguments
                      /\ seccomp'[u].argument_count_table
                           = seccomp[u].argument_count_table
  BY <1>1
<1>3. \A u \in Task, s \in Syscall :
         KeyPositions(seccomp'[u], s) = KeyPositions(seccomp[u], s)
  BY <1>2 DEF KeyPositions
<1> QED
  BY <1>2, <1>3 DEF CompilesOrCopies, WidensKeys

LEMMA LoadWidens ==
  ASSUME AllSound, NEW t \in Task, PrctlLoad(t)
  PROVE  CompilesOrCopies /\ WidensKeys
<1> DEFINE new == LoadSeccomp(seccomp[t])
<1>1. Compiled(new) /\ new.arg_position = seccomp[t].arg_position
  BY LoadSound, LoadFields DEF AllSound
<1>2. \A u \in Task : seccomp'[u] = IF u = t THEN new ELSE seccomp[u]
  BY DEF PrctlLoad, AllSound
<1> HIDE DEF new
<1>3. ASSUME NEW s \in Syscall, SignBit \notin new.arg_position[s]
      PROVE  KeyPositions(seccomp[t], s) \subseteq KeyPositions(new, s)
  <2>1. KeyPositions(new, s) = {b + 1 : b \in seccomp[t].arg_position[s]}
    BY <1>1, <1>3 DEF Compiled, LoadedBits
  <2>2. ASSUME NEW x \in KeyPositions(seccomp[t], s)
        PROVE  x - 1 \in seccomp[t].arg_position[s] /\ x \in Int
    <3>1. PICK p \in 1 .. seccomp[t].argument_count_table[s] :
             x = seccomp[t].sys2arguments[s][p]
      BY DEF KeyPositions
    <3>2. seccomp[t].argument_count_table[s] \in 0 .. MaxArgumentCount
      BY DEF AllSound, Struct
    <3>3. p \in Position
      BY <3>1, <3>2, ProfileAssumption DEF Position
    <3>4. x \in Int
      BY <3>1, <3>3 DEF AllSound, Struct, SignBit
    <3> QED
      BY <3>1, <3>4 DEF AllSound, Sound, Profiled
  <2> QED
    BY <2>1, <2>2
<1> QED
  BY <1>1, <1>2, <1>3 DEF CompilesOrCopies, WidensKeys

\* A child that copies a structure had none of its own, and so empty keys.
LEMMA ForkWidens ==
  ASSUME AllSound, NEW t \in Task, NEW u \in Task, Fork(t, u)
  PROVE  CompilesOrCopies /\ WidensKeys
<1>1. \A v \in Task : seccomp'[v] = IF v = u THEN seccomp[t] ELSE seccomp[v]
  BY DEF Fork, AllSound
<1>2. seccomp[u] = CleanStruct
  BY DEF Fork
<1>3. \A s \in Syscall : KeyPositions(seccomp[u], s) = {}
  BY <1>2 DEF CleanStruct, KeyPositions
<1> QED
  BY <1>1, <1>3 DEF CompilesOrCopies, WidensKeys

LEMMA StepsWiden ==
  AllSound /\ [ProfileNext]_seccomp
    => [CompilesOrCopies]_seccomp /\ [WidensKeys]_seccomp
<1> SUFFICES ASSUME AllSound, ProfileNext PROVE CompilesOrCopies /\ WidensKeys
  OBVIOUS
<1>1. ASSUME NEW t \in Task, NEW s \in Number, NEW mask \in Mask,
             PrctlAdd(t, s, mask)
      PROVE  CompilesOrCopies /\ WidensKeys
  <2>1. Sound(seccomp[t]) /\ s \in Syscall
    BY <1>1 DEF AllSound, PrctlAdd
  <2>2. LET new == AddSeccomp(seccomp[t], s, mask) IN
        /\ new.sys2arguments = seccomp[t].sys2arguments
        /\ new.argument_count_table = seccomp[t].argument_count_table
    BY <2>1, AddSound
  <2> QED
    BY <1>1, <2>2, SameTablesKeepKeys DEF PrctlAdd
<1>2. ASSUME NEW t \in Task, NEW s \in Number, PrctlAddRefused(t, s)
      PROVE  CompilesOrCopies /\ WidensKeys
  BY <1>2 DEF PrctlAddRefused, CompilesOrCopies, WidensKeys
<1>3. ASSUME NEW t \in Task, SetModeFilter(t)
      PROVE  CompilesOrCopies /\ WidensKeys
  <2>1. LET new == [seccomp[t] EXCEPT !.mode = "filter"] IN
        /\ new.sys2arguments = seccomp[t].sys2arguments
        /\ new.argument_count_table = seccomp[t].argument_count_table
    BY SetModeSound DEF AllSound
  <2>2. seccomp' = [seccomp EXCEPT ![t] = [seccomp[t] EXCEPT !.mode = "filter"]]
    BY <1>3 DEF SetModeFilter
  <2> QED
    BY <2>1, <2>2, SameTablesKeepKeys
<1> QED
  BY <1>1, <1>2, <1>3, LoadWidens, ForkWidens DEF ProfileNext

\* prctl_draco_load_seccomp compiles the whole profile or the tables stay.
THEOREM LoadCorrect == ProfileSpec => LoadCompilesAll
BY AlwaysSound, StepsWiden, PTL DEF ProfileSpec, LoadCompilesAll

\* No prctl and no fork takes a register out of a key.
THEOREM KeysWiden == ProfileSpec => KeysOnlyWiden
BY AlwaysSound, StepsWiden, PTL DEF ProfileSpec, KeysOnlyWiden


-----------------------------------------------------------------------------
(* Keys and rows.                                                          *)

\* Keys of n words.
KeysOf(n) == [1 .. n -> Val]

LEMMA KeysOfFits ==
  ASSUME NEW n \in 0 .. MaxArgumentCount
  PROVE  /\ n \in Nat
         /\ KeysOf(n) \subseteq Keys
         /\ 1 .. n \subseteq Position
         /\ \A key \in KeysOf(n) : DOMAIN key = 1 .. n /\ Hash[key] \in Bucket
<1>1. n \in Nat /\ MaxArgumentCount \in Nat
  BY ProfileAssumption
<1>2. KeysOf(n) \subseteq Keys
  BY DEF KeysOf, Keys
<1>3. 1 .. n \subseteq Position
  BY <1>1 DEF Position
<1>4. \A key \in Keys : Hash[key] \in Bucket
  BY TableAssumption
<1> QED
  BY <1>1, <1>2, <1>3, <1>4 DEF KeysOf

\* The key of a call has as many words as the profile says.
LEMMA ArgumentListType ==
  ASSUME NEW sec \in Struct, NEW s \in Syscall, NEW regs \in Regs
  PROVE  /\ sec.argument_count_table[s] \in 0 .. MaxArgumentCount
         /\ ArgumentList(sec, s, regs) \in KeysOf(sec.argument_count_table[s])
<1> DEFINE n == sec.argument_count_table[s]
<1>1. n \in 0 .. MaxArgumentCount
  BY DEF Struct
<1>2. \A index : GetArgument(regs, index) \in Val
  BY TableAssumption DEF GetArgument, Regs
<1> QED
  BY <1>1, <1>2 DEF ArgumentList, KeysOf

LEMMA BlankRowType == BlankRow \in Row
BY TableAssumption DEF BlankRow, Row

LEMMA OverwriteType ==
  ASSUME NEW n \in 0 .. MaxArgumentCount, NEW key \in KeysOf(n), NEW row \in Row
  PROVE  /\ Overwrite(row, key) \in Row
         /\ Matches(Overwrite(row, key), key)
<1>1. DOMAIN key = 1 .. n /\ 1 .. n \subseteq Position
  BY KeysOfFits
<1>2. \A p \in 1 .. n : key[p] \in Val
  BY DEF KeysOf
<1>3. \A p \in Position : (IF p \in DOMAIN key THEN key[p] ELSE row[p]) \in Val
  BY <1>1, <1>2 DEF Row
<1>4. Overwrite(row, key) \in Row
  BY <1>3 DEF Overwrite, Row
<1>5. Matches(Overwrite(row, key), key)
  BY <1>1 DEF Matches, Overwrite
<1> QED
  BY <1>4, <1>5

LEMMA PaddedType ==
  ASSUME NEW n \in 0 .. MaxArgumentCount, NEW key \in KeysOf(n)
  PROVE  Padded(key) \in Row /\ Matches(Padded(key), key)
BY OverwriteType, BlankRowType DEF Padded

\* The first n words of a row.
Cut(row, n) == [i \in 1 .. n |-> row[i]]

\* A row that holds a key of n words and nothing else matches exactly it.
LEMMA MatchesIsEqual ==
  ASSUME NEW n \in 0 .. MaxArgumentCount, NEW key \in KeysOf(n), NEW row \in Row,
         row = Padded(Cut(row, n))
  PROVE  Matches(row, key) <=> row = Padded(key)
<1>1. DOMAIN key = 1 .. n
  BY KeysOfFits
<1>2. ASSUME Matches(row, key) PROVE row = Padded(key)
  <2>1. \A i \in 1 .. n : row[i] = key[i]
    BY <1>1, <1>2 DEF Matches
  <2>2. Cut(row, n) = key
    BY <2>1 DEF Cut, KeysOf
  <2> QED
    BY <2>2
<1>3. ASSUME row = Padded(key) PROVE Matches(row, key)
  BY <1>3, PaddedType
<1> QED
  BY <1>2, <1>3

LEMMA CutPadded ==
  ASSUME NEW n \in 0 .. MaxArgumentCount, NEW key \in KeysOf(n)
  PROVE  Cut(Padded(key), n) = key
<1>1. DOMAIN key = 1 .. n /\ 1 .. n \subseteq Position
  BY KeysOfFits
<1>2. \A i \in 1 .. n : Padded(key)[i] = key[i]
  BY <1>1 DEF Padded, Overwrite
<1> QED
  BY <1>2 DEF Cut, KeysOf

-----------------------------------------------------------------------------
(* A table.                                                                *)

\* In each bucket the flagged ways come first and hold different rows.
FlagsFirst(tab) ==
    \A b \in Bucket : \A v, w \in Way :
        v < w /\ tab.flag[b][w] = 1 => tab.flag[b][v] = 1

RowsDiffer(tab) ==
    \A b \in Bucket : \A v, w \in Way :
        v < w /\ tab.flag[b][w] = 1 => tab.table[b][v] # tab.table[b][w]

\* No word was written to a way nobody flagged.
FreeWaysBlank(tab) ==
    \A b \in Bucket, w \in Way : tab.flag[b][w] = 0 => tab.table[b][w] = BlankRow

\* Each row holds a key of n words and lies where its hash says.
RowsKeyed(tab, n) ==
    \A b \in Bucket, w \in Way :
        tab.flag[b][w] = 1 =>
            /\ Hash[Cut(tab.table[b][w], n)] = b
            /\ tab.table[b][w] = Padded(Cut(tab.table[b][w], n))

\* With this a probe for a key of n words finds it iff a row holds it.
Exact(tab, n) ==
    FlagsFirst(tab) /\ RowsDiffer(tab) /\ FreeWaysBlank(tab) /\ RowsKeyed(tab, n)

LEMMA WayRange == Asos \in Nat \ {0} /\ \A w \in Way : w \in Int /\ 0 <= w /\ w < Asos
BY TableAssumption DEF Way

\* A table nobody has drawn.
LEMMA BlankExact ==
  /\ BlankTable \in SyscallTable
  /\ \A n : Exact(BlankTable, n)
  /\ \A b \in Bucket, w \in Way : BlankTable.flag[b][w] = 0
<1>1. BlankTable \in SyscallTable
  BY BlankRowType DEF BlankTable, SyscallTable
<1>2. \A b \in Bucket, w \in Way : /\ BlankTable.flag[b][w] = 0
                                   /\ BlankTable.table[b][w] = BlankRow
  BY DEF BlankTable
<1>3. ASSUME NEW n PROVE Exact(BlankTable, n)
  BY <1>2 DEF Exact, FlagsFirst, RowsDiffer, FreeWaysBlank, RowsKeyed
<1> QED
  BY <1>1, <1>2, <1>3

\* What holds of the rows does not depend on the counters.
SameRows(tab, new) == new.table = tab.table /\ new.flag = tab.flag

LEMMA SameRowsSame ==
  ASSUME NEW tab, NEW new, SameRows(tab, new)
  PROVE  /\ Rows(new) = Rows(tab)
         /\ FlaggedSlots(new) = FlaggedSlots(tab)
         /\ \A n : Exact(tab, n) => Exact(new, n)
BY DEF SameRows, Rows, FlaggedSlots, Exact, FlagsFirst, RowsDiffer, FreeWaysBlank,
       RowsKeyed

\* What inserting a row writes.
LEMMA OccupyFields ==
  ASSUME NEW tab \in SyscallTable, NEW b \in Bucket, NEW w \in Way,
         NEW n \in 0 .. MaxArgumentCount, NEW key \in KeysOf(n)
  PROVE  LET new == Occupy(tab, b, w, key) IN
         /\ new \in SyscallTable
         /\ \A c \in Bucket, v \in Way :
               /\ new.flag[c][v] = IF <<c, v>> = <<b, w>> THEN 1 ELSE tab.flag[c][v]
               /\ new.table[c][v] = IF <<c, v>> = <<b, w>>
                                    THEN Overwrite(tab.table[b][w], key)
                                    ELSE tab.table[c][v]
<1> DEFINE new == Occupy(tab, b, w, key)
           row == Overwrite(tab.table[b][w], key)
           flag == [tab.flag EXCEPT ![b] = [tab.flag[b] EXCEPT ![w] = 1]]
           table == [tab.table EXCEPT ![b] = [tab.table[b] EXCEPT ![w] = row]]
<1>1. /\ tab.flag \in [Bucket -> [Way -> {0, 1}]]
      /\ tab.table \in [Bucket -> [Way -> Row]]
  BY DEF SyscallTable
<1>2. tab.table[b][w] \in Row /\ tab.table[b] \in [Way -> Row]
      /\ tab.flag[b] \in [Way -> {0, 1}]
  BY <1>1
<1>3. row \in Row
  BY <1>2, OverwriteType
<1>4. new = [tab EXCEPT !.flag = flag, !.table = table]
  BY DEF Occupy, SyscallTable
<1> HIDE DEF new, row
<1>5. flag \in [Bucket -> [Way -> {0, 1}]] /\ table \in [Bucket -> [Way -> Row]]
  BY <1>1, <1>2, <1>3
<1>6. \A c \in Bucket, v \in Way :
         /\ flag[c][v] = IF <<c, v>> = <<b, w>> THEN 1 ELSE tab.flag[c][v]
         /\ table[c][v] = IF <<c, v>> = <<b, w>> THEN row ELSE tab.table[c][v]
  BY <1>1, <1>2
<1> HIDE DEF flag, table
<1>7. new \in SyscallTable /\ new.flag = flag /\ new.table = table
  BY <1>4, <1>5 DEF SyscallTable
<1> QED
  BY <1>6, <1>7 DEF new, row

\* A row that is there stays when a free way is taken.
LEMMA OccupyKeepsRows ==
  ASSUME NEW tab \in SyscallTable, NEW b \in Bucket, NEW w \in Way,
         NEW n \in 0 .. MaxArgumentCount, NEW key \in KeysOf(n),
         tab.flag[b][w] # 1
  PROVE  Rows(Occupy(tab, b, w, key))
           = Rows(tab) \cup {Overwrite(tab.table[b][w], key)}
<1> DEFINE new == Occupy(tab, b, w, key)
<1>1. \A c \in Bucket, v \in Way :
         /\ new.flag[c][v] = IF <<c, v>> = <<b, w>> THEN 1 ELSE tab.flag[c][v]
         /\ new.table[c][v] = IF <<c, v>> = <<b, w>>
                              THEN Overwrite(tab.table[b][w], key)
                              ELSE tab.table[c][v]
  BY OccupyFields
<1> HIDE DEF new
<1>2. ASSUME NEW row \in Rows(tab) PROVE row \in Rows(new)
  <2>1. PICK c \in Bucket, v \in Way : tab.flag[c][v] = 1 /\ row = tab.table[c][v]
    BY DEF Rows, FlaggedSlots
  <2>2. <<c, v>> # <<b, w>>
    BY <2>1
  <2>3. new.flag[c][v] = 1 /\ new.table[c][v] = row /\ <<c, v>> \in Bucket \X Way
    BY <1>1, <2>1, <2>2
  <2> QED
    BY <2>3 DEF Rows, FlaggedSlots
<1>3. Overwrite(tab.table[b][w], key) \in Rows(new)
  <2>1. new.flag[b][w] = 1 /\ new.table[b][w] = Overwrite(tab.table[b][w], key)
        /\ <<b, w>> \in Bucket \X Way
    BY <1>1
  <2> QED
    BY <2>1 DEF Rows, FlaggedSlots
<1>4. ASSUME NEW row \in Rows(new), row # Overwrite(tab.table[b][w], key)
      PROVE  row \in Rows(tab)
  <2>1. PICK c \in Bucket, v \in Way : new.flag[c][v] = 1 /\ row = new.table[c][v]
    BY DEF Rows, FlaggedSlots
  <2>2. <<c, v>> # <<b, w>>
    BY <1>1, <1>4, <2>1
  <2>3. tab.flag[c][v] = 1 /\ tab.table[c][v] = row /\ <<c, v>> \in Bucket \X Way
    BY <1>1, <2>1, <2>2
  <2> QED
    BY <2>3 DEF Rows, FlaggedSlots
<1> QED
  BY <1>2, <1>3, <1>4 DEF new

-----------------------------------------------------------------------------
(* The three ends of a probe.                                              *)

\* A hit is for a key a row holds.
LEMMA HitIsThere ==
  ASSUME NEW tab \in SyscallTable, NEW n \in 0 .. MaxArgumentCount, Exact(tab, n),
         NEW key \in KeysOf(n), NEW b \in Bucket, NEW w \in Way,
         ProbeEnds(tab, b, key, w), Found(tab, b, w)
  PROVE  Padded(key) \in Rows(tab)
<1>1. tab.flag[b][w] = 1 /\ Matches(tab.table[b][w], key)
  BY DEF Found, ProbeEnds
<1>2. tab.table[b][w] \in Row
  BY DEF SyscallTable
<1>3. tab.table[b][w] = Padded(key)
  BY <1>1, <1>2, MatchesIsEqual DEF Exact, RowsKeyed
<1>4. <<b, w>> \in FlaggedSlots(tab)
  BY <1>1 DEF FlaggedSlots
<1> QED
  BY <1>3, <1>4 DEF Rows

\* A miss is for a key no row holds, also when the bucket is full.
LEMMA MissIsNotThere ==
  ASSUME NEW tab \in SyscallTable, NEW n \in 0 .. MaxArgumentCount, Exact(tab, n),
         NEW key \in KeysOf(n), NEW w \in 0 .. Asos,
         ProbeEnds(tab, Hash[key], key, w), ~ Found(tab, Hash[key], w)
  PROVE  Padded(key) \notin Rows(tab)
<1> DEFINE b == Hash[key]
<1> SUFFICES ASSUME Padded(key) \in Rows(tab) PROVE FALSE
  OBVIOUS
<1>1. PICK c \in Bucket, v \in Way : tab.flag[c][v] = 1 /\ tab.table[c][v] = Padded(key)
  BY DEF Rows, FlaggedSlots
<1>2. c = b
  BY <1>1, CutPadded DEF Exact, RowsKeyed
<1>3. Matches(tab.table[c][v], key)
  BY <1>1, PaddedType
<1>4. v \in Int /\ w \in Int /\ 0 <= v /\ v < Asos /\ w <= Asos
  BY WayRange
<1>5. ~ (v < w)
  <2>1. v < w => v \in 0 .. w - 1
    BY <1>4
  <2> QED
    BY <1>2, <1>3, <2>1 DEF ProbeEnds
<1>6. w < Asos /\ w \in Way
  <2>1. w \in 0 .. Asos /\ Asos \in Nat /\ w < Asos
    BY <1>4, <1>5, WayRange
  <2> QED
    BY <2>1 DEF Way
<1>7. tab.flag[b][w] # 1
  BY <1>6 DEF Found
<1>8. v = w \/ w < v
  BY <1>4, <1>5
<1> QED
  BY <1>1, <1>2, <1>6, <1>7, <1>8 DEF Exact, FlagsFirst

\* Inserting a missed key adds it and nothing else, and probes stay exact.
LEMMA InsertKeepsExact ==
  ASSUME NEW tab \in SyscallTable, NEW n \in 0 .. MaxArgumentCount, Exact(tab, n),
         NEW key \in KeysOf(n), NEW w \in Way,
         ProbeEnds(tab, Hash[key], key, w), ~ Found(tab, Hash[key], w)
  PROVE  /\ Exact(Occupy(tab, Hash[key], w, key), n)
         /\ Rows(Occupy(tab, Hash[key], w, key)) = Rows(tab) \cup {Padded(key)}
<1> DEFINE b == Hash[key]
           new == Occupy(tab, b, w, key)
<1>1. b \in Bucket
  BY KeysOfFits
<1>2. tab.flag[b][w] = 0
  BY <1>1, WayRange DEF Found, SyscallTable
<1>3. Overwrite(tab.table[b][w], key) = Padded(key)
  BY <1>1, <1>2 DEF Exact, FreeWaysBlank, Padded
<1>4. \A c \in Bucket, v \in Way :
         /\ new.flag[c][v] = IF <<c, v>> = <<b, w>> THEN 1 ELSE tab.flag[c][v]
         /\ new.table[c][v] = IF <<c, v>> = <<b, w>> THEN Padded(key) ELSE tab.table[c][v]
  BY <1>1, <1>3, OccupyFields
<1>5. \A v \in Way : v < w => tab.flag[b][v] = 1 /\ ~ Matches(tab.table[b][v], key)
  <2>1. \A v \in Way : v < w => v \in 0 .. w - 1
    BY WayRange
  <2> QED
    BY <2>1 DEF ProbeEnds
<1>6. \A v \in Way : w < v => tab.flag[b][v] # 1
  BY <1>1, <1>2 DEF Exact, FlagsFirst
<1>7. Rows(new) = Rows(tab) \cup {Padded(key)}
  BY <1>1, <1>2, <1>3, OccupyKeepsRows
<1> HIDE DEF new
<1>8. FlagsFirst(new)
  <2> SUFFICES ASSUME NEW c \in Bucket, NEW u \in Way, NEW v \in Way,
                      u < v, new.flag[c][v] = 1
               PROVE  new.flag[c][u] = 1
    BY DEF FlagsFirst
  <2>1. CASE c = b /\ v = w
    BY <1>4, <1>5, <2>1
  <2>2. CASE ~ (c = b /\ v = w)
    BY <1>4, <2>2 DEF Exact, FlagsFirst
  <2> QED
    BY <2>1, <2>2
<1>9. RowsDiffer(new)
  <2> SUFFICES ASSUME NEW c \in Bucket, NEW u \in Way, NEW v \in Way,
                      u < v, new.flag[c][v] = 1
               PROVE  new.table[c][u] # new.table[c][v]
    BY DEF RowsDiffer
  <2>1. CASE c = b /\ v = w
    <3>1. new.table[c][v] = Padded(key) /\ ~ Matches(new.table[c][u], key)
      BY <1>4, <1>5, <2>1, WayRange
    <3> QED
      BY <3>1, PaddedType
  <2>2. CASE ~ (c = b /\ v = w)
    <3>1. tab.flag[c][v] = 1
      BY <1>4, <2>2
    <3>2. ~ (c = b /\ u = w)
      BY <1>6, <3>1
    <3> QED
      BY <1>4, <2>2, <3>1, <3>2 DEF Exact, RowsDiffer
  <2> QED
    BY <2>1, <2>2
<1>10. FreeWaysBlank(new)
  BY <1>4 DEF Exact, FreeWaysBlank
<1>11. RowsKeyed(new, n)
  <2>1. Cut(Padded(key), n) = key
    BY CutPadded
  <2> QED
    BY <1>4, <2>1 DEF Exact, RowsKeyed
<1> QED
  BY <1>7, <1>8, <1>9, <1>10, <1>11 DEF Exact, new

=============================================================================
