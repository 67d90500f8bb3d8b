------------------------------ MODULE DracoProfile ------------------------------
(***************************************************************************)
(* The syscall profile the Draco kernel patch keeps in struct seccomp of   *)
(* every task (kernel_module/draco.patch).  A task describes, one prctl at *)
(* a time, which argument registers its filter looks at for which system   *)
(* call; a last prctl compiles the description into the two tables the     *)
(* checker reads: sys2arguments and argument_count_table.                  *)
(*                                                                         *)
(* A definition whose comment says "slip" is no part of the model: it is a *)
(* mistake the code could have, kept to see that a property rules it out.  *)
(*                                                                         *)
(* A mask (int arg_position) is the set of its one bits.  Rows of          *)
(* sys2arguments are functions on 1..MaxArgumentCount, so entry [p] of the *)
(* C array is entry p+1 here.                                              *)
(***************************************************************************)
EXTENDS Integers, FiniteSets

CONSTANTS
    Task,               \* the tasks (struct task_struct)
    Hook,               \* the blocks a draco_hook can point to
    NULL,               \* the null pointer
    SyscallCount,       \* SYSCALL_COUNT, 400 in the code
    MaxArgumentCount,   \* MAX_ARGUMENT_COUNT, 6 in the code
    ArgBit,             \* the bits callers of the prctl ever set in a mask
    MayFork,            \* TRUE: tasks fork
    MayReload           \* TRUE: a filtered task extends its profile

SignBit == 31

\* The masks in use fit a row of sys2arguments: libseccomp sets bits 0..5.
ASSUME ProfileAssumption ==
    /\ NULL \notin Hook
    /\ SyscallCount \in Nat
    /\ MaxArgumentCount \in Nat
    /\ ArgBit \subseteq 0 .. SignBit
    /\ Cardinality(ArgBit \ {SignBit}) <= MaxArgumentCount
    /\ MayFork \in BOOLEAN
    /\ MayReload \in BOOLEAN

VARIABLE seccomp        \* seccomp[t]: struct seccomp of task t

Syscall == 0 .. SyscallCount - 1
Mask == SUBSET ArgBit
Position == 1 .. MaxArgumentCount

\* What a caller may pass as a system call number: the ones with a slot and
\* the first ones on either side of the table.
Number == -1 .. SyscallCount

Struct == [mode : {"disabled", "filter"},
           draco_hook : Hook \cup {NULL},
           draco_count : 0 .. SyscallCount,
           bit_map : [Syscall -> Syscall],
           fill : [Syscall -> {0, 1}],
           arg_position : [Syscall -> Mask],
           sys2arguments : [Syscall -> [Position -> 0 .. SignBit]],
           argument_count_table : [Syscall -> 0 .. MaxArgumentCount]]

\* dup_task_struct clears the whole structure.
CleanStruct ==
    [mode |-> "disabled",
     draco_hook |-> NULL,
     draco_count |-> 0,
     bit_map |-> [s \in Syscall |-> 0],
     fill |-> [s \in Syscall |-> 0],
     arg_position |-> [s \in Syscall |-> {}],
     sys2arguments |-> [s \in Syscall |-> [p \in Position |-> 0]],
     argument_count_table |-> [s \in Syscall |-> 0]]

\* The calls with an entry in bit_map.
\* (Slip: the walk stops one entry early.)
BitMappedShort(sec) == {sec.bit_map[i] : i \in 0 .. sec.draco_count - 2}
BitMapped(sec) == {sec.bit_map[i] : i \in 0 .. sec.draco_count - 1}

-----------------------------------------------------------------------------
(* prctl(PR_DRACO_ADD_SECCOMP, syscall, mask) on one structure.            *)

\* Slips: the slot is not marked as filled; the count moves first.
FillSlotUnmarked(sec, s) ==
    IF sec.fill[s] = 0
    THEN [sec EXCEPT !.bit_map[sec.draco_count] = s, !.draco_count = @ + 1]
    ELSE sec

FillSlotLate(sec, s) ==
    IF sec.fill[s] = 0
    THEN [sec EXCEPT !.fill[s] = 1,
                     !.bit_map[sec.draco_count + 1] = s,
                     !.draco_count = @ + 1]
    ELSE sec

FillSlot(sec, s) ==
    IF sec.fill[s] = 0
    THEN [sec EXCEPT !.fill[s] = 1,
                     !.bit_map[sec.draco_count] = s,
                     !.draco_count = @ + 1]
    ELSE sec

\* Slip: the mask replaces the one of an earlier rule for the call.
AddSeccompReplacing(sec, s, mask) ==
    [FillSlot(sec, s) EXCEPT !.arg_position[s] = mask]

AddSeccomp(sec, s, mask) ==
    [FillSlot(sec, s) EXCEPT !.arg_position[s] = @ \cup mask]

-----------------------------------------------------------------------------
(* prctl(PR_DRACO_LOAD_SECCOMP) on one structure.                          *)

\* The loop runs while arg_position > 0: not at all when the sign bit is set.
LoadedBits(mask) == IF SignBit \in mask THEN {} ELSE mask

Rank(bits, b) == Cardinality({c \in bits : c < b})

\* Slip: registers counted from zero.
LoadedRowFromZero(old, bits) ==
    [p \in Position |->
        IF \E b \in bits : Rank(bits, b) = p - 1
        THEN CHOOSE b \in bits : Rank(bits, b) = p - 1
        ELSE old[p]]

\* Bits are visited upwards: the bit with k smaller ones lands in entry k,
\* as its index counted from one; entries past the last keep their value.
LoadedRow(old, bits) ==
    [p \in Position |->
        IF \E b \in bits : Rank(bits, b) = p - 1
        THEN 1 + CHOOSE b \in bits : Rank(bits, b) = p - 1
        ELSE old[p]]

LoadSeccomp(sec) ==
    [sec EXCEPT
        !.sys2arguments = [s \in Syscall |->
            IF s \in BitMapped(sec)
            THEN LoadedRow(@[s], LoadedBits(sec.arg_position[s]))
            ELSE @[s]],
        !.argument_count_table = [s \in Syscall |->
            IF s \in BitMapped(sec)
            THEN Cardinality(LoadedBits(sec.arg_position[s]))
            ELSE @[s]]]

-----------------------------------------------------------------------------
ProfileInit == seccomp = [t \in Task |-> CleanStruct]

\* A program builds its profile before its filter is installed; one that
\* loads a second filter goes on after.
MayPrctl(t) == MayReload \/ seccomp[t].mode = "disabled"

PrctlAdd(t, s, mask) ==
    /\ MayPrctl(t)
    /\ s \in Syscall
    /\ seccomp' = [seccomp EXCEPT ![t] = AddSeccomp(@, s, mask)]

PrctlAddRefused(t, s) ==
    /\ MayPrctl(t)
    /\ s \notin Syscall
    /\ UNCHANGED seccomp

PrctlLoad(t) ==
    /\ MayPrctl(t)
    /\ seccomp' = [seccomp EXCEPT ![t] = LoadSeccomp(@)]

\* seccomp(SECCOMP_SET_MODE_FILTER), the kernel's own code: from here on
\* the task's system calls go through __secure_computing.
SetModeFilter(t) ==
    /\ seccomp[t].mode = "disabled"
    /\ seccomp' = [seccomp EXCEPT ![t].mode = "filter"]

\* fork: dup_task_struct hands out a cleared structure, then the kernel's
\* copy_seccomp assigns the parent's whole structure to it.
Fork(t, u) ==
    /\ MayFork
    /\ seccomp[u] = CleanStruct
    /\ seccomp' = [seccomp EXCEPT ![u] = seccomp[t]]

ProfileNext ==
    \E t \in Task :
        \/ \E s \in Number, mask \in Mask : PrctlAdd(t, s, mask)
        \/ \E s \in Number : PrctlAddRefused(t, s)
        \/ PrctlLoad(t)
        \/ SetModeFilter(t)
        \/ \E u \in Task : Fork(t, u)

ProfileSpec == ProfileInit /\ [][ProfileNext]_seccomp

-----------------------------------------------------------------------------
(* Properties.                                                             *)

\* Every structure stays within its declared arrays; in particular
\* draco_count never leaves bit_map and no row of sys2arguments overflows.
ProfileTypeOK == seccomp \in [Task -> Struct]

Enumerates(sec) ==
    /\ \A i, j \in 0 .. sec.draco_count - 1 :
          sec.bit_map[i] = sec.bit_map[j] => i = j
    /\ BitMapped(sec) = {s \in Syscall : sec.fill[s] = 1}
    /\ \A s \in Syscall : sec.arg_position[s] # {} => sec.fill[s] = 1

\* bit_map lists each filled slot once and nothing else, however adds,
\* loads and forks interleave: the load loop, which only walks bit_map,
\* then reaches every slot prctl_draco_add_seccomp ever filled, and a slot
\* with a mask is a filled one.
BitMapEnumerates == \A t \in Task : Enumerates(seccomp[t])

\* The registers (counted from one) that make up the key of call s.
KeyPositions(sec, s) ==
    {sec.sys2arguments[s][p] : p \in 1 .. sec.argument_count_table[s]}

Profiled(sec) ==
    \A s \in Syscall :
        LET row == sec.sys2arguments[s]
            n == sec.argument_count_table[s]
        IN /\ \A p \in 1 .. n : row[p] - 1 \in sec.arg_position[s]
           /\ \A p, q \in 1 .. n : p < q => row[p] < row[q]

\* The key of a call names profiled registers only, each once and in
\* ascending order, at every moment of a profile's life: also between an
\* add and the next load, and when a load shortens the key.
KeysAreProfiled == \A t \in Task : Profiled(seccomp[t])

\* The tables say what the profile says.
Compiled(sec) ==
    \A s \in Syscall :
        KeyPositions(sec, s) = {b + 1 : b \in LoadedBits(sec.arg_position[s])}

CompilesOrCopies ==
    \A t \in Task :
        seccomp'[t].sys2arguments # seccomp[t].sys2arguments =>
            \/ Compiled(seccomp'[t])
            \/ \E u \in Task : seccomp'[t] = seccomp[u]

\* When the tables of a task change, they change to what its whole profile
\* says (prctl_draco_load_seccomp leaves out no call and no register), or
\* to a copy of another task's (fork).
LoadCompilesAll == [][CompilesOrCopies]_seccomp

WidensKeys ==
    \A t \in Task, s \in Syscall :
        SignBit \notin seccomp'[t].arg_position[s] =>
            KeyPositions(seccomp[t], s) \subseteq KeyPositions(seccomp'[t], s)

\* A register that is part of a key stays part of it, unless the mask went
\* negative: rows cached under an old key can become too narrow, never too
\* wide.
KeysOnlyWiden == [][WidensKeys]_seccomp

=============================================================================
