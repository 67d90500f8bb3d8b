------------------------------- MODULE DracoTable -------------------------------
(***************************************************************************)
(* One hash_table_per_process_per_syscall_type (kernel_module/             *)
(* draco_module.h): INIT_HASH_ARGUMENT buckets of ASOS ways, each way a    *)
(* row of MAX_ARGUMENT_COUNT words and a flag.  The flat arrays            *)
(* table[hash*ASOS + index] and flag[hash*ASOS + index] are indexed here   *)
(* by bucket and way.  The operators are those of insert_value: the key of *)
(* a call, the probe of its bucket, the insertion of a row.                *)
(***************************************************************************)
EXTENDS DracoProfile

CONSTANTS
    Val,        \* the values an argument register takes
    Asos,       \* ASOS, 4 in the code
    Bucket,     \* 0 .. INIT_HASH_ARGUMENT - 1
    Hash        \* jhash(argument_list, ..) % INIT_HASH_ARGUMENT, any function

Keys == UNION {[1 .. n -> Val] : n \in 0 .. MaxArgumentCount}

ASSUME TableAssumption ==
    /\ 0 \in Val
    /\ Asos \in Nat \ {0}
    /\ Hash \in [Keys -> Bucket]

Way == 0 .. Asos - 1
Row == [Position -> Val]
Regs == [Position -> Val]       \* di, si, dx, r10, r8, r9 of pt_regs

SyscallTable ==
    [table : [Bucket -> [Way -> Row]],
     flag : [Bucket -> [Way -> {0, 1}]],
     per_syscall_conflict_count : Nat,
     per_syscall_argument_count : Nat,
     per_syscall_call_count : Nat]

BlankRow == [p \in Position |-> 0]

BlankTable ==
    [table |-> [b \in Bucket |-> [w \in Way |-> BlankRow]],
     flag |-> [b \in Bucket |-> [w \in Way |-> 0]],
     per_syscall_conflict_count |-> 0,
     per_syscall_argument_count |-> 0,
     per_syscall_call_count |-> 0]

-----------------------------------------------------------------------------
\* An index that names no register yields zero (the default of the switch).
GetArgument(regs, index) == IF index \in Position THEN regs[index] ELSE 0

\* The argument_list of a call, as long as the profile says.
ArgumentList(sec, s, regs) ==
    [i \in 1 .. sec.argument_count_table[s] |->
        GetArgument(regs, sec.sys2arguments[s][i])]

\* Slip: memcmp stops after the first word.
MatchesFirstWord(row, key) == \A i \in DOMAIN key : i = 1 => row[i] = key[i]

\* memcmp and memcpy of the first argument_count words of a row.
Matches(row, key) == \A i \in DOMAIN key : row[i] = key[i]

Overwrite(row, key) ==
    [p \in Position |-> IF p \in DOMAIN key THEN key[p] ELSE row[p]]

\* A row that holds the key and nothing else.
Padded(key) == Overwrite(BlankRow, key)

\* Slip: free ways are stepped over.
ProbeSkipsFree(tab, b, key, w) ==
    /\ \A v \in 0 .. w - 1 :
          tab.flag[b][v] = 1 => ~ Matches(tab.table[b][v], key)
    /\ w < Asos /\ tab.flag[b][w] = 1 => Matches(tab.table[b][w], key)

\* The probe of bucket b ends at w: every way before w is taken by another
\* key, and w is free, holds the key, or is past the last way.
ProbeEnds(tab, b, key, w) ==
    /\ \A v \in 0 .. w - 1 :
          tab.flag[b][v] = 1 /\ ~ Matches(tab.table[b][v], key)
    /\ w < Asos /\ tab.flag[b][w] = 1 => Matches(tab.table[b][w], key)

Found(tab, b, w) == w < Asos /\ tab.flag[b][w] = 1

\* Slip: always the first way.
OccupyFirst(tab, b, w, key) ==
    [tab EXCEPT !.flag[b][0] = 1, !.table[b][0] = Overwrite(@, key)]

Occupy(tab, b, w, key) ==
    [tab EXCEPT !.flag[b][w] = 1,
                !.table[b][w] = Overwrite(@, key)]

\* The rows a table answers for.
FlaggedSlots(tab) == {bw \in Bucket \X Way : tab.flag[bw[1]][bw[2]] = 1}
Rows(tab) == {tab.table[bw[1]][bw[2]] : bw \in FlaggedSlots(tab)}

=============================================================================
