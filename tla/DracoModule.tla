------------------------------ MODULE DracoModule -------------------------------
(***************************************************************************)
(* The Draco kernel module (kernel_module/draco_module.c) with the         *)
(* profile of DracoProfile: the hook every filtered system call goes       *)
(* through, the per-task cache it fills, the pool the tables come from,    *)
(* the list of tasks the unload walks, and the metrics.                    *)
(*                                                                         *)
(* A call of the handler is one step here: handlers of different tasks do  *)
(* not overlap, and neither do insmod and rmmod.  The paths of a call are  *)
(* actions of their own.  What a task does with a draco_hook that was      *)
(* freed (see DetachedAfterExit) is undefined and no step of the model; a freed  *)
(* block is therefore not handed out again while a task points to it.      *)
(***************************************************************************)
EXTENDS DracoTable, Sequences, FiniteSetsExt

CONSTANTS
    PreAllocated,   \* PRE_ALLOCATED_SYSCALL_TABLE_COUNT, 10000 in the code
    Failing,        \* the kmalloc calls that may fail: "process", "node"
    MaxCalls        \* bound: calls counted between insmod and rmmod

Table == 0 .. PreAllocated - 1  \* places in pool_internal

ASSUME ModuleAssumption ==
    /\ PreAllocated \in Nat
    /\ MaxCalls \in Nat
    /\ NULL \notin Table
    /\ Failing \subseteq {"process", "node"}

VARIABLES
    draco_checker,  \* the function __secure_computing calls
    per_process,    \* per_process[h]: the hash_table_per_process at h
    allocated,      \* the hooks kmalloc handed out and nobody freed
    usable,         \* those handed out since the module was loaded
    pool,           \* pool_internal
    hash_table,     \* the cursor, process_head and the totals
    syscall_number, \* the calls s with syscall_number[s] > 0
    answer          \* history: the last call and what the handler returned

vars == <<seccomp, draco_checker, per_process, allocated, usable, pool,
          hash_table, syscall_number, answer>>

PerProcess ==
    [syscall_table : [Syscall -> Table \cup {NULL}],
     per_process_argument_count : Nat,
     per_process_syscall_count : Nat,
     per_process_call_count : Nat,
     per_process_conflict_count : Nat]

HashTable ==
    [process_head : Seq(Task),
     cursor : 0 .. PreAllocated,
     total_process_count : Nat,
     total_call_count : Nat,
     total_conflict_count : Nat,
     total_hit_count : Nat,
     total_argument_count : Nat,
     total_syscall_count : Nat]

FreshProcess ==
    [syscall_table |-> [s \in Syscall |-> NULL],
     per_process_argument_count |-> 0,
     per_process_syscall_count |-> 0,
     per_process_call_count |-> 0,
     per_process_conflict_count |-> 0]

FreshHashTable ==
    [process_head |-> << >>,
     cursor |-> 0,
     total_process_count |-> 0,
     total_call_count |-> 0,
     total_conflict_count |-> 0,
     total_hit_count |-> 0,
     total_argument_count |-> 0,
     total_syscall_count |-> 0]

Entry == Hook \X Syscall \X Row
NoEntry == NULL
NoAnswer == [entry |-> NoEntry, hit |-> FALSE]

ModuleInit ==
    /\ draco_checker = "empty_draco"
    /\ per_process = [h \in Hook |-> FreshProcess]
    /\ allocated = {}
    /\ usable = {}
    /\ pool = [i \in Table |-> BlankTable]
    /\ hash_table = FreshHashTable
    /\ syscall_number = {}
    /\ answer = NoAnswer

Init == ProfileInit /\ ModuleInit

-----------------------------------------------------------------------------
(* The handler.                                                            *)

HasHook(t) == seccomp[t].draco_hook # NULL

\* The handler runs for task t and may follow its hook.
Runs(t) ==
    /\ draco_checker = "handler"
    /\ seccomp[t].mode = "filter"
    /\ HasHook(t) => seccomp[t].draco_hook \in usable
    /\ hash_table.total_call_count < MaxCalls

Count(s) ==
    /\ syscall_number' = syscall_number \cup {s}

\* The metrics every counted call moves before it looks at the hook.
Counted(s) ==
    [hash_table EXCEPT
        !.total_call_count = @ + 1,
        !.total_syscall_count = @ + (IF s \in syscall_number THEN 0 ELSE 1)]

\* The first call of a task: its hook is allocated, attached and listed.
Linked(ht, t) ==
    [ht EXCEPT !.total_process_count = @ + 1,
               !.process_head = <<t>> \o @]

\* (Slip: a task that has a hook is listed again.)
EnteredAgain(t, s) == Linked(Counted(s), t)

Entered(t, s) == IF HasHook(t) THEN Counted(s) ELSE Linked(Counted(s), t)

Attach(t, h) ==
    \/ /\ seccomp[t].draco_hook = h
       /\ UNCHANGED <<seccomp, allocated, usable>>
    \/ /\ ~ HasHook(t)
       /\ h \notin allocated
       /\ \A u \in Task : seccomp[u].draco_hook # h
       /\ seccomp' = [seccomp EXCEPT ![t].draco_hook = h]
       /\ allocated' = allocated \cup {h}
       /\ usable' = usable \cup {h}

\* The per-process block of the call, the call charged to it.
\* (Slip: a new block is not cleared.)
ChargedUncleared(t, h) ==
    [per_process[h] EXCEPT !.per_process_call_count = @ + 1]

Charged(t, h) ==
    LET block == IF HasHook(t) THEN per_process[h] ELSE FreshProcess IN
    [block EXCEPT !.per_process_call_count = @ + 1]

NeedsTable(proc, s) == proc.syscall_table[s] = NULL

\* get_item_from_pool: the table at the cursor, unless the pool is used up.
PoolEmpty == hash_table.cursor = PreAllocated

TableFor(proc, s) ==
    IF NeedsTable(proc, s) THEN hash_table.cursor ELSE proc.syscall_table[s]

\* Slip: the pointer is taken after the cursor has moved.
ProvidedAfterMove(proc, s) ==
    IF NeedsTable(proc, s)
    THEN [proc EXCEPT !.syscall_table[s] = hash_table.cursor + 1,
                      !.per_process_syscall_count = @ + 1]
    ELSE proc

Provided(proc, s) ==
    IF NeedsTable(proc, s)
    THEN [proc EXCEPT !.syscall_table[s] = hash_table.cursor,
                      !.per_process_syscall_count = @ + 1]
    ELSE proc

\* Slip: the cursor does not move.
DrawnUnmoved(ht, proc, s) == ht

Drawn(ht, proc, s) ==
    IF NeedsTable(proc, s) THEN [ht EXCEPT !.cursor = @ + 1] ELSE ht

\* A missed call is charged as an argument set, also when it is dropped.
\* Slip: only the other counters are charged.
ChargeArgumentNowhere(proc) == proc

ChargeArgument(proc) == [proc EXCEPT !.per_process_argument_count = @ + 1]

Reply(h, s, key, hit) ==
    answer' = [entry |-> <<h, s, Padded(key)>>, hit |-> hit]

\* __seccomp_filter_handler: a number outside the tables is not looked up.
HandleOutOfRange(t, s) ==
    /\ Runs(t)
    /\ s \notin Syscall
    /\ answer' = NoAnswer
    /\ UNCHANGED <<seccomp, draco_checker, per_process, allocated, usable,
                   pool, hash_table, syscall_number>>

\* The block of the task cannot be allocated.
HandleProcessFailure(t, s) ==
    /\ Runs(t)
    /\ s \in Syscall
    /\ "process" \in Failing
    /\ ~ HasHook(t)
    /\ Count(s)
    /\ hash_table' = Counted(s)
    /\ answer' = NoAnswer
    /\ UNCHANGED <<seccomp, draco_checker, per_process, allocated, usable, pool>>

\* The list node cannot be allocated: the head already holds its NULL, the
\* nodes behind it are lost, the task keeps its hook.
HandleNodeFailure(t, s, h) ==
    /\ Runs(t)
    /\ s \in Syscall
    /\ "node" \in Failing
    /\ ~ HasHook(t)
    /\ Attach(t, h)
    /\ Count(s)
    /\ per_process' = [per_process EXCEPT ![h] = FreshProcess]
    /\ hash_table' = [Linked(Counted(s), t) EXCEPT !.process_head = << >>]
    /\ answer' = NoAnswer
    /\ UNCHANGED <<draco_checker, pool>>

\* No table is left for this call: it is not looked up.
HandlePoolEmpty(t, s, h, regs) ==
    LET proc == Charged(t, h) IN
    /\ Runs(t)
    /\ s \in Syscall
    /\ Attach(t, h)
    /\ NeedsTable(proc, s) /\ PoolEmpty
    /\ Count(s)
    /\ per_process' = [per_process EXCEPT ![h] = proc]
    /\ hash_table' = Entered(t, s)
    /\ Reply(h, s, ArgumentList(seccomp[t], s, regs), FALSE)
    /\ UNCHANGED <<draco_checker, pool>>

\* What the three complete lookups share: table i, bucket b, way w.
Lookup(t, s, h, key, i, b, w) ==
    LET proc == Charged(t, h) IN
    /\ Runs(t)
    /\ s \in Syscall
    /\ Attach(t, h)
    /\ ~ (NeedsTable(proc, s) /\ PoolEmpty)
    /\ i = TableFor(proc, s)
    /\ b = Hash[key]
    /\ ProbeEnds(pool[i], b, key, w)
    /\ Count(s)

HandleHit(t, s, h, regs, w) ==
    LET key == ArgumentList(seccomp[t], s, regs)
        proc == Charged(t, h)
        i == TableFor(proc, s)
        b == Hash[key]
    IN
    /\ Lookup(t, s, h, key, i, b, w)
    /\ Found(pool[i], b, w)
    /\ per_process' = [per_process EXCEPT ![h] = Provided(proc, s)]
    /\ pool' = [pool EXCEPT ![i].per_syscall_call_count = @ + 1]
    /\ hash_table' = [Drawn(Entered(t, s), proc, s)
                        EXCEPT !.total_hit_count = @ + 1]
    /\ Reply(h, s, key, TRUE)
    /\ UNCHANGED draco_checker

\* The bucket is full of other keys: the call is counted and dropped.
HandleConflict(t, s, h, regs) ==
    LET key == ArgumentList(seccomp[t], s, regs)
        proc == Charged(t, h)
        i == TableFor(proc, s)
        b == Hash[key]
    IN
    /\ Lookup(t, s, h, key, i, b, Asos)
    /\ per_process' = [per_process EXCEPT
            ![h] = [ChargeArgument(Provided(proc, s))
                        EXCEPT !.per_process_conflict_count = @ + 1]]
    /\ pool' = [pool EXCEPT
            ![i].per_syscall_call_count = @ + 1,
            ![i].per_syscall_argument_count = @ + 1,
            ![i].per_syscall_conflict_count = @ + 1]
    /\ hash_table' = [Drawn(Entered(t, s), proc, s)
                        EXCEPT !.total_argument_count = @ + 1,
                               !.total_conflict_count = @ + 1]
    /\ Reply(h, s, key, FALSE)
    /\ UNCHANGED draco_checker

HandleInsert(t, s, h, regs, w) ==
    LET key == ArgumentList(seccomp[t], s, regs)
        proc == Charged(t, h)
        i == TableFor(proc, s)
        b == Hash[key]
    IN
    /\ Lookup(t, s, h, key, i, b, w)
    /\ w < Asos /\ ~ Found(pool[i], b, w)
    /\ per_process' = [per_process EXCEPT ![h] = ChargeArgument(Provided(proc, s))]
    /\ pool' = [pool EXCEPT ![i] =
            [Occupy(pool[i], b, w, key) EXCEPT
                !.per_syscall_call_count = @ + 1,
                !.per_syscall_argument_count = @ + 1]]
    /\ hash_table' = [Drawn(Entered(t, s), proc, s)
                        EXCEPT !.total_argument_count = @ + 1]
    /\ Reply(h, s, key, FALSE)
    /\ UNCHANGED draco_checker

-----------------------------------------------------------------------------
(* insmod and rmmod.                                                       *)

\* The memory of the module, the pool in it, is new and zero at each insmod;
\* init_hash_table clears it once more.
DracoInit ==
    /\ draco_checker = "empty_draco"
    /\ draco_checker' = "handler"
    /\ hash_table' = FreshHashTable
    /\ pool' = [i \in Table |-> BlankTable]
    /\ syscall_number' = {}
    /\ UNCHANGED <<seccomp, per_process, allocated, usable, answer>>

Listed == {hash_table.process_head[i] : i \in DOMAIN hash_table.process_head}

\* free_hash_table walks the list: each listed task loses its hook.  The
\* tables of any other hook go with the memory of the module.
DracoExit ==
    /\ draco_checker = "handler"
    /\ draco_checker' = "empty_draco"
    /\ allocated' = allocated \ {seccomp[t].draco_hook : t \in Listed}
    /\ usable' = {}
    /\ seccomp' = [t \in Task |->
            IF t \in Listed THEN [seccomp[t] EXCEPT !.draco_hook = NULL]
            ELSE seccomp[t]]
    /\ UNCHANGED <<per_process, pool, hash_table, syscall_number, answer>>

-----------------------------------------------------------------------------
Handle(t, s, regs) ==
    \/ HandleOutOfRange(t, s)
    \/ HandleProcessFailure(t, s)
    \/ \E h \in Hook :
          \/ HandleNodeFailure(t, s, h)
          \/ HandlePoolEmpty(t, s, h, regs)
          \/ \E w \in Way : HandleHit(t, s, h, regs, w)
          \/ HandleConflict(t, s, h, regs)
          \/ \E w \in Way : HandleInsert(t, s, h, regs, w)

Profile ==
    /\ ProfileNext
    /\ UNCHANGED <<draco_checker, per_process, allocated, usable, pool,
                   hash_table, syscall_number, answer>>

Next ==
    \/ Profile
    \/ \E t \in Task, s \in Number, regs \in Regs : Handle(t, s, regs)
    \/ DracoInit
    \/ DracoExit

Spec == Init /\ [][Next]_vars

-----------------------------------------------------------------------------
(* Properties.                                                             *)

\* Counters, lists and pointers stay in range; in particular every table
\* pointer a handler takes lies in the pool (get_item_from_pool).
TypeOK ==
    /\ seccomp \in [Task -> Struct]
    /\ draco_checker \in {"empty_draco", "handler"}
    /\ per_process \in [Hook -> PerProcess]
    /\ allocated \in SUBSET Hook
    /\ usable \in SUBSET allocated
    /\ pool \in [Table -> SyscallTable]
    /\ hash_table \in HashTable
    /\ syscall_number \in SUBSET Syscall
    /\ answer \in [entry : Entry \cup {NoEntry}, hit : BOOLEAN]

\* The table hook h has for call s.
TableAt(h, s) == per_process[h].syscall_table[s]

\* No two caches share a table: the tables reached from usable hooks lie
\* below the cursor and are pairwise different, and a table nobody drew yet
\* is blank.  (get_item_from_pool, through forks and reloads of the module.)
PoolOwned ==
    /\ \A h \in usable, s \in Syscall :
          TableAt(h, s) # NULL => TableAt(h, s) < hash_table.cursor
    /\ \A h, g \in usable : \A s, r \in Syscall :
          TableAt(h, s) # NULL /\ TableAt(h, s) = TableAt(g, r) => h = g /\ s = r
    /\ draco_checker = "handler" =>
          \A i \in Table : i >= hash_table.cursor => pool[i] = BlankTable

\* No probe can miss a row that is there: in each bucket the flagged ways
\* come first, hold pairwise different rows, and lie where their hash says.
\* (The key a row was stored under is its first n words, n the length of
\* the keys of the tasks that use the table.)
BucketsSound ==
    \A t \in Task, s \in Syscall :
        LET h == seccomp[t].draco_hook
            n == seccomp[t].argument_count_table[s]
        IN h \in usable /\ TableAt(h, s) # NULL =>
            LET tab == pool[TableAt(h, s)] IN
            /\ \A b \in Bucket : \A v, w \in Way :
                  v < w /\ tab.flag[b][w] = 1 =>
                    tab.flag[b][v] = 1 /\ tab.table[b][v] # tab.table[b][w]
            /\ \A slot \in FlaggedSlots(tab) :
                  LET row == tab.table[slot[1]][slot[2]]
                      key == [i \in 1 .. n |-> row[i]]
                  IN Hash[key] = slot[1] /\ row = Padded(key)

\* free_hash_table frees each hook once: it follows draco_hook of the listed
\* tasks, and no two of them hold the same hook, whatever was forked in
\* between (a child shares its parent's hook and is not listed).  It misses
\* a hook only when a list node could not be allocated.
HooksFreed ==
    draco_checker = "handler" =>
        LET hooks == {seccomp[t].draco_hook : t \in Listed} IN
        /\ hooks \subseteq usable
        /\ Len(hash_table.process_head) = Cardinality(hooks)
        /\ "node" \notin Failing => hooks = usable

\* After rmmod every task is detached from the memory that went with it.
DetachedAfterExit ==
    draco_checker = "empty_draco" => \A t \in Task : ~ HasHook(t)

\* The tables of hook h, and what is counted in the tables and in the blocks.
TablesOf(h) == {TableAt(h, s) : s \in Syscall} \ {NULL}

RowCounts == [i \in Table |-> Cardinality(FlaggedSlots(pool[i]))]
Calls == [i \in Table |-> pool[i].per_syscall_call_count]
Arguments == [i \in Table |-> pool[i].per_syscall_argument_count]
Conflicts == [i \in Table |-> pool[i].per_syscall_conflict_count]
BlockArguments == [h \in Hook |-> per_process[h].per_process_argument_count]

\* The metrics rmmod prints add up: an argument set that was not dropped is
\* a row of a table, the totals are the sums over processes and the sums
\* over their tables, and every looked-up call was a hit or a miss.
MetricsBalance ==
    draco_checker = "handler" =>
    /\ hash_table.total_argument_count - hash_table.total_conflict_count
         = SumFunctionOnSet(RowCounts, Table)
    /\ hash_table.total_argument_count = SumFunctionOnSet(BlockArguments, usable)
    /\ \A h \in usable :
          /\ per_process[h].per_process_argument_count
               = SumFunctionOnSet(Arguments, TablesOf(h))
          /\ per_process[h].per_process_conflict_count
               = SumFunctionOnSet(Conflicts, TablesOf(h))
          /\ per_process[h].per_process_syscall_count = Cardinality(TablesOf(h))
          /\ per_process[h].per_process_call_count
               >= SumFunctionOnSet(Calls, TablesOf(h))
    /\ hash_table.total_hit_count + hash_table.total_argument_count
         = SumFunctionOnSet(Calls, Table)
    /\ hash_table.total_syscall_count = Cardinality(syscall_number)
    /\ hash_table.total_process_count = Cardinality(usable)

\* The calls the usable tables remember.
Remembered ==
    {e \in Entry :
        /\ e[1] \in usable
        /\ TableAt(e[1], e[2]) # NULL
        /\ e[3] \in Rows(pool[TableAt(e[1], e[2])])}

Memo == INSTANCE SyscallMemo WITH memo <- Remembered

\* The module implements the memo: a hit is answered exactly for a key that
\* was asked before under the same process block and number, a miss adds at
\* most that key, and only rmmod forgets.
MemoSpec == Memo!MemoSpec

\* A table never gives up or changes a row while the module is loaded.
RowsStay ==
    [][draco_checker = "handler" /\ draco_checker' = "handler" =>
         \A i \in Table : Rows(pool[i]) \subseteq Rows(pool[i])']_vars

=============================================================================
