------------------------------- MODULE DracoRace --------------------------------
(***************************************************************************)
(* The handler of the Draco kernel module on several processors            *)
(* (kernel_module/draco_module.c): insert_value split where another        *)
(* handler can come in between.  draco_spinlock covers the metrics and     *)
(* nothing else; the pool cursor, the list of tasks, the flags and the     *)
(* rows are read and written without it.                                   *)
(*                                                                         *)
(* What a step changes only for its own handler is joined with the next    *)
(* shared access.  The metrics are reduced to the critical sections they   *)
(* are counted in; total_syscall_count, counted outside of them (351-356), *)
(* is left to DracoModule.  rmmod under a running handler is no step: the  *)
(* handler would go on in code and memory that are gone.                   *)
(*                                                                         *)
(* mishap is a history variable: the kinds of overlap that have happened.  *)
(* Each property names the ones it does not survive.                       *)
(***************************************************************************)
EXTENDS DracoTable, Sequences

CONSTANTS
    PreAllocated,   \* PRE_ALLOCATED_SYSCALL_TABLE_COUNT
    Failing,        \* the kmalloc calls that may fail: "process", "node"
    FreshCalls,     \* bound: calls of tasks that have no block yet
    EarlyCalls,     \* bound: those that start before init_hash_table is done
    SharedCalls     \* bound: calls of tasks that share a block

Table == 0 .. PreAllocated - 1

\* The sections of insert_value under draco_spinlock, in order.
Section == {"total_call", "process", "process_call", "process_syscall",
            "table_call", "hit", "argument", "conflict"}

\* The tables have room for something, and kmalloc has a block for every task.
ASSUME RaceAssumption ==
    /\ PreAllocated \in Nat \ {0}
    /\ 0 \in Syscall
    /\ {FreshCalls, EarlyCalls, SharedCalls} \subseteq Nat
    /\ NULL \notin Nat \cup Task /\ "garbage" \notin Task \cup {NULL}
    /\ IsFiniteSet(Task) /\ IsFiniteSet(Hook) /\ Task # {}
    /\ Cardinality(Task) <= Cardinality(Hook)
    /\ Failing \subseteq {"process", "node"}

VARIABLES
    handler,        \* handler[t]: where task t is in insert_value, its locals
    syscall_table,  \* syscall_table[h][s] of the block at h
    cursor, pool,   \* the pool
    head, node,     \* process_head.next, and the list nodes (one per task)
    draco_spinlock, \* its holder
    cleared,        \* init_hash_table has run
    calls,          \* the calls still to come
    asked,          \* history: the calls whose row a handler went to store
    mishap          \* history: kinds of overlap

vars == <<seccomp, handler, syscall_table, cursor, pool, head, node,
          draco_spinlock, cleared, calls, asked, mishap>>

tables == <<syscall_table, cursor, pool>>
list == <<head, node>>
course == <<cleared, calls>>
history == <<asked, mishap>>

Unlinked == [process |-> NULL, next |-> NULL]
Garbage == [process |-> "garbage", next |-> "garbage"]

Idle == [at |-> "idle", sec |-> "total_call", s |-> 0, key |-> << >>, way |-> 0,
         word |-> 0, bias |-> NULL, temp |-> NULL]

At(t, places) == handler[t].at \in places
Hooked(t) == seccomp[t].draco_hook
Slot(t) == syscall_table[Hooked(t)][handler[t].s]
Note(kind, happened) == mishap' = mishap \cup {k \in {kind} : happened}

\* Handler t goes on at a place, or waits for the lock of a section.
Goto(t, at) == handler' = [handler EXCEPT ![t].at = at]
Lock(t, sec) == handler' = [handler EXCEPT ![t].at = "lock", ![t].sec = sec]
Return(t) == handler' = [handler EXCEPT ![t] = Idle]

-----------------------------------------------------------------------------
\* The number and the registers of the call are picked where they are first
\* looked at (FindTable, OpenTable).
Call(t) ==
    /\ At(t, {"idle"})
    /\ calls > IF cleared THEN 0 ELSE FreshCalls - EarlyCalls
    /\ calls' = calls - 1
    /\ handler' = [handler EXCEPT ![t] = [Idle EXCEPT !.at = "lock"]]
    /\ UNCHANGED <<seccomp, draco_spinlock, cleared, tables, list, history>>

\* Slip: the lock is not taken.
EnterFreely(t) ==
    /\ At(t, {"lock"})
    /\ Goto(t, "in")
    /\ UNCHANGED <<seccomp, draco_spinlock, tables, list, course, history>>

Enter(t) ==
    /\ At(t, {"lock"})
    /\ draco_spinlock = NULL
    /\ draco_spinlock' = t
    /\ Goto(t, "in")
    /\ UNCHANGED <<seccomp, tables, list, history, course>>

\* The sections that count in the table follow the pointer in its slot.
Oops(t) ==
    handler[t].sec \in {"table_call", "argument", "conflict"} /\ Slot(t) = NULL

\* Where handler t goes after the section it is in: a place, or the lock of
\* another section.
Following(t) ==
    LET p == handler[t] IN
    CASE p.sec = "total_call" -> IF Hooked(t) = NULL THEN "process" ELSE "process_call"
      [] p.sec = "process" -> "attach"
      [] p.sec = "process_call" -> "table"
      [] p.sec = "process_syscall" -> "table_call"
      [] p.sec = "table_call" -> "open"
      [] p.sec = "argument" -> IF p.way = Asos THEN "conflict" ELSE "flag"
      [] OTHER -> "idle"

GoOn(t, next) ==
    CASE next = "idle" -> Return(t)
      [] next \in Section -> Lock(t, next)
      [] OTHER -> Goto(t, next)

\* Slip: a hit returns with the lock held.
LeaveHolding(t) ==
    /\ At(t, {"in"})
    /\ draco_spinlock' = IF handler[t].sec = "hit" THEN t ELSE NULL
    /\ GoOn(t, Following(t))
    /\ UNCHANGED <<seccomp, tables, list, course, history>>

Leave(t) ==
    /\ At(t, {"in"})
    /\ ~ Oops(t)
    /\ draco_spinlock' = NULL
    /\ GoOn(t, Following(t))
    /\ UNCHANGED <<seccomp, tables, list, course, history>>

\* The handler dies with the lock held.
Crash(t) ==
    /\ At(t, {"in"})
    /\ Oops(t)
    /\ Goto(t, "wild")
    /\ UNCHANGED <<seccomp, draco_spinlock, tables, list, course, history>>

\* The block of the task cannot be allocated.
LeaveEarly(t) ==
    /\ "process" \in Failing
    /\ At(t, {"in"}) /\ Following(t) = "process"
    /\ draco_spinlock' = NULL
    /\ Return(t)
    /\ UNCHANGED <<seccomp, tables, list, course, history>>

-----------------------------------------------------------------------------
(* The first call of a task.                                               *)

Linking == {"node", "fill"}

\* Any block nobody has: which one makes no difference.
FreeHook == CHOOSE h \in Hook : \A u \in Task : Hooked(u) # h

\* The block is attached, the old head read.
Attach(t) ==
    /\ At(t, {"attach"})
    /\ seccomp' = [seccomp EXCEPT ![t].draco_hook = FreeHook]
    /\ handler' = [handler EXCEPT ![t].at = "node", ![t].temp = head]
    /\ Note("link", \E u \in Task : At(u, Linking))
    /\ UNCHANGED <<draco_spinlock, asked, tables, list, course>>

\* The node goes straight into the head, with whatever it contains.
AllocateNode(t) ==
    /\ At(t, {"node"})
    /\ head' = t
    /\ node' = [node EXCEPT ![t] = Garbage]
    /\ Goto(t, "fill")
    /\ UNCHANGED <<seccomp, draco_spinlock, tables, history, course>>

\* No node: the head holds NULL, the lock is released once more.
LoseList(t) ==
    /\ At(t, {"node"})
    /\ "node" \in Failing
    /\ head' = NULL
    /\ draco_spinlock' = NULL
    /\ Return(t)
    /\ mishap' = mishap \cup {"node"}
                   \cup {k \in {"unlock"} : draco_spinlock # NULL}
    /\ UNCHANGED <<seccomp, node, asked, tables, course>>

\* The node is filled in through the head: the build may keep the pointer
\* kmalloc returned, or read the head again.
\* Slip: the old head is not linked behind the new node.
FillNodeAlone(t) ==
    /\ At(t, {"fill"})
    /\ node' = [node EXCEPT ![t] = [process |-> t, next |-> NULL]]
    /\ Goto(t, "unlock")
    /\ UNCHANGED <<seccomp, head, draco_spinlock, tables, course, history>>

FillNode(t) ==
    /\ At(t, {"fill"})
    /\ \E n, m \in {t, head} :
          IF NULL \in {n, m} THEN Goto(t, "wild") /\ UNCHANGED node
          ELSE /\ Goto(t, "unlock")
               /\ node' = [node EXCEPT ![n].process = t,
                                       ![m].next = handler[t].temp]
    /\ UNCHANGED <<seccomp, head, draco_spinlock, tables, course, history>>

\* The lock was released before the hook was set (METRICS_DRACO): this
\* release may be of a lock another handler holds.
SecondUnlock(t) ==
    /\ At(t, {"unlock"})
    /\ draco_spinlock' = NULL
    /\ Lock(t, "process_call")
    /\ Note("unlock", draco_spinlock # NULL)
    /\ UNCHANGED <<seccomp, asked, tables, list, course>>

-----------------------------------------------------------------------------
(* The table of the call: get_item_from_pool.                              *)

FindTable(t, s) ==
    /\ At(t, {"table"})
    /\ handler' = [handler EXCEPT ![t] =
            IF syscall_table[Hooked(t)][s] = NULL
            THEN [@ EXCEPT !.s = s, !.at = "cursor"]
            ELSE [@ EXCEPT !.s = s, !.at = "lock", !.sec = "table_call"]]
    /\ UNCHANGED <<seccomp, draco_spinlock, tables, list, history, course>>

Drawing == {"cursor", "move", "store"}

\* Slip: the limit is not tested.
ReadCursorUnchecked(t) ==
    /\ At(t, {"cursor"})
    /\ handler' = [handler EXCEPT ![t].at = "move", ![t].bias = cursor]
    /\ UNCHANGED <<seccomp, draco_spinlock, tables, list, course, history>>

ReadCursor(t) ==
    /\ At(t, {"cursor"})
    /\ handler' = [handler EXCEPT
            ![t].at = IF cursor = PreAllocated THEN "store" ELSE "move",
            ![t].bias = IF cursor = PreAllocated THEN NULL ELSE cursor]
    /\ Note("draw", Slot(t) # NULL \/ \E u \in Task \ {t} : At(u, Drawing))
    /\ UNCHANGED <<seccomp, draco_spinlock, asked, tables, list, course>>

\* Slip: the cursor stays.
MoveCursorNot(t) ==
    /\ At(t, {"move"})
    /\ Goto(t, "store")
    /\ UNCHANGED <<seccomp, draco_spinlock, tables, list, course, history>>

\* ++(p->cursor), from the value read before or from memory.
MoveCursor(t) ==
    /\ At(t, {"move"})
    /\ cursor' \in {handler[t].bias + 1, cursor + 1}
    /\ Goto(t, "store")
    /\ UNCHANGED <<seccomp, syscall_table, pool, draco_spinlock, list, history, course>>

\* A cursor that jumped over the limit hands out memory behind the pool.
StoreTable(t) ==
    LET i == handler[t].bias IN
    /\ At(t, {"store"})
    /\ IF i \in Table \cup {NULL}
       THEN syscall_table' = [syscall_table EXCEPT ![Hooked(t)][handler[t].s] = i]
       ELSE UNCHANGED syscall_table
    /\ CASE i = NULL -> Return(t)
         [] i \in Table -> Lock(t, "process_syscall")
         [] OTHER -> Goto(t, "wild")
    /\ UNCHANGED <<seccomp, cursor, pool, draco_spinlock, list, history, course>>

-----------------------------------------------------------------------------
(* The lookup.                                                             *)

\* tb and flag are taken from the slot once, the key from the registers.
OpenTable(t, regs) ==
    /\ At(t, {"open"})
    /\ handler' = [handler EXCEPT
            ![t].at = IF Slot(t) = NULL THEN "wild" ELSE "probe",
            ![t].bias = Slot(t),
            ![t].key = ArgumentList(seccomp[t], handler[t].s, regs)]
    /\ UNCHANGED <<seccomp, draco_spinlock, tables, list, history, course>>

BucketOf(t) == Hash[handler[t].key]
Free(t) == pool[handler[t].bias].flag[BucketOf(t)][handler[t].way] = 0

\* Handler t has found its way free and has not stored all of its row yet.
Storing(t) ==
    /\ handler[t].way < Asos
    /\ At(t, {"flag", "copy"}) \/ (At(t, {"lock", "in"}) /\ handler[t].sec = "argument")

SameWay(t, u) ==
    /\ handler[t].bias = handler[u].bias
    /\ BucketOf(t) = BucketOf(u)
    /\ handler[t].way = handler[u].way

EntryOf(t) == <<Hooked(t), handler[t].s, Padded(handler[t].key)>>

\* Slip: a taken way is a hit, whatever row it holds.
ProbeLax(t) ==
    /\ At(t, {"probe"})
    /\ IF Free(t) THEN Lock(t, "argument") /\ asked' = asked \cup {EntryOf(t)}
       ELSE Lock(t, "hit") /\ UNCHANGED asked
    /\ UNCHANGED <<seccomp, draco_spinlock, mishap, tables, list, course>>

\* One round of the loop, and what follows its end.
Probe(t) ==
    LET p == handler[t] IN
    /\ At(t, {"probe"})
    /\ IF p.way = Asos \/ Free(t)
       THEN /\ Lock(t, "argument")
            /\ asked' = IF p.way = Asos THEN asked ELSE asked \cup {EntryOf(t)}
       ELSE /\ IF Matches(pool[p.bias].table[BucketOf(t)][p.way], p.key)
               THEN Lock(t, "hit")
               ELSE handler' = [handler EXCEPT ![t].way = @ + 1]
            /\ UNCHANGED asked
    /\ Note("row", \E u \in Task \ {t} : Storing(u) /\ SameWay(t, u))
    /\ UNCHANGED <<seccomp, draco_spinlock, tables, list, course>>

\* Slip: the way behind the free one is flagged.
SetFlagNext(t) ==
    /\ At(t, {"flag"})
    /\ pool' = [pool EXCEPT ![handler[t].bias].flag[BucketOf(t)] =
                    [w \in Way |-> IF w = (handler[t].way + 1) % Asos THEN 1 ELSE @[w]]]
    /\ IF handler[t].key = << >> THEN Return(t)
       ELSE handler' = [handler EXCEPT ![t].at = "copy", ![t].word = 1]
    /\ UNCHANGED <<seccomp, syscall_table, cursor, draco_spinlock, list, history, course>>

SetFlag(t) ==
    /\ At(t, {"flag"})
    /\ pool' = [pool EXCEPT
            ![handler[t].bias].flag[BucketOf(t)][handler[t].way] = 1]
    /\ IF handler[t].key = << >> THEN Return(t)
       ELSE handler' = [handler EXCEPT ![t].at = "copy", ![t].word = 1]
    /\ UNCHANGED <<seccomp, syscall_table, cursor, draco_spinlock, list, history, course>>

\* memcpy, a word at a time.
CopyWord(t) ==
    LET p == handler[t] IN
    /\ At(t, {"copy"})
    /\ pool' = [pool EXCEPT
            ![p.bias].table[BucketOf(t)][p.way][p.word] = p.key[p.word]]
    /\ IF p.word = Len(p.key) THEN Return(t)
       ELSE handler' = [handler EXCEPT ![t].word = @ + 1]
    /\ UNCHANGED <<seccomp, syscall_table, cursor, draco_spinlock, list, history, course>>

-----------------------------------------------------------------------------
\* init_hash_table: draco_init has published the handler before.
Clear ==
    /\ ~ cleared
    /\ cleared' = TRUE
    /\ pool' = [i \in Table |-> BlankTable]
    /\ cursor' = 0
    /\ head' = NULL
    /\ Note("clear", calls < FreshCalls)
    /\ UNCHANGED <<seccomp, handler, syscall_table, node, draco_spinlock, calls, asked>>

Step(t) ==
    \/ Leave(t) \/ Crash(t) \/ LeaveEarly(t) \/ Attach(t)
    \/ AllocateNode(t) \/ LoseList(t) \/ FillNode(t)
    \/ SecondUnlock(t) \/ (\E s \in Syscall : FindTable(t, s)) \/ ReadCursor(t) \/ MoveCursor(t)
    \/ StoreTable(t) \/ (\E regs \in Regs : OpenTable(t, regs)) \/ Probe(t) \/ SetFlag(t) \/ CopyWord(t)

Next ==
    \/ Clear
    \/ \E t \in Task :
          \/ Call(t)
          \/ Enter(t)
          \/ Step(t)

\* A task whose filter looks at the registers of mask for every call.
Filtered(mask) ==
    LoadSeccomp([CleanStruct EXCEPT
                    !.mode = "filter",
                    !.draco_count = SyscallCount,
                    !.bit_map = [s \in Syscall |-> s],
                    !.fill = [s \in Syscall |-> 1],
                    !.arg_position = [s \in Syscall |-> mask]])

\* The module was just published and nobody has called it.
FreshInit(mask) ==
    /\ seccomp = [t \in Task |-> Filtered(mask)]
    /\ syscall_table = [h \in Hook |-> [s \in Syscall |-> NULL]]
    /\ cursor = 0
    /\ pool = [i \in Table |-> BlankTable]
    /\ head = NULL /\ node = [t \in Task |-> Unlinked]
    /\ cleared \in BOOLEAN
    /\ asked = {}
    /\ calls = FreshCalls

\* Task t made a call and was forked: all share its block.  The call was of
\* number 0, or of one that is not looked at any more; then only the rest of
\* the pool is.
SharedInit(mask) ==
    LET t == CHOOSE u \in Task : TRUE
        h == CHOOSE g \in Hook : TRUE
    IN \E regs \in Regs, drawn \in {0, 1} :
      LET key == ArgumentList(Filtered(mask), 0, regs) IN
      /\ seccomp = [u \in Task |-> [Filtered(mask) EXCEPT !.draco_hook = h]]
      /\ syscall_table = [g \in Hook |-> [s \in Syscall |->
                            IF <<g, s, drawn>> = <<h, 0, 1>> THEN 0 ELSE NULL]]
      /\ cursor = drawn
      /\ pool = [i \in Table |-> IF i < drawn THEN Occupy(BlankTable, Hash[key], 0, key)
                                 ELSE BlankTable]
      /\ head = t
      /\ node = [u \in Task |-> IF u = t THEN [process |-> t, next |-> NULL]
                                ELSE Unlinked]
      /\ cleared = TRUE
      /\ asked = {<<h, 0, Padded(key)>> : i \in 1 .. drawn}
      /\ calls = SharedCalls

Init ==
    /\ FreshInit({}) \/ SharedInit(ArgBit)
    /\ handler = [t \in Task |-> Idle]
    /\ draco_spinlock = NULL
    /\ mishap = {}

\* A processor goes on.  Calls are bounded, so a handler that waits for the
\* lock is not overtaken forever and weak fairness is enough; without the
\* bound the order in which a queued spinlock is granted would be needed.
Fairness == \A t \in Task : WF_vars(Enter(t) \/ Step(t))

Spec == Init /\ [][Next]_vars /\ Fairness

-----------------------------------------------------------------------------
(* Properties.                                                             *)

Survives(kinds) == mishap \cap kinds = {}

\* Two handlers are in a critical section at once only after the second
\* spin_unlock of an attaching task released the lock of another handler.
SectionsExclusive ==
    Survives({"unlock"}) =>
        \A t, u \in Task : At(t, {"in"}) /\ At(u, {"in"}) => t = u

\* No handler leaves the pool or follows a NULL slot or head, unless two
\* handlers drew a table at once (get_item_from_pool, the slot it fills), two
\* linked a node at once, or a handler ran before init_hash_table.
NothingWild ==
    Survives({"draw", "link", "clear"}) => \A t \in Task : ~ At(t, {"wild"})

\* Two slots never hold one table, unless two draws overlapped or the
\* cursor was reset under a handler.
TablesApart ==
    Survives({"draw", "clear"}) =>
        \A h, g \in Hook, s, r \in Syscall :
            syscall_table[h][s] # NULL /\ syscall_table[h][s] = syscall_table[g][r]
                => h = g /\ s = r

\* The flagged ways of a bucket come first, so no probe ends before a row
\* that is there: under any overlap of handlers, also of ones that share a
\* table they should not, but not when tables are cleared under a handler.
FlagsPrefix ==
    Survives({"clear"}) =>
        \A i \in Table, b \in Bucket : \A w \in Way, v \in Way :
            v < w /\ pool[i].flag[b][w] = 1 => pool[i].flag[b][v] = 1

\* The nodes rmmod's walk meets from the first one on: those in every set that
\* holds the first node and goes on to the next.
Pointer == Task \cup {NULL, "garbage"}
Closed(nodes) == \A n \in nodes \cap Task : node[n].next \in nodes
Met(first) ==
    {n \in Pointer : \A nodes \in SUBSET Pointer :
        first \in nodes /\ Closed(nodes) => n \in nodes}

\* Whenever nobody is linking, rmmod's walk meets every task that attached
\* itself and no half-made node, unless two attachments overlapped (the old
\* head is read before a kmalloc that sleeps), a node could not be had, or
\* the list was cleared late.
ListComplete ==
    Survives({"link", "node", "clear"}) /\ (\A t \in Task : ~ At(t, Linking)) =>
        /\ \A t \in Task : node[t] # Unlinked =>
              t \in Met(head) /\ node[t].process = t
        /\ "garbage" \notin Met(head)

\* A hit is for a call some handler went to store before for the same block
\* and number, unless a row was read or written while another handler was
\* storing it, or a table had two owners.
HitsHonest ==
    Survives({"row", "draw", "clear"}) =>
        \A t \in Task : ~ At(t, {"idle"}) /\ handler[t].sec = "hit" =>
            EntryOf(t) \in asked

\* A row that is half written, or written by two handlers, answers for no
\* word that was not zero or asked for in that place before.
HitsWordwise ==
    \A t \in Task : ~ At(t, {"idle"}) /\ handler[t].sec = "hit" =>
        \A p \in DOMAIN handler[t].key :
            handler[t].key[p] \in {0} \cup {e[3][p] : e \in asked}

\* Every call returns, whatever overlaps, unless some handler went wild: a
\* lock released twice is never lost.
CallsReturn ==
    \A t \in Task :
        ~ At(t, {"idle"}) ~> (At(t, {"idle"}) \/ \E u \in Task : At(u, {"wild"}))

=============================================================================
