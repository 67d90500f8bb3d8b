---------------------------- MODULE DracoModuleProofs ---------------------------
(***************************************************************************)
(* Proofs about DracoModule, for any number of tasks, hooks, system calls, *)
(* buckets, ways and tables and any hash function.                         *)
(*                                                                         *)
(* The three complete lookups (hit, conflict, insert) do the same to       *)
(* everything but one table and the answer.  That common part is LookedUp; *)
(* each invariant is shown once for it and for the paths that end early.   *)
(***************************************************************************)
EXTENDS DracoModule, DracoProfileProofs, SequenceTheorems

LEMMA Constants ==
  /\ NULL \notin Hook
  /\ NULL \notin Table
  /\ PreAllocated \in Nat
  /\ 0 \in 0 .. PreAllocated
  /\ SyscallCount \in Nat
BY ProfileAssumption, ModuleAssumption

-----------------------------------------------------------------------------
(* The totals and the list.                                                *)

LEMMA CountedType ==
  ASSUME hash_table \in HashTable, NEW s
  PROVE  /\ Counted(s) \in HashTable
         /\ Counted(s).cursor = hash_table.cursor
         /\ Counted(s).process_head = hash_table.process_head
<1> DEFINE calls == hash_table.total_call_count + 1
           numbers == hash_table.total_syscall_count
                        + (IF s \in syscall_number THEN 0 ELSE 1)
<1>1. calls \in Nat /\ numbers \in Nat
  BY DEF HashTable
<1>2. Counted(s) = [hash_table EXCEPT !.total_call_count = calls,
                                      !.total_syscall_count = numbers]
  BY DEF Counted, HashTable
<1> HIDE DEF calls, numbers
<1> QED
  BY <1>1, <1>2 DEF HashTable

LEMMA LinkedType ==
  ASSUME NEW ht \in HashTable, NEW t \in Task
  PROVE  /\ Linked(ht, t) \in HashTable
         /\ Linked(ht, t).cursor = ht.cursor
         /\ Linked(ht, t).process_head = <<t>> \o ht.process_head
<1> DEFINE head == <<t>> \o ht.process_head
           count == ht.total_process_count + 1
<1>1. ht.process_head \in Seq(Task) /\ ht.total_process_count \in Nat
  BY DEF HashTable
<1>2. head \in Seq(Task) /\ count \in Nat
  <2>1. <<t>> \in Seq(Task)
    OBVIOUS
  <2> QED
    BY <1>1, <2>1, ConcatProperties
<1>3. Linked(ht, t) = [ht EXCEPT !.total_process_count = count, !.process_head = head]
  BY DEF Linked, HashTable
<1> HIDE DEF head, count
<1>4. /\ Linked(ht, t) \in HashTable
      /\ Linked(ht, t).cursor = ht.cursor
      /\ Linked(ht, t).process_head = head
  BY <1>2, <1>3 DEF HashTable
<1> QED
  BY <1>4 DEF head

LEMMA EnteredType ==
  ASSUME hash_table \in HashTable, NEW t \in Task, NEW s
  PROVE  /\ Entered(t, s) \in HashTable
         /\ Entered(t, s).cursor = hash_table.cursor
         /\ Entered(t, s).process_head =
              IF HasHook(t) THEN hash_table.process_head
              ELSE <<t>> \o hash_table.process_head
<1>1. /\ Counted(s) \in HashTable
      /\ Counted(s).cursor = hash_table.cursor
      /\ Counted(s).process_head = hash_table.process_head
  BY CountedType
<1>2. CASE HasHook(t)
  BY <1>1, <1>2 DEF Entered
<1>3. CASE ~ HasHook(t)
  <2>1. Entered(t, s) = Linked(Counted(s), t)
    BY <1>3 DEF Entered
  <2> QED
    BY <1>1, <1>3, <2>1, LinkedType
<1> QED
  BY <1>2, <1>3

LEMMA DrawnType ==
  ASSUME hash_table \in HashTable, NEW ht \in HashTable,
         ht.cursor = hash_table.cursor, NEW proc, NEW s,
         ~ (NeedsTable(proc, s) /\ PoolEmpty)
  PROVE  /\ Drawn(ht, proc, s) \in HashTable
         /\ Drawn(ht, proc, s).process_head = ht.process_head
         /\ Drawn(ht, proc, s).cursor =
              IF NeedsTable(proc, s) THEN hash_table.cursor + 1 ELSE hash_table.cursor
<1>1. ht.cursor \in 0 .. PreAllocated
  BY DEF HashTable
<1>2. NeedsTable(proc, s) => ht.cursor + 1 \in 0 .. PreAllocated
  BY <1>1, Constants DEF PoolEmpty
<1> QED
  BY <1>1, <1>2 DEF Drawn, HashTable

-----------------------------------------------------------------------------
(* The block of a task.                                                    *)

LEMMA FreshProcessType ==
  /\ FreshProcess \in PerProcess
  /\ \A s \in Syscall : FreshProcess.syscall_table[s] = NULL
BY DEF FreshProcess, PerProcess

LEMMA ChargedType ==
  ASSUME per_process \in [Hook -> PerProcess], NEW t \in Task, NEW h \in Hook
  PROVE  /\ Charged(t, h) \in PerProcess
         /\ \A s \in Syscall : Charged(t, h).syscall_table[s] =
              IF HasHook(t) THEN TableAt(h, s) ELSE NULL
<1> DEFINE block == IF HasHook(t) THEN per_process[h] ELSE FreshProcess
<1>1. block \in PerProcess
  BY FreshProcessType
<1>2. Charged(t, h) = [block EXCEPT !.per_process_call_count = @ + 1]
  BY DEF Charged
<1>3. \A s \in Syscall : block.syscall_table[s] = IF HasHook(t) THEN TableAt(h, s) ELSE NULL
  BY FreshProcessType DEF TableAt
<1> HIDE DEF block
<1> QED
  BY <1>1, <1>2, <1>3 DEF PerProcess

\* The table a lookup uses: the one of its slot or the one at the cursor.
LEMMA TableForType ==
  ASSUME hash_table \in HashTable, NEW proc \in PerProcess, NEW s \in Syscall,
         ~ (NeedsTable(proc, s) /\ PoolEmpty)
  PROVE  TableFor(proc, s) \in Table
<1>1. hash_table.cursor \in 0 .. PreAllocated
  BY DEF HashTable
<1>2. CASE NeedsTable(proc, s)
  BY <1>1, <1>2, Constants DEF TableFor, PoolEmpty, Table
<1>3. CASE ~ NeedsTable(proc, s)
  BY <1>3 DEF TableFor, NeedsTable, PerProcess
<1> QED
  BY <1>2, <1>3

LEMMA ProvidedType ==
  ASSUME hash_table \in HashTable, NEW proc \in PerProcess, NEW s \in Syscall,
         ~ (NeedsTable(proc, s) /\ PoolEmpty)
  PROVE  /\ Provided(proc, s) \in PerProcess
         /\ Provided(proc, s).syscall_table =
              [proc.syscall_table EXCEPT ![s] = TableFor(proc, s)]
<1> DEFINE slots == [proc.syscall_table EXCEPT ![s] = TableFor(proc, s)]
<1>1. proc.syscall_table \in [Syscall -> Table \cup {NULL}]
  BY DEF PerProcess
<1>2. slots \in [Syscall -> Table \cup {NULL}]
  BY <1>1, TableForType
<1>3. CASE NeedsTable(proc, s)
  <2>1. slots = [proc.syscall_table EXCEPT ![s] = hash_table.cursor]
    BY <1>3 DEF TableFor
  <2> DEFINE count == proc.per_process_syscall_count + 1
  <2>2. Provided(proc, s) = [proc EXCEPT !.syscall_table = slots,
                                         !.per_process_syscall_count = count]
    BY <1>3, <2>1 DEF Provided, PerProcess
  <2>count. count \in Nat
    BY DEF PerProcess
  <2> HIDE DEF slots, count
  <2>3. [proc EXCEPT !.syscall_table = slots, !.per_process_syscall_count = count]
          \in PerProcess
    BY <1>2, <2>count DEF PerProcess
  <2>4. Provided(proc, s).syscall_table = slots
    BY <2>2 DEF PerProcess
  <2>5. Provided(proc, s) \in PerProcess
    BY <2>2, <2>3
  <2> QED
    BY <2>4, <2>5 DEF slots
<1>4. CASE ~ NeedsTable(proc, s)
  <2>1. TableFor(proc, s) = proc.syscall_table[s]
    BY <1>4 DEF TableFor
  <2>2. slots = proc.syscall_table
    BY <1>1, <2>1
  <2> QED
    BY <1>4, <2>2 DEF Provided
<1> QED
  BY <1>3, <1>4

LEMMA ChargeArgumentType ==
  ASSUME NEW proc \in PerProcess
  PROVE  /\ ChargeArgument(proc) \in PerProcess
         /\ ChargeArgument(proc).syscall_table = proc.syscall_table
BY DEF ChargeArgument, PerProcess

-----------------------------------------------------------------------------
(* The structures of the tasks.                                            *)

\* Two structures that differ in mode and hook only.
SameProfile(sec, new) ==
    /\ new.draco_count = sec.draco_count
    /\ new.bit_map = sec.bit_map
    /\ new.fill = sec.fill
    /\ new.arg_position = sec.arg_position
    /\ new.sys2arguments = sec.sys2arguments
    /\ new.argument_count_table = sec.argument_count_table

LEMMA SameProfileSound ==
  ASSUME NEW sec, Sound(sec), NEW new \in Struct, SameProfile(sec, new)
  PROVE  Sound(new)
<1>1. Enumerates(sec) /\ Profiled(sec)
  BY DEF Sound
<1>2. BitMapped(new) = BitMapped(sec)
  BY DEF BitMapped, SameProfile
<1>3. \A i, j \in 0 .. new.draco_count - 1 : new.bit_map[i] = new.bit_map[j] => i = j
  BY <1>1 DEF Enumerates, SameProfile
<1>4. BitMapped(new) = {s \in Syscall : new.fill[s] = 1}
  BY <1>1, <1>2 DEF Enumerates, SameProfile
<1>5. \A s \in Syscall : new.arg_position[s] # {} => new.fill[s] = 1
  BY <1>1 DEF Enumerates, SameProfile
<1>6. Enumerates(new)
  BY <1>3, <1>4, <1>5 DEF Enumerates
<1>7. Profiled(new)
  BY <1>1 DEF Profiled, SameProfile
<1> QED
  BY <1>6, <1>7 DEF Sound

LEMMA SetHook ==
  ASSUME NEW sec \in Struct, NEW h \in Hook \cup {NULL}
  PROVE  LET new == [sec EXCEPT !.draco_hook = h] IN
         /\ new \in Struct
         /\ new.draco_hook = h
         /\ new.mode = sec.mode
         /\ SameProfile(sec, new)
BY DEF Struct, SameProfile

\* What a handler does to the hooks.
Hooked(t, h) ==
    /\ seccomp'[t].draco_hook = h
    /\ seccomp'[t].mode = seccomp[t].mode
    /\ SameProfile(seccomp[t], seccomp'[t])
    /\ \A u \in Task : u # t => seccomp'[u] = seccomp[u]
    /\ h \in usable'
    /\ usable' \subseteq allocated'
    /\ allocated' \subseteq Hook
    /\ IF HasHook(t)
       THEN /\ seccomp[t].draco_hook = h
            /\ usable' = usable
       ELSE /\ h \notin usable
            /\ usable' = usable \cup {h}
            /\ \A u \in Task : seccomp[u].draco_hook # h

LEMMA AttachHooks ==
  ASSUME AllSound, allocated \in SUBSET Hook, usable \in SUBSET allocated,
         NEW t \in Task, NEW h \in Hook, Runs(t), Attach(t, h)
  PROVE  Hooked(t, h) /\ AllSound'
<1>1. seccomp \in [Task -> Struct] /\ Sound(seccomp[t])
  BY DEF AllSound
<1>2. CASE seccomp[t].draco_hook = h /\ UNCHANGED <<seccomp, allocated, usable>>
  <2>1. HasHook(t) /\ h \in usable
    BY <1>2, Constants DEF HasHook, Runs
  <2>2. Hooked(t, h)
    BY <1>2, <2>1 DEF Hooked, SameProfile
  <2>3. AllSound'
    BY <1>2 DEF AllSound
  <2> QED
    BY <2>2, <2>3
<1>3. CASE ~ (seccomp[t].draco_hook = h /\ UNCHANGED <<seccomp, allocated, usable>>)
  <2> DEFINE new == [seccomp[t] EXCEPT !.draco_hook = h]
  <2>1. /\ ~ HasHook(t)
        /\ h \notin allocated
        /\ \A u \in Task : seccomp[u].draco_hook # h
        /\ seccomp' = [seccomp EXCEPT ![t] = new]
        /\ allocated' = allocated \cup {h}
        /\ usable' = usable \cup {h}
    BY <1>3 DEF Attach
  <2>2. /\ new \in Struct
        /\ new.draco_hook = h
        /\ new.mode = seccomp[t].mode
        /\ SameProfile(seccomp[t], new)
    BY <1>1, SetHook
  <2> HIDE DEF new
  <2>3. \A u \in Task : seccomp'[u] = IF u = t THEN new ELSE seccomp[u]
    BY <1>1, <2>1
  <2>4. Hooked(t, h)
    BY <2>1, <2>2, <2>3 DEF Hooked
  <2>5. Sound(new)
    BY <1>1, <2>2, SameProfileSound
  <2>6. AllSound'
    BY <2>1, <2>5, UpdateSound
  <2> QED
    BY <2>4, <2>6
<1> QED
  BY <1>2, <1>3

\* What every other change of the structures does: a task keeps its hook, and
\* all of its structure when it is filtered and profiles are built only once;
\* or it had none and becomes a copy.
Kept(u) ==
    /\ seccomp'[u].draco_hook = seccomp[u].draco_hook
    /\ seccomp[u].mode = "filter" => seccomp'[u].mode = "filter"
    /\ seccomp[u].mode = "filter" /\ ~ MayReload => seccomp'[u] = seccomp[u]

Copied(u) ==
    /\ MayFork
    /\ ~ HasHook(u)
    /\ \E t \in Task : seccomp'[u] = seccomp[t] /\ seccomp'[t] = seccomp[t]

ProfilesChange == AllSound' /\ \A u \in Task : Kept(u) \/ Copied(u)

LEMMA AddKeepsHook ==
  ASSUME NEW sec \in Struct, NEW s \in Syscall, NEW mask
  PROVE  /\ AddSeccomp(sec, s, mask).draco_hook = sec.draco_hook
         /\ AddSeccomp(sec, s, mask).mode = sec.mode
BY DEF AddSeccomp, FillSlot, Struct

\* A change of one structure that keeps hook and mode.
LEMMA OneProfileChanges ==
  ASSUME AllSound, AllSound', NEW t \in Task, NEW sec,
         seccomp' = [seccomp EXCEPT ![t] = sec],
         sec.draco_hook = seccomp[t].draco_hook,
         seccomp[t].mode = "filter" => sec.mode = "filter" /\ MayReload
  PROVE  ProfilesChange
<1>1. \A u \in Task : seccomp'[u] = IF u = t THEN sec ELSE seccomp[u]
  BY DEF AllSound
<1>2. \A u \in Task : Kept(u)
  BY <1>1 DEF Kept
<1> QED
  BY <1>2 DEF ProfilesChange

LEMMA ForkChanges ==
  ASSUME AllSound, AllSound', NEW t \in Task, NEW u \in Task, Fork(t, u)
  PROVE  ProfilesChange
<1>1. \A v \in Task : seccomp'[v] = IF v = u THEN seccomp[t] ELSE seccomp[v]
  BY DEF AllSound, Fork
<1>2. ~ HasHook(u) /\ MayFork
  BY DEF Fork, HasHook, CleanStruct
<1>3. \A v \in Task \ {u} : Kept(v)
  BY <1>1 DEF Kept
<1>4. seccomp'[t] = seccomp[t] /\ seccomp'[u] = seccomp[t]
  BY <1>1
<1> QED
  BY <1>2, <1>3, <1>4 DEF ProfilesChange, Copied

LEMMA ProfileNextChanges ==
  ASSUME AllSound, ProfileNext
  PROVE  ProfilesChange
<1>1. AllSound'
  BY NextSound
<1>2. ASSUME NEW t \in Task, NEW s \in Number, NEW mask \in Mask,
             PrctlAdd(t, s, mask)
      PROVE  ProfilesChange
  <2>1. /\ seccomp[t] \in Struct
        /\ s \in Syscall
        /\ seccomp' = [seccomp EXCEPT ![t] = AddSeccomp(seccomp[t], s, mask)]
        /\ MayPrctl(t)
    BY <1>2 DEF PrctlAdd, AllSound
  <2>2. AddSeccomp(seccomp[t], s, mask).draco_hook = seccomp[t].draco_hook
        /\ AddSeccomp(seccomp[t], s, mask).mode = seccomp[t].mode
    BY <2>1, AddKeepsHook
  <2> QED
    BY <1>1, <2>1, <2>2, OneProfileChanges DEF MayPrctl
<1>3. ASSUME NEW t \in Task, NEW s \in Number, PrctlAddRefused(t, s)
      PROVE  ProfilesChange
  BY <1>1, <1>3 DEF PrctlAddRefused, ProfilesChange, Kept
<1>4. ASSUME NEW t \in Task, PrctlLoad(t)
      PROVE  ProfilesChange
  <2>1. /\ seccomp[t] \in Struct
        /\ seccomp' = [seccomp EXCEPT ![t] = LoadSeccomp(seccomp[t])]
        /\ MayPrctl(t)
    BY <1>4 DEF PrctlLoad, AllSound
  <2>2. LoadSeccomp(seccomp[t]).draco_hook = seccomp[t].draco_hook
        /\ LoadSeccomp(seccomp[t]).mode = seccomp[t].mode
    BY <2>1, LoadFields
  <2> QED
    BY <1>1, <2>1, <2>2, OneProfileChanges DEF MayPrctl
<1>5. ASSUME NEW t \in Task, SetModeFilter(t)
      PROVE  ProfilesChange
  <2>1. /\ seccomp[t] \in Struct
        /\ seccomp[t].mode = "disabled"
        /\ seccomp' = [seccomp EXCEPT ![t] = [seccomp[t] EXCEPT !.mode = "filter"]]
    BY <1>5 DEF SetModeFilter, AllSound
  <2>2. [seccomp[t] EXCEPT !.mode = "filter"].draco_hook = seccomp[t].draco_hook
    BY <2>1 DEF Struct
  <2> QED
    BY <1>1, <2>1, <2>2, OneProfileChanges
<1>6. ASSUME NEW t \in Task, NEW u \in Task, Fork(t, u)
      PROVE  ProfilesChange
  BY <1>1, <1>6, ForkChanges
<1> QED
  BY <1>2, <1>3, <1>4, <1>5, <1>6 DEF ProfileNext

-----------------------------------------------------------------------------
(* What a call of the handler does.                                        *)

\* The totals after a call that reached the hook.
ListGrows(t) ==
    hash_table'.process_head =
        IF HasHook(t) THEN hash_table.process_head
        ELSE <<t>> \o hash_table.process_head

\* The part all paths share that reach the hook.
Served(t, s, h) ==
    /\ draco_checker = "handler" /\ UNCHANGED draco_checker
    /\ seccomp[t].mode = "filter"
    /\ HasHook(t) => seccomp[t].draco_hook \in usable
    /\ s \in Syscall
    /\ Hooked(t, h)
    /\ AllSound'
    /\ per_process' \in [Hook -> PerProcess]
    /\ pool' \in [Table -> SyscallTable]
    /\ hash_table' \in HashTable
    /\ syscall_number' = syscall_number \cup {s}

\* Slot s of the block of hook h leads to table i; a new block is cleared.
SlotFilled(t, s, h, i) ==
    \A g \in Hook, r \in Syscall :
        TableAt(g, r)' =
            IF g # h THEN TableAt(g, r)
            ELSE IF r = s THEN i
            ELSE IF HasHook(t) THEN TableAt(h, r) ELSE NULL

\* A complete lookup: table i of hook h was used and became tab.
LookedUp(t, s, h, i, tab) ==
    /\ Served(t, s, h)
    /\ i \in Table
    /\ SlotFilled(t, s, h, i)
    /\ \A j \in Table : pool'[j] = IF j = i THEN tab ELSE pool[j]
    /\ IF HasHook(t) /\ TableAt(h, s) # NULL
       THEN i = TableAt(h, s) /\ hash_table'.cursor = hash_table.cursor
       ELSE i = hash_table.cursor /\ hash_table'.cursor = hash_table.cursor + 1
    /\ ListGrows(t)

\* A call that got as far as the hook but not to a table.
EndedEarly(t, s, h) ==
    /\ Served(t, s, h)
    /\ \A g \in Hook, r \in Syscall :
          TableAt(g, r)' = IF g = h /\ ~ HasHook(t) THEN NULL ELSE TableAt(g, r)
    /\ UNCHANGED pool
    /\ hash_table'.cursor = hash_table.cursor
    /\ \/ ListGrows(t)
       \/ "node" \in Failing /\ hash_table'.process_head = << >>

\* The key of the call.
KeyOf(t, s, regs) == ArgumentList(seccomp[t], s, regs)
KeyLength(t, s) == seccomp[t].argument_count_table[s]

LEMMA KeyOfType ==
  ASSUME TypeOK, NEW t \in Task, NEW s \in Syscall, NEW regs \in Regs
  PROVE  /\ KeyLength(t, s) \in 0 .. MaxArgumentCount
         /\ KeyOf(t, s, regs) \in KeysOf(KeyLength(t, s))
         /\ Hash[KeyOf(t, s, regs)] \in Bucket
         /\ \A h \in Hook : <<h, s, Padded(KeyOf(t, s, regs))>> \in Entry
<1>1. seccomp[t] \in Struct
  BY DEF TypeOK
<1>2. /\ KeyLength(t, s) \in 0 .. MaxArgumentCount
      /\ KeyOf(t, s, regs) \in KeysOf(KeyLength(t, s))
  BY <1>1, ArgumentListType DEF KeyLength, KeyOf
<1>3. Hash[KeyOf(t, s, regs)] \in Bucket
  BY <1>2, KeysOfFits
<1>4. Padded(KeyOf(t, s, regs)) \in Row
  BY <1>2, PaddedType
<1> QED
  BY <1>2, <1>3, <1>4 DEF Entry

\* The blocks after a call that filled slot s of the block of hook h.
LEMMA BlockAfterLookup ==
  ASSUME TypeOK, NEW t \in Task, NEW s \in Syscall, NEW h \in Hook,
         ~ (NeedsTable(Charged(t, h), s) /\ PoolEmpty),
         NEW block \in PerProcess,
         block.syscall_table = Provided(Charged(t, h), s).syscall_table,
         per_process' = [per_process EXCEPT ![h] = block]
  PROVE  /\ per_process' \in [Hook -> PerProcess]
         /\ SlotFilled(t, s, h, TableFor(Charged(t, h), s))
<1> DEFINE proc == Charged(t, h)
<1>1. /\ per_process \in [Hook -> PerProcess]
      /\ hash_table \in HashTable
  BY DEF TypeOK
<1>2. /\ proc \in PerProcess
      /\ \A r \in Syscall : proc.syscall_table[r] =
            IF HasHook(t) THEN TableAt(h, r) ELSE NULL
  BY <1>1, ChargedType
<1>3. block.syscall_table = [proc.syscall_table EXCEPT ![s] = TableFor(proc, s)]
  BY <1>1, <1>2, ProvidedType
<1>4. proc.syscall_table \in [Syscall -> Table \cup {NULL}]
  BY <1>2 DEF PerProcess
<1>5. \A r \in Syscall : block.syscall_table[r] =
        IF r = s THEN TableFor(proc, s)
        ELSE IF HasHook(t) THEN TableAt(h, r) ELSE NULL
  BY <1>2, <1>3, <1>4
<1>6. \A g \in Hook : per_process'[g] = IF g = h THEN block ELSE per_process[g]
  BY <1>1
<1> QED
  BY <1>1, <1>5, <1>6 DEF TableAt, SlotFilled

\* What the guard Lookup says of the table and the cursor.
LEMMA TableOfLookup ==
  ASSUME TypeOK, NEW t \in Task, NEW s \in Syscall, NEW h \in Hook,
         NEW proc, proc = Charged(t, h), ~ (NeedsTable(proc, s) /\ PoolEmpty)
  PROVE  /\ TableFor(proc, s) \in Table
         /\ proc \in PerProcess
         /\ NeedsTable(proc, s) <=> ~ (HasHook(t) /\ TableAt(h, s) # NULL)
         /\ TableFor(proc, s) = IF NeedsTable(proc, s) THEN hash_table.cursor
                                ELSE TableAt(h, s)
<1>1. per_process \in [Hook -> PerProcess] /\ hash_table \in HashTable
  BY DEF TypeOK
<1>2. /\ proc \in PerProcess
      /\ \A r \in Syscall : proc.syscall_table[r] =
            IF HasHook(t) THEN TableAt(h, r) ELSE NULL
  BY <1>1, ChargedType
<1>3. TableFor(proc, s) \in Table
  BY <1>1, <1>2, TableForType
<1> QED
  BY <1>2, <1>3 DEF NeedsTable, TableFor

\* One table of the pool replaced.
LEMMA PoolAfter ==
  ASSUME TypeOK, NEW i \in Table, NEW tab \in SyscallTable,
         pool' = [pool EXCEPT ![i] = tab]
  PROVE  /\ pool' \in [Table -> SyscallTable]
         /\ \A j \in Table : pool'[j] = IF j = i THEN tab ELSE pool[j]
BY DEF TypeOK

\* Totals that differ in their counters only.
SameList(ht, new) ==
    new.process_head = ht.process_head /\ new.cursor = ht.cursor

LEMMA HitTotals ==
  ASSUME NEW ht \in HashTable
  PROVE  LET new == [ht EXCEPT !.total_hit_count = @ + 1]
         IN new \in HashTable /\ SameList(ht, new)
<1> DEFINE hit == ht.total_hit_count + 1
<1>1. hit \in Nat
  BY DEF HashTable
<1>2. [ht EXCEPT !.total_hit_count = @ + 1] = [ht EXCEPT !.total_hit_count = hit]
  OBVIOUS
<1> HIDE DEF hit
<1> QED
  BY <1>1, <1>2 DEF HashTable, SameList

LEMMA ConflictTotals ==
  ASSUME NEW ht \in HashTable
  PROVE  LET new == [ht EXCEPT !.total_argument_count = @ + 1,
                               !.total_conflict_count = @ + 1]
         IN new \in HashTable /\ SameList(ht, new)
<1> DEFINE argument == ht.total_argument_count + 1
           conflict == ht.total_conflict_count + 1
<1>1. argument \in Nat /\ conflict \in Nat
  BY DEF HashTable
<1>2. [ht EXCEPT !.total_argument_count = @ + 1, !.total_conflict_count = @ + 1]
        = [ht EXCEPT !.total_argument_count = argument, !.total_conflict_count = conflict]
  BY DEF HashTable
<1> HIDE DEF argument, conflict
<1> QED
  BY <1>1, <1>2 DEF HashTable, SameList

LEMMA InsertTotals ==
  ASSUME NEW ht \in HashTable
  PROVE  LET new == [ht EXCEPT !.total_argument_count = @ + 1]
         IN new \in HashTable /\ SameList(ht, new)
<1> DEFINE argument == ht.total_argument_count + 1
<1>1. argument \in Nat
  BY DEF HashTable
<1>2. [ht EXCEPT !.total_argument_count = @ + 1] = [ht EXCEPT !.total_argument_count = argument]
  OBVIOUS
<1> HIDE DEF argument
<1> QED
  BY <1>1, <1>2 DEF HashTable, SameList

LEMMA HitCounters ==
  ASSUME NEW tab \in SyscallTable
  PROVE  LET new == [tab EXCEPT !.per_syscall_call_count = @ + 1]
         IN new \in SyscallTable /\ SameRows(tab, new)
<1> DEFINE call == tab.per_syscall_call_count + 1
<1>1. call \in Nat
  BY DEF SyscallTable
<1>2. [tab EXCEPT !.per_syscall_call_count = @ + 1]
        = [tab EXCEPT !.per_syscall_call_count = call]
  OBVIOUS
<1> HIDE DEF call
<1> QED
  BY <1>1, <1>2 DEF SyscallTable, SameRows

LEMMA ConflictCounters ==
  ASSUME NEW tab \in SyscallTable
  PROVE  LET new == [tab EXCEPT !.per_syscall_call_count = @ + 1,
                                !.per_syscall_argument_count = @ + 1,
                                !.per_syscall_conflict_count = @ + 1]
         IN new \in SyscallTable /\ SameRows(tab, new)
<1> DEFINE call == tab.per_syscall_call_count + 1
           argument == tab.per_syscall_argument_count + 1
           conflict == tab.per_syscall_conflict_count + 1
<1>1. call \in Nat /\ argument \in Nat /\ conflict \in Nat
  BY DEF SyscallTable
<1>2. [tab EXCEPT !.per_syscall_call_count = @ + 1,
                  !.per_syscall_argument_count = @ + 1,
                  !.per_syscall_conflict_count = @ + 1]
        = [tab EXCEPT !.per_syscall_call_count = call,
                      !.per_syscall_argument_count = argument,
                      !.per_syscall_conflict_count = conflict]
  BY DEF SyscallTable
<1> HIDE DEF call, argument, conflict
<1> QED
  BY <1>1, <1>2 DEF SyscallTable, SameRows

LEMMA InsertCounters ==
  ASSUME NEW tab \in SyscallTable
  PROVE  LET new == [tab EXCEPT !.per_syscall_call_count = @ + 1,
                                !.per_syscall_argument_count = @ + 1]
         IN new \in SyscallTable /\ SameRows(tab, new)
<1> DEFINE call == tab.per_syscall_call_count + 1
           argument == tab.per_syscall_argument_count + 1
<1>1. call \in Nat /\ argument \in Nat
  BY DEF SyscallTable
<1>2. [tab EXCEPT !.per_syscall_call_count = @ + 1,
                  !.per_syscall_argument_count = @ + 1]
        = [tab EXCEPT !.per_syscall_call_count = call,
                      !.per_syscall_argument_count = argument]
  BY DEF SyscallTable
<1> HIDE DEF call, argument
<1> QED
  BY <1>1, <1>2 DEF SyscallTable, SameRows

\* What the guard and the shared effects of the three lookups amount to.
LEMMA LookupDoes ==
  ASSUME TypeOK, AllSound, NEW t \in Task, NEW s, NEW h \in Hook, NEW regs \in Regs,
         NEW w, NEW i, i = TableFor(Charged(t, h), s),
         Lookup(t, s, h, KeyOf(t, s, regs), i, Hash[KeyOf(t, s, regs)], w),
         NEW block \in PerProcess,
         block.syscall_table = Provided(Charged(t, h), s).syscall_table,
         per_process' = [per_process EXCEPT ![h] = block],
         NEW tab \in SyscallTable, pool' = [pool EXCEPT ![i] = tab],
         hash_table' \in HashTable,
         SameList(Drawn(Entered(t, s), Charged(t, h), s), hash_table'),
         UNCHANGED draco_checker
  PROVE  LookedUp(t, s, h, i, tab)
<1> DEFINE proc == Charged(t, h)
<1>1. /\ Runs(t)
      /\ s \in Syscall
      /\ Attach(t, h)
      /\ ~ (NeedsTable(proc, s) /\ PoolEmpty)
      /\ Count(s)
  BY DEF Lookup
<1>2. Hooked(t, h) /\ AllSound'
  BY <1>1, AttachHooks DEF TypeOK
<1>3. /\ i \in Table
      /\ NeedsTable(proc, s) <=> ~ (HasHook(t) /\ TableAt(h, s) # NULL)
      /\ i = IF NeedsTable(proc, s) THEN hash_table.cursor ELSE TableAt(h, s)
  BY <1>1, TableOfLookup
<1>4. per_process' \in [Hook -> PerProcess] /\ SlotFilled(t, s, h, i)
  BY <1>1, BlockAfterLookup
<1>5. /\ pool' \in [Table -> SyscallTable]
      /\ \A j \in Table : pool'[j] = IF j = i THEN tab ELSE pool[j]
  BY <1>3, PoolAfter
<1>6. /\ ListGrows(t)
      /\ hash_table'.cursor = IF NeedsTable(proc, s) THEN hash_table.cursor + 1
                              ELSE hash_table.cursor
  <2>1. hash_table \in HashTable
    BY DEF TypeOK
  <2>2. /\ Entered(t, s) \in HashTable
        /\ Entered(t, s).cursor = hash_table.cursor
        /\ Entered(t, s).process_head =
              IF HasHook(t) THEN hash_table.process_head
              ELSE <<t>> \o hash_table.process_head
    BY <2>1, EnteredType
  <2>3. /\ Drawn(Entered(t, s), proc, s).process_head = Entered(t, s).process_head
        /\ Drawn(Entered(t, s), proc, s).cursor =
              IF NeedsTable(proc, s) THEN hash_table.cursor + 1 ELSE hash_table.cursor
    BY <1>1, <2>1, <2>2, DrawnType
  <2> QED
    BY <2>2, <2>3 DEF ListGrows, SameList
<1>7. Served(t, s, h)
  BY <1>1, <1>2, <1>4, <1>5 DEF Served, Runs, Count
<1> HIDE DEF proc
<1> QED
  BY <1>3, <1>4, <1>5, <1>6, <1>7 DEF LookedUp

\* Table i, probed for the key of the call, and the three ways it ends.
Probed(t, s, regs, i, w) ==
    ProbeEnds(pool[i], Hash[KeyOf(t, s, regs)], KeyOf(t, s, regs), w)

Answered(t, s, h, regs, hit) ==
    answer' = [entry |-> <<h, s, Padded(KeyOf(t, s, regs))>>, hit |-> hit]

HitBy(t, s, h, regs, w) ==
    \E i \in Table, tab \in SyscallTable :
        /\ LookedUp(t, s, h, i, tab)
        /\ Probed(t, s, regs, i, w)
        /\ Found(pool[i], Hash[KeyOf(t, s, regs)], w)
        /\ SameRows(pool[i], tab)
        /\ Answered(t, s, h, regs, TRUE)

ConflictBy(t, s, h, regs) ==
    \E i \in Table, tab \in SyscallTable :
        /\ LookedUp(t, s, h, i, tab)
        /\ Probed(t, s, regs, i, Asos)
        /\ SameRows(pool[i], tab)
        /\ Answered(t, s, h, regs, FALSE)

InsertBy(t, s, h, regs, w) ==
    \E i \in Table, tab \in SyscallTable :
        /\ LookedUp(t, s, h, i, tab)
        /\ Probed(t, s, regs, i, w)
        /\ ~ Found(pool[i], Hash[KeyOf(t, s, regs)], w)
        /\ SameRows(Occupy(pool[i], Hash[KeyOf(t, s, regs)], w, KeyOf(t, s, regs)), tab)
        /\ Answered(t, s, h, regs, FALSE)

LEMMA LookupTypes ==
  ASSUME TypeOK, NEW t \in Task, NEW s, NEW h \in Hook, NEW regs \in Regs, NEW w,
         NEW i, i = TableFor(Charged(t, h), s),
         Lookup(t, s, h, KeyOf(t, s, regs), i, Hash[KeyOf(t, s, regs)], w)
  PROVE  /\ s \in Syscall
         /\ i \in Table
         /\ pool[i] \in SyscallTable
         /\ Provided(Charged(t, h), s) \in PerProcess
         /\ Drawn(Entered(t, s), Charged(t, h), s) \in HashTable
         /\ Probed(t, s, regs, i, w)
<1> DEFINE proc == Charged(t, h)
<1>1. /\ s \in Syscall
      /\ ~ (NeedsTable(proc, s) /\ PoolEmpty)
      /\ ProbeEnds(pool[i], Hash[KeyOf(t, s, regs)], KeyOf(t, s, regs), w)
  BY DEF Lookup
<1>2. i \in Table /\ proc \in PerProcess
  BY <1>1, TableOfLookup
<1>3. pool[i] \in SyscallTable /\ hash_table \in HashTable
  BY <1>2 DEF TypeOK
<1>4. Provided(proc, s) \in PerProcess
  BY <1>1, <1>2, <1>3, ProvidedType
<1>5. Entered(t, s) \in HashTable /\ Entered(t, s).cursor = hash_table.cursor
  BY <1>3, EnteredType
<1>6. Drawn(Entered(t, s), proc, s) \in HashTable
  BY <1>1, <1>3, <1>5, DrawnType
<1> QED
  BY <1>1, <1>2, <1>3, <1>4, <1>6 DEF Probed

LEMMA HitDoes ==
  ASSUME TypeOK, AllSound, NEW t \in Task, NEW s, NEW h \in Hook, NEW regs \in Regs,
         NEW w \in Way, HandleHit(t, s, h, regs, w)
  PROVE  HitBy(t, s, h, regs, w)
<1> DEFINE proc == Charged(t, h)
           i == TableFor(proc, s)
           key == KeyOf(t, s, regs)
           tab == [pool[i] EXCEPT !.per_syscall_call_count = @ + 1]
           ht == Drawn(Entered(t, s), proc, s)
           totals == [ht EXCEPT !.total_hit_count = @ + 1]
           block == Provided(proc, s)
<1>1. /\ Lookup(t, s, h, key, i, Hash[key], w)
      /\ Found(pool[i], Hash[key], w)
      /\ per_process' = [per_process EXCEPT ![h] = block]
      /\ pool' = [pool EXCEPT ![i] = tab]
      /\ hash_table' = totals
      /\ answer' = [entry |-> <<h, s, Padded(key)>>, hit |-> TRUE]
      /\ UNCHANGED draco_checker
  BY DEF HandleHit, Reply, KeyOf
<1>2. /\ i \in Table
      /\ pool[i] \in SyscallTable
      /\ block \in PerProcess
      /\ ht \in HashTable
      /\ Probed(t, s, regs, i, w)
  BY <1>1, LookupTypes
<1>3. tab \in SyscallTable /\ SameRows(pool[i], tab)
  BY <1>2, HitCounters
<1>4. totals \in HashTable /\ SameList(ht, totals)
  BY <1>2, HitTotals
<1> HIDE DEF tab, totals
<1>5. LookedUp(t, s, h, i, tab)
  BY <1>1, <1>2, <1>3, <1>4, LookupDoes
<1> QED
  BY <1>1, <1>2, <1>3, <1>5 DEF HitBy, Answered

LEMMA ConflictDoes ==
  ASSUME TypeOK, AllSound, NEW t \in Task, NEW s, NEW h \in Hook, NEW regs \in Regs,
         HandleConflict(t, s, h, regs)
  PROVE  ConflictBy(t, s, h, regs)
<1> DEFINE proc == Charged(t, h)
           i == TableFor(proc, s)
           key == KeyOf(t, s, regs)
           tab == [pool[i] EXCEPT !.per_syscall_call_count = @ + 1,
                                  !.per_syscall_argument_count = @ + 1,
                                  !.per_syscall_conflict_count = @ + 1]
           ht == Drawn(Entered(t, s), proc, s)
           totals == [ht EXCEPT !.total_argument_count = @ + 1,
                                !.total_conflict_count = @ + 1]
           provided == Provided(proc, s)
           block == [ChargeArgument(provided) EXCEPT !.per_process_conflict_count = @ + 1]
<1>1. /\ Lookup(t, s, h, key, i, Hash[key], Asos)
      /\ per_process' = [per_process EXCEPT ![h] = block]
      /\ hash_table' = totals
      /\ answer' = [entry |-> <<h, s, Padded(key)>>, hit |-> FALSE]
      /\ UNCHANGED draco_checker
  BY DEF HandleConflict, Reply, KeyOf
<1>2. /\ i \in Table
      /\ pool[i] \in SyscallTable
      /\ provided \in PerProcess
      /\ ht \in HashTable
      /\ Probed(t, s, regs, i, Asos)
  BY <1>1, LookupTypes
<1>3. pool' = [pool EXCEPT ![i] = tab]
  BY <1>2 DEF HandleConflict, TypeOK, SyscallTable
<1>4. tab \in SyscallTable /\ SameRows(pool[i], tab)
  BY <1>2, ConflictCounters
<1>5. totals \in HashTable /\ SameList(ht, totals)
  BY <1>2, ConflictTotals
<1>6. block \in PerProcess /\ block.syscall_table = provided.syscall_table
  <2> DEFINE charged == ChargeArgument(provided)
             conflict == charged.per_process_conflict_count + 1
  <2>1. charged \in PerProcess /\ charged.syscall_table = provided.syscall_table
    BY <1>2, ChargeArgumentType
  <2>2. conflict \in Nat
    BY <2>1 DEF PerProcess
  <2>3. block = [charged EXCEPT !.per_process_conflict_count = conflict]
    OBVIOUS
  <2> HIDE DEF charged, conflict
  <2> QED
    BY <2>1, <2>2, <2>3 DEF PerProcess
<1> HIDE DEF tab, totals, block
<1>7. LookedUp(t, s, h, i, tab)
  BY <1>1, <1>3, <1>4, <1>5, <1>6, LookupDoes
<1> QED
  BY <1>1, <1>2, <1>4, <1>7 DEF ConflictBy, Answered

LEMMA InsertDoes ==
  ASSUME TypeOK, AllSound, NEW t \in Task, NEW s, NEW h \in Hook, NEW regs \in Regs,
         NEW w \in Way, HandleInsert(t, s, h, regs, w)
  PROVE  InsertBy(t, s, h, regs, w)
<1> DEFINE proc == Charged(t, h)
           i == TableFor(proc, s)
           key == KeyOf(t, s, regs)
           taken == Occupy(pool[i], Hash[key], w, key)
           tab == [taken EXCEPT !.per_syscall_call_count = @ + 1,
                                !.per_syscall_argument_count = @ + 1]
           ht == Drawn(Entered(t, s), proc, s)
           totals == [ht EXCEPT !.total_argument_count = @ + 1]
           block == ChargeArgument(Provided(proc, s))
<1>1. /\ Lookup(t, s, h, key, i, Hash[key], w)
      /\ ~ Found(pool[i], Hash[key], w)
      /\ per_process' = [per_process EXCEPT ![h] = block]
      /\ pool' = [pool EXCEPT ![i] = tab]
      /\ hash_table' = totals
      /\ answer' = [entry |-> <<h, s, Padded(key)>>, hit |-> FALSE]
      /\ UNCHANGED draco_checker
  BY DEF HandleInsert, Reply, KeyOf
<1>2. /\ s \in Syscall
      /\ i \in Table
      /\ pool[i] \in SyscallTable
      /\ Provided(proc, s) \in PerProcess
      /\ ht \in HashTable
      /\ Probed(t, s, regs, i, w)
  BY <1>1, LookupTypes
<1>3. taken \in SyscallTable
  BY <1>2, KeyOfType, OccupyFields
<1>4. tab \in SyscallTable /\ SameRows(taken, tab)
  BY <1>3, InsertCounters
<1>5. totals \in HashTable /\ SameList(ht, totals)
  BY <1>2, InsertTotals
<1>6. block \in PerProcess /\ block.syscall_table = Provided(proc, s).syscall_table
  BY <1>2, ChargeArgumentType
<1> HIDE DEF tab, totals, block
<1>7. LookedUp(t, s, h, i, tab)
  BY <1>1, <1>4, <1>5, <1>6, LookupDoes
<1> QED
  BY <1>1, <1>2, <1>4, <1>7 DEF InsertBy, Answered
-----------------------------------------------------------------------------
(* The paths that end early.                                               *)

\* No table was left for the call.
TurnedAway(t, s, h, regs) ==
    /\ EndedEarly(t, s, h)
    /\ ~ (HasHook(t) /\ TableAt(h, s) # NULL)
    /\ Answered(t, s, h, regs, FALSE)

\* The list node could not be allocated.
NotListed(t, s, h) == EndedEarly(t, s, h) /\ answer' = NoAnswer

\* The call did not get as far as a hook.
Unserved ==
    /\ UNCHANGED <<seccomp, draco_checker, per_process, allocated, usable, pool>>
    /\ hash_table' \in HashTable
    /\ SameList(hash_table, hash_table')
    /\ syscall_number' \in SUBSET Syscall
    /\ answer' = NoAnswer

LEMMA PoolEmptyDoes ==
  ASSUME TypeOK, AllSound, NEW t \in Task, NEW s, NEW h \in Hook, NEW regs \in Regs,
         HandlePoolEmpty(t, s, h, regs)
  PROVE  TurnedAway(t, s, h, regs)
<1> DEFINE proc == Charged(t, h)
<1>1. /\ Runs(t)
      /\ s \in Syscall
      /\ Attach(t, h)
      /\ NeedsTable(proc, s)
      /\ Count(s)
      /\ per_process' = [per_process EXCEPT ![h] = proc]
      /\ hash_table' = Entered(t, s)
      /\ answer' = [entry |-> <<h, s, Padded(KeyOf(t, s, regs))>>, hit |-> FALSE]
      /\ UNCHANGED <<draco_checker, pool>>
  BY DEF HandlePoolEmpty, Reply, KeyOf
<1>2. Hooked(t, h) /\ AllSound'
  BY <1>1, AttachHooks DEF TypeOK
<1>3. /\ per_process \in [Hook -> PerProcess]
      /\ pool \in [Table -> SyscallTable]
      /\ hash_table \in HashTable
  BY DEF TypeOK
<1>4. /\ proc \in PerProcess
      /\ \A r \in Syscall : proc.syscall_table[r] =
            IF HasHook(t) THEN TableAt(h, r) ELSE NULL
  BY <1>3, ChargedType
<1>5. ~ (HasHook(t) /\ TableAt(h, s) # NULL)
  BY <1>1, <1>4 DEF NeedsTable
<1>6. /\ hash_table' \in HashTable
      /\ hash_table'.cursor = hash_table.cursor
      /\ ListGrows(t)
  BY <1>1, <1>3, EnteredType DEF ListGrows
<1> HIDE DEF proc
<1>7. \A g \in Hook : per_process'[g] = IF g = h THEN proc ELSE per_process[g]
  BY <1>1, <1>3
<1>8. per_process' \in [Hook -> PerProcess]
  BY <1>1, <1>3, <1>4
<1>9. \A g \in Hook, r \in Syscall :
          TableAt(g, r)' = IF g = h /\ ~ HasHook(t) THEN NULL ELSE TableAt(g, r)
  BY <1>4, <1>7 DEF TableAt
<1>10. Served(t, s, h)
  BY <1>1, <1>2, <1>3, <1>6, <1>8 DEF Served, Runs, Count
<1> QED
  BY <1>1, <1>5, <1>6, <1>9, <1>10 DEF TurnedAway, EndedEarly, Answered

LEMMA NodeFailureDoes ==
  ASSUME TypeOK, AllSound, NEW t \in Task, NEW s, NEW h \in Hook,
         HandleNodeFailure(t, s, h)
  PROVE  NotListed(t, s, h)
<1> DEFINE ht == Linked(Counted(s), t)
<1>1. /\ Runs(t)
      /\ s \in Syscall
      /\ "node" \in Failing
      /\ ~ HasHook(t)
      /\ Attach(t, h)
      /\ Count(s)
      /\ per_process' = [per_process EXCEPT ![h] = FreshProcess]
      /\ hash_table' = [ht EXCEPT !.process_head = << >>]
      /\ answer' = NoAnswer
      /\ UNCHANGED <<draco_checker, pool>>
  BY DEF HandleNodeFailure
<1>2. Hooked(t, h) /\ AllSound'
  BY <1>1, AttachHooks DEF TypeOK
<1>3. /\ per_process \in [Hook -> PerProcess]
      /\ pool \in [Table -> SyscallTable]
      /\ hash_table \in HashTable
  BY DEF TypeOK
<1>4. /\ Counted(s) \in HashTable
      /\ Counted(s).cursor = hash_table.cursor
  BY <1>3, CountedType
<1>5. ht \in HashTable /\ ht.cursor = hash_table.cursor
  BY <1>4, LinkedType
<1> HIDE DEF ht
<1>6. << >> \in Seq(Task)
  OBVIOUS
<1>7. /\ hash_table' \in HashTable
      /\ hash_table'.cursor = hash_table.cursor
      /\ hash_table'.process_head = << >>
  BY <1>1, <1>5, <1>6 DEF HashTable
<1>8. \A g \in Hook : per_process'[g] = IF g = h THEN FreshProcess ELSE per_process[g]
  BY <1>1, <1>3
<1>9. per_process' \in [Hook -> PerProcess]
  BY <1>1, <1>3, FreshProcessType
<1>10. \A g \in Hook, r \in Syscall :
          TableAt(g, r)' = IF g = h /\ ~ HasHook(t) THEN NULL ELSE TableAt(g, r)
  BY <1>1, <1>8, FreshProcessType DEF TableAt
<1>11. Served(t, s, h)
  BY <1>1, <1>2, <1>3, <1>7, <1>9 DEF Served, Runs, Count
<1> QED
  BY <1>1, <1>7, <1>10, <1>11 DEF NotListed, EndedEarly

LEMMA OutOfRangeDoes ==
  ASSUME TypeOK, NEW t, NEW s, HandleOutOfRange(t, s)
  PROVE  Unserved
BY DEF TypeOK, HandleOutOfRange, Unserved, SameList

LEMMA ProcessFailureDoes ==
  ASSUME TypeOK, NEW t, NEW s, HandleProcessFailure(t, s)
  PROVE  Unserved
<1>1. /\ s \in Syscall
      /\ syscall_number' = syscall_number \cup {s}
      /\ hash_table' = Counted(s)
      /\ answer' = NoAnswer
      /\ UNCHANGED <<seccomp, draco_checker, per_process, allocated, usable, pool>>
  BY DEF HandleProcessFailure, Count
<1>2. hash_table \in HashTable /\ syscall_number \in SUBSET Syscall
  BY DEF TypeOK
<1>3. /\ Counted(s) \in HashTable
      /\ Counted(s).cursor = hash_table.cursor
      /\ Counted(s).process_head = hash_table.process_head
  BY <1>2, CountedType
<1> QED
  BY <1>1, <1>2, <1>3 DEF Unserved, SameList

\* A call of the handler that used a table, and one that reached a hook.
LookupOf(t, s, h, regs) ==
    \/ ConflictBy(t, s, h, regs)
    \/ \E w \in Way : HitBy(t, s, h, regs, w) \/ InsertBy(t, s, h, regs, w)

\* Every step is one of these.
ModuleSame == UNCHANGED <<draco_checker, per_process, allocated, usable, pool,
                          hash_table, syscall_number, answer>>

Steps ==
    \/ ProfilesChange /\ ModuleSame
    \/ Unserved
    \/ \E t \in Task, s \in Syscall, h \in Hook :
          \/ NotListed(t, s, h)
          \/ \E regs \in Regs : TurnedAway(t, s, h, regs) \/ LookupOf(t, s, h, regs)
    \/ DracoInit
    \/ DracoExit

\* What became of one call.
HandledBy(t, s, regs) ==
    \/ Unserved
    \/ /\ s \in Syscall
       /\ \E h \in Hook :
             NotListed(t, s, h) \/ TurnedAway(t, s, h, regs) \/ LookupOf(t, s, h, regs)

LEMMA HandleDoes ==
  ASSUME TypeOK, AllSound, NEW t \in Task, NEW s, NEW regs \in Regs, Handle(t, s, regs)
  PROVE  HandledBy(t, s, regs)
<1>1. CASE HandleOutOfRange(t, s)
  BY <1>1, OutOfRangeDoes DEF HandledBy
<1>2. CASE HandleProcessFailure(t, s)
  BY <1>2, ProcessFailureDoes DEF HandledBy
<1>3. ASSUME NEW h \in Hook, HandleNodeFailure(t, s, h)
      PROVE  HandledBy(t, s, regs)
  BY <1>3, NodeFailureDoes DEF HandleNodeFailure, HandledBy
<1>4. ASSUME NEW h \in Hook, HandlePoolEmpty(t, s, h, regs)
      PROVE  HandledBy(t, s, regs)
  BY <1>4, PoolEmptyDoes DEF HandlePoolEmpty, HandledBy
<1>5. ASSUME NEW h \in Hook, NEW w \in Way, HandleHit(t, s, h, regs, w)
      PROVE  HandledBy(t, s, regs)
  <2>1. HitBy(t, s, h, regs, w) /\ s \in Syscall
    BY <1>5, HitDoes DEF HandleHit, Lookup
  <2> QED
    BY <2>1 DEF HandledBy, LookupOf
<1>6. ASSUME NEW h \in Hook, HandleConflict(t, s, h, regs)
      PROVE  HandledBy(t, s, regs)
  <2>1. ConflictBy(t, s, h, regs) /\ s \in Syscall
    BY <1>6, ConflictDoes DEF HandleConflict, Lookup
  <2> QED
    BY <2>1 DEF HandledBy, LookupOf
<1>7. ASSUME NEW h \in Hook, NEW w \in Way, HandleInsert(t, s, h, regs, w)
      PROVE  HandledBy(t, s, regs)
  <2>1. InsertBy(t, s, h, regs, w) /\ s \in Syscall
    BY <1>7, InsertDoes DEF HandleInsert, Lookup
  <2> QED
    BY <2>1 DEF HandledBy, LookupOf
<1> QED
  BY <1>1, <1>2, <1>3, <1>4, <1>5, <1>6, <1>7 DEF Handle

LEMMA HandleSteps ==
  ASSUME TypeOK, AllSound, NEW t \in Task, NEW s, NEW regs \in Regs, Handle(t, s, regs)
  PROVE  Steps
BY HandleDoes DEF HandledBy, Steps

LEMMA NextSteps ==
  ASSUME TypeOK, AllSound, Next
  PROVE  Steps
<1>1. CASE Profile
  <2>1. ProfileNext /\ ModuleSame
    BY <1>1 DEF Profile, ModuleSame
  <2> QED
    BY <2>1, ProfileNextChanges DEF Steps
<1>2. CASE DracoInit \/ DracoExit
  BY <1>2 DEF Steps
<1> QED
  BY <1>1, <1>2, HandleSteps DEF Next

-----------------------------------------------------------------------------
(* The inductive invariant.                                                *)

\* A task gets its hook from a handler, which runs in filter mode only; and
\* rmmod leaves no hook in use.
HooksLive ==
    /\ \A t \in Task : HasHook(t) => seccomp[t].mode = "filter"
    /\ draco_checker = "empty_draco" => usable = {}

\* The hooks of the listed tasks, and that there are finitely many.
ListedHooks == {seccomp[t].draco_hook : t \in Listed}
HooksListed == draco_checker = "handler" => IsFiniteSet(ListedHooks)

\* Tasks that share a hook agree on the length of every key, and a table holds
\* keys of that length only.
KeysAgree ==
    \A t, u \in Task :
        HasHook(t) /\ seccomp[t].draco_hook = seccomp[u].draco_hook =>
            seccomp[t].argument_count_table = seccomp[u].argument_count_table

TablesExact ==
    \A t \in Task, s \in Syscall :
        LET h == seccomp[t].draco_hook IN
        h \in usable /\ TableAt(h, s) # NULL =>
            Exact(pool[TableAt(h, s)], KeyLength(t, s))

\* A program that goes on adding rules after its filter is installed changes
\* the length of its keys under the rows that are there (KeysOnlyWiden), so
\* the last two hold only when profiles are built once.
MInv ==
    /\ TypeOK
    /\ AllSound
    /\ HooksLive
    /\ HooksListed
    /\ HooksFreed
    /\ PoolOwned
    /\ ~ MayReload => KeysAgree /\ TablesExact
-----------------------------------------------------------------------------
(* Types.                                                                  *)

Answers == [entry : Entry \cup {NoEntry}, hit : BOOLEAN]

LEMMA InitInv == Init => MInv
<1> SUFFICES ASSUME Init PROVE MInv
  OBVIOUS
<1>1. AllSound /\ \A t \in Task : seccomp[t] = CleanStruct
  BY InitSound DEF Init, ProfileInit
<1>2. /\ draco_checker = "empty_draco"
      /\ per_process = [h \in Hook |-> FreshProcess]
      /\ allocated = {} /\ usable = {}
      /\ pool = [i \in Table |-> BlankTable]
      /\ hash_table = FreshHashTable
      /\ syscall_number = {}
      /\ answer = NoAnswer
  BY DEF Init, ModuleInit
<1>3. FreshHashTable \in HashTable
  <2>1. << >> \in Seq(Task)
    OBVIOUS
  <2> QED
    BY <2>1, Constants DEF FreshHashTable, HashTable
<1>4. TypeOK
  BY <1>1, <1>2, <1>3, FreshProcessType, BlankExact DEF TypeOK, AllSound, NoAnswer
<1>5. \A t \in Task : ~ HasHook(t)
  BY <1>1 DEF HasHook, CleanStruct
<1>6. HooksLive /\ HooksListed /\ HooksFreed
  BY <1>2, <1>5 DEF HooksLive, HooksListed, HooksFreed
<1>7. PoolOwned
  BY <1>2 DEF PoolOwned
<1>8. KeysAgree /\ TablesExact
  BY <1>2, <1>5 DEF KeysAgree, TablesExact
<1> QED
  BY <1>1, <1>4, <1>6, <1>7, <1>8 DEF MInv

LEMMA AnsweredType ==
  ASSUME TypeOK, NEW t \in Task, NEW s \in Syscall, NEW h \in Hook, NEW regs \in Regs,
         NEW hit \in BOOLEAN, Answered(t, s, h, regs, hit)
  PROVE  answer' \in Answers
<1>1. <<h, s, Padded(KeyOf(t, s, regs))>> \in Entry
  BY KeyOfType
<1> QED
  BY <1>1 DEF Answered, Answers

LEMMA ServedType ==
  ASSUME TypeOK, NEW t \in Task, NEW s, NEW h \in Hook, Served(t, s, h),
         answer' \in Answers
  PROVE  TypeOK'
<1>1. /\ seccomp' \in [Task -> Struct]
      /\ draco_checker' \in {"empty_draco", "handler"}
      /\ allocated' \in SUBSET Hook
      /\ usable' \in SUBSET allocated'
      /\ syscall_number' \in SUBSET Syscall
  BY DEF Served, AllSound, Hooked, TypeOK
<1>2. /\ per_process' \in [Hook -> PerProcess]
      /\ pool' \in [Table -> SyscallTable]
      /\ hash_table' \in HashTable
  BY DEF Served
<1> QED
  BY <1>1, <1>2 DEF TypeOK, Answers

\* The lookups in one form: table i became tab, which holds more rows.
LEMMA LookupCases ==
  ASSUME NEW t \in Task, NEW s \in Syscall, NEW h \in Hook, NEW regs \in Regs,
         LookupOf(t, s, h, regs)
  PROVE  \E i \in Table, tab \in SyscallTable, hit \in BOOLEAN :
            LookedUp(t, s, h, i, tab) /\ Answered(t, s, h, regs, hit)
BY DEF LookupOf, HitBy, ConflictBy, InsertBy

LEMMA StepsType ==
  ASSUME TypeOK, AllSound, Steps
  PROVE  TypeOK' /\ AllSound'
<1>1. CASE ProfilesChange /\ ModuleSame
  BY <1>1 DEF ProfilesChange, ModuleSame, TypeOK, AllSound
<1>2. CASE Unserved
  <2>1. NoAnswer \in Answers
    BY DEF NoAnswer, Answers
  <2> QED
    BY <1>2, <2>1 DEF Unserved, TypeOK, AllSound, Answers
<1>3. ASSUME NEW t \in Task, NEW s \in Syscall, NEW h \in Hook, NotListed(t, s, h)
      PROVE  TypeOK' /\ AllSound'
  <2>1. Served(t, s, h) /\ answer' \in Answers
    BY <1>3 DEF NotListed, EndedEarly, NoAnswer, Answers
  <2> QED
    BY <2>1, ServedType DEF Served
<1>4. ASSUME NEW t \in Task, NEW s \in Syscall, NEW h \in Hook, NEW regs \in Regs,
             TurnedAway(t, s, h, regs)
      PROVE  TypeOK' /\ AllSound'
  <2>1. Served(t, s, h) /\ answer' \in Answers
    BY <1>4, AnsweredType DEF TurnedAway, EndedEarly
  <2> QED
    BY <2>1, ServedType DEF Served
<1>5. ASSUME NEW t \in Task, NEW s \in Syscall, NEW h \in Hook, NEW regs \in Regs,
             LookupOf(t, s, h, regs)
      PROVE  TypeOK' /\ AllSound'
  <2>1. Served(t, s, h) /\ answer' \in Answers
    BY <1>5, LookupCases, AnsweredType DEF LookedUp
  <2> QED
    BY <2>1, ServedType DEF Served
<1>6. CASE DracoInit
  <2>1. FreshHashTable \in HashTable
    <3>1. << >> \in Seq(Task)
      OBVIOUS
    <3> QED
      BY <3>1, Constants DEF FreshHashTable, HashTable
  <2> QED
    BY <1>6, <2>1, BlankExact DEF DracoInit, TypeOK, AllSound
<1>7. CASE DracoExit
  <2>1. /\ seccomp' = [t \in Task |-> IF t \in Listed
                                      THEN [seccomp[t] EXCEPT !.draco_hook = NULL]
                                      ELSE seccomp[t]]
        /\ allocated' \subseteq allocated
        /\ usable' = {}
        /\ draco_checker' = "empty_draco"
        /\ UNCHANGED <<per_process, pool, hash_table, syscall_number, answer>>
    BY <1>7 DEF DracoExit
  <2>2. ASSUME NEW t \in Task PROVE Sound(seccomp'[t])
    <3>1. seccomp[t] \in Struct /\ Sound(seccomp[t])
      BY DEF AllSound
    <3>2. CASE t \in Listed
      <4>1. seccomp'[t] = [seccomp[t] EXCEPT !.draco_hook = NULL]
        BY <2>1, <3>2
      <4> QED
        BY <3>1, <4>1, SetHook, SameProfileSound
    <3>3. CASE t \notin Listed
      BY <2>1, <3>1, <3>3
    <3> QED
      BY <3>2, <3>3
  <2>3. seccomp' \in [Task -> Struct]
    BY <2>1, <2>2 DEF Sound
  <2>4. AllSound'
    BY <2>2, <2>3 DEF AllSound
  <2> QED
    BY <2>1, <2>3, <2>4 DEF TypeOK
<1> QED
  BY <1>1, <1>2, <1>3, <1>4, <1>5, <1>6, <1>7 DEF Steps

-----------------------------------------------------------------------------
(* Who has a hook, and who is listed.                                      *)

\* After rmmod.
LEMMA ExitHooks ==
  ASSUME AllSound, DracoExit
  PROVE  /\ draco_checker' = "empty_draco"
         /\ usable' = {}
         /\ \A t \in Task : /\ seccomp'[t].mode = seccomp[t].mode
                            /\ seccomp'[t].draco_hook \in {NULL, seccomp[t].draco_hook}
                            /\ SameProfile(seccomp[t], seccomp'[t])
<1>1. /\ seccomp' = [t \in Task |-> IF t \in Listed
                                    THEN [seccomp[t] EXCEPT !.draco_hook = NULL]
                                    ELSE seccomp[t]]
      /\ usable' = {}
      /\ draco_checker' = "empty_draco"
  BY DEF DracoExit
<1>2. ASSUME NEW t \in Task
      PROVE  /\ seccomp'[t].mode = seccomp[t].mode
             /\ seccomp'[t].draco_hook \in {NULL, seccomp[t].draco_hook}
             /\ SameProfile(seccomp[t], seccomp'[t])
  <2>1. CASE t \in Listed
    <3>1. seccomp[t] \in Struct /\ seccomp'[t] = [seccomp[t] EXCEPT !.draco_hook = NULL]
      BY <1>1, <2>1 DEF AllSound
    <3> QED
      BY <3>1, SetHook
  <2>2. CASE t \notin Listed
    BY <1>1, <2>2 DEF SameProfile
  <2> QED
    BY <2>1, <2>2
<1> QED
  BY <1>1, <1>2

LEMMA ServedLive ==
  ASSUME TypeOK, HooksLive, NEW t \in Task, NEW s, NEW h \in Hook, Served(t, s, h)
  PROVE  HooksLive'
<1>1. draco_checker' = "handler"
  BY DEF Served
<1>2. ASSUME NEW u \in Task, HasHook(u)'
      PROVE  seccomp'[u].mode = "filter"
  <2>1. CASE u = t
    BY <2>1 DEF Served, Hooked
  <2>2. CASE u # t
    BY <1>2, <2>2 DEF Served, Hooked, HooksLive, HasHook
  <2> QED
    BY <2>1, <2>2
<1> QED
  BY <1>1, <1>2 DEF HooksLive

LEMMA StepsLive ==
  ASSUME TypeOK, AllSound, HooksLive, Steps
  PROVE  HooksLive'
<1>1. CASE ProfilesChange /\ ModuleSame
  <2>1. ASSUME NEW u \in Task, HasHook(u)'
        PROVE  seccomp'[u].mode = "filter"
    <3>1. CASE Kept(u)
      BY <2>1, <3>1 DEF Kept, HasHook, HooksLive
    <3>2. CASE Copied(u)
      BY <2>1, <3>2 DEF Copied, HasHook, HooksLive
    <3> QED
      BY <1>1, <3>1, <3>2 DEF ProfilesChange
  <2> QED
    BY <1>1, <2>1 DEF ModuleSame, HooksLive
<1>2. CASE Unserved
  BY <1>2 DEF Unserved, HooksLive, HasHook
<1>3. ASSUME NEW t \in Task, NEW s \in Syscall, NEW h \in Hook, EndedEarly(t, s, h)
      PROVE  HooksLive'
  BY <1>3, ServedLive DEF EndedEarly
<1>4. ASSUME NEW t \in Task, NEW s \in Syscall, NEW h \in Hook, NEW regs \in Regs,
             LookupOf(t, s, h, regs)
      PROVE  HooksLive'
  <2>1. Served(t, s, h)
    BY <1>4, LookupCases DEF LookedUp
  <2> QED
    BY <2>1, ServedLive
<1>5. CASE DracoInit
  BY <1>5 DEF DracoInit, HooksLive, HasHook
<1>6. CASE DracoExit
  BY <1>6, ExitHooks DEF HooksLive, HasHook
<1> QED
  BY <1>1, <1>2, <1>3, <1>4, <1>5, <1>6 DEF Steps, NotListed, TurnedAway

\* A task that gets its hook is put on the list.
LEMMA ListGrowsBy ==
  ASSUME TypeOK, NEW t \in Task, ListGrows(t)
  PROVE  IF HasHook(t)
         THEN /\ Listed' = Listed
              /\ Len(hash_table'.process_head) = Len(hash_table.process_head)
         ELSE /\ Listed' = Listed \cup {t}
              /\ Len(hash_table'.process_head) = Len(hash_table.process_head) + 1
<1> DEFINE head == hash_table.process_head
           new == hash_table'.process_head
<1>1. head \in Seq(Task)
  BY DEF TypeOK, HashTable
<1>2. Listed = {head[i] : i \in DOMAIN head} /\ Listed' = {new[i] : i \in DOMAIN new}
  BY DEF Listed
<1>3. CASE HasHook(t)
  BY <1>2, <1>3 DEF ListGrows
<1>4. CASE ~ HasHook(t)
  <2>1. new = <<t>> \o head
    BY <1>4 DEF ListGrows
  <2> HIDE DEF head, new
  <2>2. Len(head) \in Nat /\ DOMAIN head = 1 .. Len(head)
    BY <1>1
  <2>3. /\ Len(new) = Len(head) + 1
        /\ DOMAIN new = 1 .. Len(head) + 1
        /\ \A i \in DOMAIN new : new[i] = IF i = 1 THEN t ELSE head[i - 1]
    BY <1>1, <2>1
  <2>4. ASSUME NEW u \in Listed' PROVE u \in Listed \cup {t}
    <3>1. PICK i \in DOMAIN new : u = new[i]
      BY <1>2
    <3>2. i = 1 \/ i - 1 \in DOMAIN head
      BY <2>2, <2>3
    <3> QED
      BY <1>2, <2>3, <3>1, <3>2
  <2>5. t \in Listed'
    <3>1. 1 \in DOMAIN new
      BY <2>2, <2>3
    <3> QED
      BY <1>2, <2>3, <3>1
  <2>6. ASSUME NEW u \in Listed PROVE u \in Listed'
    <3>1. PICK i \in DOMAIN head : u = head[i]
      BY <1>2
    <3>2. i + 1 \in DOMAIN new /\ i + 1 # 1 /\ (i + 1) - 1 = i
      BY <2>2, <2>3
    <3> QED
      BY <1>2, <2>3, <3>1, <3>2
  <2>7. Listed' = Listed \cup {t} /\ Len(new) = Len(head) + 1
    BY <2>3, <2>4, <2>5, <2>6
  <2> QED
    BY <1>4, <2>7 DEF head, new
<1> QED
  BY <1>3, <1>4

\* The two statements about the list, in one.
Listing ==
    draco_checker = "handler" =>
        /\ IsFiniteSet(ListedHooks)
        /\ ListedHooks \subseteq usable
        /\ Len(hash_table.process_head) = Cardinality(ListedHooks)
        /\ "node" \notin Failing => ListedHooks = usable

LEMMA ListingIs == Listing <=> HooksListed /\ HooksFreed
BY DEF Listing, HooksListed, HooksFreed, ListedHooks

LEMMA ListedTasks ==
  ASSUME TypeOK
  PROVE  Listed \subseteq Task /\ Len(hash_table.process_head) \in Nat
BY DEF TypeOK, HashTable, Listed

\* A call that puts a new task on the list.
LEMMA GrownListing ==
  ASSUME TypeOK, Listing, NEW t \in Task, NEW s, NEW h \in Hook,
         Served(t, s, h), ListGrows(t)
  PROVE  Listing'
<1>1. /\ draco_checker = "handler"
      /\ IsFiniteSet(ListedHooks)
      /\ ListedHooks \subseteq usable
      /\ Len(hash_table.process_head) = Cardinality(ListedHooks)
      /\ "node" \notin Failing => ListedHooks = usable
  BY DEF Listing, Served
<1>2. Listed \subseteq Task
  BY ListedTasks
<1>3. \A u \in Task : u # t => seccomp'[u] = seccomp[u]
  BY DEF Served, Hooked
<1>4. ListedHooks' = {seccomp'[u].draco_hook : u \in Listed'}
  BY DEF ListedHooks
<1>5. CASE HasHook(t)
  <2>1. seccomp'[t].draco_hook = seccomp[t].draco_hook /\ usable' = usable
    BY <1>5 DEF Served, Hooked
  <2>2. Listed' = Listed /\ Len(hash_table'.process_head) = Len(hash_table.process_head)
    BY <1>5, ListGrowsBy
  <2>3. ListedHooks' = ListedHooks
    BY <1>2, <1>3, <1>4, <2>1, <2>2 DEF ListedHooks
  <2> QED
    BY <1>1, <2>1, <2>2, <2>3 DEF Listing
<1>6. CASE ~ HasHook(t)
  <2>1. /\ seccomp'[t].draco_hook = h
        /\ usable' = usable \cup {h}
        /\ h \notin usable
    BY <1>6 DEF Served, Hooked
  <2>2. /\ Listed' = Listed \cup {t}
        /\ Len(hash_table'.process_head) = Len(hash_table.process_head) + 1
    BY <1>6, ListGrowsBy
  <2>3. t \notin Listed
    <3>1. NULL \notin usable
      BY Constants DEF TypeOK
    <3> QED
      BY <1>1, <1>6, <3>1 DEF ListedHooks, HasHook
  <2>4. ListedHooks' = ListedHooks \cup {h}
    BY <1>2, <1>3, <1>4, <2>1, <2>2, <2>3 DEF ListedHooks
  <2>5. h \notin ListedHooks
    BY <1>1, <2>1
  <2>6. /\ IsFiniteSet(ListedHooks')
        /\ Cardinality(ListedHooks') = Cardinality(ListedHooks) + 1
    BY <1>1, <2>4, <2>5, FS_AddElement
  <2> QED
    BY <1>1, <2>1, <2>2, <2>4, <2>6 DEF Listing
<1> QED
  BY <1>5, <1>6

\* An empty list.
LEMMA EmptyListing ==
  ASSUME hash_table'.process_head = << >>, "node" \notin Failing => usable' = {}
  PROVE  Listing'
<1>1. Listed' = {} /\ Len(hash_table'.process_head) = 0
  BY DEF Listed
<1>2. ListedHooks' = {}
  BY <1>1 DEF ListedHooks
<1> QED
  BY <1>1, <1>2, FS_EmptySet DEF Listing

LEMMA StepsListing ==
  ASSUME TypeOK, AllSound, HooksLive, Listing, Steps
  PROVE  Listing'
<1>1. CASE ProfilesChange /\ ModuleSame
  <2> SUFFICES ASSUME draco_checker = "handler" PROVE Listing'
    BY <1>1 DEF ModuleSame, Listing
  <2>1. Listed' = Listed
    BY <1>1 DEF ModuleSame, Listed
  <2>2. ASSUME NEW u \in Listed
        PROVE  seccomp'[u].draco_hook = seccomp[u].draco_hook
    <3>1. seccomp[u].draco_hook \in usable /\ NULL \notin usable
      BY Constants DEF Listing, ListedHooks, TypeOK
    <3>2. u \in Task /\ HasHook(u)
      BY <3>1, ListedTasks DEF HasHook
    <3> QED
      BY <1>1, <3>2 DEF ProfilesChange, Kept, Copied
  <2>3. ListedHooks' = ListedHooks
    BY <2>1, <2>2 DEF ListedHooks
  <2> QED
    BY <1>1, <2>3 DEF ModuleSame, Listing
<1>2. CASE Unserved
  BY <1>2 DEF Unserved, SameList, Listing, ListedHooks, Listed
<1>3. ASSUME NEW t \in Task, NEW s \in Syscall, NEW h \in Hook, EndedEarly(t, s, h)
      PROVE  Listing'
  BY <1>3, GrownListing, EmptyListing DEF EndedEarly
<1>4. ASSUME NEW t \in Task, NEW s \in Syscall, NEW h \in Hook, NEW regs \in Regs,
             LookupOf(t, s, h, regs)
      PROVE  Listing'
  <2>1. Served(t, s, h) /\ ListGrows(t)
    BY <1>4, LookupCases DEF LookedUp
  <2> QED
    BY <2>1, GrownListing
<1>5. CASE DracoInit
  <2>1. hash_table'.process_head = << >> /\ usable' = {}
    BY <1>5 DEF DracoInit, FreshHashTable, HooksLive
  <2> QED
    BY <2>1, EmptyListing
<1>6. CASE DracoExit
  BY <1>6 DEF DracoExit, Listing
<1> QED
  BY <1>1, <1>2, <1>3, <1>4, <1>5, <1>6 DEF Steps, NotListed, TurnedAway

-----------------------------------------------------------------------------
(* Who owns a table.                                                       *)

\* The tables in use after a lookup: the one used is the caller's alone.
LEMMA LookupOwns ==
  ASSUME TypeOK, PoolOwned, NEW t \in Task, NEW s \in Syscall, NEW h \in Hook,
         NEW i, NEW tab, LookedUp(t, s, h, i, tab)
  PROVE  /\ PoolOwned'
         /\ TableAt(h, s)' = i /\ i # NULL
         /\ \A g \in usable', r \in Syscall :
               TableAt(g, r)' # NULL /\ ~ (g = h /\ r = s) =>
                   /\ g \in usable
                   /\ TableAt(g, r)' = TableAt(g, r)
                   /\ TableAt(g, r)' # i
                   /\ g = h => HasHook(t)
         /\ ~ (HasHook(t) /\ TableAt(h, s) # NULL) => pool[i] = BlankTable
<1> DEFINE reused == HasHook(t) /\ TableAt(h, s) # NULL
<1>1. /\ i \in Table
      /\ SlotFilled(t, s, h, i)
      /\ \A j \in Table : pool'[j] = IF j = i THEN tab ELSE pool[j]
      /\ IF reused
         THEN i = TableAt(h, s) /\ hash_table'.cursor = hash_table.cursor
         ELSE i = hash_table.cursor /\ hash_table'.cursor = hash_table.cursor + 1
      /\ draco_checker = "handler"
      /\ h \in usable'
      /\ IF HasHook(t) THEN usable' = usable ELSE h \notin usable /\ usable' = usable \cup {h}
  BY DEF LookedUp, Served, Hooked
<1>2. /\ \A g \in usable, r \in Syscall :
            TableAt(g, r) # NULL => TableAt(g, r) < hash_table.cursor
      /\ \A g, f \in usable : \A r, q \in Syscall :
            TableAt(g, r) # NULL /\ TableAt(g, r) = TableAt(f, q) => g = f /\ r = q
      /\ \A j \in Table : j >= hash_table.cursor => pool[j] = BlankTable
  BY <1>1 DEF PoolOwned
<1>3. /\ usable \subseteq Hook /\ usable' \subseteq Hook
      /\ hash_table.cursor \in Int
      /\ \A g \in Hook, r \in Syscall : TableAt(g, r) \in Table \cup {NULL}
      /\ Table \subseteq Int
  BY <1>1 DEF TypeOK, HashTable, PerProcess, TableAt, Table
<1>4. TableAt(h, s)' = i /\ i # NULL
  BY <1>1, Constants DEF SlotFilled
<1>5. ASSUME NEW g \in usable', NEW r \in Syscall, TableAt(g, r)' # NULL,
             ~ (g = h /\ r = s)
      PROVE  /\ g \in usable
             /\ TableAt(g, r)' = TableAt(g, r)
             /\ g = h => HasHook(t)
  BY <1>1, <1>3, <1>5 DEF SlotFilled
<1>6. ASSUME NEW g \in usable', NEW r \in Syscall, TableAt(g, r)' # NULL,
             ~ (g = h /\ r = s)
      PROVE  TableAt(g, r)' # i
  <2>1. g \in usable /\ TableAt(g, r)' = TableAt(g, r) /\ TableAt(g, r) # NULL
    BY <1>5, <1>6
  <2>2. CASE reused
    BY <1>1, <1>2, <1>6, <2>1, <2>2
  <2>3. CASE ~ reused
    BY <1>1, <1>2, <1>3, <2>1, <2>3
  <2> QED
    BY <2>2, <2>3
<1>7. ~ reused => pool[i] = BlankTable
  BY <1>1, <1>2, <1>3
<1>8. hash_table.cursor <= hash_table'.cursor /\ hash_table'.cursor \in Int
  BY <1>1, <1>3
<1>9. i < hash_table'.cursor
  <2>1. CASE reused
    BY <1>1, <1>2, <1>3, <2>1
  <2>2. CASE ~ reused
    BY <1>1, <1>3, <2>2
  <2> QED
    BY <2>1, <2>2
<1>10. ASSUME NEW g \in usable', NEW r \in Syscall, TableAt(g, r)' # NULL
       PROVE  TableAt(g, r)' < hash_table'.cursor
  <2>1. CASE g = h /\ r = s
    BY <1>4, <1>9, <2>1
  <2>2. CASE ~ (g = h /\ r = s)
    <3>1. g \in usable /\ TableAt(g, r)' = TableAt(g, r)
      BY <1>5, <1>10, <2>2
    <3>2. TableAt(g, r) < hash_table.cursor /\ TableAt(g, r) \in Int
      BY <1>2, <1>3, <1>10, <3>1
    <3> QED
      BY <1>3, <1>8, <3>1, <3>2
  <2> QED
    BY <2>1, <2>2
<1>11. ASSUME NEW g \in usable', NEW f \in usable', NEW r \in Syscall, NEW q \in Syscall,
              TableAt(g, r)' # NULL, TableAt(g, r)' = TableAt(f, q)'
       PROVE  g = f /\ r = q
  <2>1. CASE ~ (g = h /\ r = s) /\ ~ (f = h /\ q = s)
    BY <1>2, <1>5, <1>11, <2>1
  <2>2. CASE g = h /\ r = s
    BY <1>4, <1>6, <1>11, <2>2
  <2>3. CASE f = h /\ q = s
    BY <1>4, <1>6, <1>11, <2>3
  <2> QED
    BY <2>1, <2>2, <2>3
<1>12. ASSUME NEW j \in Table, j >= hash_table'.cursor
       PROVE  pool'[j] = BlankTable
  <2>1. j # i /\ j >= hash_table.cursor
    BY <1>1, <1>3, <1>8, <1>9, <1>12
  <2> QED
    BY <1>1, <1>2, <2>1
<1>13. PoolOwned'
  BY <1>10, <1>11, <1>12 DEF PoolOwned
<1> QED
  BY <1>4, <1>5, <1>6, <1>7, <1>13

\* A call that ended early leaves every table where it was.
LEMMA EarlyTables ==
  ASSUME TypeOK, NEW t \in Task, NEW s \in Syscall, NEW h \in Hook, EndedEarly(t, s, h)
  PROVE  \A g \in usable', r \in Syscall :
            TableAt(g, r)' # NULL =>
                g \in usable /\ TableAt(g, r)' = TableAt(g, r) /\ (g = h => HasHook(t))
BY DEF EndedEarly, Served, Hooked, TypeOK

LEMMA StepsPool ==
  ASSUME TypeOK, AllSound, HooksLive, PoolOwned, Steps
  PROVE  PoolOwned'
<1>1. CASE ProfilesChange /\ ModuleSame
  BY <1>1 DEF ModuleSame, PoolOwned, TableAt
<1>2. CASE Unserved
  BY <1>2 DEF Unserved, SameList, PoolOwned, TableAt
<1>3. ASSUME NEW t \in Task, NEW s \in Syscall, NEW h \in Hook, EndedEarly(t, s, h)
      PROVE  PoolOwned'
  <2>1. /\ hash_table'.cursor = hash_table.cursor
        /\ pool' = pool
        /\ draco_checker = "handler"
    BY <1>3 DEF EndedEarly, Served
  <2> QED
    BY <1>3, <2>1, EarlyTables DEF PoolOwned
<1>4. ASSUME NEW t \in Task, NEW s \in Syscall, NEW h \in Hook, NEW regs \in Regs,
             LookupOf(t, s, h, regs)
      PROVE  PoolOwned'
  BY <1>4, LookupCases, LookupOwns
<1>5. CASE DracoInit
  BY <1>5 DEF DracoInit, PoolOwned, HooksLive
<1>6. CASE DracoExit
  BY <1>6 DEF DracoExit, PoolOwned
<1> QED
  BY <1>1, <1>2, <1>3, <1>4, <1>5, <1>6 DEF Steps, NotListed, TurnedAway

-----------------------------------------------------------------------------
(* What the tables hold, when profiles are built once.                     *)

\* A task with a hook has the structure of a task that had it before.
LEMMA HookedIsOld ==
  ASSUME ~ MayReload, HooksLive, ProfilesChange, NEW u \in Task, HasHook(u)'
  PROVE  \E t \in Task : seccomp'[u] = seccomp[t]
<1>1. CASE Kept(u)
  <2>1. HasHook(u)
    BY <1>1 DEF Kept, HasHook
  <2> QED
    BY <1>1, <2>1 DEF Kept, HooksLive
<1>2. CASE Copied(u)
  BY <1>2 DEF Copied
<1> QED
  BY <1>1, <1>2 DEF ProfilesChange

\* The profile of a task does not change in a call, whoever calls.
LEMMA ServedProfiles ==
  ASSUME NEW t \in Task, NEW s, NEW h \in Hook, Served(t, s, h)
  PROVE  /\ \A u \in Task : seccomp'[u].argument_count_table
                              = seccomp[u].argument_count_table
         /\ \A u \in Task : u # t => seccomp'[u].draco_hook = seccomp[u].draco_hook
         /\ seccomp'[t].draco_hook = h
         /\ HasHook(t) => seccomp[t].draco_hook = h
         /\ ~ HasHook(t) => \A u \in Task : seccomp[u].draco_hook # h
<1>1. \A u \in Task : u # t => seccomp'[u] = seccomp[u]
  BY DEF Served, Hooked
<1>2. seccomp'[t].argument_count_table = seccomp[t].argument_count_table
  BY DEF Served, Hooked, SameProfile
<1> QED
  BY <1>1, <1>2 DEF Served, Hooked

LEMMA ServedAgree ==
  ASSUME KeysAgree, NEW t \in Task, NEW s, NEW h \in Hook, Served(t, s, h)
  PROVE  KeysAgree'
<1> SUFFICES ASSUME NEW u \in Task, NEW v \in Task,
                    HasHook(u)', seccomp'[u].draco_hook = seccomp'[v].draco_hook
             PROVE  seccomp'[u].argument_count_table = seccomp'[v].argument_count_table
  BY DEF KeysAgree
<1> SUFFICES seccomp[u].argument_count_table = seccomp[v].argument_count_table
  BY ServedProfiles
<1>1. CASE HasHook(t)
  <2>1. \A w \in Task : seccomp'[w].draco_hook = seccomp[w].draco_hook
    BY <1>1, ServedProfiles
  <2> QED
    BY <2>1 DEF KeysAgree, HasHook
<1>2. CASE ~ HasHook(t) /\ u # t /\ v # t
  BY <1>2, ServedProfiles DEF KeysAgree, HasHook
<1>3. CASE ~ HasHook(t) /\ (u = t \/ v = t)
  BY <1>3, ServedProfiles
<1> QED
  BY <1>1, <1>2, <1>3

\* The table of a lookup answers for keys of the caller's length.
LEMMA UsedExact ==
  ASSUME TypeOK, PoolOwned, TablesExact, NEW t \in Task, NEW s \in Syscall,
         NEW h \in Hook, NEW i, NEW tab, LookedUp(t, s, h, i, tab)
  PROVE  Exact(pool[i], KeyLength(t, s))
<1>1. CASE HasHook(t) /\ TableAt(h, s) # NULL
  <2>1. i = TableAt(h, s) /\ seccomp[t].draco_hook = h /\ h \in usable
    BY <1>1 DEF LookedUp, Served, Hooked
  <2> QED
    BY <1>1, <2>1 DEF TablesExact
<1>2. CASE ~ (HasHook(t) /\ TableAt(h, s) # NULL)
  BY <1>2, LookupOwns, BlankExact
<1> QED
  BY <1>1, <1>2

LEMMA LookupExact ==
  ASSUME TypeOK, PoolOwned, KeysAgree, TablesExact, NEW t \in Task, NEW s \in Syscall,
         NEW h \in Hook, NEW i, NEW tab, LookedUp(t, s, h, i, tab),
         Exact(tab, KeyLength(t, s))
  PROVE  TablesExact'
<1> SUFFICES ASSUME NEW u \in Task, NEW r \in Syscall, NEW g,
                    g = seccomp'[u].draco_hook,
                    g \in usable', TableAt(g, r)' # NULL
             PROVE  Exact(pool'[TableAt(g, r)'], KeyLength(u, r)')
  BY DEF TablesExact, TableAt
<1>1. Served(t, s, h) /\ i \in Table
      /\ \A j \in Table : pool'[j] = IF j = i THEN tab ELSE pool[j]
  BY DEF LookedUp
<1>2. KeyLength(u, r)' = KeyLength(u, r)
  BY <1>1, ServedProfiles DEF KeyLength
<1>3. CASE g = h /\ r = s
  <2>1. TableAt(g, r)' = i /\ pool'[i] = tab
    BY <1>1, <1>3, LookupOwns
  <2>2. KeyLength(u, r) = KeyLength(t, s)
    <3>1. seccomp[u].argument_count_table = seccomp[t].argument_count_table
      <4>1. CASE u = t
        BY <4>1
      <4>2. CASE u # t
        <5>1. seccomp[u].draco_hook = h /\ HasHook(u)
          <6>1. seccomp'[u].draco_hook = seccomp[u].draco_hook
            BY <1>1, <4>2, ServedProfiles
          <6> QED
            BY <1>3, <6>1, Constants DEF HasHook
        <5>2. seccomp[t].draco_hook = h
          BY <1>1, <5>1, ServedProfiles
        <5> QED
          BY <5>1, <5>2 DEF KeysAgree
      <4> QED
        BY <4>1, <4>2
    <3> QED
      BY <1>3, <3>1 DEF KeyLength
  <2> QED
    BY <1>2, <2>1, <2>2
<1>4. CASE ~ (g = h /\ r = s)
  <2>1. /\ g \in usable
        /\ TableAt(g, r)' = TableAt(g, r)
        /\ TableAt(g, r)' # i
        /\ g = h => HasHook(t)
    BY <1>4, LookupOwns
  <2>2. seccomp[u].draco_hook = g
    BY <1>1, <2>1, ServedProfiles
  <2>3. TableAt(g, r) # NULL
    BY <2>1
  <2>4. TableAt(g, r) \in Table
    BY <2>1, <2>3 DEF TypeOK, PerProcess, TableAt
  <2>5. pool'[TableAt(g, r)] = pool[TableAt(g, r)]
    BY <1>1, <2>1, <2>4
  <2>6. Exact(pool[TableAt(g, r)], KeyLength(u, r))
    BY <2>1, <2>2, <2>3 DEF TablesExact
  <2> QED
    BY <1>2, <2>1, <2>5, <2>6
<1> QED
  BY <1>3, <1>4

\* Each of the three lookups leaves its table exact.
LEMMA LookupKeepsExact ==
  ASSUME TypeOK, PoolOwned, TablesExact, NEW t \in Task, NEW s \in Syscall,
         NEW h \in Hook, NEW regs \in Regs, LookupOf(t, s, h, regs)
  PROVE  \E i \in Table, tab \in SyscallTable :
            LookedUp(t, s, h, i, tab) /\ Exact(tab, KeyLength(t, s))
<1> DEFINE n == KeyLength(t, s)
           key == KeyOf(t, s, regs)
<1>1. n \in 0 .. MaxArgumentCount /\ key \in KeysOf(n)
  BY KeyOfType
<1>2. CASE ConflictBy(t, s, h, regs)
  <2>1. PICK i \in Table, tab \in SyscallTable :
            LookedUp(t, s, h, i, tab) /\ SameRows(pool[i], tab)
    BY <1>2 DEF ConflictBy
  <2> QED
    BY <2>1, UsedExact, SameRowsSame
<1>3. ASSUME NEW w \in Way, HitBy(t, s, h, regs, w)
      PROVE  \E i \in Table, tab \in SyscallTable :
                LookedUp(t, s, h, i, tab) /\ Exact(tab, n)
  <2>1. PICK i \in Table, tab \in SyscallTable :
            LookedUp(t, s, h, i, tab) /\ SameRows(pool[i], tab)
    BY <1>3 DEF HitBy
  <2> QED
    BY <2>1, UsedExact, SameRowsSame
<1>4. ASSUME NEW w \in Way, InsertBy(t, s, h, regs, w)
      PROVE  \E i \in Table, tab \in SyscallTable :
                LookedUp(t, s, h, i, tab) /\ Exact(tab, n)
  <2>1. PICK i \in Table, tab \in SyscallTable :
            /\ LookedUp(t, s, h, i, tab)
            /\ ProbeEnds(pool[i], Hash[key], key, w)
            /\ ~ Found(pool[i], Hash[key], w)
            /\ SameRows(Occupy(pool[i], Hash[key], w, key), tab)
    BY <1>4 DEF InsertBy, Probed
  <2>2. Exact(pool[i], n) /\ pool[i] \in SyscallTable
    BY <2>1, UsedExact DEF TypeOK
  <2>3. Exact(Occupy(pool[i], Hash[key], w, key), n)
    BY <1>1, <2>1, <2>2, InsertKeepsExact
  <2>4. Exact(tab, n)
    BY <2>1, <2>3, SameRowsSame
  <2> QED
    BY <2>1, <2>4
<1> QED
  BY <1>2, <1>3, <1>4 DEF LookupOf

LEMMA StepsExact ==
  ASSUME TypeOK, AllSound, HooksLive, PoolOwned, ~ MayReload, KeysAgree, TablesExact,
         Steps
  PROVE  KeysAgree' /\ TablesExact'
<1>1. CASE ProfilesChange /\ ModuleSame
  <2>1. KeysAgree'
    <3> SUFFICES ASSUME NEW u \in Task, NEW v \in Task,
                        HasHook(u)', seccomp'[u].draco_hook = seccomp'[v].draco_hook
                 PROVE  seccomp'[u].argument_count_table = seccomp'[v].argument_count_table
      BY DEF KeysAgree
    <3>1. HasHook(v)'
      BY DEF HasHook
    <3>2. PICK a \in Task : seccomp'[u] = seccomp[a]
      BY <1>1, HookedIsOld
    <3>3. PICK b \in Task : seccomp'[v] = seccomp[b]
      BY <1>1, <3>1, HookedIsOld
    <3> QED
      BY <3>2, <3>3 DEF KeysAgree, HasHook
  <2>2. TablesExact'
    <3> SUFFICES ASSUME NEW u \in Task, NEW r \in Syscall,
                        seccomp'[u].draco_hook \in usable,
                        TableAt(seccomp'[u].draco_hook, r) # NULL
                 PROVE  Exact(pool[TableAt(seccomp'[u].draco_hook, r)], KeyLength(u, r)')
      BY <1>1 DEF TablesExact, ModuleSame, TableAt
    <3>1. HasHook(u)'
      BY Constants DEF HasHook, TypeOK
    <3>2. PICK a \in Task : seccomp'[u] = seccomp[a]
      BY <1>1, <3>1, HookedIsOld
    <3> QED
      BY <3>2 DEF TablesExact, KeyLength
  <2> QED
    BY <2>1, <2>2
<1>2. CASE Unserved
  BY <1>2 DEF Unserved, KeysAgree, TablesExact, TableAt, HasHook, KeyLength
<1>3. ASSUME NEW t \in Task, NEW s \in Syscall, NEW h \in Hook, EndedEarly(t, s, h)
      PROVE  KeysAgree' /\ TablesExact'
  <2>1. Served(t, s, h) /\ pool' = pool
    BY <1>3 DEF EndedEarly
  <2>2. TablesExact'
    <3> SUFFICES ASSUME NEW u \in Task, NEW r \in Syscall, NEW g,
                        g = seccomp'[u].draco_hook,
                        g \in usable', TableAt(g, r)' # NULL
                 PROVE  Exact(pool'[TableAt(g, r)'], KeyLength(u, r)')
      BY DEF TablesExact, TableAt
    <3>1. g \in usable /\ TableAt(g, r)' = TableAt(g, r) /\ (g = h => HasHook(t))
      BY <1>3, EarlyTables
    <3>2. seccomp[u].draco_hook = g
      BY <2>1, <3>1, ServedProfiles
    <3>3. KeyLength(u, r)' = KeyLength(u, r)
      BY <2>1, ServedProfiles DEF KeyLength
    <3>4. TableAt(g, r) # NULL
      BY <3>1
    <3> QED
      BY <2>1, <3>1, <3>2, <3>3, <3>4 DEF TablesExact
  <2> QED
    BY <2>1, <2>2, ServedAgree
<1>4. ASSUME NEW t \in Task, NEW s \in Syscall, NEW h \in Hook, NEW regs \in Regs,
             LookupOf(t, s, h, regs)
      PROVE  KeysAgree' /\ TablesExact'
  <2>1. PICK i \in Table, tab \in SyscallTable :
            LookedUp(t, s, h, i, tab) /\ Exact(tab, KeyLength(t, s))
    BY <1>4, LookupKeepsExact
  <2>2. Served(t, s, h)
    BY <2>1 DEF LookedUp
  <2> QED
    BY <2>1, <2>2, ServedAgree, LookupExact
<1>5. CASE DracoInit
  BY <1>5 DEF DracoInit, KeysAgree, TablesExact, HooksLive, HasHook
<1>6. CASE DracoExit
  <2>1. KeysAgree'
    BY <1>6, ExitHooks DEF KeysAgree, HasHook, SameProfile
  <2> QED
    BY <1>6, <2>1, ExitHooks DEF TablesExact
<1> QED
  BY <1>1, <1>2, <1>3, <1>4, <1>5, <1>6 DEF Steps, NotListed, TurnedAway

-----------------------------------------------------------------------------
(* The theorems.                                                           *)

LEMMA StepsInv == MInv /\ Steps => MInv'
<1> SUFFICES ASSUME MInv, Steps PROVE MInv'
  OBVIOUS
<1>1. TypeOK /\ AllSound /\ HooksLive /\ PoolOwned /\ Listing
  BY ListingIs DEF MInv
<1>2. TypeOK' /\ AllSound' /\ HooksLive' /\ PoolOwned'
  BY <1>1, StepsType, StepsLive, StepsPool
<1>3. HooksListed' /\ HooksFreed'
  <2>1. Listing'
    BY <1>1, StepsListing
  <2> QED
    BY <2>1 DEF Listing, HooksListed, HooksFreed, ListedHooks
<1>4. ~ MayReload => KeysAgree' /\ TablesExact'
  BY <1>1, StepsExact DEF MInv
<1> QED
  BY <1>2, <1>3, <1>4 DEF MInv

LEMMA StutterInv == MInv /\ UNCHANGED vars => MInv'
BY DEF MInv, vars, TypeOK, AllSound, HooksLive, HooksListed, ListedHooks, Listed,
       HooksFreed, PoolOwned, KeysAgree, TablesExact, TableAt, HasHook, KeyLength

LEMMA AlwaysInv == Spec => []MInv
<1>1. MInv /\ [Next]_vars => MInv'
  BY NextSteps, StepsInv, StutterInv DEF MInv
<1> QED
  BY InitInv, <1>1, PTL DEF Spec

\* Counters, lists and table pointers stay within their arrays; a handler
\* never takes a table past the end of the pool.
THEOREM ModuleTypeCorrect == Spec => []TypeOK
BY AlwaysInv, PTL DEF MInv

\* No two caches share a table, and a table nobody drew is blank, also after
\* the module was unloaded and loaded again.
THEOREM PoolIsOwned == Spec => []PoolOwned
BY AlwaysInv, PTL DEF MInv

\* The unload frees each hook once, whatever was forked in between.
THEOREM HooksFreedOnce == Spec => []HooksFreed
BY AlwaysInv, PTL DEF MInv

\* What BucketsSound says of one table.
SoundTable(tab, n) ==
    /\ \A b \in Bucket : \A v, w \in Way :
          v < w /\ tab.flag[b][w] = 1 =>
            tab.flag[b][v] = 1 /\ tab.table[b][v] # tab.table[b][w]
    /\ \A slot \in FlaggedSlots(tab) :
          LET row == tab.table[slot[1]][slot[2]]
              key == [i \in 1 .. n |-> row[i]]
          IN Hash[key] = slot[1] /\ row = Padded(key)

LEMMA ExactIsSound ==
  ASSUME NEW tab, NEW n, Exact(tab, n)
  PROVE  SoundTable(tab, n)
<1>1. \A b \in Bucket : \A v, w \in Way :
          v < w /\ tab.flag[b][w] = 1 =>
              tab.flag[b][v] = 1 /\ tab.table[b][v] # tab.table[b][w]
  BY DEF Exact, FlagsFirst, RowsDiffer
<1>2. ASSUME NEW slot \in FlaggedSlots(tab)
      PROVE  LET row == tab.table[slot[1]][slot[2]]
                 key == [i \in 1 .. n |-> row[i]]
             IN Hash[key] = slot[1] /\ row = Padded(key)
  <2>1. slot[1] \in Bucket /\ slot[2] \in Way /\ tab.flag[slot[1]][slot[2]] = 1
    BY DEF FlaggedSlots
  <2> QED
    BY <2>1 DEF Exact, RowsKeyed, Cut
<1> QED
  BY <1>1, <1>2 DEF SoundTable

LEMMA MInvBuckets == ASSUME MayReload = FALSE, MInv PROVE BucketsSound
<1>1. BucketsSound <=>
        \A t \in Task, s \in Syscall :
            seccomp[t].draco_hook \in usable /\ TableAt(seccomp[t].draco_hook, s) # NULL
              => SoundTable(pool[TableAt(seccomp[t].draco_hook, s)], KeyLength(t, s))
  BY DEF BucketsSound, SoundTable, KeyLength
<1> QED
  BY <1>1, ExactIsSound DEF MInv, TablesExact

\* When profiles are built once, no probe misses a row that is there.
THEOREM BucketsAreSound ==
  ASSUME MayReload = FALSE PROVE Spec => []BucketsSound
<1>1. MInv => BucketsSound
  BY MInvBuckets
<1> QED
  BY <1>1, AlwaysInv, PTL

-----------------------------------------------------------------------------
(* Rows stay.                                                              *)

LEMMA LookupKeepsRows ==
  ASSUME TypeOK, NEW t \in Task, NEW s \in Syscall, NEW h \in Hook, NEW regs \in Regs,
         LookupOf(t, s, h, regs)
  PROVE  \E i \in Table, tab \in SyscallTable :
            LookedUp(t, s, h, i, tab) /\ Rows(pool[i]) \subseteq Rows(tab)
<1> DEFINE key == KeyOf(t, s, regs)
           b == Hash[key]
<1>1. KeyLength(t, s) \in 0 .. MaxArgumentCount /\ key \in KeysOf(KeyLength(t, s))
      /\ b \in Bucket
  BY KeyOfType
<1>2. CASE ConflictBy(t, s, h, regs)
  BY <1>2, SameRowsSame DEF ConflictBy
<1>3. ASSUME NEW w \in Way, HitBy(t, s, h, regs, w)
      PROVE  \E i \in Table, tab \in SyscallTable :
                LookedUp(t, s, h, i, tab) /\ Rows(pool[i]) \subseteq Rows(tab)
  BY <1>3, SameRowsSame DEF HitBy
<1>4. ASSUME NEW w \in Way, InsertBy(t, s, h, regs, w)
      PROVE  \E i \in Table, tab \in SyscallTable :
                LookedUp(t, s, h, i, tab) /\ Rows(pool[i]) \subseteq Rows(tab)
  <2>1. PICK i \in Table, tab \in SyscallTable :
            /\ LookedUp(t, s, h, i, tab)
            /\ ~ Found(pool[i], b, w)
            /\ SameRows(Occupy(pool[i], b, w, key), tab)
    BY <1>4 DEF InsertBy
  <2>2. pool[i] \in SyscallTable
    BY DEF TypeOK
  <2>3. pool[i].flag[b][w] # 1
    BY <2>1, WayRange DEF Found
  <2>4. Rows(pool[i]) \subseteq Rows(Occupy(pool[i], b, w, key))
    BY <1>1, <2>2, <2>3, OccupyKeepsRows
  <2>5. Rows(tab) = Rows(Occupy(pool[i], b, w, key))
    BY <2>1, SameRowsSame
  <2> QED
    BY <2>1, <2>4, <2>5
<1> QED
  BY <1>2, <1>3, <1>4 DEF LookupOf

RowsKept ==
    draco_checker = "handler" /\ draco_checker' = "handler" =>
        \A i \in Table : Rows(pool[i]) \subseteq Rows(pool[i])'

LEMMA StepsKeepRows ==
  ASSUME TypeOK, Steps
  PROVE  RowsKept
<1>1. CASE pool' = pool
  BY <1>1 DEF RowsKept, Rows, FlaggedSlots
<1>2. ASSUME NEW t \in Task, NEW s \in Syscall, NEW h \in Hook, NEW regs \in Regs,
             LookupOf(t, s, h, regs)
      PROVE  RowsKept
  <2>1. PICK i \in Table, tab \in SyscallTable :
            LookedUp(t, s, h, i, tab) /\ Rows(pool[i]) \subseteq Rows(tab)
    BY <1>2, LookupKeepsRows
  <2>2. \A j \in Table : pool'[j] = IF j = i THEN tab ELSE pool[j]
    BY <2>1 DEF LookedUp
  <2>3. \A j \in Table : Rows(pool[j])' = IF j = i THEN Rows(tab) ELSE Rows(pool[j])
    BY <2>2 DEF Rows, FlaggedSlots
  <2> QED
    BY <2>1, <2>3 DEF RowsKept
<1>3. CASE DracoInit
  BY <1>3 DEF DracoInit, RowsKept
<1> QED
  BY <1>1, <1>2, <1>3 DEF Steps, ModuleSame, Unserved, NotListed, TurnedAway,
                          EndedEarly, DracoExit

\* While the module is loaded no table gives up or changes a row: a probe that
\* ended at a row will end there again.
THEOREM RowsAlwaysStay == Spec => RowsStay
<1>1. TypeOK /\ AllSound /\ [Next]_vars => [RowsKept]_vars
  BY NextSteps, StepsKeepRows
<1>2. MInv => TypeOK /\ AllSound
  BY DEF MInv
<1> QED
  BY <1>1, <1>2, AlwaysInv, PTL DEF Spec, RowsStay, RowsKept

-----------------------------------------------------------------------------
(* The module implements the memo.                                         *)

RememberedBy(h, s, row) ==
    h \in usable /\ TableAt(h, s) # NULL /\ row \in Rows(pool[TableAt(h, s)])

LEMMA RememberedIs ==
  /\ Remembered \subseteq Entry
  /\ \A h \in Hook, s \in Syscall, row \in Row :
        <<h, s, row>> \in Remembered <=> RememberedBy(h, s, row)
BY DEF Remembered, RememberedBy, Entry

\* Two sets of entries are the same when they agree on triples.
LEMMA SameEntries ==
  ASSUME NEW A \in SUBSET Entry, NEW B \in SUBSET Entry,
         \A h \in Hook, s \in Syscall, row \in Row :
            <<h, s, row>> \in A <=> <<h, s, row>> \in B
  PROVE  A = B
BY DEF Entry

LEMMA BlankRows == Rows(BlankTable) = {}
BY BlankExact DEF Rows, FlaggedSlots

\* Before a lookup the memo holds, for its hook and number, the rows of the
\* table it uses.
LEMMA LookupSees ==
  ASSUME TypeOK, PoolOwned, NEW t \in Task, NEW s \in Syscall, NEW h \in Hook,
         NEW i \in Table, NEW tab, LookedUp(t, s, h, i, tab), NEW row \in Row
  PROVE  <<h, s, row>> \in Remembered <=> row \in Rows(pool[i])
<1>1. CASE HasHook(t) /\ TableAt(h, s) # NULL
  <2>1. i = TableAt(h, s) /\ h \in usable
    BY <1>1 DEF LookedUp, Served, Hooked
  <2> QED
    BY <1>1, <2>1, RememberedIs DEF RememberedBy
<1>2. CASE ~ (HasHook(t) /\ TableAt(h, s) # NULL)
  <2>1. pool[i] = BlankTable
    BY <1>2, LookupOwns
  <2>2. ~ (h \in usable /\ TableAt(h, s) # NULL)
    BY <1>2 DEF LookedUp, Served, Hooked
  <2> QED
    BY <2>1, <2>2, BlankRows, RememberedIs DEF RememberedBy
<1> QED
  BY <1>1, <1>2

\* Rows of the table hook h has for call s, as entries.
Added(h, s, rows) == {<<h, s, row>> : row \in rows}

LEMMA AddedIs ==
  ASSUME NEW h, NEW s, NEW row
  PROVE  Added(h, s, {}) = {} /\ Added(h, s, {row}) = {<<h, s, row>>}
BY DEF Added

\* A lookup changes what the memo holds by the rows it adds to its table.
LEMMA LookupRemembers ==
  ASSUME TypeOK, PoolOwned, NEW t \in Task, NEW s \in Syscall, NEW h \in Hook,
         NEW i \in Table, NEW tab, LookedUp(t, s, h, i, tab),
         NEW new \in SUBSET Row, Rows(tab) = Rows(pool[i]) \cup new
  PROVE  Remembered' = Remembered \cup Added(h, s, new)
<1> DEFINE added == Added(h, s, new)
<1>1. \A j \in Table : pool'[j] = IF j = i THEN tab ELSE pool[j]
  BY DEF LookedUp
<1>2. \A j \in Table : Rows(pool[j])' = IF j = i THEN Rows(tab) ELSE Rows(pool[j])
  BY <1>1 DEF Rows, FlaggedSlots
<1>3. /\ TableAt(h, s)' = i /\ i # NULL
      /\ h \in usable'
  BY LookupOwns DEF LookedUp, Served, Hooked
<1>4. ASSUME NEW g \in Hook, NEW r \in Syscall, NEW row \in Row
      PROVE  <<g, r, row>> \in Remembered' <=> RememberedBy(g, r, row)'
  BY RememberedIs DEF Remembered, RememberedBy, Entry
<1>5. ASSUME NEW row \in Row
      PROVE  <<h, s, row>> \in Remembered' <=> <<h, s, row>> \in Remembered \cup added
  <2>1. RememberedBy(h, s, row)' <=> row \in Rows(tab)
    BY <1>2, <1>3 DEF RememberedBy, Rows, FlaggedSlots
  <2>2. <<h, s, row>> \in Remembered <=> row \in Rows(pool[i])
    BY LookupSees
  <2>3. <<h, s, row>> \in added <=> row \in new
    BY DEF Added
  <2> QED
    BY <1>4, <2>1, <2>2, <2>3
<1>6. ASSUME NEW g \in Hook, NEW r \in Syscall, NEW row \in Row, ~ (g = h /\ r = s)
      PROVE  RememberedBy(g, r, row)' <=> RememberedBy(g, r, row)
  <2>1. ASSUME RememberedBy(g, r, row)' PROVE RememberedBy(g, r, row)
    <3>1. g \in usable' /\ TableAt(g, r)' # NULL /\ row \in Rows(pool[TableAt(g, r)])'
      BY <2>1 DEF RememberedBy, Rows, FlaggedSlots
    <3>2. g \in usable /\ TableAt(g, r)' = TableAt(g, r) /\ TableAt(g, r)' # i
      BY <1>6, <3>1, LookupOwns
    <3>3. TableAt(g, r) \in Table
      BY <3>1, <3>2 DEF TypeOK, PerProcess, TableAt
    <3>4. pool'[TableAt(g, r)'] = pool[TableAt(g, r)]
      BY <1>1, <3>2, <3>3
    <3> QED
      BY <3>1, <3>2, <3>4 DEF RememberedBy, Rows, FlaggedSlots
  <2>2. ASSUME RememberedBy(g, r, row) PROVE RememberedBy(g, r, row)'
    <3>1. g \in usable /\ TableAt(g, r) # NULL /\ row \in Rows(pool[TableAt(g, r)])
      BY <2>2 DEF RememberedBy
    <3>2. g \in usable' /\ TableAt(g, r)' = TableAt(g, r)
      BY <1>6, <3>1 DEF LookedUp, Served, Hooked, SlotFilled
    <3>3. TableAt(g, r)' # i
      BY <1>6, <3>1, <3>2, LookupOwns
    <3>4. TableAt(g, r) \in Table
      BY <3>1 DEF TypeOK, PerProcess, TableAt
    <3>5. pool'[TableAt(g, r)'] = pool[TableAt(g, r)]
      BY <1>1, <3>2, <3>3, <3>4
    <3> QED
      BY <3>1, <3>2, <3>5 DEF RememberedBy, Rows, FlaggedSlots
  <2> QED
    BY <2>1, <2>2
<1>7. ASSUME NEW g \in Hook, NEW r \in Syscall, NEW row \in Row
      PROVE  <<g, r, row>> \in Remembered' <=> <<g, r, row>> \in Remembered \cup added
  <2>1. CASE g = h /\ r = s
    BY <1>5, <2>1
  <2>2. CASE ~ (g = h /\ r = s)
    <3>1. <<g, r, row>> \notin added
      BY <2>2 DEF Added
    <3> QED
      BY <1>4, <1>6, <2>2, <3>1, RememberedIs
  <2> QED
    BY <2>1, <2>2
<1>8. Remembered' \in SUBSET Entry
  BY DEF Remembered
<1>9. Remembered \cup added \in SUBSET Entry
  BY RememberedIs DEF Entry, Added
<1> DEFINE after == Remembered'
           expected == Remembered \cup added
<1> HIDE DEF added, after, expected
<1>10. after = expected
  <2>1. /\ after \in SUBSET Entry
        /\ expected \in SUBSET Entry
        /\ \A g \in Hook, r \in Syscall, row \in Row :
              <<g, r, row>> \in after <=> <<g, r, row>> \in expected
    BY <1>7, <1>8, <1>9 DEF after, expected
  <2> QED
    BY <2>1, SameEntries
<1> QED
  BY <1>10 DEF added, after, expected

\* Where no row is added or dropped the memo stays.
LEMMA SameTablesRemember ==
  ASSUME pool' = pool, TypeOK, usable' \subseteq Hook, usable \subseteq usable',
         \A g \in usable', r \in Syscall :
            TableAt(g, r)' # NULL => g \in usable /\ TableAt(g, r)' = TableAt(g, r),
         \A g \in usable, r \in Syscall :
            TableAt(g, r) # NULL => TableAt(g, r)' = TableAt(g, r)
  PROVE  Remembered' = Remembered
<1> SUFFICES ASSUME NEW e \in Entry
             PROVE  e \in Remembered' <=> e \in Remembered
  BY DEF Remembered
<1> DEFINE h == e[1]
           s == e[2]
<1>1. h \in Hook /\ s \in Syscall
  BY DEF Entry
<1>2. e \in Remembered <=>
        h \in usable /\ TableAt(h, s) # NULL /\ e[3] \in Rows(pool[TableAt(h, s)])
  BY DEF Remembered
<1>3. e \in Remembered' <=>
        h \in usable' /\ TableAt(h, s)' # NULL /\ e[3] \in Rows(pool[TableAt(h, s)'])
  BY DEF Remembered, Rows, FlaggedSlots, TableAt
<1> HIDE DEF h, s
<1> QED
  BY <1>1, <1>2, <1>3

LEMMA EarlyRemembers ==
  ASSUME TypeOK, NEW t \in Task, NEW s \in Syscall, NEW h \in Hook, EndedEarly(t, s, h)
  PROVE  Remembered' = Remembered
<1>1. \A g \in usable', r \in Syscall :
        TableAt(g, r)' # NULL => g \in usable /\ TableAt(g, r)' = TableAt(g, r)
  BY EarlyTables
<1>2. /\ pool' = pool
      /\ usable' \subseteq Hook /\ usable \subseteq usable'
      /\ ~ HasHook(t) => h \notin usable
      /\ \A g \in Hook, r \in Syscall :
            TableAt(g, r)' = IF g = h /\ ~ HasHook(t) THEN NULL ELSE TableAt(g, r)
      /\ usable \subseteq Hook
  BY DEF EndedEarly, Served, Hooked, TypeOK
<1>3. \A g \in usable, r \in Syscall : TableAt(g, r) # NULL => TableAt(g, r)' = TableAt(g, r)
  BY <1>2
<1> QED
  BY <1>1, <1>2, <1>3, SameTablesRemember

MemoStep == [Memo!MemoNext]_<<Remembered, answer>>

\* A lookup is a hit of a remembered call, or a miss of one that is not.
LEMMA LookupIsMemoStep ==
  ASSUME TypeOK, PoolOwned, TablesExact, NEW t \in Task, NEW s \in Syscall,
         NEW h \in Hook, NEW regs \in Regs, LookupOf(t, s, h, regs)
  PROVE  MemoStep
<1> DEFINE n == KeyLength(t, s)
           key == KeyOf(t, s, regs)
           e == <<h, s, Padded(key)>>
<1>1. n \in 0 .. MaxArgumentCount /\ key \in KeysOf(n) /\ e \in Entry
      /\ Padded(key) \in Row /\ Hash[key] \in Bucket
  BY KeyOfType, PaddedType
<1>2. ASSUME NEW w \in Way, HitBy(t, s, h, regs, w)
      PROVE  Memo!Hit(e)
  <2>1. PICK i \in Table, tab \in SyscallTable :
            /\ LookedUp(t, s, h, i, tab)
            /\ ProbeEnds(pool[i], Hash[key], key, w)
            /\ Found(pool[i], Hash[key], w)
            /\ SameRows(pool[i], tab)
            /\ answer' = [entry |-> e, hit |-> TRUE]
    BY <1>2 DEF HitBy, Probed, Answered
  <2>2. Exact(pool[i], n) /\ pool[i] \in SyscallTable
    BY <2>1, UsedExact DEF TypeOK
  <2>3. Padded(key) \in Rows(pool[i])
    BY <1>1, <2>1, <2>2, HitIsThere
  <2>4. e \in Remembered
    BY <1>1, <2>1, <2>3, LookupSees
  <2>5. Remembered' = Remembered \cup Added(h, s, {})
    <3>1. Rows(tab) = Rows(pool[i]) \cup {}
      BY <2>1, SameRowsSame
    <3> QED
      BY <2>1, <3>1, LookupRemembers
  <2> QED
    BY <2>1, <2>4, <2>5, AddedIs DEF Memo!Hit
<1>3. CASE ConflictBy(t, s, h, regs)
  <2>1. PICK i \in Table, tab \in SyscallTable :
            /\ LookedUp(t, s, h, i, tab)
            /\ ProbeEnds(pool[i], Hash[key], key, Asos)
            /\ SameRows(pool[i], tab)
            /\ answer' = [entry |-> e, hit |-> FALSE]
    BY <1>3 DEF ConflictBy, Probed, Answered
  <2>2. Exact(pool[i], n) /\ pool[i] \in SyscallTable
    BY <2>1, UsedExact DEF TypeOK
  <2>3. Padded(key) \notin Rows(pool[i])
    <3>1. ~ Found(pool[i], Hash[key], Asos) /\ Asos \in 0 .. Asos
      BY WayRange DEF Found
    <3> QED
      BY <1>1, <2>1, <2>2, <3>1, MissIsNotThere
  <2>4. e \notin Remembered
    BY <1>1, <2>1, <2>3, LookupSees
  <2>5. Remembered' = Remembered \cup Added(h, s, {})
    <3>1. Rows(tab) = Rows(pool[i]) \cup {}
      BY <2>1, SameRowsSame
    <3> QED
      BY <2>1, <3>1, LookupRemembers
  <2>6. Memo!Miss(e)
    BY <2>1, <2>4, <2>5, AddedIs DEF Memo!Miss
  <2> QED
    BY <1>1, <2>6 DEF MemoStep, Memo!MemoNext
<1>4. ASSUME NEW w \in Way, InsertBy(t, s, h, regs, w)
      PROVE  Memo!Miss(e)
  <2>1. PICK i \in Table, tab \in SyscallTable :
            /\ LookedUp(t, s, h, i, tab)
            /\ ProbeEnds(pool[i], Hash[key], key, w)
            /\ ~ Found(pool[i], Hash[key], w)
            /\ SameRows(Occupy(pool[i], Hash[key], w, key), tab)
            /\ answer' = [entry |-> e, hit |-> FALSE]
    BY <1>4 DEF InsertBy, Probed, Answered
  <2>2. Exact(pool[i], n) /\ pool[i] \in SyscallTable
    BY <2>1, UsedExact DEF TypeOK
  <2>3. Padded(key) \notin Rows(pool[i])
    <3>1. w \in 0 .. Asos
      BY WayRange
    <3> QED
      BY <1>1, <2>1, <2>2, <3>1, MissIsNotThere
  <2>4. e \notin Remembered
    BY <1>1, <2>1, <2>3, LookupSees
  <2>5. Remembered' = Remembered \cup Added(h, s, {Padded(key)})
    <3>1. Rows(tab) = Rows(pool[i]) \cup {Padded(key)}
      BY <1>1, <2>1, <2>2, InsertKeepsExact, SameRowsSame
    <3> QED
      BY <1>1, <2>1, <3>1, LookupRemembers
  <2> QED
    BY <2>1, <2>4, <2>5, AddedIs DEF Memo!Miss
<1> QED
  BY <1>1, <1>2, <1>3, <1>4 DEF LookupOf, MemoStep, Memo!MemoNext

LEMMA StepsAreMemoSteps ==
  ASSUME MInv, MayReload = FALSE, Steps
  PROVE  MemoStep
<1>1. TypeOK /\ HooksLive /\ PoolOwned /\ TablesExact
  BY DEF MInv
<1>2. CASE ProfilesChange /\ ModuleSame
  BY <1>2 DEF ModuleSame, MemoStep, Remembered, TableAt, Rows, FlaggedSlots
<1>3. CASE Unserved
  <2>1. Remembered' = Remembered
    BY <1>3 DEF Unserved, Remembered, TableAt, Rows, FlaggedSlots
  <2> QED
    BY <1>3, <2>1 DEF Unserved, MemoStep, Memo!MemoNext, Memo!Decline, NoAnswer
<1>4. ASSUME NEW t \in Task, NEW s \in Syscall, NEW h \in Hook, NotListed(t, s, h)
      PROVE  MemoStep
  <2>1. Remembered' = Remembered
    BY <1>1, <1>4, EarlyRemembers DEF NotListed
  <2> QED
    BY <1>4, <2>1 DEF NotListed, MemoStep, Memo!MemoNext, Memo!Decline, NoAnswer
<1>5. ASSUME NEW t \in Task, NEW s \in Syscall, NEW h \in Hook, NEW regs \in Regs,
             TurnedAway(t, s, h, regs)
      PROVE  MemoStep
  <2> DEFINE key == KeyOf(t, s, regs)
             e == <<h, s, Padded(key)>>
  <2>1. e \in Entry /\ Padded(key) \in Row
    BY <1>1, KeyOfType, PaddedType
  <2>2. Remembered' = Remembered
    BY <1>1, <1>5, EarlyRemembers DEF TurnedAway
  <2>3. e \notin Remembered
    <3>1. ~ (h \in usable /\ TableAt(h, s) # NULL)
      BY <1>5 DEF TurnedAway, EndedEarly, Served, Hooked
    <3> QED
      BY <2>1, <3>1, RememberedIs DEF RememberedBy
  <2>4. answer' = [entry |-> e, hit |-> FALSE]
    BY <1>5 DEF TurnedAway, Answered
  <2> QED
    BY <2>1, <2>2, <2>3, <2>4 DEF MemoStep, Memo!MemoNext, Memo!Miss
<1>6. ASSUME NEW t \in Task, NEW s \in Syscall, NEW h \in Hook, NEW regs \in Regs,
             LookupOf(t, s, h, regs)
      PROVE  MemoStep
  BY <1>1, <1>6, LookupIsMemoStep
<1>7. CASE DracoInit
  BY <1>1, <1>7 DEF DracoInit, HooksLive, Remembered, MemoStep
<1>8. CASE DracoExit
  <2>1. Remembered' = {} /\ answer' = answer
    BY <1>8 DEF DracoExit, Remembered
  <2> QED
    BY <2>1 DEF MemoStep, Memo!MemoNext, Memo!Forget
<1> QED
  BY <1>2, <1>3, <1>4, <1>5, <1>6, <1>7, <1>8 DEF Steps

LEMMA InitMemo == Init => Memo!MemoInit
BY DEF Init, ModuleInit, Memo!MemoInit, Remembered, NoAnswer

LEMMA StutterMemo == UNCHANGED vars => MemoStep
BY DEF vars, MemoStep, Remembered, TableAt, Rows, FlaggedSlots

\* When profiles are built once, the module implements the memo.
THEOREM ImplementsMemo ==
  ASSUME MayReload = FALSE PROVE Spec => MemoSpec
<1>1. MInv /\ [Next]_vars => MemoStep
  BY NextSteps, StepsAreMemoSteps, StutterMemo DEF MInv
<1> QED
  BY <1>1, InitMemo, AlwaysInv, PTL DEF Spec, MemoSpec, Memo!MemoSpec, MemoStep

=============================================================================
