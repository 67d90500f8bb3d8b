# A verification development for DockerAccel (Draco)

DockerAccel speeds up seccomp: a kernel patch lets a program describe which
argument registers its filter looks at, a kernel module remembers the argument
sets of system calls a task has made, and `__secure_computing` asks that memory
before it runs the filter. A changed libseccomp 2.3.1 feeds the description
while a program builds its filter.

This directory models the parts of the repository that carry its own logic in
TLA+, checks them with TLC on small instances and proves some of the results
with TLAPS for every instance. `PROJECT.json` maps each definition to its lines.

## 1. Inventory

| part | state | operations | talks to |
|---|---|---|---|
| **profile** (`kernel_module/draco.patch`) | `struct seccomp` of each task: `fill`, `bit_map`, `draco_count`, masks (`arg_position`), compiled rows (`sys2arguments`, `argument_count_table`), `draco_hook` | `prctl(1001)` add, `prctl(1000)` load, fork | written by libseccomp, read by the module |
| **table** (`draco_module.c/.h`) | per task and system call: 149 buckets x 4 ways of six-word rows with a flag | key, probe, insert | one per `syscall_table` slot |
| **module** (`draco_module.c`) | pool of 10000 tables with a cursor, list of tasks, per-process blocks, metrics | insmod, handler, rmmod | installed as `draco_checker` |
| **hook** (`draco.patch`) | `draco_checker` | `__secure_computing` | module first, filter second |
| **libseccomp hooks** (`src/db.c`, `src/system.c`) | filter collection, kernel profile | `seccomp_rule_add`, `seccomp_reset`, `seccomp_load` | prctl, seccomp(2) |
| **filter collection** (`src/db.c`, `src/api.c`, `src/arch.c`, `src/arch-x86.c`, `src/system.c`) | one filter per architecture, attributes, byte order, snapshots | add, remove, merge, attributes, rules, priorities, transactions, load | rule trees, kernel |
| **rule trees** (`src/db.c`) | per system call a tree of argument comparisons with reference counts, a node count, a priority | add a chain, prune, merge, remove, free | collection, BPF generator |
| **BPF generator** (`src/gen_bpf.c`) | hashed blocks with accumulator states and found marks, one list of blocks | lay the list, pull blocks in, shorten jumps, resolve | kernel |

(libseccomp is in the tree twice, under `rpmbuild/BUILD` and `rpmbuild/SOURCES`,
with the same C code; references are to `SOURCES`.)

What is hard here, and what makes each part correct:

- *profile*: a description arrives in pieces, is compiled at a moment the
  program picks, and is inherited by fork. Correct: `bit_map` enumerates the
  filled slots, compiled keys are those of the masks, keys only widen.
- *table*: a bounded set-associative cache compared word by word. Correct: a
  probe finds a key iff it was stored; rows stay.
- *module*: pool and list are shared by all tasks; allocation can fail; unload
  must find every hook. Correct: tables are not shared by two owners, no hook
  is freed twice, the metrics add up.
- *module on several processors*: the handler takes `draco_spinlock` only around
  counters; the pool cursor, list, flags and rows are touched without it, and one
  path releases the lock twice. Correct: what each guarantee says as long as the
  overlaps it cannot survive did not happen, and every call returns.
- *hook*: the memory is consulted before the verdict and written before the
  verdict too. Correct: what happens to a call is what the filters say.
- *collection*: one API call works on several filters, any of which may refuse;
  what a number means depends on the architecture. Correct: an accepted rule is in
  force everywhere, a filter that refuses is unchanged, a merge keeps verdicts.
- *rule trees*: each rule may prune, shorten, swallow or be swallowed by what is
  there. Correct: the trees say what the accepted rules say, nothing leaks, the
  node count behind the priority is right.
- *BPF generator*: equal blocks are shared by paths that leave different things in
  the accumulator; blocks are pulled into the list one at a time and never moved;
  jumps have eight bits, and the copies that shorten one can make another too
  long. Correct: the program says what the trees say, no list ends in -EFAULT, a
  copy does what the block does, and every jump fits.

## 2. Modules

| module | what it models |
|---|---|
| `DracoProfile` | one `struct seccomp` per task; `AddSeccomp` and `LoadSeccomp` are the two prctl handlers as functions of a structure, the actions apply them to a task; `Fork` |
| `DracoTable` | operators on one table: `ArgumentList`, `Matches`, `ProbeEnds`, `Occupy` |
| `DracoModule` | the loaded module over both: one action per path of a handler call (`HandleOutOfRange`, `HandleProcessFailure`, `HandleNodeFailure`, `HandlePoolEmpty`, `HandleHit`, `HandleConflict`, `HandleInsert`), `DracoInit`, `DracoExit` |
| `SyscallMemo` | the abstract specification: a set of remembered calls, hits exactly for its members |
| `SecureComputing` | libseccomp's rule add, reset and load, the kernel's verdict, and `__secure_computing`, over `DracoModule` |
| `DracoRace` | `insert_value` of two handlers, split at every access another handler can see: the lock sections, the list node, the cursor, the slot, each probe, the flag, each word of the row; `init_hash_table` running after `draco_checker` was published |
| `ScmpCompare` | the comparisons of a rule (`enum scmp_compare`) |
| `RuleTree` | the trees on an explicit heap of nodes: free with reference counts, remove, action check, sub-tree pruning |
| `SyscallDB` | one `struct db_filter`: chain generation for 32 and 64 bits, `db_rule_add` (prune, walk, merge, link), priorities, snapshots; what a tree says of a call |
| `BpfBuild` | the assembly of a list of blocks into a program (the second half of `_gen_bpf_build_bpf`): `PullIn` puts the block the search finds behind its user, with a reload where needed, `CheckJump` looks at one instruction and adds a copy where its jump is too long, `NextBlock` goes back or looks again, `Resolve` makes distances; `Lay` is any first half whose blocks are `Generated` |
| `BpfGen` | the first half: blocks made from the trees of one filter, the calls and the frame around them; and the machine that runs the program (`tools/scmp_bpf_sim.c`). `Generate` stands in the place of `Lay` |
| `FilterCol` | the collections behind the API, over any operations on one filter: reset, release, architectures, merge, rules with translation and the x86 rewriting in a transaction, priorities, attributes, the probe for `seccomp()`, load |
| `MC*` | values of the constants for TLC; `MCFilterCol` also puts the filters of `SyscallDB`, one instance per architecture, into the collections |
| `*Proofs` | TLAPS proofs about the module they are named after; `DracoRaceSharedProofs` continues `DracoRaceProofs` with what handlers share, `DracoMetricsProofs` is about the metrics of `DracoModule` |

Two families of modules. In the kernel each module EXTENDS the one above it
(`DracoTable` the profile, `DracoModule` and `DracoRace` the table,
`SecureComputing` the module); `DracoModule` relates to `SyscallMemo` by
`INSTANCE ... WITH memo <- Remembered`. In libseccomp `SyscallDB` EXTENDS
`RuleTree`, `BpfGen` EXTENDS `SyscallDB` and `BpfBuild`: a filter changes
while nothing is generated for it, and `GenSpec` implements `BuildSpec`. `FilterCol` takes what is done to one
filter as CONSTANT operators (`DbAdd`, `DbPriority`, `DbReplay`, `DbVerdict`,
`DbMatches`), because nothing in a collection depends on how a filter keeps its
rules: the proofs hold for any of them, and the run `col` uses those of
`SyscallDB`. The families meet in `SecureComputing`, where a
filter is a set of rules: that the trees and the program say what the rules say
is what the runs of the second family check.

How state corresponds to the code:

- A mask (`int arg_position`) is the set of its one bits. The compile loop's
  result is stated by rank: the bit with k smaller ones lands in entry k. A
  negative mask (bit 31) never enters the loop.
- `table[hash*ASOS+i]` and `flag[hash*ASOS+i]` are indexed by bucket and way.
  `jhash(..) % 149` is a constant function `Hash` of the key: any function.
- A hook is a kmalloc'd block. `allocated` are the blocks not yet freed,
  `usable` those handed out since insmod; a task whose hook is not usable holds
  freed memory or pointers into the freed pool. The module's own memory is new and
  zero at each insmod; nobody reads `pool` and `hash_table` in between.
- `hash_table` is a record of the totals, the cursor and `process_head` (a
  sequence of tasks). `syscall_number` is the set of calls counted at least once
  (the code only tests for zero).
- `answer`, `outcome`, `asked`, `mishap`, `last` and `promised` are history:
  they say what happened and guard nothing.
- Counters are unbounded numbers: wrap-around of the `uint32_t` metrics after
  2^32 calls is left out, `MaxCalls` bounds `total_call_count` in the runs.
- In `RuleTree` a heap maps nodes to records, `NULL` stands for an unset action;
  an operation takes a heap and returns the next. A look at a freed node is an
  error of the run, so a clean run also shows that no freed node is looked at.
- A word has a few bits (`Ones` is `ARG_MASK_MAX`); a datum is a pair of a high
  and a low word. The sorted list of calls is a function on their numbers; the
  priority is the pair of its user part and its chain part.
- The hash of a block is its place in the order in which the blocks were made: equal
  contents get the hash of the first, different contents different ones (the code
  tells collisions apart). The order is history; no step looks at it, and what a
  block leads to being made before it is what the proofs go by.
- A block in the list is a copy of the one in the table: a reload changes the block
  where it is, and no one looks at the table for its code afterwards.
- The block that loads the architecture gets its place in that order last instead of
  third: no block leads to it, so no search meets it. The copy of a return would swap
  bytes for another byte order; with one little-endian architecture it never does.
- `DracoRace` joins the store of the list head with the check for NULL behind it.
- `FilterCol` takes the generated number tables as constants; `native` is the
  machine the library was built for.
- The error a merge refuses with (EINVAL or EEXIST) is not told apart.

Atomicity. In `DracoModule` a handler call, insmod, rmmod and a prctl are one step
each: exact for one processor without preemption inside the handler. `DracoRace`
splits the handler; what a step changes only for its own handler is joined with
the next shared access. libseccomp has no locks and is not thread safe: an API
call is one step. Kernel steps between two API calls are in `SecureComputing`.

External code, modelled from its use: fork (`dup_task_struct` clears the
structure, then `copy_seccomp` assigns the parent's), filter installation, thread
synchronisation, the verdict of the filters (most restrictive wins, kill ends the
task), kmalloc (any free block, or failure where `Failing` says so), whether the
kernel knows `seccomp()`.

A definition whose comment says "slip" is not part of the model. It is a mistake
the code could have; `PROJECT.json` lists under "mutants" which property rules
each out.

## 3. Runs

| run | question | instance |
|---|---|---|
| `profile` | do adds, loads and forks in any order keep the tables right? | 2 tasks, fork, 2 calls, registers 0 and 2 and the sign bit, rows of 2, at most 4 mask bits set (`FewBits`) |
| `module` | does unload free each hook once; do the metrics add up; is it a memo? | 3 tasks, 2 blocks, forks, any compiled profiles, all keys in one bucket of 1 way, pool of 1, both kmallocs may fail, 3 calls per load |
| `enforce` | is the filter enforced, with tables apart and buckets sound? | 1 task, 4 rules, allow list, killing default, 2 ways, pool of 2, failures, module loaded and unloaded, 5 calls |
| `inherit` | do keys always cover the filters? | 2 tasks, 2 rules, any number of loads, resets, failed loads and forks |
| `race` | which guarantee survives which overlap of handlers; does every call return? | 2 tasks, fresh (2 calls, 1 of them before the clear) or sharing a block (3 calls), 1 bucket of 2 ways, pool of 1, both kmallocs may fail |
| `rules` | do trees and program say what the rules say? does the generator keep to the assembly, and the assembly to its promises? | 32 and 64 bits, rules of 0 to 2 comparisons on 2 words, 2 calls, 1 priority, 3 operations, filters of up to 2 rules built (`MaxBuilt`), jumps of at most 5 |
| `col` | do collections keep what the API promised? | 2 contexts, 3 architectures of which one has the other byte order, native x86 (with an old kernel, without `seccomp()`) or x86_64 (with a new one), 5 rules each, 3 operations |
| `detach` | violated: does rmmod detach every task? | fork |
| `enforce_errno` | violated: is a denial that spares the task repeated? | default action errno |
| `enforce_masked` | violated: are masked comparisons enforced? | one masked rule |
| `rules_refused` | violated: does a refused rule leave the filter as it was? | three rules on one call |
| `bpf_hint` | violated: does a hint for a call without rules change nothing? | one hint, one rule |

Bounds, and why they are enough for the cases that matter. Two system calls make
`bit_map` order and slot aliasing visible; two words per key make a difference
between the first and a later word; one way for two keys, or two ways for the three
keys that hold a one (`MCHash`), make a bucket overflow within the calls; a pool of
one table is used up by the second task, one of two by calls after a new insmod
drew from its start. `module` starts with tasks that already went through their
prctl calls (`FilteredInit`, built with `LoadSeccomp`), `enforce` and `inherit`
from nothing. In `race` two handlers are all that any overlap in the code needs;
a fresh pair races to attach and draw, a sharing pair to draw, flag and copy. In
`rules` three operations reach a prune followed by a walk, a merge of two actions,
a reference count of two and a snapshot after each; `JumpMax` is 5 instead of 255
so that programs of a few blocks need long jumps; three rules make every kind of
node, and two already make shared blocks, reloads, copies of returns, long jumps
and blocks that are looked at again. In `col` a start may have its native filter
exchanged for another architecture (two calls that need not be counted again), so
that three operations reach two architectures, a rule for both, and a rule that
one of them refuses.

Runs with `CHECK_DEADLOCK FALSE` stop because their operations are bounded
(`race`, `rules`, `col`). The others never stop: with the module loaded `DracoExit` is
always enabled.

Fairness. Only `race` states liveness: weak fairness of each task's handler (not
of making calls, and not of the clear). A processor that is inside the handler
goes on, and the bound on calls keeps a waiting handler from being overtaken
forever.

### What they show

With one profile and one filter per cache, the module is exactly a memo of
argument sets, through pool exhaustion, full buckets, failing allocations, forks
and reloads of the module. Keys always cover the registers of the plain
comparisons of the installed filters. Given a default that kills and no masked
comparison, the filter is enforced. Unloading frees each listed hook once; a node
that could not be allocated drops the hooks listed before it (`draco_module.c:152`),
and `HooksFreed` leaves these out.

`race`: the lock sections stay exclusive until an attaching task releases a lock it
does not hold; no table has two owners and no handler leaves the pool until two
draws overlap (a draw begins at the NULL check of the slot); the list is complete
until two attachments overlap, a node fails or the clear is late; a hit is for a
call that was asked until a row is read while another handler writes it, and even
then each word of the hit was asked in its place. Flags stay prefix-closed under
any overlap; the exception made for a late clear is not reached within the bounds.
Every call returns unless a handler went wild.

`rules`: for 32-bit comparisons and 64-bit equalities in rules of up to two
arguments, each call gets the action of a rule that was accepted for it; nothing
leaks or is used after it was freed; node counts are right; a snapshot of a filter
that never refused a rule means the same; the program says what the trees say;
every block list the generator lays is one `Generated` describes, its assembly
never fails, and jumps it has passed stay short whatever it adds later.

`col`: each filter keeps its word whatever the others do, a rule the API accepted
is in force in each filter that was there, the
filters restored by an aborted transaction say what they said, merges keep every
verdict, the byte order is that of the filters, and a collection with tsync is
never loaded by the prctl that reaches only the caller.

### Disagreements found

By the violated runs (details under "findings" in `PROJECT.json`): a forked child
keeps a hook the unload does not know (`detach`); a denial the task survives is
answered from the cache the second time, because the row is stored before the
verdict (`enforce_errno`); a register compared under a mask is not in the key
(`enforce_masked`); a rule refused with EEXIST has already pruned an accepted one
(`rules_refused`); a hint for a call without rules leaves a 32-bit program without
the load of the call's number (`bpf_hint`).

Met while modelling, and kept out of the instances of the passing runs:

- A second load gives new keys to rows cached under the old ones
  (`draco.patch:141`), although `doc/man/man3/seccomp_load.3:24-25` has the filter
  active on return.
- A thread that gets its filter by thread synchronisation has no profile and
  therefore empty keys (`system.c:149`); `seccomp_attr_set.3:70-71` synchronises it
  into the same filter.
- `draco_checker` is not told the architecture of the call (`draco.patch:114`). On
  a native x86, pseudo calls never reach `prctl(1001)`, so that the multiplexing
  calls 102 and 117 have empty keys.
- `sys_filter_load` sets `errno` when thread synchronisation fails and returns zero
  (`system.c:151-162`); the comment there says `-ESRCH`.
- A rule the API refuses may be in force in the other filters of the collection
  (`db.c:1617`), and can there replace one that was accepted before.
- A multiplexed call on x86 overwrites the rule's own comparison of argument 0
  (`arch-x86.c:289-293, 321-325`).
- `!=` and `==` with the same value and action make a node with one action on both
  sides; it is removed, the tree is empty and the call gets action 0, which is kill
  (`db.c:1356-1363`).
- 64-bit `>`, `>=`, `<`, `<=` are wrong where the high word is larger
  (`db.c:1054-1079`); 64-bit masked comparisons mix up the two words; 64-bit `!=`
  trees leak, miscount and use freed nodes.
- With rules of three equalities a later one can be dropped with result zero.
- Adding a rule for a call whose pruned tree became empty resets its user priority
  (`db.c:1306-1315`), and an aborted transaction drops the hints of every filter of
  the collection (`db.c:1665-1711`).
- With `!=` rules the accumulator can be stale in a 32-bit program: the reload
  compares with one path to the block only (`gen_bpf.c:1753`).
- A non-strict rule for a negative number without meaning on x86 returns zero, adds
  nothing, and is added by a later snapshot. No task can make such a call.

## 4. Proofs

Every theorem below holds for any number of tasks, hooks, values and contexts, any
sizes of the tables, any hash function and any rules, as far as the assumptions
say. Each module states its assumptions as a named ASSUME:

- `ProfileAssumption`: NULL is no hook, sizes are natural numbers, and a row has
  room for the bits of a mask. `TableAssumption`: at least one way, zero is a word
  (kzalloc), the hash picks a bucket. `ModuleAssumption`: NULL is no table.
- `RuleAssumption`: the comparisons of a rule are about registers that masks can
  name, and a rule's action differs from the default (`db.c` refuses others).
- `RaceAssumption`: the pool has a table, there is a system call, there are blocks
  for all tasks (kmalloc fails only where `Failing` says so), and NULL and
  uninitialised memory are not tasks.
- `FilterColAssumption`: an architecture has a byte order, the native machine is
  an architecture, and a rule has a number, an action and comparisons.
- `JumpMaxAssumption`: a jump reaches at least one instruction far (255 in the code).

| theorem | about |
|---|---|
| `ProfileTypeCorrect`, `BitMapCorrect`, `KeysCorrect`, `LoadCorrect`, `KeysWiden` | the invariants and action properties of run `profile` |
| `ModuleTypeCorrect`, `PoolIsOwned`, `HooksFreedOnce`, `RowsAlwaysStay` | the module, unconditionally |
| `BucketsAreSound`, `ImplementsMemo` | probes are exact, and `DracoModule` implements `SyscallMemo`, if `MayReload = FALSE` |
| `MetricsAlwaysBalance` | what rmmod prints adds up |
| `SCPoolIsOwned`, `SCBucketsAreSound`, `SCRowsAlwaysStay`, `SCImplementsMemo`, `SCMetricsAlwaysBalance` | the same under every program of `SecureComputing` |
| `SCTypeCorrect` | types of the composition |
| `KeysAlwaysCover` | `KeysCoverFilters`, if `Tsync = FALSE` |
| `RowsAlwaysAllowed`, `FiltersAreEnforced` | cached or not, a call gets what its filters say, if `Confined` |
| `SectionsAreExclusive`, `FlagsArePrefix`, `HitsAreWordwise`, `TablesStayApart`, `HitsAreHonest`, `NoneGoesWild`, `ListIsComplete` | each safety property of run `race`, for any number of handlers in flight |
| `ByteOrderIsOne`, `TsyncIsHonoured`, `MergesKeepVerdicts` | collections, for any operations on one filter |
| `AcceptedStayInForce`, `AbortsRestore` | the same, if each filter alone keeps its word (`FiltersKeepWord`) |
| `NoListFails`, `ProgramsFit`, `CopiesStandIn` | the assembly of a program, for any blocks, any list that is `Generated` and any longest jump |

### The hypotheses

`MayReload = FALSE` says that a program compiles its profile once, before its first
checked call. Without it rows stay under the lengths of old keys, and neither the
buckets nor the memo survive: that is what the code does (section 3), not a
weakness of the proof. `Tsync = FALSE` is there because a thread that is
synchronised gets a filter and no profile. `Confined` is both, and no fork, no
verdict that fails a call and spares the task, and no masked comparison. Drop any
one of the five and TLC refutes both `RowsAllowed` and `FilterEnforced` on the
instance of `enforce`: reloads and Tsync for the reasons above; a forked child goes
on using the rows of a parent that was killed for the call that filled the last of
them; a refused call is cached and answered the next time; a masked register is
not in the key. In `DracoRace` there are no hypotheses: each property says itself
which overlaps it does not survive (`Survives`). `BpfBuild` takes what the first half
of the generator lays as `Generated`; the generator itself is recursive over trees,
so that it lays nothing else is checked by TLC (`BuildSpec` in `rules`), not proved.
`Generated` says: blocks lead to blocks made before them; the list holds each block
once, as it was made; a target that is in the list is behind; and a block of the list that others
lead to was made after those behind it that still wait for a block. The last is what
a generator could get wrong without a test noticing. With the block for a wrong
architecture before the calls the list is not `Generated`, and its assembly fails.

`FiltersKeepWord` is about each filter of a reachable collection alone, without the
other filters and without transactions: it has the rules on its list in force, and
so has the copy an abort would put in its place, which says the same; a hint changes
none of that; of a rule given to it or to its copy it takes all, with those on its
list still in force, or else it says what it said. A socket call it
refuses half way is excepted, since that is what aborts are for. The run `col`
checks it of the filters of `SyscallDB`. It is not true of every set of rules:
a refused rule may prune (`rules_refused`), and of three equalities one may be lost;
there the collection does not keep what it promised either. The theorems say that
nothing else can go wrong: whatever the number of filters, which of them refuse, how
often and in which order transactions abort, and what is merged and removed.

### The arguments

*Profile.* The inductive invariant `AllSound` says of each structure that it has
its type, that `bit_map` enumerates the filled slots, and that compiled rows hold
profiled registers in ascending order. The type alone is not inductive: that
`draco_count` stays below `SYSCALL_COUNT` when an unfilled slot is filled needs the
enumeration and a count of cardinalities (`FreeSlotHasRoom`). That a load compiles
everything rests on facts about ranks in a finite set (`RankRange`,
`RankMonotone`, `RankInjective`, `RankOnto`); that keys only widen, on old keys
being inside the masks.

*Module.* `MInv` is `TypeOK` and `AllSound` with four parts. Hooks belong to
filtered tasks and there are none when the module is not loaded (`HooksLive`); the
hooks of listed tasks are finitely many (`HooksListed`), which the count in
`HooksFreed` needs; tables have one owner (`PoolOwned`); and, without reloads,
tasks that share a hook agree on key lengths (`KeysAgree`) and every table is
`Exact`: flags first, rows distinct, free ways zero, rows of the key's length. The
last two make a probe find a row iff it is there (`HitIsThere`, `MissIsNotThere` in
`DracoProfileProofs`, which also holds the lemmas about one table), and with
that each step is a step or a stutter of `SyscallMemo` under
`memo <- Remembered`. The three complete lookups share `LookedUp`, so each
part is proved for it once, and for the paths that end early.

*Metrics.* `Metered` adds to `MetricsBalance` that the sets that are counted are
finite. The balance relates sums over tables, over blocks and in the totals; a
lookup changes one summand of each. How a sum over a finite set
(`SumFunctionOnSet`) changes with a summand is not available as an induction,
because the induction theorems of the library take an operator. It is shown by
the smallest set for which it would be wrong (`SmallestPart`, from the
well-foundedness of strict inclusion); the same way gives that the recursive
function behind the sum exists.

*Hook.* To the module a step of libseccomp is a change of profiles or nothing, so
`MInv` holds under `SCSpec`. `Covered` says that masks cover the collection being
built, keys cover the installed filters, and the sign bit of a mask is never set (it
would suppress the compile loop). `Guarded` is `FilterEnforced` with `HooksApart`
(no two tasks share a hook) and `AllowedRows` (what a running task can match is
allowed); a row stored before a killing verdict is harmless because its task does
not run again, and no other task has its hook.

*Race.* The invariant comes in parts and a theorem uses those it needs:

- `RaceTypes` (with what the locals of a handler hold, given where it is),
  `Untouched` (what holds before `init_hash_table` ran), and that one task moves in
  a step.
- `Held`: the holder of the lock is in the section, until the second unlock.
- `Prefixed`: ways below a flagged way, and below the way a handler stores in, are
  flagged. It never mentions who owns a table, so it survives a wrong owner.
- `Noted`, `Wordwise`: a handler notes its call before it stores; every word in the
  pool is zero or was asked for in that place. It survives every overlap.
- `Drawn`, `Apart`: at most one handler is drawing, into an empty slot; the slots and
  that handler hold different tables below the cursor.
- `Honest`: one handler stores in a way, what it has copied so far is in the row, every
  other flagged row answers for a call that was noted for the slot that has the
  table, and every hit was noted.
- `Linked`, `Tame`: one handler links at a time and the head is its own node while
  it fills it; then nobody leaves the memory of the module.
- `NodeTypes`, `Unmade`, `Listed`: `Closed` sets of pointers stand for the walk over
  the list; a node is `Unlinked`, `Garbage` or whole according to where its
  handler is.

*Collections.* `ColInv`: each collection is a list of filters (`FilterList`), while
valid with distinct architectures and one byte order, and one with tsync implies
that the probe found `seccomp()`. The hard call is `ColRuleAdd`, a fold in which any
filter may refuse and an x86 transaction may put copies in the place of all
filters: `ColRuleAddKeeps` shows that the architectures stay where they are, again by
the smallest set of filters for which they would not. `Going` says in the same way
where the fold has got: a filter that was not asked yet is itself or a copy of
itself (`Versions`); one that was asked is `Asked`: it has everything in force and
has the new calls on its list, or, if it is among the refused, says what it said,
and so will whatever copy a later abort makes of it. That copies of copies are
nothing new (`VersionsShrink`), and that a filter that refused has the list it had,
so that its copy is a copy of what it was (`CopySame`), is why aborts in a later
filter do no harm. From `Going` follows that `SafeInv` is kept: in each filter the
rules on its list are in force, and the calls of every promised rule are on the list.
`AcceptedInForce` alone is not inductive, as it says nothing of the list.

*Assembly.* `BuildInv` has a part for each phase. While blocks are pulled in
(`PullOK`), a block of the list is the one that was made, perhaps behind its reload;
a target that is in the list is behind; and a block that others lead to was made
after every block behind it that waits for one. The last part is why nothing needs
to be moved: the search takes the last block that waits, so nothing behind it does,
and what it pulls in was made before it; if some block in front leads to the same
one, it is behind that as well. Without the order of making, the other parts are not
inductive. When no block waits the list is complete, and `LeadsOn` takes over: every
jump has a target behind it, the last block of a hash is the one that was made and
every other one leads to it. `FitBehind` says that the jumps of blocks that were
passed fit, `FitAfter` that those of the present block behind `iter` do, unless it
grew and is looked at again. A copy is put behind the present block, in front of
everything passed, so distances behind it do not change; what is said of a list is
carried over to the longer one place by place (`Past`, `InsertAtIs`, `BetweenPast`,
`BehindPast`, `LastOfPast`). Distances are folds over a list; that such a fold is a
number, and what it is over a longer list, is shown by the smallest counterexample
(`BetweenNat`). TLC checked `BuildInv` on the instance of `rules` before it was
proved.

### Only model-checked

- Liveness: `CallsReturn` of `race`.
- Of `rules`: `VerdictsPromised`, `NoLeaks`, `NodesCounted`, `SnapshotsAgree`,
  `ProgramFaithfulFromHead`, and that the generator implements the assembly
  (`BuildSpec`). `RuleTree`, `SyscallDB` and `BpfGen` are recursive over trees of any
  depth with RECURSIVE operators and use `Bitwise`, both out of the prover's reach.
- `FiltersKeepWord` of `col`, for the same reason: it is about `db_rule_add`.

## 5. What could come next

1. `RuleTree` with recursive functions in the place of RECURSIVE operators, as far
   as TLC can still run it, and `NoLeaks` and `NodesCounted` of one operation.
2. `BpfGen` for collections of several architectures and the x32 secondary filter;
   `BpfBuild` and its proofs need no change, since `Generated` says nothing of
   how many there are.
3. rmmod under running handlers, as far as freed memory can be given an outcome.

## 6. Not modelled

- Failing allocations in libseccomp; the s390 rewriting of multiplexed calls; the
  x32 secondary filter; programs for several architectures.
- The getters, the resolve functions and `seccomp_version`: they change nothing.
- The PFC generator (`gen_pfc.c`) and `tools/scmp_bpf_disasm.c`: formatting.
- `hash.c`: a hash function; equality of contents stands for it.
- The generated number tables (`arch-*-syscalls.c`, `include/seccomp.h`): data.
- Python bindings, tests, the other tools, autoconf.
- `rpmbuild/BUILD`: the same C code as `SOURCES` a second time. Together with the
  tables and headers this is most of the lines of the repository.
- The CentOS variant of the patch (same code), the older
  `draco_self_config.patch` and the user-space prototype under `kernel_module/test`
  (replaced by the module), performance data and install scripts.
- A task that exits while listed, and rmmod under a handler: what follows is
  a write to or a run of freed memory.
