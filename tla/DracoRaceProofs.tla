----------------------------- MODULE DracoRaceProofs ------------------------------
(***************************************************************************)
(* Proofs about DracoRace: its types, its lock and its flags, for any      *)
(* number of tasks and of handlers in flight, any sizes of the tables and  *)
(* any hash function.  DracoRaceSharedProofs goes on to the tables, their  *)
(* rows and the list of metrics.  The invariant comes in named parts, and  *)
(* a theorem assumes only the parts it needs.                              *)
(***************************************************************************)
EXTENDS DracoRace, DracoProfileProofs, SequenceTheorems

LEMMA RaceConstants ==
  /\ NULL \notin Hook /\ NULL \notin Nat /\ NULL \notin Table /\ NULL \notin Task
  /\ PreAllocated \in Nat \ {0} /\ 0 \in Table /\ Table \subseteq Nat
  /\ 0 \in Syscall
  /\ Asos \in Nat \ {0}
BY ProfileAssumption, TableAssumption, RaceAssumption DEF Table

LEMMA KeyIsSeq ==
  ASSUME NEW n \in Nat, NEW key \in KeysOf(n)
  PROVE  /\ Len(key) = n /\ DOMAIN key = 1 .. n
         /\ key = << >> <=> n = 0
<1>1. key \in Seq(Val)
  BY SeqDef DEF KeysOf
<1>2. key \in [1 .. Len(key) -> Val] /\ Len(key) \in Nat
  BY <1>1, LenProperties
<1>3. Len(key) = n
  <2> DEFINE m == Len(key)
  <2>1. DOMAIN key = 1 .. n /\ DOMAIN key = 1 .. m /\ m \in Nat
    BY <1>2 DEF KeysOf
  <2> HIDE DEF m
  <2>2. (n = 0 \/ n \in 1 .. m) /\ (m = 0 \/ m \in 1 .. n)
    BY <2>1
  <2> QED
    BY <2>1, <2>2 DEF m
<1>4. key = << >> => n = 0
  BY <1>3, EmptySeq
<1>5. n = 0 => key = << >>
  BY <1>1, <1>3, EmptySeq
<1> QED
  BY <1>3, <1>4, <1>5 DEF KeysOf

LEMMA FreeHookType ==
  ASSUME seccomp \in [Task -> Struct], NEW t \in Task, Hooked(t) = NULL
  PROVE  FreeHook \in Hook
<1> DEFINE others == Task \ {t}
           used == Hook \cap {Hooked(u) : u \in others}
           f == [u \in {v \in others : Hooked(v) \in Hook} |-> Hooked(u)]
<1>1. IsFiniteSet(others) /\ Cardinality(others) < Cardinality(Task)
  <2>1. IsFiniteSet(Task) /\ Cardinality(Task) \in Nat
    BY RaceAssumption, FS_CardinalityType
  <2>2. IsFiniteSet(others) /\ Cardinality(others) = Cardinality(Task) - 1
    BY <2>1, FS_RemoveElement
  <2> QED
    BY <2>1, <2>2
<1>2. DOMAIN f \in SUBSET others
  OBVIOUS
<1>3. IsFiniteSet(DOMAIN f) /\ Cardinality(DOMAIN f) <= Cardinality(others)
  BY <1>1, <1>2, FS_Subset
<1>4. f \in Surjection(DOMAIN f, used)
  BY DEF Surjection
<1>5. IsFiniteSet(used) /\ Cardinality(used) <= Cardinality(DOMAIN f)
  BY <1>3, <1>4, FS_Surjection
<1>6. used # Hook
  <2>1. /\ Cardinality(Task) <= Cardinality(Hook)
        /\ {Cardinality(Task), Cardinality(Hook), Cardinality(others),
            Cardinality(DOMAIN f), Cardinality(used)} \subseteq Nat
    BY <1>1, <1>3, <1>5, RaceAssumption, FS_CardinalityType
  <2> HIDE DEF used, others, f
  <2> QED
    BY <1>1, <1>3, <1>5, <2>1
<1>7. \E h \in Hook : \A u \in Task : Hooked(u) # h
  BY <1>6, RaceConstants
<1> QED
  BY <1>7 DEF FreeHook

-----------------------------------------------------------------------------
(* Handlers.                                                               *)

Place == {"idle", "lock", "in", "attach", "node", "fill", "unlock", "table",
          "cursor", "move", "store", "open", "probe", "flag", "copy", "wild"}

Local == [at : Place, sec : Section, s : Syscall, key : Keys \cup {<< >>},
          way : 0 .. Asos, word : 0 .. MaxArgumentCount, bias : Nat \cup {NULL},
          temp : Task \cup {NULL}]

\* Handler t moves and no other.
Alone(t) ==
    /\ handler' \in [Task -> Local]
    /\ \A u \in Task : u # t => handler'[u] = handler[u]

SameCall(t) ==
    /\ handler'[t].s = handler[t].s
    /\ handler'[t].key = handler[t].key
    /\ handler'[t].way = handler[t].way
    /\ handler'[t].word = handler[t].word
    /\ handler'[t].bias = handler[t].bias

LEMMA IdleType == Idle \in Local
BY RaceConstants, ProfileAssumption DEF Idle, Local, Place, Section

LEMMA GotoDoes ==
  ASSUME handler \in [Task -> Local], NEW t \in Task, NEW at \in Place, Goto(t, at)
  PROVE  /\ Alone(t) /\ SameCall(t)
         /\ handler'[t].at = at /\ handler'[t].sec = handler[t].sec
BY DEF Goto, Alone, SameCall, Local

LEMMA LockDoes ==
  ASSUME handler \in [Task -> Local], NEW t \in Task, NEW sec \in Section, Lock(t, sec)
  PROVE  /\ Alone(t) /\ SameCall(t)
         /\ handler'[t].at = "lock" /\ handler'[t].sec = sec
BY DEF Lock, Alone, SameCall, Local, Place

LEMMA ReturnDoes ==
  ASSUME handler \in [Task -> Local], NEW t \in Task, Return(t)
  PROVE  Alone(t) /\ handler'[t] = Idle
BY IdleType DEF Return, Alone

LEMMA CallDoes ==
  ASSUME handler \in [Task -> Local], NEW t \in Task, Call(t)
  PROVE  /\ Alone(t) /\ handler'[t].at = "lock" /\ handler'[t].sec = "total_call"
         /\ handler'[t].way = 0
<1>1. handler' = [handler EXCEPT ![t] = [Idle EXCEPT !.at = "lock"]]
  BY DEF Call
<1>2. [Idle EXCEPT !.at = "lock"] \in Local
  BY IdleType DEF Local, Place
<1>3. /\ [Idle EXCEPT !.at = "lock"].at = "lock"
      /\ [Idle EXCEPT !.at = "lock"].sec = "total_call"
      /\ [Idle EXCEPT !.at = "lock"].way = 0
  BY DEF Idle
<1> QED
  BY <1>1, <1>2, <1>3 DEF Alone

LEMMA AttachDoes ==
  ASSUME handler \in [Task -> Local], head \in Task \cup {NULL},
         NEW t \in Task, Attach(t)
  PROVE  /\ Alone(t) /\ SameCall(t)
         /\ handler'[t].at = "node" /\ handler'[t].sec = handler[t].sec
BY DEF Attach, Alone, SameCall, Local, Place

LEMMA FindTableDoes ==
  ASSUME handler \in [Task -> Local], NEW t \in Task, NEW s \in Syscall,
         FindTable(t, s)
  PROVE  /\ Alone(t) /\ handler'[t].s = s /\ handler'[t].way = handler[t].way
         /\ IF syscall_table[Hooked(t)][s] = NULL
            THEN handler'[t].at = "cursor" /\ handler'[t].sec = handler[t].sec
            ELSE handler'[t].at = "lock" /\ handler'[t].sec = "table_call"
<1> DEFINE slot == syscall_table[Hooked(t)][s]
           drawing == [handler[t] EXCEPT !.s = s, !.at = "cursor"]
           having == [handler[t] EXCEPT !.s = s, !.at = "lock", !.sec = "table_call"]
<1>1. handler' = [handler EXCEPT ![t] = IF slot = NULL THEN drawing ELSE having]
  BY DEF FindTable
<1> HIDE DEF slot
<1>2. /\ drawing \in Local
      /\ drawing.s = s /\ drawing.at = "cursor" /\ drawing.sec = handler[t].sec
      /\ drawing.way = handler[t].way
  BY DEF Local, Place
<1>3. /\ having \in Local
      /\ having.s = s /\ having.at = "lock" /\ having.sec = "table_call"
      /\ having.way = handler[t].way
  BY DEF Local, Place, Section
<1> HIDE DEF drawing, having
<1>4. Alone(t) /\ handler'[t] = IF slot = NULL THEN drawing ELSE having
  BY <1>1, <1>2, <1>3 DEF Alone
<1> QED
  BY <1>2, <1>3, <1>4 DEF slot

LEMMA ReadCursorDoes ==
  ASSUME handler \in [Task -> Local], cursor \in Nat, NEW t \in Task, ReadCursor(t)
  PROVE  /\ Alone(t) /\ handler'[t].sec = handler[t].sec
         /\ handler'[t].s = handler[t].s /\ handler'[t].way = handler[t].way
         /\ IF cursor = PreAllocated
            THEN handler'[t].at = "store" /\ handler'[t].bias = NULL
            ELSE handler'[t].at = "move" /\ handler'[t].bias = cursor
<1> DEFINE at == IF cursor = PreAllocated THEN "store" ELSE "move"
           bias == IF cursor = PreAllocated THEN NULL ELSE cursor
           new == [handler[t] EXCEPT !.at = at, !.bias = bias]
<1>1. handler' = [handler EXCEPT ![t] = new]
  BY DEF ReadCursor
<1>2. at \in Place /\ bias \in Nat \cup {NULL}
  BY DEF Place
<1> HIDE DEF at, bias
<1>3. /\ new \in Local
      /\ new.s = handler[t].s /\ new.sec = handler[t].sec /\ new.way = handler[t].way
      /\ new.at = at /\ new.bias = bias
  BY <1>2 DEF Local
<1> HIDE DEF new
<1>4. Alone(t) /\ handler'[t] = new
  BY <1>1, <1>3 DEF Alone
<1> QED
  BY <1>3, <1>4 DEF at, bias

LEMMA OpenTableDoes ==
  ASSUME handler \in [Task -> Local], NEW t \in Task, NEW regs,
         Slot(t) \in Table \cup {NULL},
         ArgumentList(seccomp[t], handler[t].s, regs) \in Keys, OpenTable(t, regs)
  PROVE  /\ Alone(t) /\ handler'[t].sec = handler[t].sec
         /\ handler'[t].s = handler[t].s
         /\ handler'[t].way = handler[t].way
         /\ handler'[t].at = IF Slot(t) = NULL THEN "wild" ELSE "probe"
         /\ handler'[t].bias = Slot(t)
         /\ handler'[t].key = ArgumentList(seccomp[t], handler[t].s, regs)
<1> DEFINE key == ArgumentList(seccomp[t], handler[t].s, regs)
           slot == Slot(t)
           at == IF slot = NULL THEN "wild" ELSE "probe"
           new == [handler[t] EXCEPT !.at = at, !.bias = slot, !.key = key]
<1>1. handler' = [handler EXCEPT ![t] = new]
  BY DEF OpenTable
<1>2. slot \in Nat \cup {NULL} /\ key \in Keys /\ at \in Place
  BY RaceConstants DEF Place
<1> HIDE DEF key, slot, at
<1>3. /\ new \in Local
      /\ new.s = handler[t].s /\ new.sec = handler[t].sec /\ new.way = handler[t].way
      /\ new.at = at /\ new.bias = slot /\ new.key = key
  BY <1>2 DEF Local
<1> HIDE DEF new
<1>4. Alone(t) /\ handler'[t] = new
  BY <1>1, <1>3 DEF Alone
<1> QED
  BY <1>3, <1>4 DEF key, slot, at

\* A probe ends with a free way or with none left, with a hit, or goes on.
LEMMA ProbeDoes ==
  ASSUME handler \in [Task -> Local], NEW t \in Task, Probe(t)
  PROVE  /\ Alone(t)
         /\ handler'[t].s = handler[t].s
         /\ handler'[t].key = handler[t].key
         /\ handler'[t].bias = handler[t].bias
         /\ \/ /\ handler[t].way = Asos \/ Free(t)
               /\ handler'[t].at = "lock" /\ handler'[t].sec = "argument"
               /\ handler'[t].way = handler[t].way
               /\ asked' = IF handler[t].way = Asos THEN asked
                           ELSE asked \cup {EntryOf(t)}
            \/ /\ handler[t].way # Asos /\ ~ Free(t) /\ UNCHANGED asked
               /\ Matches(pool[handler[t].bias].table[BucketOf(t)][handler[t].way],
                          handler[t].key)
               /\ handler'[t].at = "lock" /\ handler'[t].sec = "hit"
               /\ handler'[t].way = handler[t].way
            \/ /\ handler[t].way # Asos /\ ~ Free(t) /\ UNCHANGED asked
               /\ handler'[t].at = "probe" /\ handler'[t].sec = handler[t].sec
               /\ handler'[t].way = handler[t].way + 1
<1> DEFINE p == handler[t]
<1>1. CASE p.way = Asos \/ Free(t)
  <2>1. Lock(t, "argument") /\ asked' = IF p.way = Asos THEN asked
                                        ELSE asked \cup {EntryOf(t)}
    BY <1>1 DEF Probe
  <2>2. Alone(t) /\ SameCall(t) /\ handler'[t].at = "lock" /\ handler'[t].sec = "argument"
    BY <2>1, LockDoes DEF Section
  <2> QED
    BY <1>1, <2>1, <2>2 DEF SameCall
<1>2. CASE /\ ~ (p.way = Asos \/ Free(t))
           /\ Matches(pool[p.bias].table[BucketOf(t)][p.way], p.key)
  <2>1. Lock(t, "hit") /\ UNCHANGED asked
    BY <1>2 DEF Probe
  <2>2. Alone(t) /\ SameCall(t) /\ handler'[t].at = "lock" /\ handler'[t].sec = "hit"
    BY <2>1, LockDoes DEF Section
  <2> QED
    BY <1>2, <2>1, <2>2 DEF SameCall
<1>3. CASE /\ ~ (p.way = Asos \/ Free(t))
           /\ ~ Matches(pool[p.bias].table[BucketOf(t)][p.way], p.key)
  <2>1. handler' = [handler EXCEPT ![t].way = p.way + 1] /\ UNCHANGED asked /\ p.at = "probe"
    BY <1>3 DEF Probe, At
  <2>2. p.way + 1 \in 0 .. Asos
    BY <1>3, RaceConstants DEF Local
  <2>3. /\ Alone(t)
        /\ handler'[t].s = p.s /\ handler'[t].key = p.key /\ handler'[t].bias = p.bias
        /\ handler'[t].at = p.at /\ handler'[t].sec = p.sec
        /\ handler'[t].way = p.way + 1
    BY <2>1, <2>2 DEF Alone, Local
  <2> QED
    BY <1>3, <2>1, <2>3
<1> QED
  BY <1>1, <1>2, <1>3

LEMMA SetFlagDoes ==
  ASSUME handler \in [Task -> Local], NEW t \in Task, SetFlag(t),
         1 \in 0 .. MaxArgumentCount \/ handler[t].key = << >>
  PROVE  /\ Alone(t)
         /\ \/ handler[t].key = << >> /\ handler'[t] = Idle
            \/ /\ handler[t].key # << >>
               /\ handler'[t].at = "copy" /\ handler'[t].sec = handler[t].sec
               /\ handler'[t].s = handler[t].s
               /\ handler'[t].key = handler[t].key
               /\ handler'[t].way = handler[t].way
               /\ handler'[t].bias = handler[t].bias
               /\ handler'[t].word = 1
<1>1. CASE handler[t].key = << >>
  BY <1>1, ReturnDoes DEF SetFlag
<1>2. CASE handler[t].key # << >>
  BY <1>2 DEF SetFlag, Alone, Local, Place
<1> QED
  BY <1>1, <1>2

LEMMA CopyWordDoes ==
  ASSUME handler \in [Task -> Local], NEW t \in Task, CopyWord(t),
         handler[t].word + 1 \in 0 .. MaxArgumentCount
           \/ handler[t].word = Len(handler[t].key)
  PROVE  /\ Alone(t)
         /\ \/ handler[t].word = Len(handler[t].key) /\ handler'[t] = Idle
            \/ /\ handler[t].word # Len(handler[t].key)
               /\ handler'[t].at = "copy" /\ handler'[t].sec = handler[t].sec
               /\ handler'[t].s = handler[t].s
               /\ handler'[t].key = handler[t].key
               /\ handler'[t].way = handler[t].way
               /\ handler'[t].bias = handler[t].bias
               /\ handler'[t].word = handler[t].word + 1
<1>1. CASE handler[t].word = Len(handler[t].key)
  BY <1>1, ReturnDoes DEF CopyWord
<1>2. CASE handler[t].word # Len(handler[t].key)
  <2>1. handler' = [handler EXCEPT ![t].word = handler[t].word + 1] /\ handler[t].at = "copy"
    BY <1>2 DEF CopyWord, At
  <2> QED
    BY <1>2, <2>1 DEF Alone, Local, Place
<1> QED
  BY <1>1, <1>2

\* Where a section leads.
LEMMA GoOnDoes ==
  ASSUME handler \in [Task -> Local], NEW t \in Task, GoOn(t, Following(t))
  PROVE  /\ Alone(t)
         /\ \/ handler[t].sec \in {"hit", "conflict"} /\ handler'[t] = Idle
            \/ /\ SameCall(t)
               /\ \/ /\ handler[t].sec = "total_call" /\ Hooked(t) = NULL
                     /\ handler'[t].at = "lock" /\ handler'[t].sec = "process"
                  \/ /\ handler[t].sec = "total_call" /\ Hooked(t) # NULL
                     /\ handler'[t].at = "lock" /\ handler'[t].sec = "process_call"
                  \/ /\ handler[t].sec = "process"
                     /\ handler'[t].at = "attach" /\ handler'[t].sec = "process"
                  \/ /\ handler[t].sec = "process_call"
                     /\ handler'[t].at = "table" /\ handler'[t].sec = "process_call"
                  \/ /\ handler[t].sec = "process_syscall"
                     /\ handler'[t].at = "lock" /\ handler'[t].sec = "table_call"
                  \/ /\ handler[t].sec = "table_call"
                     /\ handler'[t].at = "open" /\ handler'[t].sec = "table_call"
                  \/ /\ handler[t].sec = "argument" /\ handler[t].way = Asos
                     /\ handler'[t].at = "lock" /\ handler'[t].sec = "conflict"
                  \/ /\ handler[t].sec = "argument" /\ handler[t].way # Asos
                     /\ handler'[t].at = "flag" /\ handler'[t].sec = "argument"
<1> DEFINE sec == handler[t].sec
<1>1. sec \in Section
  BY DEF Local
<1>2. CASE sec = "total_call" /\ Hooked(t) = NULL
  <2>1. Lock(t, "process")
    BY <1>2 DEF GoOn, Following, Section
  <2> QED
    BY <1>2, <2>1, LockDoes DEF Section
<1>3. CASE sec = "total_call" /\ Hooked(t) # NULL
  <2>1. Lock(t, "process_call")
    BY <1>3 DEF GoOn, Following, Section
  <2> QED
    BY <1>3, <2>1, LockDoes DEF Section
<1>4. CASE sec = "process"
  <2>1. Goto(t, "attach")
    BY <1>4 DEF GoOn, Following, Section
  <2> QED
    BY <1>4, <2>1, GotoDoes DEF Place
<1>5. CASE sec = "process_call"
  <2>1. Goto(t, "table")
    BY <1>5 DEF GoOn, Following, Section
  <2> QED
    BY <1>5, <2>1, GotoDoes DEF Place
<1>6. CASE sec = "process_syscall"
  <2>1. Lock(t, "table_call")
    BY <1>6 DEF GoOn, Following, Section
  <2> QED
    BY <1>6, <2>1, LockDoes DEF Section
<1>7. CASE sec = "table_call"
  <2>1. Goto(t, "open")
    BY <1>7 DEF GoOn, Following, Section
  <2> QED
    BY <1>7, <2>1, GotoDoes DEF Place
<1>8. CASE sec = "argument" /\ handler[t].way = Asos
  <2>1. Lock(t, "conflict")
    BY <1>8 DEF GoOn, Following, Section
  <2> QED
    BY <1>8, <2>1, LockDoes DEF Section
<1>9. CASE sec = "argument" /\ handler[t].way # Asos
  <2>1. Goto(t, "flag")
    BY <1>9 DEF GoOn, Following, Section
  <2> QED
    BY <1>9, <2>1, GotoDoes DEF Place
<1>10. CASE sec \in {"hit", "conflict"}
  <2>1. Return(t)
    BY <1>10 DEF GoOn, Following, Section
  <2> QED
    BY <1>10, <2>1, ReturnDoes
<1> QED
  BY <1>1, <1>2, <1>3, <1>4, <1>5, <1>6, <1>7, <1>8, <1>9, <1>10 DEF Section

-----------------------------------------------------------------------------
(* Types.                                                                  *)

KeyLength(t) == seccomp[t].argument_count_table[handler[t].s]

\* Handler t has opened a table.
Searching(t) ==
    At(t, {"probe"}) \/ handler[t].sec \in {"argument", "conflict", "hit"}

\* What the locals of a handler are at each place of the code.
Fits(t) ==
    LET p == handler[t] IN
    /\ p.at = "idle" => p.sec = "total_call"
    /\ p.at \in {"attach", "node", "fill", "unlock"} => p.sec = "process"
    /\ p.at \in {"table", "cursor", "move", "store"} => p.sec = "process_call"
    /\ p.at \in {"open", "probe"} => p.sec = "table_call"
    /\ p.at \in {"flag", "copy"} => p.sec = "argument" /\ p.way \in Way
    /\ p.sec = "hit" => p.at \in {"lock", "in"} /\ p.way \in Way
    /\ p.sec = "process" /\ p.at \in {"lock", "in", "attach"} => Hooked(t) = NULL
    /\ p.sec \notin {"total_call", "process"} \/ p.at \in {"node", "fill", "unlock"}
          => Hooked(t) # NULL
    /\ p.at = "move" => p.bias \in Nat
    /\ Searching(t) => p.bias \in Table /\ p.key \in KeysOf(KeyLength(t))
    /\ p.at = "copy" => p.word \in 1 .. Len(p.key)
    /\ ~ Searching(t) => p.way = 0

\* The profiles are the same but for their hooks.
Alike == \A t, u \in Task : seccomp[t].argument_count_table
                              = seccomp[u].argument_count_table

Tables ==
    /\ syscall_table \in [Hook -> [Syscall -> Table \cup {NULL}]]
    /\ cursor \in Nat
    /\ pool \in [Table -> SyscallTable]

Kinds == {"unlock", "link", "node", "draw", "row", "clear"}

Rest ==
    /\ head \in Task \cup {NULL}
    /\ draco_spinlock \in Task \cup {NULL}
    /\ cleared \in BOOLEAN
    /\ calls \in Int
    /\ asked \in SUBSET (Hook \X Syscall \X Row)
    /\ mishap \in SUBSET Kinds

RaceTypes ==
    /\ seccomp \in [Task -> Struct] /\ Alike
    /\ handler \in [Task -> Local]
    /\ \A t \in Task : Fits(t)
    /\ Tables
    /\ Rest

LEMMA KeyLengthType ==
  ASSUME RaceTypes, NEW t \in Task
  PROVE  KeyLength(t) \in 0 .. MaxArgumentCount
BY DEF RaceTypes, KeyLength, Struct, Local

\* The table, bucket and way handler t is at are there.
LEMMA SearchType ==
  ASSUME RaceTypes, NEW t \in Task, Searching(t)
  PROVE  /\ handler[t].bias \in Table /\ BucketOf(t) \in Bucket
         /\ handler[t].key \in KeysOf(KeyLength(t))
         /\ pool[handler[t].bias] \in SyscallTable
         /\ Hooked(t) \in Hook /\ handler[t].s \in Syscall
         /\ EntryOf(t) \in Hook \X Syscall \X Row
<1>1. /\ handler[t].bias \in Table /\ handler[t].key \in KeysOf(KeyLength(t))
      /\ Hooked(t) # NULL
  BY DEF RaceTypes, Fits, Searching, At
<1>2. KeyLength(t) \in 0 .. MaxArgumentCount
  BY KeyLengthType
<1>3. BucketOf(t) \in Bucket /\ Padded(handler[t].key) \in Row
  BY <1>1, <1>2, KeysOfFits, PaddedType DEF BucketOf
<1>4. Hooked(t) \in Hook /\ handler[t].s \in Syscall
  BY <1>1 DEF RaceTypes, Hooked, Struct, Local
<1> QED
  BY <1>1, <1>3, <1>4 DEF RaceTypes, Tables, EntryOf

LEMMA SlotType ==
  ASSUME RaceTypes, NEW t \in Task, Hooked(t) # NULL
  PROVE  Hooked(t) \in Hook /\ Slot(t) \in Table \cup {NULL}
<1>1. Hooked(t) \in Hook /\ handler[t].s \in Syscall
  BY DEF RaceTypes, Hooked, Struct, Local
<1> QED
  BY <1>1 DEF RaceTypes, Tables, Slot

LEMMA OthersFit ==
  ASSUME RaceTypes, NEW t \in Task, Alone(t), Fits(t)',
         \A u \in Task : u # t => seccomp'[u] = seccomp[u]
  PROVE  handler' \in [Task -> Local] /\ \A u \in Task : Fits(u)'
<1>1. ASSUME NEW u \in Task, u # t PROVE Fits(u)'
  <2>1. handler'[u] = handler[u] /\ seccomp'[u] = seccomp[u] /\ Fits(u)
    BY <1>1 DEF Alone, RaceTypes
  <2> QED
    BY <2>1 DEF Fits, Searching, At, Hooked, KeyLength
<1> QED
  BY <1>1 DEF Alone

LEMMA LockingFits ==
  ASSUME RaceTypes, NEW t \in Task,
         Call(t) \/ Enter(t) \/ Leave(t) \/ Crash(t) \/ LeaveEarly(t)
  PROVE  Alone(t) /\ Fits(t)' /\ UNCHANGED seccomp
<1>1. handler \in [Task -> Local] /\ Fits(t)
  BY DEF RaceTypes
<1>2. CASE Call(t)
  <2>1. /\ Alone(t) /\ handler'[t].at = "lock" /\ handler'[t].sec = "total_call"
        /\ handler'[t].way = 0 /\ UNCHANGED seccomp
    BY <1>1, <1>2, CallDoes DEF Call
  <2> QED
    BY <2>1 DEF Fits, Searching, At
<1>3. CASE Enter(t)
  <2>1. /\ Alone(t) /\ SameCall(t) /\ UNCHANGED seccomp
        /\ handler[t].at = "lock" /\ handler'[t].at = "in" /\ handler'[t].sec = handler[t].sec
    BY <1>1, <1>3, GotoDoes DEF Enter, At, Place
  <2> QED
    BY <1>1, <2>1 DEF Fits, Searching, At, SameCall, Hooked, KeyLength
<1>4. CASE Leave(t)
  <2>1. handler[t].at = "in" /\ GoOn(t, Following(t)) /\ UNCHANGED seccomp
    BY <1>4 DEF Leave, At
  <2>2. CASE handler'[t] = Idle
    <3>1. handler'[t].at = "idle" /\ handler'[t].sec = "total_call" /\ handler'[t].way = 0
      BY <2>2 DEF Idle
    <3> QED
      BY <1>1, <2>1, <3>1, GoOnDoes DEF Fits, Searching, At
  <2>3. CASE handler'[t] # Idle
    <3>1. handler[t].way \in 0 .. Asos /\ (handler[t].way # Asos => handler[t].way \in Way)
      BY <1>1, RaceConstants DEF Local, Way
    <3> QED
      BY <1>1, <2>1, <2>3, <3>1, GoOnDoes DEF Fits, Searching, At, SameCall, Hooked, KeyLength
  <2> QED
    BY <2>2, <2>3
<1>5. CASE Crash(t)
  <2>1. /\ Alone(t) /\ SameCall(t) /\ UNCHANGED seccomp
        /\ handler[t].at = "in" /\ handler'[t].at = "wild"
        /\ handler'[t].sec = handler[t].sec
        /\ handler[t].sec \in {"table_call", "argument", "conflict"}
    BY <1>1, <1>5, GotoDoes DEF Crash, Oops, Place, At
  <2> QED
    BY <1>1, <2>1 DEF Fits, Searching, At, SameCall, Hooked, KeyLength
<1>6. CASE LeaveEarly(t)
  <2>1. Alone(t) /\ handler'[t] = Idle /\ UNCHANGED seccomp
    BY <1>1, <1>6, ReturnDoes DEF LeaveEarly
  <2>2. handler'[t].at = "idle" /\ handler'[t].sec = "total_call" /\ handler'[t].way = 0
    BY <2>1 DEF Idle
  <2> QED
    BY <2>1, <2>2 DEF Fits, Searching, At
<1> QED
  BY <1>2, <1>3, <1>4, <1>5, <1>6

LEMMA LinkingFits ==
  ASSUME RaceTypes, NEW t \in Task,
         AllocateNode(t) \/ LoseList(t) \/ FillNode(t) \/ SecondUnlock(t)
  PROVE  Alone(t) /\ Fits(t)' /\ UNCHANGED seccomp
<1>1. handler \in [Task -> Local] /\ Fits(t)
  BY DEF RaceTypes
<1>2. CASE AllocateNode(t)
  <2>1. /\ Alone(t) /\ SameCall(t) /\ UNCHANGED seccomp
        /\ handler[t].at = "node" /\ handler'[t].at = "fill" /\ handler'[t].sec = handler[t].sec
    BY <1>1, <1>2, GotoDoes DEF AllocateNode, At, Place
  <2> QED
    BY <1>1, <2>1 DEF Fits, Searching, At, SameCall, Hooked, KeyLength
<1>3. CASE LoseList(t)
  <2>1. Alone(t) /\ handler'[t] = Idle /\ UNCHANGED seccomp
    BY <1>1, <1>3, ReturnDoes DEF LoseList
  <2>2. handler'[t].at = "idle" /\ handler'[t].sec = "total_call" /\ handler'[t].way = 0
    BY <2>1 DEF Idle
  <2> QED
    BY <2>1, <2>2 DEF Fits, Searching, At
<1>4. CASE FillNode(t)
  <2>1. /\ Goto(t, "wild") \/ Goto(t, "unlock")
        /\ handler[t].at = "fill" /\ UNCHANGED seccomp
    BY <1>4 DEF FillNode, At
  <2>2. /\ Alone(t) /\ SameCall(t)
        /\ handler'[t].at \in {"wild", "unlock"} /\ handler'[t].sec = handler[t].sec
    BY <1>1, <2>1, GotoDoes DEF Place
  <2> QED
    BY <1>1, <2>1, <2>2 DEF Fits, Searching, At, SameCall, Hooked, KeyLength
<1>5. CASE SecondUnlock(t)
  <2>1. /\ Alone(t) /\ SameCall(t) /\ UNCHANGED seccomp
        /\ handler[t].at = "unlock" /\ handler'[t].at = "lock"
        /\ handler'[t].sec = "process_call"
    BY <1>1, <1>5, LockDoes DEF SecondUnlock, At, Section
  <2> QED
    BY <1>1, <2>1 DEF Fits, Searching, At, SameCall, Hooked, KeyLength
<1> QED
  BY <1>2, <1>3, <1>4, <1>5

LEMMA DrawingFits ==
  ASSUME RaceTypes, NEW t \in Task,
         \/ \E s \in Syscall : FindTable(t, s)
         \/ ReadCursor(t) \/ MoveCursor(t) \/ StoreTable(t)
  PROVE  Alone(t) /\ Fits(t)' /\ UNCHANGED seccomp
<1>1. handler \in [Task -> Local] /\ Fits(t) /\ cursor \in Nat
  BY DEF RaceTypes, Tables
<1>2. ASSUME NEW s \in Syscall, FindTable(t, s)
      PROVE  Alone(t) /\ Fits(t)' /\ UNCHANGED seccomp
  <2>1. handler[t].at = "table" /\ UNCHANGED seccomp
    BY <1>2 DEF FindTable, At
  <2>2. /\ Alone(t) /\ handler'[t].way = handler[t].way
        /\ \/ handler'[t].at = "cursor" /\ handler'[t].sec = handler[t].sec
           \/ handler'[t].at = "lock" /\ handler'[t].sec = "table_call"
    BY <1>1, <1>2, FindTableDoes
  <2> QED
    BY <1>1, <2>1, <2>2 DEF Fits, Searching, At, Hooked
<1>3. CASE ReadCursor(t)
  <2>1. handler[t].at = "cursor" /\ UNCHANGED seccomp
    BY <1>3 DEF ReadCursor, At
  <2>2. /\ Alone(t) /\ handler'[t].sec = handler[t].sec
        /\ handler'[t].way = handler[t].way
        /\ \/ handler'[t].at = "store"
           \/ handler'[t].at = "move" /\ handler'[t].bias \in Nat
    BY <1>1, <1>3, ReadCursorDoes
  <2> QED
    BY <1>1, <2>1, <2>2 DEF Fits, Searching, At, Hooked
<1>4. CASE MoveCursor(t)
  <2>1. /\ handler[t].at = "move" /\ UNCHANGED seccomp
        /\ Alone(t) /\ handler'[t].at = "store" /\ handler'[t].sec = handler[t].sec
        /\ handler'[t].way = handler[t].way
    BY <1>1, <1>4, GotoDoes DEF MoveCursor, At, Place, SameCall
  <2> QED
    BY <1>1, <2>1 DEF Fits, Searching, At, Hooked
<1>5. CASE StoreTable(t)
  <2>1. /\ handler[t].at = "store" /\ UNCHANGED seccomp
        /\ Return(t) \/ Lock(t, "process_syscall") \/ Goto(t, "wild")
    BY <1>5 DEF StoreTable, At
  <2>2. /\ Alone(t)
        /\ handler'[t].way \in {0, handler[t].way}
        /\ \/ handler'[t].at = "idle" /\ handler'[t].sec = "total_call"
           \/ handler'[t].at = "lock" /\ handler'[t].sec = "process_syscall"
           \/ handler'[t].at = "wild" /\ handler'[t].sec = handler[t].sec
    BY <1>1, <2>1, ReturnDoes, LockDoes, GotoDoes DEF Place, Section, Idle, SameCall
  <2> QED
    BY <1>1, <2>1, <2>2 DEF Fits, Searching, At, Hooked
<1> QED
  BY <1>2, <1>3, <1>4, <1>5

LEMMA OpenTableKeys ==
  ASSUME RaceTypes, NEW t \in Task, NEW regs \in Regs, OpenTable(t, regs)
  PROVE  /\ Alone(t) /\ handler'[t].sec = handler[t].sec
         /\ handler'[t].s = handler[t].s
         /\ handler'[t].way = handler[t].way
         /\ handler'[t].at = IF Slot(t) = NULL THEN "wild" ELSE "probe"
         /\ handler'[t].bias = Slot(t) /\ Slot(t) \in Table \cup {NULL}
         /\ handler'[t].key = ArgumentList(seccomp[t], handler[t].s, regs)
         /\ handler'[t].key \in KeysOf(KeyLength(t))
         /\ handler[t].at = "open" /\ UNCHANGED seccomp
<1>1. handler \in [Task -> Local] /\ Fits(t) /\ seccomp[t] \in Struct
  BY DEF RaceTypes
<1>2. handler[t].at = "open" /\ handler[t].s \in Syscall /\ UNCHANGED seccomp
  BY <1>1 DEF OpenTable, At, Local
<1>3. Slot(t) \in Table \cup {NULL}
  BY <1>1, <1>2, SlotType DEF Fits
<1>4. /\ KeyLength(t) \in 0 .. MaxArgumentCount
      /\ ArgumentList(seccomp[t], handler[t].s, regs) \in KeysOf(KeyLength(t))
  BY <1>1, <1>2, ArgumentListType DEF KeyLength
<1>5. ArgumentList(seccomp[t], handler[t].s, regs) \in Keys
  BY <1>4, KeysOfFits
<1> QED
  BY <1>1, <1>2, <1>3, <1>4, <1>5, OpenTableDoes

LEMMA SetFlagMoves ==
  ASSUME RaceTypes, NEW t \in Task, SetFlag(t)
  PROVE  /\ Alone(t) /\ UNCHANGED seccomp
         /\ handler[t].at = "flag" /\ handler[t].sec = "argument" /\ handler[t].way \in Way
         /\ \/ handler[t].key = << >> /\ handler'[t] = Idle
            \/ /\ handler[t].key # << >>
               /\ handler'[t].at = "copy" /\ handler'[t].sec = handler[t].sec
               /\ handler'[t].s = handler[t].s
               /\ handler'[t].key = handler[t].key
               /\ handler'[t].way = handler[t].way
               /\ handler'[t].bias = handler[t].bias
               /\ handler'[t].word = 1 /\ 1 \in 1 .. Len(handler[t].key)
<1>1. handler \in [Task -> Local] /\ Fits(t)
  BY DEF RaceTypes
<1>2. /\ handler[t].at = "flag" /\ UNCHANGED seccomp
      /\ handler[t].sec = "argument" /\ handler[t].way \in Way
  BY <1>1 DEF SetFlag, At, Fits
<1>3. handler[t].key \in KeysOf(KeyLength(t)) /\ KeyLength(t) \in 0 .. MaxArgumentCount
  BY <1>2, SearchType, KeyLengthType DEF Searching
<1>4. KeyLength(t) \in Nat /\ MaxArgumentCount \in Nat
  BY <1>3, ProfileAssumption
<1>5. /\ Len(handler[t].key) = KeyLength(t)
      /\ handler[t].key = << >> <=> KeyLength(t) = 0
  BY <1>3, <1>4, KeyIsSeq
<1>6. handler[t].key # << >> => 1 \in 1 .. Len(handler[t].key) /\ 1 \in 0 .. MaxArgumentCount
  BY <1>3, <1>4, <1>5
<1> QED
  BY <1>1, <1>2, <1>6, SetFlagDoes

LEMMA CopyWordMoves ==
  ASSUME RaceTypes, NEW t \in Task, CopyWord(t)
  PROVE  /\ Alone(t) /\ UNCHANGED seccomp
         /\ handler[t].at = "copy" /\ handler[t].sec = "argument" /\ handler[t].way \in Way
         /\ Len(handler[t].key) = KeyLength(t) /\ DOMAIN handler[t].key = 1 .. KeyLength(t)
         /\ handler[t].word \in 1 .. KeyLength(t) /\ handler[t].word \in Position
         /\ KeyLength(t) \in Nat
         /\ \/ handler[t].word = KeyLength(t) /\ handler'[t] = Idle
            \/ /\ handler[t].word # KeyLength(t)
               /\ handler'[t].at = "copy" /\ handler'[t].sec = handler[t].sec
               /\ handler'[t].s = handler[t].s
               /\ handler'[t].key = handler[t].key
               /\ handler'[t].way = handler[t].way
               /\ handler'[t].bias = handler[t].bias
               /\ handler'[t].word = handler[t].word + 1
               /\ handler[t].word + 1 \in 1 .. KeyLength(t)
<1>1. handler \in [Task -> Local] /\ Fits(t)
  BY DEF RaceTypes
<1>2. /\ handler[t].at = "copy" /\ UNCHANGED seccomp
      /\ handler[t].sec = "argument" /\ handler[t].way \in Way
      /\ handler[t].word \in 1 .. Len(handler[t].key)
  BY <1>1 DEF CopyWord, At, Fits
<1>3. handler[t].key \in KeysOf(KeyLength(t)) /\ KeyLength(t) \in 0 .. MaxArgumentCount
  BY <1>2, SearchType, KeyLengthType DEF Searching
<1>4. KeyLength(t) \in Nat /\ MaxArgumentCount \in Nat
  BY <1>3, ProfileAssumption
<1>5. Len(handler[t].key) = KeyLength(t) /\ DOMAIN handler[t].key = 1 .. KeyLength(t)
  BY <1>3, <1>4, KeyIsSeq
<1>6. /\ handler[t].word \in 1 .. KeyLength(t) /\ handler[t].word \in Position
      /\ handler[t].word # KeyLength(t) => /\ handler[t].word + 1 \in 0 .. MaxArgumentCount
                                           /\ handler[t].word + 1 \in 1 .. KeyLength(t)
  BY <1>2, <1>3, <1>4, <1>5 DEF Position
<1> QED
  BY <1>1, <1>2, <1>4, <1>5, <1>6, CopyWordDoes

LEMMA LookupFits ==
  ASSUME RaceTypes, NEW t \in Task,
         \/ \E regs \in Regs : OpenTable(t, regs)
         \/ Probe(t) \/ SetFlag(t) \/ CopyWord(t)
  PROVE  Alone(t) /\ Fits(t)' /\ UNCHANGED seccomp
<1>1. handler \in [Task -> Local] /\ Fits(t)
  BY DEF RaceTypes
<1>2. ASSUME NEW regs \in Regs, OpenTable(t, regs)
      PROVE  Alone(t) /\ Fits(t)' /\ UNCHANGED seccomp
  BY <1>1, <1>2, OpenTableKeys DEF Fits, Searching, At, Hooked, KeyLength
<1>3. CASE Probe(t)
  <2>1. handler[t].at = "probe" /\ UNCHANGED seccomp
    BY <1>3 DEF Probe, At
  <2>2. handler[t].way # Asos => handler[t].way \in Way
    BY <1>1, RaceConstants DEF Local, Way
  <2>3. /\ Alone(t)
        /\ handler'[t].s = handler[t].s
        /\ handler'[t].key = handler[t].key
        /\ handler'[t].bias = handler[t].bias
        /\ \/ handler'[t].at = "lock" /\ handler'[t].sec = "argument"
           \/ /\ handler[t].way # Asos /\ handler'[t].way = handler[t].way
              /\ handler'[t].at = "lock" /\ handler'[t].sec = "hit"
           \/ handler'[t].at = "probe" /\ handler'[t].sec = handler[t].sec
    BY <1>1, <1>3, ProbeDoes
  <2> QED
    BY <1>1, <2>1, <2>2, <2>3 DEF Fits, Searching, At, Hooked, KeyLength
<1>4. CASE SetFlag(t)
  BY <1>1, <1>4, SetFlagMoves DEF Fits, Searching, At, Hooked, KeyLength, Idle
<1>5. CASE CopyWord(t)
  BY <1>1, <1>5, CopyWordMoves DEF Fits, Searching, At, Hooked, KeyLength, Idle
<1> QED
  BY <1>2, <1>3, <1>4, <1>5

\* The one step that changes a structure.
LEMMA AttachFits ==
  ASSUME RaceTypes, NEW t \in Task, Attach(t)
  PROVE  /\ Alone(t) /\ SameCall(t) /\ Fits(t)'
         /\ handler[t].at = "attach" /\ handler'[t].at = "node"
         /\ handler'[t].sec = handler[t].sec
         /\ seccomp' \in [Task -> Struct] /\ Alike'
         /\ \A u \in Task : u # t => seccomp'[u] = seccomp[u]
<1>1. handler \in [Task -> Local] /\ Fits(t) /\ seccomp \in [Task -> Struct]
  BY DEF RaceTypes
<1>2. handler[t].at = "attach" /\ seccomp' = [seccomp EXCEPT ![t].draco_hook = FreeHook]
  BY DEF Attach, At
<1>3. FreeHook \in Hook
  BY <1>1, <1>2, FreeHookType DEF Fits
<1>4. /\ Alone(t) /\ SameCall(t)
      /\ handler'[t].at = "node" /\ handler'[t].sec = handler[t].sec
  BY <1>1, AttachDoes DEF RaceTypes, Rest
<1> DEFINE new == [seccomp[t] EXCEPT !.draco_hook = FreeHook]
<1>5. /\ new \in Struct /\ new.draco_hook = FreeHook
      /\ new.argument_count_table = seccomp[t].argument_count_table
  BY <1>1, <1>3 DEF Struct
<1>6. seccomp' = [seccomp EXCEPT ![t] = new]
  BY <1>2
<1> HIDE DEF new
<1>7. /\ seccomp' \in [Task -> Struct] /\ seccomp'[t] = new
      /\ \A u \in Task : u # t => seccomp'[u] = seccomp[u]
  BY <1>1, <1>5, <1>6
<1>8. Alike'
  BY <1>5, <1>7 DEF RaceTypes, Alike
<1>9. Hooked(t)' # NULL
  BY <1>3, <1>5, <1>7, RaceConstants DEF Hooked
<1>10. Fits(t)'
  BY <1>1, <1>2, <1>4, <1>9 DEF Fits, Searching, At, SameCall
<1> QED
  BY <1>2, <1>4, <1>7, <1>8, <1>10

LEMMA ClearFits ==
  ASSUME RaceTypes, Clear
  PROVE  handler' \in [Task -> Local] /\ (\A t \in Task : Fits(t)') /\ UNCHANGED seccomp
BY DEF Clear, RaceTypes, Fits, Searching, At, Hooked, KeyLength

LEMMA StepFits ==
  ASSUME RaceTypes, Next
  PROVE  /\ seccomp' \in [Task -> Struct] /\ Alike'
         /\ handler' \in [Task -> Local]
         /\ \A t \in Task : Fits(t)'
<1>1. CASE Clear
  BY <1>1, ClearFits DEF RaceTypes, Alike
<1>2. ASSUME NEW t \in Task, Alone(t), Fits(t)', UNCHANGED seccomp
      PROVE  /\ seccomp' \in [Task -> Struct] /\ Alike'
             /\ handler' \in [Task -> Local]
             /\ \A u \in Task : Fits(u)'
  BY <1>2, OthersFit DEF RaceTypes, Alike
<1>3. ASSUME NEW t \in Task, Attach(t)
      PROVE  /\ seccomp' \in [Task -> Struct] /\ Alike'
             /\ handler' \in [Task -> Local]
             /\ \A u \in Task : Fits(u)'
  BY <1>3, AttachFits, OthersFit
<1> QED
  BY <1>1, <1>2, <1>3, LockingFits, LinkingFits, DrawingFits, LookupFits DEF Next, Step

\* The flag of the way handler t is at goes up, no row changes.
LEMMA SetFlagPool ==
  ASSUME RaceTypes, NEW t \in Task, SetFlag(t)
  PROVE  /\ pool' \in [Table -> SyscallTable]
         /\ \A i \in Table, b \in Bucket, w \in Way :
               /\ pool'[i].table[b][w] = pool[i].table[b][w]
               /\ pool'[i].flag[b][w] =
                     IF i = handler[t].bias /\ b = BucketOf(t) /\ w = handler[t].way
                     THEN 1 ELSE pool[i].flag[b][w]
<1> DEFINE i == handler[t].bias
           b == BucketOf(t)
           w == handler[t].way
           row == [pool[i].flag[b] EXCEPT ![w] = 1]
           flag == [pool[i].flag EXCEPT ![b] = row]
           tab == [pool[i] EXCEPT !.flag = flag]
<1>1. Searching(t) /\ w \in Way
  BY SetFlagMoves DEF Searching
<1>2. i \in Table /\ b \in Bucket /\ pool[i] \in SyscallTable
  BY <1>1, SearchType
<1>3. pool' = [pool EXCEPT ![i] = tab]
  BY DEF SetFlag
<1>4. pool \in [Table -> SyscallTable]
  BY DEF RaceTypes, Tables
<1> HIDE DEF i, b, w
<1>5. /\ row \in [Way -> {0, 1}]
      /\ \A v \in Way : row[v] = IF v = w THEN 1 ELSE pool[i].flag[b][v]
  BY <1>1, <1>2 DEF SyscallTable
<1> HIDE DEF row
<1>6. /\ flag \in [Bucket -> [Way -> {0, 1}]]
      /\ \A c \in Bucket : flag[c] = IF c = b THEN row ELSE pool[i].flag[c]
  BY <1>2, <1>5 DEF SyscallTable
<1> HIDE DEF flag
<1>7. tab \in SyscallTable /\ tab.table = pool[i].table /\ tab.flag = flag
  BY <1>2, <1>6 DEF SyscallTable
<1> HIDE DEF tab
<1>8. /\ pool' \in [Table -> SyscallTable]
      /\ \A j \in Table : pool'[j] = IF j = i THEN tab ELSE pool[j]
  BY <1>2, <1>3, <1>4, <1>7
<1> QED
  BY <1>5, <1>6, <1>7, <1>8 DEF i, b, w

\* A word of the row of that way becomes the word of the key, no flag changes.
LEMMA CopyWordPool ==
  ASSUME RaceTypes, NEW t \in Task, CopyWord(t)
  PROVE  /\ pool' \in [Table -> SyscallTable]
         /\ \A i \in Table, b \in Bucket, w \in Way :
               /\ pool'[i].flag[b][w] = pool[i].flag[b][w]
               /\ \A p \in Position : pool'[i].table[b][w][p] =
                     IF i = handler[t].bias /\ b = BucketOf(t) /\ w = handler[t].way
                        /\ p = handler[t].word
                     THEN handler[t].key[p] ELSE pool[i].table[b][w][p]
<1> DEFINE i == handler[t].bias
           b == BucketOf(t)
           w == handler[t].way
           p == handler[t].word
           word == handler[t].key[p]
           row == [pool[i].table[b][w] EXCEPT ![p] = word]
           rows == [pool[i].table[b] EXCEPT ![w] = row]
           table == [pool[i].table EXCEPT ![b] = rows]
           tab == [pool[i] EXCEPT !.table = table]
<1>1. Searching(t) /\ w \in Way /\ p \in Position /\ p \in 1 .. KeyLength(t)
  BY CopyWordMoves DEF Searching
<1>2. i \in Table /\ b \in Bucket /\ pool[i] \in SyscallTable /\ word \in Val
  BY <1>1, SearchType DEF KeysOf
<1>3. pool' = [pool EXCEPT ![i] = tab]
  BY DEF CopyWord
<1>4. pool \in [Table -> SyscallTable]
  BY DEF RaceTypes, Tables
<1> HIDE DEF i, b, w, word
<1>5. /\ row \in Row
      /\ \A q \in Position : row[q] = IF q = p THEN word ELSE pool[i].table[b][w][q]
  BY <1>1, <1>2 DEF SyscallTable, Row
<1> HIDE DEF row, p
<1>6. /\ rows \in [Way -> Row]
      /\ \A v \in Way : rows[v] = IF v = w THEN row ELSE pool[i].table[b][v]
  BY <1>1, <1>2, <1>5 DEF SyscallTable
<1> HIDE DEF rows
<1>7. /\ table \in [Bucket -> [Way -> Row]]
      /\ \A c \in Bucket : table[c] = IF c = b THEN rows ELSE pool[i].table[c]
  BY <1>2, <1>6 DEF SyscallTable
<1> HIDE DEF table
<1>8. tab \in SyscallTable /\ tab.flag = pool[i].flag /\ tab.table = table
  BY <1>2, <1>7 DEF SyscallTable
<1> HIDE DEF tab
<1>9. /\ pool' \in [Table -> SyscallTable]
      /\ \A j \in Table : pool'[j] = IF j = i THEN tab ELSE pool[j]
  BY <1>2, <1>3, <1>4, <1>8
<1>10. \A j \in Table, c \in Bucket, v \in Way :
          /\ pool'[j].flag[c][v] = pool[j].flag[c][v]
          /\ pool'[j].table[c][v] = IF j = i /\ c = b /\ v = w THEN row
                                    ELSE pool[j].table[c][v]
  BY <1>6, <1>7, <1>8, <1>9
<1> QED
  BY <1>5, <1>9, <1>10 DEF i, b, w, p, word

\* What the other steps leave alone.
PoolSame == UNCHANGED pool
SlotsSame == UNCHANGED <<syscall_table, cursor>>

LEMMA StepLeaves ==
  ASSUME NEW t \in Task
  PROVE  /\ Call(t) \/ Enter(t) \/ Leave(t) \/ Crash(t) \/ LeaveEarly(t) \/ Attach(t)
              \/ AllocateNode(t) \/ LoseList(t) \/ FillNode(t) \/ SecondUnlock(t)
              \/ (\E s \in Syscall : FindTable(t, s)) \/ ReadCursor(t)
              \/ (\E regs \in Regs : OpenTable(t, regs)) \/ Probe(t)
            => PoolSame /\ SlotsSame
         /\ MoveCursor(t) => PoolSame /\ UNCHANGED syscall_table
         /\ StoreTable(t) => PoolSame /\ UNCHANGED cursor
         /\ SetFlag(t) \/ CopyWord(t) => SlotsSame
BY DEF PoolSame, SlotsSame, tables, Call, Enter, Leave, Crash, LeaveEarly, Attach,
       AllocateNode, LoseList, FillNode, SecondUnlock, FindTable, ReadCursor,
       OpenTable, Probe, MoveCursor, StoreTable, SetFlag, CopyWord

\* The slot a handler fills.
LEMMA StoreTableDoes ==
  ASSUME RaceTypes, NEW t \in Task, StoreTable(t)
  PROVE  LET i == handler[t].bias IN
         /\ syscall_table' \in [Hook -> [Syscall -> Table \cup {NULL}]]
         /\ \A h \in Hook, s \in Syscall : syscall_table'[h][s] =
               IF i \in Table \cup {NULL} /\ h = Hooked(t) /\ s = handler[t].s
               THEN i ELSE syscall_table[h][s]
         /\ handler[t].at = "store"
         /\ Hooked(t) \in Hook /\ handler[t].s \in Syscall
<1> DEFINE i == handler[t].bias
           h == Hooked(t)
           s == handler[t].s
<1>1. handler[t].at = "store" /\ Fits(t) /\ handler \in [Task -> Local]
  BY DEF StoreTable, At, RaceTypes
<1>2. h \in Hook /\ s \in Syscall
  BY <1>1, SlotType DEF Fits, Local
<1>3. syscall_table \in [Hook -> [Syscall -> Table \cup {NULL}]]
  BY DEF RaceTypes, Tables
<1>4. syscall_table' = IF i \in Table \cup {NULL}
                       THEN [syscall_table EXCEPT ![h][s] = i] ELSE syscall_table
  BY DEF StoreTable
<1> HIDE DEF i, h, s
<1>5. /\ syscall_table' \in [Hook -> [Syscall -> Table \cup {NULL}]]
      /\ \A g \in Hook, r \in Syscall : syscall_table'[g][r] =
            IF i \in Table \cup {NULL} /\ g = h /\ r = s THEN i ELSE syscall_table[g][r]
  BY <1>2, <1>3, <1>4
<1> QED
  BY <1>1, <1>2, <1>5 DEF i, h, s

LEMMA StepTables ==
  ASSUME RaceTypes, Next
  PROVE  Tables'
<1>1. Tables
  BY DEF RaceTypes
<1>2. CASE Clear
  BY <1>1, <1>2, BlankExact DEF Clear, Tables
<1>3. CASE PoolSame /\ SlotsSame
  BY <1>1, <1>3 DEF PoolSame, SlotsSame, Tables
<1>4. ASSUME NEW t \in Task, MoveCursor(t) PROVE Tables'
  <2>1. handler[t].bias \in Nat
    BY <1>4 DEF MoveCursor, At, RaceTypes, Fits
  <2>2. cursor' \in Nat
    BY <1>1, <1>4, <2>1 DEF MoveCursor, Tables
  <2> QED
    BY <1>1, <1>4, <2>2 DEF MoveCursor, Tables
<1>5. ASSUME NEW t \in Task, StoreTable(t) PROVE Tables'
  <2>1. syscall_table' \in [Hook -> [Syscall -> Table \cup {NULL}]]
    BY <1>5, StoreTableDoes
  <2> QED
    BY <1>1, <1>5, <2>1 DEF StoreTable, Tables
<1>6. ASSUME NEW t \in Task, SetFlag(t) \/ CopyWord(t) PROVE Tables'
  <2>1. pool' \in [Table -> SyscallTable] /\ SlotsSame
    BY <1>6, SetFlagPool, CopyWordPool, StepLeaves
  <2> QED
    BY <1>1, <2>1 DEF SlotsSame, Tables
<1> QED
  BY <1>2, <1>3, <1>4, <1>5, <1>6, StepLeaves DEF Next, Step

LEMMA StepRest ==
  ASSUME RaceTypes, Next
  PROVE  Rest'
<1>1. Rest /\ handler \in [Task -> Local]
  BY DEF RaceTypes
<1>2. ASSUME NEW kind \in Kinds, NEW happened, Note(kind, happened)
      PROVE  mishap' \in SUBSET Kinds
  BY <1>1, <1>2 DEF Note, Rest
<1>3. CASE Clear
  <2>1. mishap' \in SUBSET Kinds
    BY <1>2, <1>3 DEF Clear, Kinds
  <2> QED
    BY <1>1, <1>3, <2>1 DEF Clear, Rest
<1>4. ASSUME NEW t \in Task, Call(t) PROVE Rest'
  BY <1>1, <1>4 DEF Call, Rest, list, history
<1>5. ASSUME NEW t \in Task, Enter(t) \/ Leave(t) \/ Crash(t) \/ LeaveEarly(t) PROVE Rest'
  BY <1>1, <1>5 DEF Enter, Leave, Crash, LeaveEarly, Rest, list, history, course
<1>6. ASSUME NEW t \in Task, Attach(t) PROVE Rest'
  <2>1. mishap' \in SUBSET Kinds
    BY <1>2, <1>6 DEF Attach, Kinds
  <2> QED
    BY <1>1, <1>6, <2>1 DEF Attach, Rest, list, course
<1>7. ASSUME NEW t \in Task, AllocateNode(t) \/ FillNode(t) PROVE Rest'
  BY <1>1, <1>7 DEF AllocateNode, FillNode, Rest, history, course
<1>8. ASSUME NEW t \in Task, LoseList(t) PROVE Rest'
  <2>1. mishap' \in SUBSET Kinds
    BY <1>1, <1>8 DEF LoseList, Rest, Kinds
  <2> QED
    BY <1>1, <1>8, <2>1 DEF LoseList, Rest, course
<1>9. ASSUME NEW t \in Task, SecondUnlock(t) PROVE Rest'
  <2>1. mishap' \in SUBSET Kinds
    BY <1>2, <1>9 DEF SecondUnlock, Kinds
  <2> QED
    BY <1>1, <1>9, <2>1 DEF SecondUnlock, Rest, list, course
<1>10. ASSUME NEW t \in Task, ReadCursor(t) PROVE Rest'
  <2>1. mishap' \in SUBSET Kinds
    BY <1>2, <1>10 DEF ReadCursor, Kinds
  <2> QED
    BY <1>1, <1>10, <2>1 DEF ReadCursor, Rest, list, course
<1>11. ASSUME NEW t \in Task, MoveCursor(t) \/ StoreTable(t) \/ SetFlag(t) \/ CopyWord(t)
       PROVE  Rest'
  BY <1>1, <1>11 DEF MoveCursor, StoreTable, SetFlag, CopyWord, Rest, list, history, course
<1>12. ASSUME NEW t \in Task,
              (\E s \in Syscall : FindTable(t, s)) \/ (\E regs \in Regs : OpenTable(t, regs))
       PROVE  Rest'
  BY <1>1, <1>12 DEF FindTable, OpenTable, Rest, list, history, course
<1>13. ASSUME NEW t \in Task, Probe(t) PROVE Rest'
  <2>1. mishap' \in SUBSET Kinds
    BY <1>2, <1>13 DEF Probe, Kinds
  <2>2. Searching(t)
    BY <1>13 DEF Probe, Searching
  <2>3. asked' \in SUBSET (Hook \X Syscall \X Row)
    BY <1>1, <1>13, <2>2, ProbeDoes, SearchType DEF Rest
  <2> QED
    BY <1>1, <1>13, <2>1, <2>3 DEF Probe, Rest, list, course
<1> QED
  BY <1>3, <1>4, <1>5, <1>6, <1>7, <1>8, <1>9, <1>10, <1>11, <1>12, <1>13 DEF Next, Step

LEMMA StepTypes == RaceTypes /\ [Next]_vars => RaceTypes'
<1>1. RaceTypes /\ Next => RaceTypes'
  BY StepFits, StepTables, StepRest DEF RaceTypes
<1>2. RaceTypes /\ UNCHANGED vars => RaceTypes'
  BY DEF RaceTypes, Tables, Rest, vars, Alike, Fits, Searching, At, Hooked, KeyLength
<1> QED
  BY <1>1, <1>2

-----------------------------------------------------------------------------
(* The beginning.                                                          *)

LEMMA FilteredType ==
  ASSUME NEW mask \in Mask
  PROVE  Filtered(mask) \in Struct
<1> DEFINE sec == [CleanStruct EXCEPT
                     !.mode = "filter",
                     !.draco_count = SyscallCount,
                     !.bit_map = [s \in Syscall |-> s],
                     !.fill = [s \in Syscall |-> 1],
                     !.arg_position = [s \in Syscall |-> mask]]
<1>1. CleanStruct \in Struct
  BY CleanSound DEF Sound
<1>2. SyscallCount \in 0 .. SyscallCount
  BY ProfileAssumption
<1>3. /\ sec \in Struct
      /\ sec.draco_count = SyscallCount
      /\ sec.bit_map = [s \in Syscall |-> s]
      /\ sec.fill = [s \in Syscall |-> 1]
      /\ sec.argument_count_table = CleanStruct.argument_count_table
  BY <1>1, <1>2 DEF Struct
<1> HIDE DEF sec
<1>4. BitMapped(sec) = Syscall
  BY <1>3 DEF BitMapped, Syscall
<1>5. Enumerates(sec)
  BY <1>3, <1>4 DEF Enumerates, Syscall
<1>6. \A s \in Syscall : sec.argument_count_table[s] = 0
  BY <1>3 DEF CleanStruct
<1>7. Profiled(sec)
  BY <1>6 DEF Profiled
<1>8. Sound(LoadSeccomp(sec))
  BY <1>3, <1>5, <1>7, LoadSound DEF Sound
<1> QED
  BY <1>8 DEF Sound, Filtered, sec

\* Nothing has happened yet, or one task has stored the row of a call before
\* it was forked.
StartEmpty ==
    /\ cursor = 0
    /\ \A h \in Hook, s \in Syscall : syscall_table[h][s] = NULL
    /\ pool = [i \in Table |-> BlankTable]
    /\ cleared \/ calls = FreshCalls

StartShared(h, key) ==
    /\ cursor = 1 /\ cleared
    /\ \A g \in Hook, s \in Syscall :
          syscall_table[g][s] = IF g = h /\ s = 0 THEN 0 ELSE NULL
    /\ pool = [i \in Table |-> IF i = 0 THEN Occupy(BlankTable, Hash[key], 0, key)
                               ELSE BlankTable]
    /\ <<h, 0, Padded(key)>> \in asked
    /\ \A t \in Task : key \in KeysOf(seccomp[t].argument_count_table[0])

Start == StartEmpty \/ \E h \in Hook, key \in Keys : StartShared(h, key)

LEMMA BlankPool ==
  [i \in Table |-> BlankTable] \in [Table -> SyscallTable]
BY BlankExact

LEMMA FreshStarts ==
  ASSUME NEW mask \in Mask, FreshInit(mask)
  PROVE  Start /\ Tables /\ seccomp \in [Task -> Struct] /\ Alike
         /\ head \in Task \cup {NULL} /\ cleared \in BOOLEAN /\ calls \in Int
         /\ asked \in SUBSET (Hook \X Syscall \X Row)
<1>1. Tables
  BY BlankPool DEF FreshInit, Tables
<1>2. Start
  BY DEF FreshInit, Start, StartEmpty
<1>3. seccomp \in [Task -> Struct] /\ Alike
  BY FilteredType DEF FreshInit, Alike
<1> QED
  BY <1>1, <1>2, <1>3, RaceAssumption DEF FreshInit

LEMMA SharedStarts ==
  ASSUME NEW mask \in Mask, SharedInit(mask)
  PROVE  Start /\ Tables /\ seccomp \in [Task -> Struct] /\ Alike
         /\ head \in Task \cup {NULL} /\ cleared \in BOOLEAN /\ calls \in Int
         /\ asked \in SUBSET (Hook \X Syscall \X Row)
<1> DEFINE t == CHOOSE u \in Task : TRUE
           h == CHOOSE g \in Hook : TRUE
           base == Filtered(mask)
           sec == [base EXCEPT !.draco_hook = h]
<1>1. PICK regs \in Regs, drawn \in {0, 1} :
      LET key == ArgumentList(base, 0, regs) IN
      /\ seccomp = [u \in Task |-> sec]
      /\ syscall_table = [g \in Hook |-> [s \in Syscall |->
                            IF <<g, s, drawn>> = <<h, 0, 1>> THEN 0 ELSE NULL]]
      /\ cursor = drawn
      /\ pool = [i \in Table |-> IF i < drawn THEN Occupy(BlankTable, Hash[key], 0, key)
                                 ELSE BlankTable]
      /\ head = t
      /\ cleared = TRUE
      /\ asked = {<<h, 0, Padded(key)>> : i \in 1 .. drawn}
      /\ calls = SharedCalls
  BY DEF SharedInit
<1> DEFINE key == ArgumentList(base, 0, regs)
           n == base.argument_count_table[0]
<1>2. t \in Task
  BY RaceAssumption
<1>3. h \in Hook
  <2>1. Hook # {}
    <3>1. Cardinality(Hook) \in Nat /\ Cardinality(Task) \in Nat
      BY RaceAssumption, FS_CardinalityType
    <3>2. Cardinality(Task) # 0
      BY RaceAssumption, FS_EmptySet
    <3>3. Cardinality(Hook) # 0
      BY <3>1, <3>2, RaceAssumption
    <3> QED
      BY <3>3, FS_EmptySet
  <2> QED
    BY <2>1
<1>4. base \in Struct
  BY FilteredType
<1> HIDE DEF t, h, base
<1>5. /\ sec \in Struct /\ sec.argument_count_table = base.argument_count_table
  BY <1>3, <1>4 DEF Struct
<1> HIDE DEF sec
<1>6. seccomp \in [Task -> Struct] /\ Alike
  BY <1>1, <1>5 DEF Alike
<1>7. n \in 0 .. MaxArgumentCount /\ key \in KeysOf(n)
  BY <1>4, RaceConstants, ArgumentListType
<1>8. key \in Keys /\ Hash[key] \in Bucket /\ Padded(key) \in Row /\ 0 \in Way
  BY <1>7, KeysOfFits, PaddedType, RaceConstants DEF Way
<1>9. Occupy(BlankTable, Hash[key], 0, key) \in SyscallTable
  BY <1>7, <1>8, BlankExact, OccupyFields
<1>10. \A u \in Task : seccomp[u].argument_count_table[0] = n
  BY <1>1, <1>5
<1>11. /\ pool = [i \in Table |-> IF i < drawn THEN Occupy(BlankTable, Hash[key], 0, key)
                                  ELSE BlankTable]
       /\ asked = {<<h, 0, Padded(key)>> : i \in 1 .. drawn}
       /\ \A g \in Hook, s \in Syscall :
             syscall_table[g][s] = IF g = h /\ s = 0 /\ drawn = 1 THEN 0 ELSE NULL
       /\ syscall_table \in [Hook -> [Syscall -> Table \cup {NULL}]]
  BY <1>1, RaceConstants
<1> HIDE DEF key, n
<1>12. Tables
  BY <1>1, <1>9, <1>11, BlankExact DEF Tables
<1>13. asked \in SUBSET (Hook \X Syscall \X Row)
  BY <1>3, <1>8, <1>11, RaceConstants
<1>14. CASE drawn = 0
  <2>1. pool = [i \in Table |-> BlankTable]
    BY <1>11, <1>14, RaceConstants DEF Table
  <2>2. StartEmpty
    BY <1>1, <1>11, <1>14, <2>1 DEF StartEmpty
  <2> QED
    BY <1>1, <1>2, <1>6, <1>12, <1>13, <2>2, RaceAssumption DEF Start
<1>15. CASE drawn = 1
  <2>1. pool = [i \in Table |-> IF i = 0 THEN Occupy(BlankTable, Hash[key], 0, key)
                                ELSE BlankTable]
    BY <1>11, <1>15, RaceConstants DEF Table
  <2>2. <<h, 0, Padded(key)>> \in asked
    BY <1>11, <1>15
  <2>3. StartShared(h, key)
    BY <1>1, <1>7, <1>10, <1>11, <1>15, <2>1, <2>2 DEF StartShared
  <2> QED
    BY <1>1, <1>2, <1>3, <1>6, <1>8, <1>12, <1>13, <2>3, RaceAssumption DEF Start
<1> QED
  BY <1>14, <1>15

LEMMA InitStarts ==
  Init => /\ RaceTypes /\ Start
          /\ \A t \in Task : handler[t].at = "idle" /\ handler[t].sec = "total_call"
          /\ draco_spinlock = NULL /\ mishap = {}
<1> SUFFICES ASSUME Init
             PROVE  /\ RaceTypes /\ Start
                    /\ \A t \in Task : handler[t].at = "idle" /\ handler[t].sec = "total_call"
                    /\ draco_spinlock = NULL /\ mishap = {}
  OBVIOUS
<1>1. {} \in Mask /\ ArgBit \in Mask
  BY DEF Mask
<1>2. /\ Start /\ Tables /\ seccomp \in [Task -> Struct] /\ Alike
      /\ head \in Task \cup {NULL} /\ cleared \in BOOLEAN /\ calls \in Int
      /\ asked \in SUBSET (Hook \X Syscall \X Row)
  BY <1>1, FreshStarts, SharedStarts DEF Init
<1>3. /\ handler \in [Task -> Local] /\ draco_spinlock = NULL /\ mishap = {}
      /\ \A t \in Task : /\ handler[t].at = "idle" /\ handler[t].sec = "total_call"
                         /\ handler[t].way = 0
  BY IdleType DEF Init, Idle
<1>4. \A t \in Task : Fits(t)
  BY <1>3 DEF Fits, Searching, At
<1> QED
  BY <1>2, <1>3, <1>4 DEF RaceTypes, Rest

LEMMA AlwaysTypes == Spec => []RaceTypes
<1>1. Init => RaceTypes
  BY InitStarts
<1> QED
  BY <1>1, StepTypes, PTL DEF Spec

-----------------------------------------------------------------------------
(* Histories only grow.                                                    *)

LEMMA StepGrows ==
  ASSUME Next
  PROVE  mishap \subseteq mishap' /\ asked \subseteq asked'
BY DEF Next, Step, Note, history, Call, Enter, Leave, Crash, LeaveEarly, Attach,
       AllocateNode, LoseList, FillNode, SecondUnlock, FindTable, ReadCursor,
       OpenTable, Probe, MoveCursor, StoreTable, SetFlag, CopyWord, Clear

LEMMA Survived ==
  ASSUME Next, NEW kinds, Survives(kinds)'
  PROVE  Survives(kinds)
BY StepGrows DEF Survives

\* A noted overlap did not happen when its kind is survived.
LEMMA NotNoted ==
  ASSUME NEW kind, NEW happened, Note(kind, happened), NEW kinds, kind \in kinds,
         Survives(kinds)'
  PROVE  ~ happened
BY DEF Note, Survives

-----------------------------------------------------------------------------
(* The lock.                                                               *)

\* Unless a task released it twice, the handler in a section is its holder.
Held == Survives({"unlock"}) => \A t \in Task : At(t, {"in"}) => draco_spinlock = t

LEMMA StepHeld == RaceTypes /\ Held /\ [Next]_vars => Held'
<1> SUFFICES ASSUME RaceTypes, Held, Next, Survives({"unlock"})', NEW u \in Task, At(u, {"in"})'
             PROVE  draco_spinlock' = u
  BY DEF Held, vars, At, Survives
<1>1. \A t \in Task : At(t, {"in"}) => draco_spinlock = t
  BY Survived DEF Held
<1>2. NULL \notin Task /\ handler \in [Task -> Local]
  BY RaceConstants DEF RaceTypes
<1>3. ASSUME NEW t \in Task, Alone(t), handler'[t].at # "in", UNCHANGED draco_spinlock
      PROVE  draco_spinlock' = u
  BY <1>1, <1>3 DEF Alone, At
<1>4. ASSUME NEW t \in Task, Alone(t), handler'[t].at # "in",
             handler[t].at = "in" \/ draco_spinlock = NULL
      PROVE  draco_spinlock' = u
  BY <1>1, <1>2, <1>4 DEF Alone, At
<1>5. ASSUME NEW t \in Task, Call(t) PROVE draco_spinlock' = u
  BY <1>2, <1>3, <1>5, CallDoes DEF Call
<1>6. ASSUME NEW t \in Task, Enter(t) PROVE draco_spinlock' = u
  <2>1. /\ draco_spinlock = NULL /\ draco_spinlock' = t /\ Alone(t)
    BY <1>2, <1>6, GotoDoes DEF Enter, Place
  <2> QED
    BY <1>1, <1>2, <2>1 DEF Alone, At
<1>7. ASSUME NEW t \in Task, Leave(t) PROVE draco_spinlock' = u
  <2>1. handler[t].at = "in" /\ GoOn(t, Following(t))
    BY <1>7 DEF Leave, At
  <2>2. Alone(t) /\ handler'[t].at # "in"
    BY <1>2, <2>1, GoOnDoes DEF Idle
  <2> QED
    BY <1>4, <2>1, <2>2
<1>8. ASSUME NEW t \in Task, Crash(t) PROVE draco_spinlock' = u
  BY <1>2, <1>3, <1>8, GotoDoes DEF Crash, Place
<1>9. ASSUME NEW t \in Task, LeaveEarly(t) PROVE draco_spinlock' = u
  BY <1>2, <1>4, <1>9, ReturnDoes DEF LeaveEarly, At, Idle
<1>10. ASSUME NEW t \in Task, Attach(t) PROVE draco_spinlock' = u
  BY <1>3, <1>10, AttachFits DEF Attach
<1>11. ASSUME NEW t \in Task, AllocateNode(t) PROVE draco_spinlock' = u
  BY <1>2, <1>3, <1>11, GotoDoes DEF AllocateNode, Place
<1>12. ASSUME NEW t \in Task, LoseList(t) PROVE draco_spinlock' = u
  <2>1. draco_spinlock = NULL
    BY <1>12 DEF LoseList, Survives
  <2> QED
    BY <1>2, <1>4, <1>12, <2>1, ReturnDoes DEF LoseList, Idle
<1>13. ASSUME NEW t \in Task, FillNode(t) PROVE draco_spinlock' = u
  <2>1. Goto(t, "wild") \/ Goto(t, "unlock")
    BY <1>13 DEF FillNode
  <2> QED
    BY <1>2, <1>3, <1>13, <2>1, GotoDoes DEF FillNode, Place
<1>14. ASSUME NEW t \in Task, SecondUnlock(t) PROVE draco_spinlock' = u
  <2>1. draco_spinlock = NULL
    BY <1>14, NotNoted DEF SecondUnlock
  <2> QED
    BY <1>2, <1>4, <1>14, <2>1, LockDoes DEF SecondUnlock, Section
<1>15. ASSUME NEW t \in Task, NEW s \in Syscall, FindTable(t, s) PROVE draco_spinlock' = u
  BY <1>2, <1>3, <1>15, FindTableDoes DEF FindTable
<1>16. ASSUME NEW t \in Task, ReadCursor(t) PROVE draco_spinlock' = u
  BY <1>2, <1>3, <1>16, ReadCursorDoes DEF ReadCursor, RaceTypes, Tables
<1>17. ASSUME NEW t \in Task, MoveCursor(t) PROVE draco_spinlock' = u
  BY <1>2, <1>3, <1>17, GotoDoes DEF MoveCursor, Place
<1>18. ASSUME NEW t \in Task, StoreTable(t) PROVE draco_spinlock' = u
  <2>1. Return(t) \/ Lock(t, "process_syscall") \/ Goto(t, "wild")
    BY <1>18 DEF StoreTable
  <2>2. Alone(t) /\ handler'[t].at # "in"
    BY <1>2, <2>1, ReturnDoes, LockDoes, GotoDoes DEF Place, Section, Idle
  <2> QED
    BY <1>3, <1>18, <2>2 DEF StoreTable
<1>19. ASSUME NEW t \in Task, NEW regs \in Regs, OpenTable(t, regs) PROVE draco_spinlock' = u
  <2>1. Alone(t) /\ handler'[t].at # "in"
    BY <1>19, OpenTableKeys
  <2>2. UNCHANGED draco_spinlock
    BY <1>19 DEF OpenTable
  <2> QED
    BY <1>3, <2>1, <2>2
<1>20. ASSUME NEW t \in Task, Probe(t) PROVE draco_spinlock' = u
  <2>1. Alone(t) /\ handler'[t].at # "in"
    BY <1>2, <1>20, ProbeDoes
  <2> QED
    BY <1>3, <1>20, <2>1 DEF Probe
<1>21. ASSUME NEW t \in Task, SetFlag(t) PROVE draco_spinlock' = u
  <2>1. Alone(t) /\ handler'[t].at # "in"
    BY <1>21, SetFlagMoves DEF Idle
  <2>2. UNCHANGED draco_spinlock
    BY <1>21 DEF SetFlag
  <2> QED
    BY <1>3, <2>1, <2>2
<1>22. ASSUME NEW t \in Task, CopyWord(t) PROVE draco_spinlock' = u
  <2>1. Alone(t) /\ handler'[t].at # "in"
    BY <1>22, CopyWordMoves DEF Idle
  <2>2. UNCHANGED draco_spinlock
    BY <1>22 DEF CopyWord
  <2> QED
    BY <1>3, <2>1, <2>2
<1>23. CASE Clear
  BY <1>1, <1>23 DEF Clear, At
<1> QED
  BY <1>5, <1>6, <1>7, <1>8, <1>9, <1>10, <1>11, <1>12, <1>13, <1>14, <1>15, <1>16,
     <1>17, <1>18, <1>19, <1>20, <1>21, <1>22, <1>23 DEF Next, Step

\* Two handlers are in a critical section at once only after the second
\* unlock of an attaching task released the lock of another handler.
THEOREM SectionsAreExclusive == Spec => []SectionsExclusive
<1>1. Init => Held
  BY InitStarts DEF Held, At
<1>2. Held => SectionsExclusive
  BY DEF Held, SectionsExclusive
<1> QED
  BY <1>1, <1>2, StepHeld, AlwaysTypes, PTL DEF Spec

-----------------------------------------------------------------------------
(* The clearing.                                                           *)

\* Until init_hash_table has run, nothing is changed but by calls.
Untouched ==
    ~ cleared =>
        /\ calls <= FreshCalls
        /\ calls = FreshCalls =>
              /\ \A t \in Task : handler[t].at = "idle" /\ handler[t].sec = "total_call"
              /\ cursor = 0
              /\ \A h \in Hook, s \in Syscall : syscall_table[h][s] = NULL

LEMMA StepsAreOfCalls ==
  ASSUME NEW t \in Task, Enter(t) \/ Step(t)
  PROVE  handler[t].at # "idle" /\ UNCHANGED <<cleared, calls>>
BY DEF Step, At, course, Enter, Leave, Crash, LeaveEarly, Attach,
       AllocateNode, LoseList, FillNode, SecondUnlock, FindTable, ReadCursor,
       OpenTable, Probe, MoveCursor, StoreTable, SetFlag, CopyWord

LEMMA StepUntouched == RaceTypes /\ Untouched /\ [Next]_vars => Untouched'
<1> SUFFICES ASSUME RaceTypes, Untouched, Next PROVE Untouched'
  BY DEF Untouched, vars
<1>1. CASE Clear
  BY <1>1 DEF Clear, Untouched
<1>2. ASSUME NEW t \in Task, Call(t) PROVE Untouched'
  <2>1. calls \in Int /\ FreshCalls \in Nat /\ calls' = calls - 1 /\ cleared' = cleared
    BY <1>2, RaceAssumption DEF Call, course, RaceTypes, Rest
  <2> QED
    BY <2>1 DEF Untouched
<1>3. ASSUME NEW t \in Task, Enter(t) \/ Step(t) PROVE Untouched'
  BY <1>3, StepsAreOfCalls DEF Untouched
<1> QED
  BY <1>1, <1>2, <1>3 DEF Next

LEMMA AlwaysUntouched == Spec => []Untouched
<1>1. Init => Untouched
  <2> SUFFICES ASSUME Init, ~ cleared PROVE Untouched
    BY DEF Untouched
  <2>1. /\ StartEmpty
        /\ \A t \in Task : handler[t].at = "idle" /\ handler[t].sec = "total_call"
    BY InitStarts DEF Start, StartShared
  <2> QED
    BY <2>1, RaceAssumption DEF StartEmpty, Untouched
<1> QED
  BY <1>1, StepUntouched, AlwaysTypes, PTL DEF Spec

\* A clearing that is survived finds nothing to clear.
LEMMA ClearFinds ==
  ASSUME RaceTypes, Untouched, Clear, NEW kinds, "clear" \in kinds, Survives(kinds)'
  PROVE  /\ \A t \in Task : handler[t].at = "idle" /\ handler[t].sec = "total_call"
         /\ cursor = 0
         /\ \A h \in Hook, s \in Syscall : syscall_table[h][s] = NULL
<1>1. ~ (calls < FreshCalls)
  BY NotNoted DEF Clear
<1>2. ~ cleared /\ calls \in Int /\ FreshCalls \in Nat
  BY RaceAssumption DEF Clear, RaceTypes, Rest
<1> QED
  BY <1>1, <1>2 DEF Untouched

-----------------------------------------------------------------------------
(* The flags.                                                              *)

FlagsUp(i, b, w) == \A v \in Way : v < w => pool[i].flag[b][v] = 1

\* The flagged ways of a bucket come first, and a handler has passed flagged
\* ways only.
Prefixed ==
    Survives({"clear"}) =>
        /\ \A i \in Table, b \in Bucket, w \in Way :
              pool[i].flag[b][w] = 1 => FlagsUp(i, b, w)
        /\ \A t \in Task : Searching(t) =>
              FlagsUp(handler[t].bias, BucketOf(t), handler[t].way)

\* Flags stay up, except when the pool is cleared.
LEMMA FlagsStay ==
  ASSUME RaceTypes, Next, ~ Clear, NEW i \in Table, NEW b \in Bucket, NEW w \in Way,
         pool[i].flag[b][w] = 1
  PROVE  pool'[i].flag[b][w] = 1
<1>1. CASE PoolSame
  BY <1>1 DEF PoolSame
<1>2. ASSUME NEW t \in Task, SetFlag(t) \/ CopyWord(t)
      PROVE  pool'[i].flag[b][w] = 1
  BY <1>2, SetFlagPool, CopyWordPool
<1> QED
  BY <1>1, <1>2, StepLeaves DEF Next, Step

\* A handler that searches after a step has just opened its table or searched
\* it for the same call before; then only a probe gets it on.
SearchingOn(t) ==
    \/ \E regs \in Regs : OpenTable(t, regs)
    \/ /\ Searching(t)
       /\ handler'[t].bias = handler[t].bias /\ handler'[t].key = handler[t].key
       /\ handler'[t].s = handler[t].s /\ Hooked(t)' = Hooked(t)
       /\ \/ Probe(t)
          \/ /\ handler'[t].way = handler[t].way
             /\ Storing(t)' => Storing(t)
             /\ handler'[t].sec = "hit" => handler[t].sec = "hit"

LEMMA OthersMove ==
  ASSUME RaceTypes, NEW t \in Task, Call(t) \/ Enter(t) \/ Step(t)
  PROVE  Alone(t) /\ \A u \in Task : u # t => seccomp'[u] = seccomp[u]
<1>1. CASE Call(t) \/ Enter(t) \/ Leave(t) \/ Crash(t) \/ LeaveEarly(t)
  BY <1>1, LockingFits
<1>2. CASE Attach(t)
  BY <1>2, AttachFits
<1>3. CASE Step(t) /\ ~ Attach(t)
  BY <1>3, LockingFits, LinkingFits, DrawingFits, LookupFits DEF Step
<1> QED
  BY <1>1, <1>2, <1>3

LEMMA LockingSearches ==
  ASSUME RaceTypes, NEW t \in Task, Searching(t)',
         Call(t) \/ Enter(t) \/ Leave(t) \/ Crash(t) \/ LeaveEarly(t)
  PROVE  SearchingOn(t)
<1>1. handler \in [Task -> Local] /\ Fits(t) /\ UNCHANGED seccomp
  BY LockingFits DEF RaceTypes
<1>2. CASE Call(t)
  BY <1>1, <1>2, CallDoes DEF Searching, At
<1>3. CASE Enter(t)
  <2>1. /\ SameCall(t) /\ handler[t].at = "lock" /\ handler'[t].at = "in"
        /\ handler'[t].sec = handler[t].sec
    BY <1>1, <1>3, GotoDoes DEF Enter, At, Place
  <2> QED
    BY <1>1, <2>1 DEF SearchingOn, Searching, Storing, SameCall, At, Hooked
<1>4. CASE Leave(t)
  <2>1. handler[t].at = "in" /\ GoOn(t, Following(t))
    BY <1>4 DEF Leave, At
  <2>2. handler'[t] # Idle
    BY DEF Searching, At, Idle
  <2>3. /\ SameCall(t) /\ handler[t].sec = "argument"
        /\ \/ handler'[t].at = "lock" /\ handler'[t].sec = "conflict"
           \/ handler'[t].at = "flag" /\ handler'[t].sec = "argument"
    BY <1>1, <2>1, <2>2, GoOnDoes DEF Searching, At
  <2> QED
    BY <1>1, <2>1, <2>3 DEF SearchingOn, Searching, Storing, SameCall, At, Hooked
<1>5. CASE Crash(t)
  <2>1. /\ SameCall(t) /\ handler'[t].at = "wild" /\ handler'[t].sec = handler[t].sec
    BY <1>1, <1>5, GotoDoes DEF Crash, Place
  <2> QED
    BY <1>1, <2>1 DEF SearchingOn, Searching, Storing, SameCall, At, Hooked
<1>6. CASE LeaveEarly(t)
  <2>1. handler'[t] = Idle
    BY <1>1, <1>6, ReturnDoes DEF LeaveEarly
  <2> QED
    BY <2>1 DEF Searching, At, Idle
<1> QED
  BY <1>2, <1>3, <1>4, <1>5, <1>6

LEMMA NoSearch ==
  ASSUME RaceTypes, NEW t \in Task,
         \/ Attach(t) \/ AllocateNode(t) \/ LoseList(t) \/ FillNode(t) \/ SecondUnlock(t)
         \/ (\E s \in Syscall : FindTable(t, s))
         \/ ReadCursor(t) \/ MoveCursor(t) \/ StoreTable(t)
  PROVE  ~ Searching(t)' /\ ~ Searching(t)
<1>1. handler \in [Task -> Local] /\ Fits(t) /\ cursor \in Nat
  BY DEF RaceTypes, Tables
<1>2. CASE Attach(t)
  BY <1>1, <1>2, AttachFits DEF Searching, At, Fits
<1>3. CASE AllocateNode(t) \/ MoveCursor(t)
  BY <1>1, <1>3, GotoDoes DEF AllocateNode, MoveCursor, Place, Searching, At, Fits
<1>4. CASE LoseList(t)
  <2>1. handler'[t] = Idle /\ handler[t].at = "node"
    BY <1>1, <1>4, ReturnDoes DEF LoseList, At
  <2> QED
    BY <1>1, <2>1 DEF Searching, At, Idle, Fits
<1>5. CASE FillNode(t)
  <2>1. (Goto(t, "wild") \/ Goto(t, "unlock")) /\ handler[t].at = "fill"
    BY <1>5 DEF FillNode, At
  <2> QED
    BY <1>1, <2>1, GotoDoes DEF Place, Searching, At, Fits
<1>6. CASE SecondUnlock(t)
  BY <1>1, <1>6, LockDoes DEF SecondUnlock, Section, Searching, At, Fits
<1>7. ASSUME NEW s \in Syscall, FindTable(t, s) PROVE ~ Searching(t)' /\ ~ Searching(t)
  <2>1. handler[t].at = "table"
    BY <1>7 DEF FindTable, At
  <2> QED
    BY <1>1, <1>7, <2>1, FindTableDoes DEF Searching, At, Fits
<1>8. CASE ReadCursor(t)
  <2>1. handler[t].at = "cursor"
    BY <1>8 DEF ReadCursor, At
  <2> QED
    BY <1>1, <1>8, <2>1, ReadCursorDoes DEF Searching, At, Fits
<1>9. CASE StoreTable(t)
  <2>1. /\ handler[t].at = "store"
        /\ Return(t) \/ Lock(t, "process_syscall") \/ Goto(t, "wild")
    BY <1>9 DEF StoreTable, At
  <2>2. \/ handler'[t].at = "idle" /\ handler'[t].sec = "total_call"
        \/ handler'[t].at = "lock" /\ handler'[t].sec = "process_syscall"
        \/ handler'[t].at = "wild" /\ handler'[t].sec = handler[t].sec
    BY <1>1, <2>1, ReturnDoes, LockDoes, GotoDoes DEF Place, Section, Idle
  <2> QED
    BY <1>1, <2>1, <2>2 DEF Searching, At, Fits
<1> QED
  BY <1>2, <1>3, <1>4, <1>5, <1>6, <1>7, <1>8, <1>9

LEMMA StoringOn ==
  ASSUME RaceTypes, NEW t \in Task, Searching(t)', Probe(t) \/ SetFlag(t) \/ CopyWord(t)
  PROVE  SearchingOn(t)
<1>1. handler \in [Task -> Local] /\ Fits(t) /\ UNCHANGED seccomp
  BY LookupFits DEF RaceTypes
<1>2. CASE Probe(t)
  BY <1>1, <1>2, ProbeDoes DEF Probe, SearchingOn, Searching, Hooked
<1>3. CASE SetFlag(t) \/ CopyWord(t)
  <2>1. handler'[t] # Idle
    BY DEF Searching, At, Idle
  <2>2. /\ handler[t].sec = "argument" /\ handler'[t].sec = handler[t].sec
        /\ handler[t].at \in {"flag", "copy"}
        /\ handler'[t].s = handler[t].s /\ handler'[t].key = handler[t].key
        /\ handler'[t].way = handler[t].way /\ handler'[t].bias = handler[t].bias
    BY <1>3, <2>1, SetFlagMoves, CopyWordMoves
  <2> QED
    BY <1>1, <2>2 DEF SearchingOn, Searching, Storing, At, Hooked
<1> QED
  BY <1>2, <1>3

LEMMA StepSearches ==
  ASSUME RaceTypes, Next, ~ Clear, NEW t \in Task, Searching(t)'
  PROVE  SearchingOn(t)
<1>1. ASSUME NEW u \in Task, u # t, Call(u) \/ Enter(u) \/ Step(u)
      PROVE  SearchingOn(t)
  <2>1. handler'[t] = handler[t] /\ seccomp'[t] = seccomp[t]
    BY <1>1, OthersMove DEF Alone
  <2> QED
    BY <2>1 DEF SearchingOn, Searching, Storing, At, Hooked
<1>2. CASE Call(t) \/ Enter(t) \/ Step(t)
  <2>1. CASE \E regs \in Regs : OpenTable(t, regs)
    BY <2>1 DEF SearchingOn
  <2> QED
    BY <1>2, <2>1, LockingSearches, NoSearch, StoringOn DEF Step
<1> QED
  BY <1>1, <1>2 DEF Next

LEMMA UpStays ==
  ASSUME RaceTypes, Next, ~ Clear, NEW i \in Table, NEW b \in Bucket, NEW w,
         FlagsUp(i, b, w)
  PROVE  FlagsUp(i, b, w)'
BY FlagsStay DEF FlagsUp

LEMMA StepPrefixed == RaceTypes /\ Untouched /\ Prefixed /\ [Next]_vars => Prefixed'
<1> SUFFICES ASSUME RaceTypes, Untouched, Prefixed, Next, Survives({"clear"})'
             PROVE  /\ \A i \in Table, b \in Bucket, w \in Way :
                          pool'[i].flag[b][w] = 1 => FlagsUp(i, b, w)'
                    /\ \A t \in Task : Searching(t)' =>
                          FlagsUp(handler[t].bias, BucketOf(t), handler[t].way)'
  BY DEF Prefixed, vars, FlagsUp, Searching, At, BucketOf, Survives
<1>1. /\ \A i \in Table, b \in Bucket, w \in Way :
            pool[i].flag[b][w] = 1 => FlagsUp(i, b, w)
      /\ \A t \in Task : Searching(t) =>
            FlagsUp(handler[t].bias, BucketOf(t), handler[t].way)
  BY Survived DEF Prefixed
<1>2. CASE Clear
  <2>1. \A t \in Task : handler[t].at = "idle" /\ handler[t].sec = "total_call"
    BY <1>2, ClearFinds
  <2>2. handler' = handler /\ pool' = [i \in Table |-> BlankTable]
    BY <1>2 DEF Clear
  <2>3. \A i \in Table, b \in Bucket, w \in Way : pool'[i].flag[b][w] = 0
    BY <2>2, BlankExact
  <2> QED
    BY <2>1, <2>2, <2>3 DEF Searching, At
<1>3. ASSUME ~ Clear, NEW i \in Table, NEW b \in Bucket, NEW w \in Way,
             pool'[i].flag[b][w] = 1
      PROVE  FlagsUp(i, b, w)'
  <2>1. CASE pool[i].flag[b][w] = 1
    BY <1>1, <1>3, <2>1, UpStays
  <2>2. CASE pool[i].flag[b][w] # 1
    <3>1. PICK t \in Task : SetFlag(t)
      <4>1. ASSUME NEW t \in Task, CopyWord(t) PROVE FALSE
        BY <1>3, <2>2, <4>1, CopyWordPool
      <4>2. ~ PoolSame
        BY <1>3, <2>2 DEF PoolSame
      <4> QED
        BY <1>3, <4>1, <4>2, StepLeaves DEF Next, Step
    <3>2. i = handler[t].bias /\ b = BucketOf(t) /\ w = handler[t].way
      BY <1>3, <2>2, <3>1, SetFlagPool
    <3>3. Searching(t)
      BY <3>1, SetFlagMoves DEF Searching
    <3> QED
      BY <1>1, <1>3, <3>2, <3>3, UpStays
  <2> QED
    BY <2>1, <2>2
<1>4. ASSUME ~ Clear, NEW t \in Task, Searching(t)'
      PROVE  FlagsUp(handler[t].bias, BucketOf(t), handler[t].way)'
  <2> DEFINE i == handler'[t].bias
             b == Hash[handler'[t].key]
             w == handler'[t].way
  <2>1. SearchingOn(t)
    BY <1>4, StepSearches
  <2>2. CASE \E regs \in Regs : OpenTable(t, regs)
    <3>1. handler[t].at = "open" /\ handler'[t].way = handler[t].way
      BY <2>2, OpenTableKeys
    <3>2. w = 0
      BY <3>1 DEF RaceTypes, Fits, Searching, At
    <3> QED
      BY <3>2, WayRange DEF FlagsUp
  <2>3. CASE ~ \E regs \in Regs : OpenTable(t, regs)
    <3>1. Searching(t) /\ i = handler[t].bias /\ b = BucketOf(t)
      BY <2>1, <2>3 DEF SearchingOn, BucketOf
    <3>2. i \in Table /\ b \in Bucket /\ pool[i] \in SyscallTable
      BY <3>1, SearchType
    <3> HIDE DEF i, b
    <3>3. FlagsUp(i, b, handler[t].way)
      BY <1>1, <3>1
    <3>4. FlagsUp(i, b, w)
      <4>1. CASE w = handler[t].way
        BY <3>3, <4>1
      <4>2. CASE Probe(t) /\ w # handler[t].way
        <5>1. /\ handler[t].way # Asos /\ ~ Free(t) /\ w = handler[t].way + 1
              /\ handler[t].way \in 0 .. Asos
          BY <4>2, ProbeDoes DEF RaceTypes, Local
        <5>2. handler[t].way \in Way
          BY <5>1, RaceConstants DEF Way
        <5>3. pool[i].flag[b][handler[t].way] = 1
          BY <3>1, <3>2, <5>1, <5>2 DEF Free, SyscallTable
        <5> QED
          BY <3>3, <5>1, <5>2, <5>3, WayRange DEF FlagsUp
      <4> QED
        BY <2>1, <2>3, <4>1, <4>2 DEF SearchingOn
    <3>5. \A v \in Way : v < w => pool'[i].flag[b][v] = 1
      BY <1>4, <3>2, <3>4, FlagsStay DEF FlagsUp
    <3> QED
      BY <3>5 DEF FlagsUp, BucketOf, i, b
  <2> QED
    BY <2>2, <2>3
<1> QED
  BY <1>2, <1>3, <1>4

LEMMA StartPool ==
  ASSUME RaceTypes, Start, NEW i \in Table, NEW b \in Bucket, NEW w \in Way,
         pool[i].flag[b][w] = 1
  PROVE  w = 0
<1>1. PICK h \in Hook, key \in Keys : StartShared(h, key)
  BY BlankExact DEF Start, StartEmpty
<1>2. Hash[key] \in Bucket /\ 0 \in Way
  BY TableAssumption, RaceConstants DEF Way
<1>3. pool[i] = IF i = 0 THEN Occupy(BlankTable, Hash[key], 0, key) ELSE BlankTable
  BY <1>1 DEF StartShared
<1>4. i = 0
  BY <1>3, BlankExact
<1>5. PICK n \in 0 .. MaxArgumentCount : key \in KeysOf(n)
  BY DEF Keys, KeysOf
<1>6. \A c \in Bucket, v \in Way :
        Occupy(BlankTable, Hash[key], 0, key).flag[c][v]
          = IF <<c, v>> = <<Hash[key], 0>> THEN 1 ELSE BlankTable.flag[c][v]
  BY <1>2, <1>5, BlankExact, OccupyFields
<1> QED
  BY <1>3, <1>4, <1>6, BlankExact

\* The flagged ways of a bucket come first, so no probe ends before a row that
\* is there, unless tables are cleared under a handler: handlers that store
\* rows in one table at the same time, even in one they should not share,
\* leave no gap.
THEOREM FlagsArePrefix == Spec => []FlagsPrefix
<1>1. Init => Prefixed
  <2> SUFFICES ASSUME Init PROVE Prefixed
    OBVIOUS
  <2>1. /\ RaceTypes /\ Start
        /\ \A t \in Task : handler[t].at = "idle" /\ handler[t].sec = "total_call"
    BY InitStarts
  <2>2. \A t \in Task : ~ Searching(t)
    BY <2>1 DEF Searching, At
  <2>3. \A i \in Table, b \in Bucket, w \in Way :
          pool[i].flag[b][w] = 1 => FlagsUp(i, b, w)
    BY <2>1, StartPool, WayRange DEF FlagsUp
  <2> QED
    BY <2>2, <2>3 DEF Prefixed
<1>2. Prefixed => FlagsPrefix
  BY DEF Prefixed, FlagsPrefix, FlagsUp
<1> QED
  BY <1>1, <1>2, StepPrefixed, AlwaysTypes, AlwaysUntouched, PTL DEF Spec

=============================================================================
