------------------------- MODULE DracoRaceSharedProofs --------------------------
(***************************************************************************)
(* Proofs about what the handlers of DracoRace share.  First the pool:     *)
(* which words its rows have, who has a table, and what a hit is for.      *)
(* Then the list of tasks, and that no handler leaves the memory of the    *)
(* module.                                                                 *)
(***************************************************************************)
EXTENDS DracoRaceProofs

-----------------------------------------------------------------------------
(* The words of the rows.                                                  *)

Words(p) == {0} \cup {e[3][p] : e \in asked}

\* A handler that stores a row has noted the call.
Noted == \A t \in Task : Storing(t) => EntryOf(t) \in asked

\* Every word of the pool, and of a key that was hit, was zero or asked for.
Wordwise ==
    /\ Noted
    /\ \A i \in Table, b \in Bucket, w \in Way, p \in Position :
          pool[i].table[b][w][p] \in Words(p)
    /\ \A t \in Task : handler[t].sec = "hit" =>
          \A p \in DOMAIN handler[t].key : handler[t].key[p] \in Words(p)

LEMMA WordsGrow ==
  ASSUME Next, NEW p
  PROVE  Words(p) \subseteq Words(p)'
BY StepGrows DEF Words

LEMMA StoringSearches ==
  ASSUME RaceTypes, NEW t \in Task, Storing(t)
  PROVE  Searching(t) /\ handler[t].way \in Way /\ handler[t].sec = "argument"
<1>1. handler[t].way \in Way
  BY RaceConstants DEF Storing, RaceTypes, Local, Way
<1> QED
  BY <1>1 DEF Storing, RaceTypes, Fits, Searching, At

LEMMA PaddedWords ==
  ASSUME NEW n \in 0 .. MaxArgumentCount, NEW key \in KeysOf(n), NEW p \in DOMAIN key
  PROVE  p \in Position /\ Padded(key)[p] = key[p]
<1>1. p \in Position
  BY KeysOfFits
<1> QED
  BY <1>1 DEF Padded, Overwrite

\* A handler that stores after a step stored the same row before, or has just
\* found its way free.
LEMMA StorerOn ==
  ASSUME RaceTypes, Next, ~ Clear, NEW t \in Task, Storing(t)'
  PROVE  /\ Searching(t)
         /\ handler'[t].bias = handler[t].bias /\ handler'[t].key = handler[t].key
         /\ handler'[t].way = handler[t].way
         /\ EntryOf(t)' = EntryOf(t) /\ BucketOf(t)' = BucketOf(t)
         /\ Storing(t) \/ (Probe(t) /\ asked' = asked \cup {EntryOf(t)})
<1>1. Searching(t)' /\ handler'[t].way # Asos
  BY StepTypes, StoringSearches, RaceConstants
     DEF Storing, Searching, At, RaceTypes, Fits, Local
<1>2. SearchingOn(t) /\ handler \in [Task -> Local]
  BY <1>1, StepSearches DEF RaceTypes
<1>3. ~ \E regs \in Regs : OpenTable(t, regs)
  <2>1. ASSUME NEW regs \in Regs, OpenTable(t, regs) PROVE FALSE
    <3>1. handler'[t].at \in {"wild", "probe"}
      BY <2>1, OpenTableKeys
    <3> QED
      BY <3>1 DEF Storing, At
  <2> QED
    BY <2>1
<1>4. /\ Searching(t)
      /\ handler'[t].bias = handler[t].bias /\ handler'[t].key = handler[t].key
      /\ EntryOf(t)' = EntryOf(t) /\ BucketOf(t)' = BucketOf(t)
  BY <1>2, <1>3 DEF SearchingOn, EntryOf, BucketOf
<1>5. CASE Probe(t)
  <2>1. handler'[t].at = "lock" /\ handler'[t].sec = "argument"
    BY <1>2, <1>5, ProbeDoes DEF Storing, At
  <2>2. handler'[t].way = handler[t].way /\ asked' = asked \cup {EntryOf(t)}
    BY <1>1, <1>2, <1>5, <2>1, ProbeDoes
  <2> QED
    BY <1>4, <1>5, <2>2
<1>6. CASE ~ Probe(t)
  BY <1>2, <1>3, <1>4, <1>6 DEF SearchingOn
<1> QED
  BY <1>5, <1>6

LEMMA StepNoted == RaceTypes /\ Noted /\ [Next]_vars => Noted'
<1> SUFFICES ASSUME RaceTypes, Noted, Next, NEW t \in Task, Storing(t)'
             PROVE  EntryOf(t)' \in asked'
  BY DEF Noted, vars, Storing, At, EntryOf, Hooked
<1>1. CASE Clear
  BY <1>1 DEF Clear, Noted, Storing, At, EntryOf, Hooked
<1>2. CASE ~ Clear
  <2>1. EntryOf(t)' = EntryOf(t)
        /\ (Storing(t) \/ (Probe(t) /\ asked' = asked \cup {EntryOf(t)}))
    BY <1>2, StorerOn
  <2> QED
    BY <2>1, StepGrows DEF Noted
<1> QED
  BY <1>1, <1>2

LEMMA StepWordwise == RaceTypes /\ Wordwise /\ [Next]_vars => Wordwise'
<1>1. ASSUME RaceTypes, Wordwise, UNCHANGED vars PROVE Wordwise'
  BY <1>1 DEF Wordwise, Words, Noted, vars, Storing, At, EntryOf, Hooked
<1> SUFFICES ASSUME RaceTypes, Wordwise, Next
             PROVE  /\ \A i \in Table, b \in Bucket, w \in Way, p \in Position :
                          pool'[i].table[b][w][p] \in Words(p)'
                    /\ \A t \in Task : handler'[t].sec = "hit" =>
                          \A p \in DOMAIN handler'[t].key : handler'[t].key[p] \in Words(p)'
  BY <1>1, StepNoted DEF Wordwise
<1>2. ASSUME NEW i \in Table, NEW b \in Bucket, NEW w \in Way, NEW p \in Position
      PROVE  pool'[i].table[b][w][p] \in Words(p)'
  <2>1. pool[i].table[b][w][p] \in Words(p) /\ Words(p) \subseteq Words(p)'
    BY WordsGrow DEF Wordwise
  <2>2. CASE Clear
    <3>1. pool' = [j \in Table |-> BlankTable]
      BY <2>2 DEF Clear
    <3>2. pool'[i].table[b][w][p] = 0
      BY <3>1 DEF BlankTable, BlankRow
    <3> QED
      BY <3>2 DEF Words
  <2>3. CASE PoolSame
    BY <2>1, <2>3 DEF PoolSame
  <2>4. ASSUME NEW t \in Task, SetFlag(t) PROVE pool'[i].table[b][w][p] \in Words(p)'
    BY <2>1, <2>4, SetFlagPool
  <2>5. ASSUME NEW t \in Task, CopyWord(t) PROVE pool'[i].table[b][w][p] \in Words(p)'
    <3>1. \/ pool'[i].table[b][w][p] = pool[i].table[b][w][p]
          \/ p = handler[t].word /\ pool'[i].table[b][w][p] = handler[t].key[p]
      BY <2>5, CopyWordPool
    <3>2. Storing(t) /\ Searching(t)
      BY <2>5, CopyWordMoves, WayRange DEF Storing, Searching, At
    <3>3. EntryOf(t) \in asked
      BY <3>2 DEF Wordwise, Noted
    <3>4. handler[t].key \in KeysOf(KeyLength(t)) /\ KeyLength(t) \in 0 .. MaxArgumentCount
      BY <3>2, SearchType, KeyLengthType
    <3>5. p = handler[t].word => Padded(handler[t].key)[p] = handler[t].key[p]
      BY <2>5, <3>4, CopyWordMoves, PaddedWords
    <3>6. EntryOf(t)[3] = Padded(handler[t].key)
      BY DEF EntryOf
    <3>7. p = handler[t].word => handler[t].key[p] \in Words(p)
      BY <3>3, <3>5, <3>6 DEF Words
    <3> QED
      BY <2>1, <3>1, <3>7
  <2> QED
    BY <2>2, <2>3, <2>4, <2>5, StepLeaves DEF Next, Step
<1>3. ASSUME NEW t \in Task, handler'[t].sec = "hit", NEW p \in DOMAIN handler'[t].key
      PROVE  handler'[t].key[p] \in Words(p)'
  <2>1. Words(p) \subseteq Words(p)'
    BY WordsGrow
  <2>2. CASE Clear
    BY <1>3, <2>1, <2>2 DEF Clear, Wordwise
  <2>3. CASE ~ Clear
    <3>1. SearchingOn(t) /\ handler \in [Task -> Local] /\ Fits(t)
      BY <1>3, <2>3, StepSearches DEF RaceTypes, Searching
    <3>2. ASSUME NEW regs \in Regs, OpenTable(t, regs) PROVE FALSE
      <4>1. handler'[t].sec = handler[t].sec /\ handler[t].at = "open"
        BY <3>2, OpenTableKeys
      <4> QED
        BY <1>3, <3>1, <4>1 DEF Fits
    <3>3. handler'[t].key = handler[t].key /\ Searching(t)
      BY <3>1, <3>2 DEF SearchingOn
    <3>4. CASE handler[t].sec = "hit"
      BY <1>3, <2>1, <3>3, <3>4 DEF Wordwise
    <3>5. CASE Probe(t)
      <4>1. handler[t].sec = "table_call"
        BY <3>1, <3>5 DEF Probe, At, Fits
      <4>2. /\ handler[t].way # Asos
            /\ Matches(pool[handler[t].bias].table[BucketOf(t)][handler[t].way],
                       handler[t].key)
        BY <1>3, <3>1, <3>5, <4>1, ProbeDoes
      <4>3. handler[t].way \in Way
        BY <3>1, <4>2, RaceConstants DEF Local, Way
      <4>4. /\ handler[t].bias \in Table /\ BucketOf(t) \in Bucket
            /\ handler[t].key \in KeysOf(KeyLength(t)) /\ KeyLength(t) \in 0 .. MaxArgumentCount
        BY <3>3, SearchType, KeyLengthType
      <4>5. p \in Position
        BY <1>3, <3>3, <4>4, PaddedWords
      <4> QED
        BY <1>3, <2>1, <3>3, <4>2, <4>3, <4>4, <4>5 DEF Matches, Wordwise
    <3> QED
      BY <1>3, <3>1, <3>2, <3>4, <3>5 DEF SearchingOn
  <2> QED
    BY <2>2, <2>3
<1> QED
  BY <1>2, <1>3

\* A row that is half written, or written by two handlers, answers for no word
\* that was not zero or asked for in that place before: whatever overlaps, the
\* tables are cleared or drawn twice, no handler makes a word up.
THEOREM HitsAreWordwise == Spec => []HitsWordwise
<1>1. Init => Wordwise
  <2> SUFFICES ASSUME Init PROVE Wordwise
    OBVIOUS
  <2>1. /\ RaceTypes /\ Start
        /\ \A t \in Task : handler[t].at = "idle" /\ handler[t].sec = "total_call"
    BY InitStarts
  <2>2. ASSUME NEW i \in Table, NEW b \in Bucket, NEW w \in Way, NEW p \in Position
        PROVE  pool[i].table[b][w][p] \in Words(p)
    <3>1. BlankTable.table[b][w][p] = 0
      BY DEF BlankTable, BlankRow
    <3>2. CASE pool[i] = BlankTable
      BY <3>1, <3>2 DEF Words
    <3>3. CASE pool[i] # BlankTable
      <4>1. PICK h \in Hook, key \in Keys : StartShared(h, key)
        BY <2>1, <3>3 DEF Start, StartEmpty
      <4>2. Hash[key] \in Bucket /\ 0 \in Way
        BY TableAssumption, RaceConstants DEF Way
      <4>3. pool[i] = Occupy(BlankTable, Hash[key], 0, key)
        BY <3>3, <4>1 DEF StartShared
      <4>4. PICK n \in 0 .. MaxArgumentCount : key \in KeysOf(n)
        BY DEF Keys, KeysOf
      <4>5. pool[i].table[b][w] = IF <<b, w>> = <<Hash[key], 0>>
                                  THEN Overwrite(BlankTable.table[Hash[key]][0], key)
                                  ELSE BlankTable.table[b][w]
        BY <4>2, <4>3, <4>4, BlankExact, OccupyFields
      <4>6. BlankTable.table[Hash[key]][0] = BlankRow
        BY <4>2 DEF BlankTable
      <4>7. pool[i].table[b][w] \in {Padded(key), BlankTable.table[b][w]}
        BY <4>5, <4>6 DEF Padded
      <4>8. <<h, 0, Padded(key)>> \in asked
        BY <4>1 DEF StartShared
      <4>9. Padded(key)[p] \in Words(p)
        BY <4>8 DEF Words
      <4> QED
        BY <3>1, <4>7, <4>9 DEF Words
    <3> QED
      BY <3>2, <3>3
  <2> QED
    BY <2>1, <2>2 DEF Wordwise, Noted, Storing, At
<1>2. Wordwise => HitsWordwise
  BY DEF Wordwise, HitsWordwise, Words
<1> QED
  BY <1>1, <1>2, StepWordwise, AlwaysTypes, PTL DEF Spec

-----------------------------------------------------------------------------
(* The tables of the pool.                                                 *)

\* Handler t stands still.
Still(t) == handler'[t] = handler[t] /\ seccomp'[t] = seccomp[t]

\* Where a step takes its handler.
LEMMA StepGoes ==
  ASSUME RaceTypes, NEW t \in Task
  PROVE  /\ Call(t) \/ Enter(t) \/ LeaveEarly(t) \/ LoseList(t) \/ SecondUnlock(t)
              => handler'[t].at \in {"idle", "lock", "in"}
         /\ Leave(t) => handler'[t].at \in {"idle", "lock", "attach", "table", "open", "flag"}
         /\ Attach(t) => handler'[t].at = "node"
         /\ AllocateNode(t) => handler'[t].at = "fill"
         /\ FillNode(t) => handler'[t].at \in {"wild", "unlock"}
         /\ (\E s \in Syscall : FindTable(t, s)) => handler'[t].at \in {"lock", "cursor"}
         /\ ReadCursor(t) \/ MoveCursor(t) => handler'[t].at \in {"move", "store"}
         /\ StoreTable(t) => handler'[t].at \in {"idle", "lock", "wild"}
         /\ Crash(t) => handler'[t].at = "wild"
         /\ (\E regs \in Regs : OpenTable(t, regs)) => handler'[t].at \in {"wild", "probe"}
         /\ Probe(t) => handler'[t].at \in {"lock", "probe"}
         /\ SetFlag(t) \/ CopyWord(t) => handler'[t].at \in {"idle", "copy"}
<1>1. handler \in [Task -> Local] /\ head \in Task \cup {NULL} /\ cursor \in Nat
  BY DEF RaceTypes, Rest, Tables
<1>2. Call(t) \/ Enter(t) \/ LeaveEarly(t) \/ LoseList(t) \/ SecondUnlock(t)
        => handler'[t].at \in {"idle", "lock", "in"}
  <2>1. Call(t) => handler'[t].at = "lock"
    BY <1>1, CallDoes
  <2>2. Enter(t) => handler'[t].at = "in"
    BY <1>1, GotoDoes DEF Enter, Place
  <2>3. LeaveEarly(t) \/ LoseList(t) => handler'[t].at = "idle"
    BY <1>1, ReturnDoes DEF LeaveEarly, LoseList, Idle
  <2>4. SecondUnlock(t) => handler'[t].at = "lock"
    BY <1>1, LockDoes DEF SecondUnlock, Section
  <2> QED
    BY <2>1, <2>2, <2>3, <2>4
<1>3. Leave(t) => handler'[t].at \in {"idle", "lock", "attach", "table", "open", "flag"}
  BY <1>1, GoOnDoes DEF Leave, Idle
<1>4. Attach(t) => handler'[t].at = "node"
  BY AttachFits
<1>5. AllocateNode(t) => handler'[t].at = "fill"
  BY <1>1, GotoDoes DEF AllocateNode, Place
<1>6. FillNode(t) => handler'[t].at \in {"wild", "unlock"}
  <2>1. FillNode(t) => Goto(t, "wild") \/ Goto(t, "unlock")
    BY DEF FillNode
  <2> QED
    BY <1>1, <2>1, GotoDoes DEF Place
<1>7. (\E s \in Syscall : FindTable(t, s)) => handler'[t].at \in {"lock", "cursor"}
  BY <1>1, FindTableDoes
<1>8. StoreTable(t) => handler'[t].at \in {"idle", "lock", "wild"}
  <2>1. StoreTable(t) => Return(t) \/ Lock(t, "process_syscall") \/ Goto(t, "wild")
    BY DEF StoreTable
  <2> QED
    BY <1>1, <2>1, ReturnDoes, LockDoes, GotoDoes DEF Place, Section, Idle
<1>9. Crash(t) => handler'[t].at = "wild"
  BY <1>1, GotoDoes DEF Crash, Place
<1>10. (\E regs \in Regs : OpenTable(t, regs)) => handler'[t].at \in {"wild", "probe"}
  BY OpenTableKeys
<1>11. Probe(t) => handler'[t].at \in {"lock", "probe"}
  BY <1>1, ProbeDoes
<1>12. SetFlag(t) \/ CopyWord(t) => handler'[t].at \in {"idle", "copy"}
  BY SetFlagMoves, CopyWordMoves DEF Idle
<1>13. ReadCursor(t) \/ MoveCursor(t) => handler'[t].at \in {"move", "store"}
  BY <1>1, ReadCursorDoes, GotoDoes DEF MoveCursor, Place
<1> QED
  BY <1>2, <1>3, <1>4, <1>5, <1>6, <1>7, <1>8, <1>9, <1>10, <1>11, <1>12, <1>13

\* Who moves and who does not.
LEMMA OneMoves ==
  ASSUME RaceTypes, Next, NEW t \in Task, ~ Still(t)
  PROVE  Call(t) \/ Enter(t) \/ Step(t)
<1>1. ASSUME NEW u \in Task, u # t, Call(u) \/ Enter(u) \/ Step(u) PROVE FALSE
  BY <1>1, OthersMove DEF Alone, Still
<1>2. CASE Clear
  BY <1>2 DEF Clear, Still
<1> QED
  BY <1>1, <1>2 DEF Next

\* A handler at move or store has just read the cursor, or moved it, or stands
\* still.
LEMMA DrawingOn ==
  ASSUME RaceTypes, Next, NEW t \in Task, handler'[t].at \in {"move", "store"}
  PROVE  Still(t) \/ ReadCursor(t) \/ MoveCursor(t)
BY OneMoves, StepGoes DEF Step

Tabled == {"process_syscall", "table_call", "argument", "conflict", "hit"}

\* A handler in the sections of the table has just found it or stored it, or
\* stays with its call.
TabledOn(t) ==
    \/ \E s \in Syscall : FindTable(t, s) /\ syscall_table[Hooked(t)][s] # NULL
    \/ StoreTable(t) /\ handler[t].bias \in Table
    \/ handler[t].sec \in Tabled /\ handler'[t].s = handler[t].s /\ Hooked(t)' = Hooked(t)

LEMMA StepTabled ==
  ASSUME RaceTypes, Next, NEW t \in Task, handler'[t].sec \in Tabled
  PROVE  TabledOn(t)
<1>1. handler \in [Task -> Local] /\ Fits(t) /\ cursor \in Nat
  BY DEF RaceTypes, Tables
<1>2. handler'[t] # Idle
  BY DEF Idle, Tabled
<1>3. CASE Still(t)
  BY <1>3 DEF Still, TabledOn, Hooked
<1>4. CASE Call(t)
  BY <1>1, <1>4, CallDoes DEF Tabled
<1>5. CASE Enter(t) \/ Crash(t)
  BY <1>1, <1>5, GotoDoes DEF Enter, Crash, Place, SameCall, TabledOn, Hooked
<1>6. CASE Leave(t)
  BY <1>1, <1>2, <1>6, GoOnDoes DEF Leave, SameCall, TabledOn, Tabled, Hooked
<1>7. CASE LeaveEarly(t) \/ LoseList(t)
  BY <1>1, <1>2, <1>7, ReturnDoes DEF LeaveEarly, LoseList
<1>8. CASE Attach(t)
  BY <1>1, <1>8, AttachFits DEF Fits, Tabled
<1>9. CASE AllocateNode(t) \/ MoveCursor(t)
  BY <1>1, <1>9, GotoDoes DEF AllocateNode, MoveCursor, Place, At, Fits, Tabled
<1>10. CASE FillNode(t)
  <2>1. (Goto(t, "wild") \/ Goto(t, "unlock")) /\ handler[t].at = "fill"
    BY <1>10 DEF FillNode, At
  <2> QED
    BY <1>1, <2>1, GotoDoes DEF Place, Fits, Tabled
<1>11. CASE SecondUnlock(t)
  BY <1>1, <1>11, LockDoes DEF SecondUnlock, Section, Tabled
<1>12. ASSUME NEW s \in Syscall, FindTable(t, s) PROVE TabledOn(t)
  <2>1. handler[t].sec = "process_call"
    BY <1>1, <1>12 DEF FindTable, At, Fits
  <2>2. syscall_table[Hooked(t)][s] # NULL
    BY <1>1, <1>12, <2>1, FindTableDoes DEF Tabled
  <2> QED
    BY <1>12, <2>2 DEF TabledOn
<1>13. CASE ReadCursor(t)
  BY <1>1, <1>13, ReadCursorDoes DEF ReadCursor, At, Fits, Tabled
<1>14. CASE StoreTable(t)
  <2>1. handler[t].sec = "process_call"
    BY <1>1, <1>14 DEF StoreTable, At, Fits
  <2>2. CASE handler[t].bias \in Table
    BY <1>14, <2>2 DEF TabledOn
  <2>3. CASE handler[t].bias \notin Table
    <3>1. Return(t) \/ Goto(t, "wild")
      BY <1>14, <2>3 DEF StoreTable
    <3> QED
      BY <1>1, <1>2, <2>1, <3>1, ReturnDoes, GotoDoes DEF Place, Tabled
  <2> QED
    BY <2>2, <2>3
<1>15. ASSUME NEW regs \in Regs, OpenTable(t, regs) PROVE TabledOn(t)
  <2>1. /\ handler'[t].s = handler[t].s /\ handler'[t].sec = handler[t].sec
        /\ UNCHANGED seccomp
    BY <1>15, OpenTableKeys
  <2> QED
    BY <2>1 DEF TabledOn, Hooked
<1>16. CASE Probe(t)
  <2>1. /\ handler'[t].s = handler[t].s /\ handler[t].sec = "table_call"
        /\ UNCHANGED seccomp
    BY <1>1, <1>16, ProbeDoes DEF Probe, At, Fits
  <2> QED
    BY <2>1 DEF TabledOn, Tabled, Hooked
<1>17. CASE SetFlag(t) \/ CopyWord(t)
  <2>1. /\ handler'[t].s = handler[t].s /\ handler[t].sec = "argument"
        /\ UNCHANGED seccomp
    BY <1>2, <1>17, SetFlagMoves, CopyWordMoves
  <2> QED
    BY <2>1 DEF TabledOn, Tabled, Hooked
<1> QED
  BY <1>3, <1>4, <1>5, <1>6, <1>7, <1>8, <1>9, <1>10, <1>11, <1>12, <1>13, <1>14,
     <1>15, <1>16, <1>17, OneMoves DEF Step

\* Unless two handlers drew at once: one handler at a time has read the cursor
\* and not stored the table, into an empty slot; a handler in the sections of
\* the table has one, the one in its slot.
Drawn ==
    Survives({"draw"}) =>
        /\ \A t, u \in Task : At(t, {"move", "store"}) /\ At(u, {"move", "store"}) => t = u
        /\ \A t \in Task : At(t, {"move", "store"}) => Slot(t) = NULL
        /\ \A t \in Task : handler[t].sec \in Tabled => Slot(t) # NULL
        /\ \A t \in Task : Searching(t) => handler[t].bias = Slot(t)

\* Slots that hold a table keep it.
LEMMA SlotsStay ==
  ASSUME RaceTypes, Drawn, Next, Survives({"draw"})',
         NEW h \in Hook, NEW s \in Syscall, syscall_table[h][s] # NULL
  PROVE  syscall_table'[h][s] = syscall_table[h][s]
<1>1. ASSUME NEW t \in Task, StoreTable(t)
      PROVE  syscall_table'[h][s] = syscall_table[h][s]
  <2>1. Slot(t) = NULL
    BY <1>1, Survived DEF Drawn, StoreTable, At
  <2> QED
    BY <1>1, <2>1, StoreTableDoes DEF Slot
<1>2. CASE SlotsSame
  BY <1>2 DEF SlotsSame
<1>3. CASE UNCHANGED syscall_table
  BY <1>3
<1> QED
  BY <1>1, <1>2, <1>3, StepLeaves DEF Next, Step, Clear

LEMMA StepDrawn == RaceTypes /\ Drawn /\ [Next]_vars => Drawn'
<1>1. ASSUME RaceTypes, Drawn, UNCHANGED vars PROVE Drawn'
  BY <1>1 DEF Drawn, vars, Survives, At, Slot, Searching, Hooked
<1> SUFFICES ASSUME RaceTypes, Drawn, Next, Survives({"draw"})'
             PROVE  /\ \A t, u \in Task : At(t, {"move", "store"})' /\ At(u, {"move", "store"})'
                          => t = u
                    /\ \A t \in Task : At(t, {"move", "store"})' => Slot(t)' = NULL
                    /\ \A t \in Task : handler'[t].sec \in Tabled => Slot(t)' # NULL
                    /\ \A t \in Task : Searching(t)' => handler'[t].bias = Slot(t)'
  BY <1>1 DEF Drawn
<1>2. /\ \A t, u \in Task : At(t, {"move", "store"}) /\ At(u, {"move", "store"}) => t = u
      /\ \A t \in Task : At(t, {"move", "store"}) => Slot(t) = NULL
      /\ \A t \in Task : handler[t].sec \in Tabled => Slot(t) # NULL
      /\ \A t \in Task : Searching(t) => handler[t].bias = Slot(t)
  BY Survived DEF Drawn
<1>3. handler \in [Task -> Local] /\ cursor \in Nat /\ \A t \in Task : Fits(t)
  BY DEF RaceTypes, Tables
\* A handler that reads the cursor is alone, before an empty slot.
<1>4. ASSUME NEW t \in Task, ReadCursor(t)
      PROVE  Slot(t) = NULL /\ \A u \in Task : u # t => ~ At(u, {"move", "store"})
  <2>1. ~ (Slot(t) # NULL \/ \E u \in Task \ {t} : At(u, Drawing))
    BY <1>4, NotNoted DEF ReadCursor
  <2> QED
    BY <2>1 DEF At, Drawing
<1>5. ASSUME NEW t \in Task, At(t, {"move", "store"})'
      PROVE  \/ ReadCursor(t)
             \/ At(t, {"move", "store"}) /\ Slot(t)' = syscall_table'[Hooked(t)][handler[t].s]
  <2>1. CASE Still(t)
    BY <1>5, <2>1 DEF Still, At, Slot, Hooked
  <2>2. CASE MoveCursor(t)
    <3>1. At(t, {"move", "store"}) /\ handler'[t].s = handler[t].s /\ UNCHANGED seccomp
      BY <1>3, <2>2, GotoDoes DEF MoveCursor, At, Place, SameCall
    <3> QED
      BY <3>1 DEF Slot, Hooked
  <2> QED
    BY <1>5, <2>1, <2>2, DrawingOn DEF At
<1>6. ASSUME NEW t \in Task, NEW u \in Task, At(t, {"move", "store"})', At(u, {"move", "store"})'
      PROVE  t = u
  <2>1. CASE ReadCursor(t)
    <3>1. u # t => Still(u)
      BY <2>1, OthersMove DEF Still, Alone, Step
    <3> QED
      BY <1>4, <1>6, <2>1, <3>1 DEF Still, At
  <2>2. CASE ReadCursor(u)
    <3>1. u # t => Still(t)
      BY <2>2, OthersMove DEF Still, Alone, Step
    <3> QED
      BY <1>4, <1>6, <2>2, <3>1 DEF Still, At
  <2> QED
    BY <1>2, <1>5, <1>6, <2>1, <2>2
<1>7. ASSUME NEW t \in Task, At(t, {"move", "store"})' PROVE Slot(t)' = NULL
  <2>1. CASE ReadCursor(t)
    <3>1. handler'[t].s = handler[t].s /\ UNCHANGED <<seccomp, syscall_table>>
      BY <1>3, <2>1, ReadCursorDoes DEF ReadCursor, tables
    <3> QED
      BY <1>4, <2>1, <3>1 DEF Slot, Hooked
  <2>2. CASE At(t, {"move", "store"}) /\ Slot(t)' = syscall_table'[Hooked(t)][handler[t].s]
    <3>1. Slot(t) = NULL /\ Hooked(t) # NULL
      BY <1>2, <1>3, <2>2 DEF Fits, At
    <3>2. ~ StoreTable(t)
      BY <1>7, StepGoes DEF At
    <3>3. ASSUME NEW u \in Task, StoreTable(u) PROVE FALSE
      BY <1>2, <2>2, <3>2, <3>3 DEF StoreTable, At
    <3>4. UNCHANGED syscall_table
      BY <3>3, StepLeaves DEF Next, Step, Clear, SlotsSame
    <3> QED
      BY <2>2, <3>1, <3>4 DEF Slot
  <2> QED
    BY <1>5, <1>7, <2>1, <2>2
\* A handler that has a slot with a table finds it there.
<1>8. ASSUME NEW t \in Task, Slot(t) # NULL, Hooked(t) # NULL,
             handler'[t].s = handler[t].s, Hooked(t)' = Hooked(t)
      PROVE  Slot(t)' = Slot(t)
  BY <1>3, <1>8, SlotType, SlotsStay DEF Slot, Local
<1>9. ASSUME NEW t \in Task, handler'[t].sec \in Tabled PROVE Slot(t)' # NULL
  <2>1. ASSUME NEW s \in Syscall, FindTable(t, s), syscall_table[Hooked(t)][s] # NULL
        PROVE  Slot(t)' # NULL
    <3>1. handler'[t].s = s /\ UNCHANGED <<seccomp, syscall_table>>
      BY <1>3, <2>1, FindTableDoes DEF FindTable, tables
    <3> QED
      BY <2>1, <3>1 DEF Slot, Hooked
  <2>2. CASE StoreTable(t) /\ handler[t].bias \in Table
    <3>1. handler'[t].s = handler[t].s /\ UNCHANGED seccomp
      BY <1>3, <2>2, LockDoes, RaceConstants DEF StoreTable, Section, SameCall
    <3>2. syscall_table'[Hooked(t)][handler[t].s] = handler[t].bias
      BY <2>2, StoreTableDoes
    <3> QED
      BY <2>2, <3>1, <3>2, RaceConstants DEF Slot, Hooked
  <2>3. CASE handler[t].sec \in Tabled /\ handler'[t].s = handler[t].s /\ Hooked(t)' = Hooked(t)
    <3>1. Slot(t) # NULL /\ Hooked(t) # NULL
      BY <1>2, <1>3, <2>3 DEF Fits, Tabled
    <3> QED
      BY <1>8, <2>3, <3>1
  <2> QED
    BY <1>9, <2>1, <2>2, <2>3, StepTabled DEF TabledOn
<1>10. ASSUME NEW t \in Task, Searching(t)' PROVE handler'[t].bias = Slot(t)'
  <2>1. ASSUME NEW regs \in Regs, OpenTable(t, regs) PROVE handler'[t].bias = Slot(t)'
    <3>1. handler'[t].s = handler[t].s /\ UNCHANGED <<seccomp, syscall_table>>
          /\ handler'[t].bias = Slot(t)
      BY <2>1, OpenTableKeys DEF OpenTable, tables
    <3> QED
      BY <3>1 DEF Slot, Hooked
  <2>2. CASE /\ Searching(t) /\ handler'[t].bias = handler[t].bias
             /\ handler'[t].s = handler[t].s /\ Hooked(t)' = Hooked(t)
    <3>1. handler[t].sec \in Tabled /\ Hooked(t) # NULL
      BY <1>3, <2>2 DEF Searching, At, Fits, Tabled
    <3>2. Slot(t)' = Slot(t)
      BY <1>2, <1>8, <2>2, <3>1
    <3> QED
      BY <1>2, <2>2, <3>2
  <2>3. CASE Clear
    <3>1. Searching(t) /\ Slot(t)' = Slot(t) /\ handler' = handler
      BY <1>10, <2>3 DEF Clear, Searching, At, Slot, Hooked
    <3> QED
      BY <1>2, <3>1
  <2> QED
    BY <1>10, <2>1, <2>2, <2>3, StepSearches DEF SearchingOn
<1> QED
  BY <1>6, <1>7, <1>9, <1>10

LEMMA AlwaysDrawn == Spec => []Drawn
<1>1. Init => Drawn
  BY InitStarts DEF Drawn, At, Tabled, Searching
<1> QED
  BY <1>1, StepDrawn, AlwaysTypes, PTL DEF Spec

\* Unless two handlers drew at once or the pool was cleared late: the cursor is
\* the end of what the slots and the handler that draws have, and none of them
\* has the table of another.
Apart ==
    Survives({"draw", "clear"}) =>
        /\ cursor <= PreAllocated
        /\ \A h \in Hook, s \in Syscall :
              syscall_table[h][s] # NULL => syscall_table[h][s] < cursor
        /\ \A t \in Task : handler[t].at = "move" =>
              handler[t].bias = cursor /\ cursor < PreAllocated
        /\ \A t \in Task : handler[t].at = "store" =>
              \/ handler[t].bias = NULL
              \/ /\ handler[t].bias \in Table /\ handler[t].bias < cursor
                 /\ \A h \in Hook, s \in Syscall : syscall_table[h][s] # handler[t].bias
        /\ \A h, g \in Hook, s, r \in Syscall :
              syscall_table[h][s] # NULL /\ syscall_table[h][s] = syscall_table[g][r]
                  => h = g /\ s = r

\* A step of another handler, and one that neither draws nor stores.
LEMMA NotDrawing ==
  ASSUME RaceTypes, Next, ~ Clear,
         \A t \in Task : ~ MoveCursor(t) /\ ~ StoreTable(t)
  PROVE  UNCHANGED <<syscall_table, cursor>>
BY StepLeaves DEF Next, Step, SlotsSame

LEMMA StepApart == RaceTypes /\ Untouched /\ Drawn /\ Apart /\ [Next]_vars => Apart'
<1>1. ASSUME Apart, UNCHANGED vars PROVE Apart'
  BY <1>1 DEF Apart, vars, Survives
<1> SUFFICES ASSUME RaceTypes, Untouched, Drawn, Apart, Next, Survives({"draw", "clear"})'
             PROVE  Apart'
  BY <1>1 DEF Apart
<1>2. /\ cursor <= PreAllocated
      /\ \A h \in Hook, s \in Syscall :
            syscall_table[h][s] # NULL => syscall_table[h][s] < cursor
      /\ \A t \in Task : handler[t].at = "move" =>
            handler[t].bias = cursor /\ cursor < PreAllocated
      /\ \A t \in Task : handler[t].at = "store" =>
            \/ handler[t].bias = NULL
            \/ /\ handler[t].bias \in Table /\ handler[t].bias < cursor
               /\ \A h \in Hook, s \in Syscall : syscall_table[h][s] # handler[t].bias
      /\ \A h, g \in Hook, s, r \in Syscall :
            syscall_table[h][s] # NULL /\ syscall_table[h][s] = syscall_table[g][r]
                => h = g /\ s = r
  BY Survived DEF Apart
<1>3. /\ handler \in [Task -> Local] /\ cursor \in Nat /\ PreAllocated \in Nat \ {0}
      /\ syscall_table \in [Hook -> [Syscall -> Table \cup {NULL}]]
      /\ NULL \notin Nat /\ Table \subseteq Nat
  BY RaceConstants DEF RaceTypes, Tables
<1>4. /\ Survives({"draw"}) /\ Survives({"draw"})'
      /\ \A t, u \in Task : At(t, {"move", "store"}) /\ At(u, {"move", "store"}) => t = u
  BY Survived DEF Drawn, Survives
<1>5. CASE Clear
  <2>1. /\ \A t \in Task : handler[t].at = "idle"
        /\ \A h \in Hook, s \in Syscall : syscall_table[h][s] = NULL
        /\ UNCHANGED <<handler, syscall_table>> /\ cursor' = 0
    BY <1>5, ClearFinds DEF Clear
  <2> QED
    BY <1>3, <2>1 DEF Apart
\* The others stand still, so none of them is at move or store.
<1>6. ASSUME NEW t \in Task, At(t, {"move", "store"}), Step(t)
      PROVE  \A u \in Task : u # t => handler'[u].at \notin {"move", "store"}
  BY <1>4, <1>6, OthersMove DEF Alone, At
<1>7. ASSUME NEW t \in Task, MoveCursor(t) PROVE Apart'
  <2>1. /\ handler[t].at = "move" /\ handler[t].bias = cursor /\ cursor < PreAllocated
        /\ UNCHANGED syscall_table /\ cursor' \in {handler[t].bias + 1, cursor + 1}
    BY <1>2, <1>7 DEF MoveCursor, At
  <2>2. cursor' = cursor + 1 /\ cursor \in Table
    BY <1>3, <2>1 DEF Table
  <2>3. handler'[t].at = "store" /\ handler'[t].bias = cursor
    BY <1>3, <1>7, <2>1, GotoDoes DEF MoveCursor, Place, SameCall
  <2>4. \A u \in Task : u # t => handler'[u].at \notin {"move", "store"}
    BY <1>6, <1>7, <2>1 DEF At, Step
  <2>5. \A h \in Hook, s \in Syscall :
          /\ syscall_table[h][s] # cursor
          /\ syscall_table[h][s] # NULL => syscall_table[h][s] < cursor + 1
    <3> SUFFICES ASSUME NEW h \in Hook, NEW s \in Syscall
                 PROVE  /\ syscall_table[h][s] # cursor
                        /\ syscall_table[h][s] # NULL => syscall_table[h][s] < cursor + 1
      OBVIOUS
    <3> DEFINE i == syscall_table[h][s]
    <3>1. i \in Table \cup {NULL} /\ (i # NULL => i < cursor)
      BY <1>2, <1>3
    <3> HIDE DEF i
    <3>2. i # NULL => i \in Nat
      BY <1>3, <3>1
    <3>3. i # cursor /\ (i # NULL => i < cursor + 1)
      BY <1>3, <3>1, <3>2
    <3> QED
      BY <3>3 DEF i
  <2>6. cursor' <= PreAllocated /\ cursor < cursor'
    BY <1>3, <2>1, <2>2
  <2>7. \A u \in Task : handler'[u].at = "store" =>
          /\ handler'[u].bias \in Table /\ handler'[u].bias < cursor'
          /\ \A h \in Hook, s \in Syscall : syscall_table'[h][s] # handler'[u].bias
    BY <2>1, <2>2, <2>3, <2>4, <2>5, <2>6
  <2>8. \A u \in Task : handler'[u].at # "move"
    BY <2>3, <2>4
  <2> QED
    BY <1>2, <2>1, <2>2, <2>5, <2>6, <2>7, <2>8 DEF Apart
<1>8. ASSUME NEW t \in Task, StoreTable(t) PROVE Apart'
  <2> DEFINE i == handler[t].bias
             g == Hooked(t)
             r == handler[t].s
  <2>1. /\ handler[t].at = "store" /\ cursor' = cursor
        /\ \A h \in Hook, s \in Syscall : syscall_table'[h][s] =
              IF i \in Table \cup {NULL} /\ h = g /\ s = r THEN i ELSE syscall_table[h][s]
    BY <1>8, StoreTableDoes DEF StoreTable
  <2>2. \A u \in Task : handler'[u].at \notin {"move", "store"}
    <3>1. handler'[t].at \notin {"move", "store"}
      BY <1>8, StepGoes
    <3> QED
      BY <1>6, <1>8, <2>1, <3>1 DEF At, Step
  <2>3. i = NULL \/ /\ i \in Table /\ i < cursor
                    /\ \A h \in Hook, s \in Syscall : syscall_table[h][s] # i
    BY <1>2, <2>1
  <2> HIDE DEF i, g, r
  <2>4. \A h \in Hook, s \in Syscall :
          syscall_table'[h][s] # NULL => syscall_table'[h][s] < cursor
    BY <1>2, <2>1, <2>3
  <2>5. ASSUME NEW h \in Hook, NEW k \in Hook, NEW s \in Syscall, NEW q \in Syscall,
               syscall_table'[h][s] # NULL, syscall_table'[h][s] = syscall_table'[k][q]
        PROVE  h = k /\ s = q
    <3>1. CASE (h = g /\ s = r) <=> (k = g /\ q = r)
      BY <1>2, <2>1, <2>5, <3>1
    <3>2. CASE ~ ((h = g /\ s = r) <=> (k = g /\ q = r))
      BY <2>1, <2>3, <2>5, <3>2
    <3> QED
      BY <3>1, <3>2
  <2> QED
    BY <1>2, <2>1, <2>2, <2>4, <2>5 DEF Apart
<1>9. ASSUME ~ Clear, \A t \in Task : ~ MoveCursor(t) /\ ~ StoreTable(t)
      PROVE  Apart'
  <2>1. UNCHANGED <<syscall_table, cursor>>
    BY <1>9, NotDrawing
  <2>2. ASSUME NEW t \in Task, handler'[t].at \in {"move", "store"}
        PROVE  \/ handler'[t] = handler[t]
               \/ handler'[t].at = "move" /\ handler'[t].bias = cursor /\ cursor < PreAllocated
               \/ handler'[t].at = "store" /\ handler'[t].bias = NULL
    <3>1. CASE ReadCursor(t)
      BY <1>2, <1>3, <3>1, ReadCursorDoes
    <3> QED
      BY <1>9, <2>2, <3>1, DrawingOn DEF Still
  <2>3. \A t \in Task : handler'[t].at = "move" =>
          handler'[t].bias = cursor' /\ cursor' < PreAllocated
    BY <1>2, <2>1, <2>2
  <2>4. \A t \in Task : handler'[t].at = "store" =>
          \/ handler'[t].bias = NULL
          \/ /\ handler'[t].bias \in Table /\ handler'[t].bias < cursor'
             /\ \A h \in Hook, s \in Syscall : syscall_table'[h][s] # handler'[t].bias
    BY <1>2, <2>1, <2>2
  <2> QED
    BY <1>2, <2>1, <2>3, <2>4 DEF Apart
<1> QED
  BY <1>5, <1>7, <1>8, <1>9

LEMMA InitApart == Init => Apart
<1> SUFFICES ASSUME Init PROVE Apart
  OBVIOUS
<1>1. /\ Start /\ \A t \in Task : handler[t].at = "idle"
      /\ PreAllocated \in Nat \ {0} /\ NULL \notin Nat
  BY InitStarts, RaceConstants
<1>2. CASE StartEmpty
  BY <1>1, <1>2 DEF StartEmpty, Apart
<1>3. ASSUME NEW h \in Hook, NEW key \in Keys, StartShared(h, key) PROVE Apart
  <2>1. /\ cursor = 1 /\ cursor <= PreAllocated
        /\ \A g \in Hook, s \in Syscall :
              syscall_table[g][s] = IF g = h /\ s = 0 THEN 0 ELSE NULL
    BY <1>1, <1>3 DEF StartShared
  <2> QED
    BY <1>1, <2>1 DEF Apart
<1> QED
  BY <1>1, <1>2, <1>3 DEF Start

LEMMA AlwaysApart == Spec => []Apart
BY InitApart, StepApart, AlwaysTypes, AlwaysUntouched, AlwaysDrawn, PTL DEF Spec

\* Two slots never hold one table of the pool, for any number of tasks and
\* tables, unless two handlers were inside get_item_from_pool at once or the
\* cursor was reset under a handler.
THEOREM TablesStayApart == Spec => []TablesApart
<1>1. Apart => TablesApart
  BY DEF Apart, TablesApart
<1> QED
  BY <1>1, AlwaysApart, PTL

-----------------------------------------------------------------------------
(* What a row answers for.                                                 *)

\* Handler t copies its key into way w of bucket b of table i.
Copying(t, i, b, w) ==
    /\ handler[t].at = "copy" /\ handler[t].bias = i
    /\ BucketOf(t) = b /\ handler[t].way = w

\* A key as long as the profiles say for number s.
Fitting(key, s) ==
    \A t \in Task : key \in KeysOf(seccomp[t].argument_count_table[s])

\* The row in way w of bucket b of table i answers for a call that was noted
\* for the slot that has the table.
Answers(i, b, w) ==
    \E h \in Hook, s \in Syscall, key \in Keys :
        /\ syscall_table[h][s] = i
        /\ <<h, s, Padded(key)>> \in asked
        /\ Fitting(key, s)
        /\ Matches(pool[i].table[b][w], key)

\* One handler stores a row, and what it has copied is there.
OneStores == \A t, u \in Task : Storing(t) /\ Storing(u) /\ SameWay(t, u) => t = u
HalfCopied ==
    \A t \in Task : handler[t].at = "copy" => \A p \in 1 .. handler[t].word - 1 :
        pool[handler[t].bias].table[BucketOf(t)][handler[t].way][p] = handler[t].key[p]

\* A flagged row is being copied or answers for a call that was noted.
AllAnswer ==
    \A i \in Table, b \in Bucket, w \in Way : pool[i].flag[b][w] = 1 =>
        (\E t \in Task : Copying(t, i, b, w)) \/ Answers(i, b, w)
HitsAsked == \A t \in Task : handler[t].sec = "hit" => EntryOf(t) \in asked

Overlaps == {"row", "draw", "clear"}
Honest == Survives(Overlaps) => OneStores /\ HalfCopied /\ AllAnswer /\ HitsAsked

\* A handler that copies has come to it by its last step.
LEMMA CopierOn ==
  ASSUME RaceTypes, Next, NEW t \in Task
  PROVE  /\ handler'[t].at = "copy" => Still(t) \/ SetFlag(t) \/ CopyWord(t)
         /\ handler[t].at = "copy" => Still(t) \/ CopyWord(t)
<1>1. handler'[t].at = "copy" => Still(t) \/ SetFlag(t) \/ CopyWord(t)
  BY OneMoves, StepGoes DEF Step
<1>2. handler[t].at = "copy" => Still(t) \/ CopyWord(t)
  BY OneMoves DEF Step, At, Call, Enter, Leave, Crash, LeaveEarly, Attach, AllocateNode,
     LoseList, FillNode, SecondUnlock, FindTable, ReadCursor, MoveCursor, StoreTable,
     OpenTable, Probe, SetFlag
<1> QED
  BY <1>1, <1>2

LEMMA CopierStores ==
  ASSUME RaceTypes, NEW t \in Task, handler[t].at = "copy"
  PROVE  /\ Storing(t) /\ Searching(t) /\ handler[t].way \in Way
         /\ handler[t].key \in KeysOf(KeyLength(t)) /\ KeyLength(t) \in 0 .. MaxArgumentCount
         /\ Len(handler[t].key) = KeyLength(t) /\ KeyLength(t) \in Nat
         /\ handler[t].word \in 1 .. KeyLength(t)
<1>1. /\ Fits(t) /\ handler[t].way \in Way /\ handler[t].sec = "argument"
      /\ handler[t].word \in 1 .. Len(handler[t].key)
  BY DEF RaceTypes, Fits
<1>2. Storing(t) /\ Searching(t)
  BY <1>1, WayRange DEF Storing, Searching, At
<1>3. handler[t].key \in KeysOf(KeyLength(t)) /\ KeyLength(t) \in 0 .. MaxArgumentCount
  BY <1>2, SearchType, KeyLengthType
<1>4. KeyLength(t) \in Nat /\ Len(handler[t].key) = KeyLength(t)
  BY <1>3, KeysOfFits, KeyIsSeq
<1> QED
  BY <1>1, <1>2, <1>3, <1>4

\* A row changes only where a handler copies.
LEMMA RowStays ==
  ASSUME RaceTypes, Next, ~ Clear, NEW i \in Table, NEW b \in Bucket, NEW w \in Way,
         ~ \E u \in Task : CopyWord(u) /\ Copying(u, i, b, w)
  PROVE  \A p \in Position : pool'[i].table[b][w][p] = pool[i].table[b][w][p]
<1>1. CASE PoolSame
  BY <1>1 DEF PoolSame
<1>2. ASSUME NEW u \in Task, SetFlag(u)
      PROVE  \A p \in Position : pool'[i].table[b][w][p] = pool[i].table[b][w][p]
  BY <1>2, SetFlagPool
<1>3. ASSUME NEW u \in Task, CopyWord(u)
      PROVE  \A p \in Position : pool'[i].table[b][w][p] = pool[i].table[b][w][p]
  <2>1. ~ (i = handler[u].bias /\ b = BucketOf(u) /\ w = handler[u].way)
    BY <1>3, CopyWordMoves DEF Copying
  <2> QED
    BY <1>3, <2>1, CopyWordPool
<1> QED
  BY <1>1, <1>2, <1>3, StepLeaves DEF Next, Step

\* The lengths of the profiles stay.
LEMMA LengthsStay ==
  ASSUME RaceTypes, Next, NEW t \in Task
  PROVE  seccomp'[t].argument_count_table = seccomp[t].argument_count_table
<1>1. ASSUME NEW u \in Task, Attach(u)
      PROVE  seccomp'[t].argument_count_table = seccomp[t].argument_count_table
  BY <1>1 DEF Attach, RaceTypes, Struct
<1>2. ASSUME ~ \E u \in Task : Attach(u) PROVE UNCHANGED seccomp
  <2>1. CASE Clear
    BY <2>1 DEF Clear
  <2>2. ASSUME NEW u \in Task, Call(u) \/ Enter(u) \/ Step(u), ~ Attach(u)
        PROVE  UNCHANGED seccomp
    BY <2>2, LockingFits, LinkingFits, DrawingFits, LookupFits DEF Step
  <2> QED
    BY <1>2, <2>1, <2>2 DEF Next
<1> QED
  BY <1>1, <1>2

LEMMA StepOneStores ==
  ASSUME RaceTypes, OneStores, Next, ~ Clear, Survives(Overlaps)'
  PROVE  OneStores'
<1> SUFFICES ASSUME NEW t \in Task, NEW u \in Task, Storing(t)', Storing(u)', SameWay(t, u)'
             PROVE  t = u
  BY DEF OneStores
<1>1. /\ Storing(t) \/ Probe(t)
      /\ Storing(u) \/ Probe(u)
      /\ SameWay(t, u) /\ SameWay(u, t)
  BY StorerOn DEF SameWay, BucketOf
<1>2. ASSUME NEW v \in Task, Probe(v), NEW x \in Task, Storing(x)', SameWay(v, x), x # v
      PROVE  FALSE
  <2>1. ~ \E y \in Task \ {v} : Storing(y) /\ SameWay(v, y)
    BY <1>2, NotNoted DEF Probe, Overlaps
  <2>2. handler'[x] = handler[x]
    BY <1>2, OthersMove DEF Alone, Step
  <2>3. Storing(x)
    BY <1>2, <2>2 DEF Storing, At
  <2> QED
    BY <1>2, <2>1, <2>3
<1> QED
  BY <1>1, <1>2 DEF OneStores

LEMMA StepHalfCopied ==
  ASSUME RaceTypes, OneStores, HalfCopied, Next, ~ Clear
  PROVE  HalfCopied'
<1> SUFFICES ASSUME NEW t \in Task, handler'[t].at = "copy",
                    NEW p \in 1 .. handler'[t].word - 1
             PROVE  pool'[handler'[t].bias].table[BucketOf(t)'][handler'[t].way][p]
                      = handler'[t].key[p]
  BY DEF HalfCopied
<1>1. CASE SetFlag(t)
  <2>1. handler'[t].word = 1
    BY <1>1, SetFlagMoves DEF Idle
  <2> QED
    BY <2>1
<1>2. CASE ~ SetFlag(t)
  <2>1. handler[t].at = "copy"
    BY <1>2, CopierOn DEF Still, CopyWord, At
  <2> DEFINE i == handler[t].bias
             b == BucketOf(t)
             w == handler[t].way
  <2>2. i \in Table /\ b \in Bucket /\ w \in Way
    BY <2>1, CopierStores, SearchType
  <2>3. CASE CopyWord(t)
    <3>1. /\ handler'[t].word = handler[t].word + 1 /\ handler[t].word \in 1 .. KeyLength(t)
          /\ handler'[t].key = handler[t].key /\ handler'[t].bias = i /\ handler'[t].way = w
          /\ KeyLength(t) \in 0 .. MaxArgumentCount
      BY <2>3, CopyWordMoves, KeyLengthType DEF Idle
    <3>2. BucketOf(t)' = b
      BY <3>1 DEF BucketOf
    <3>3. KeyLength(t) \in Nat /\ 1 .. KeyLength(t) \subseteq Position
      BY <3>1, KeysOfFits
    <3>4. p \in Position /\ (p = handler[t].word \/ p \in 1 .. handler[t].word - 1)
      BY <3>1, <3>3
    <3>5. pool'[i].table[b][w][p] = IF p = handler[t].word THEN handler[t].key[p]
                                    ELSE pool[i].table[b][w][p]
      BY <2>2, <2>3, <3>4, CopyWordPool
    <3>6. pool'[i].table[b][w][p] = handler[t].key[p]
      BY <2>1, <3>4, <3>5 DEF HalfCopied
    <3> QED
      BY <3>1, <3>2, <3>6
  <2>4. CASE ~ CopyWord(t)
    <3>1. handler'[t] = handler[t]
      BY <1>2, <2>4, CopierOn DEF Still
    <3>2. ASSUME NEW u \in Task, CopyWord(u), Copying(u, i, b, w) PROVE FALSE
      <4>1. Storing(t) /\ Storing(u) /\ SameWay(t, u)
        BY <2>1, <3>2, CopierStores DEF Copying, SameWay
      <4> QED
        BY <2>4, <3>2, <4>1 DEF OneStores
    <3>3. KeyLength(t) \in Nat /\ handler[t].word \in 1 .. KeyLength(t)
          /\ 1 .. KeyLength(t) \subseteq Position
      BY <2>1, CopierStores, KeysOfFits
    <3>4. p \in Position /\ p \in 1 .. handler[t].word - 1
      BY <3>1, <3>3
    <3>5. pool'[i].table[b][w][p] = handler[t].key[p]
      BY <2>1, <2>2, <3>2, <3>4, RowStays DEF HalfCopied
    <3> QED
      BY <3>1, <3>5 DEF BucketOf
  <2> QED
    BY <2>3, <2>4
<1> QED
  BY <1>1, <1>2

\* A row that answered goes on answering, as long as nobody copies over it.
LEMMA AnswersStay ==
  ASSUME RaceTypes, Drawn, Next, ~ Clear, Survives({"draw"})',
         NEW i \in Table, NEW b \in Bucket, NEW w \in Way, Answers(i, b, w),
         ~ \E u \in Task : CopyWord(u) /\ Copying(u, i, b, w)
  PROVE  Answers(i, b, w)'
<1>1. PICK h \in Hook, s \in Syscall, key \in Keys :
        /\ syscall_table[h][s] = i
        /\ <<h, s, Padded(key)>> \in asked
        /\ Fitting(key, s)
        /\ Matches(pool[i].table[b][w], key)
  BY DEF Answers
<1>2. syscall_table'[h][s] = i
  BY <1>1, SlotsStay, RaceConstants
<1>3. <<h, s, Padded(key)>> \in asked'
  BY <1>1, StepGrows
<1>4. Fitting(key, s)'
  BY <1>1, LengthsStay DEF Fitting
<1>5. PICK n \in 0 .. MaxArgumentCount : key \in KeysOf(n)
  BY DEF Keys, KeysOf
<1>6. Matches(pool'[i].table[b][w], key)
  BY <1>1, <1>5, RowStays, KeysOfFits DEF Matches
<1> QED
  BY <1>1, <1>2, <1>3, <1>4, <1>6 DEF Answers

\* The row of a handler answers for its call once its key is in it.
LEMMA StoredAnswers ==
  ASSUME RaceTypes, Noted, Drawn, Next, ~ Clear, Survives({"draw"}),
         NEW t \in Task, Storing(t), UNCHANGED <<seccomp, syscall_table>>,
         NEW i, NEW b, NEW w, handler[t].bias = i, BucketOf(t) = b, handler[t].way = w,
         Matches(pool'[i].table[b][w], handler[t].key)
  PROVE  Answers(i, b, w)'
<1>1. Searching(t)
  BY StoringSearches
<1>2. /\ Hooked(t) \in Hook /\ handler[t].s \in Syscall
      /\ handler[t].key \in KeysOf(KeyLength(t))
  BY <1>1, SearchType
<1>3. handler[t].key \in Keys
  BY <1>2, KeyLengthType, KeysOfFits
<1>4. ASSUME NEW h \in Hook, NEW s \in Syscall, NEW key \in Keys,
             h = Hooked(t), s = handler[t].s, key = handler[t].key
      PROVE  Answers(i, b, w)'
  <2>1. syscall_table'[h][s] = i
    BY <1>1, <1>4 DEF Drawn, Slot
  <2>2. <<h, s, Padded(key)>> \in asked'
    BY <1>4, StepGrows DEF Noted, EntryOf
  <2>3. Fitting(key, s)
    BY <1>2, <1>4 DEF Fitting, KeyLength, RaceTypes, Alike
  <2>4. Fitting(key, s)'
    BY <2>3 DEF Fitting
  <2>5. Matches(pool'[i].table[b][w], key)
    BY <1>4
  <2> QED
    BY <2>1, <2>2, <2>4, <2>5 DEF Answers
<1> QED
  BY <1>2, <1>3, <1>4

LEMMA StepAllAnswer ==
  ASSUME RaceTypes, Noted, Drawn, HalfCopied, AllAnswer, Next, ~ Clear,
         Survives({"draw"})', Survives({"draw"})
  PROVE  AllAnswer'
<1> SUFFICES ASSUME NEW i \in Table, NEW b \in Bucket, NEW w \in Way,
                    pool'[i].flag[b][w] = 1
             PROVE  (\E t \in Task : Copying(t, i, b, w)') \/ Answers(i, b, w)'
  BY DEF AllAnswer
<1>1. ASSUME NEW t \in Task, CopyWord(t), Copying(t, i, b, w)
      PROVE  (\E u \in Task : Copying(u, i, b, w)') \/ Answers(i, b, w)'
  <2>1. /\ Storing(t) /\ DOMAIN handler[t].key = 1 .. KeyLength(t)
        /\ handler[t].word \in 1 .. KeyLength(t) /\ KeyLength(t) \in Nat
        /\ 1 .. KeyLength(t) \subseteq Position
    BY <1>1, CopyWordMoves, CopierStores, KeysOfFits
  <2>2. CASE handler[t].word # KeyLength(t)
    <3>1. /\ handler'[t].at = "copy" /\ handler'[t].bias = i
          /\ handler'[t].key = handler[t].key /\ handler'[t].way = w
      BY <1>1, <2>2, CopyWordMoves DEF Copying
    <3>2. Copying(t, i, b, w)'
      BY <1>1, <3>1 DEF Copying, BucketOf
    <3> QED
      BY <3>2
  <2>3. CASE handler[t].word = KeyLength(t)
    <3>1. ASSUME NEW p \in 1 .. KeyLength(t)
          PROVE  pool'[i].table[b][w][p] = handler[t].key[p]
      <4>1. p = handler[t].word \/ p \in 1 .. handler[t].word - 1
        BY <2>1, <2>3
      <4>2. pool'[i].table[b][w][p] = IF p = handler[t].word THEN handler[t].key[p]
                                      ELSE pool[i].table[b][w][p]
        BY <1>1, <2>1, CopyWordPool DEF Copying
      <4> QED
        BY <1>1, <4>1, <4>2 DEF HalfCopied, Copying
    <3>2. Matches(pool'[i].table[b][w], handler[t].key)
      BY <2>1, <3>1 DEF Matches
    <3>3. UNCHANGED <<seccomp, syscall_table>>
      BY <1>1 DEF CopyWord
    <3> QED
      BY <1>1, <2>1, <3>2, <3>3, StoredAnswers DEF Copying
  <2> QED
    BY <2>2, <2>3
<1>2. ASSUME ~ \E t \in Task : CopyWord(t) /\ Copying(t, i, b, w),
             pool[i].flag[b][w] = 1
      PROVE  (\E t \in Task : Copying(t, i, b, w)') \/ Answers(i, b, w)'
  <2>1. ASSUME NEW t \in Task, Copying(t, i, b, w) PROVE Copying(t, i, b, w)'
    <3>1. handler'[t] = handler[t]
      BY <1>2, <2>1, CopierOn DEF Copying, Still
    <3> QED
      BY <2>1, <3>1 DEF Copying, BucketOf
  <2>2. CASE Answers(i, b, w)
    BY <1>2, <2>2, AnswersStay
  <2> QED
    BY <1>2, <2>1, <2>2 DEF AllAnswer
<1>3. ASSUME pool[i].flag[b][w] # 1
      PROVE  (\E t \in Task : Copying(t, i, b, w)') \/ Answers(i, b, w)'
  <2>1. PICK t \in Task : SetFlag(t)
    <3>1. ASSUME NEW t \in Task, CopyWord(t) PROVE FALSE
      BY <1>3, <3>1, CopyWordPool
    <3>2. ~ PoolSame
      BY <1>3 DEF PoolSame
    <3> QED
      BY <3>1, <3>2, StepLeaves DEF Next, Step
  <2>2. i = handler[t].bias /\ b = BucketOf(t) /\ w = handler[t].way
    BY <1>3, <2>1, SetFlagPool
  <2>3. CASE handler[t].key # << >>
    <3>1. /\ handler'[t].at = "copy" /\ handler'[t].bias = handler[t].bias
          /\ handler'[t].key = handler[t].key /\ handler'[t].way = handler[t].way
      BY <2>1, <2>3, SetFlagMoves
    <3>2. Copying(t, i, b, w)'
      BY <2>2, <3>1 DEF Copying, BucketOf
    <3> QED
      BY <3>2
  <2>4. CASE handler[t].key = << >>
    <3>1. Matches(pool'[i].table[b][w], handler[t].key)
      BY <2>4 DEF Matches
    <3>2. Storing(t)
      BY <2>1, SetFlagMoves, WayRange DEF Storing, At
    <3>3. UNCHANGED <<seccomp, syscall_table>>
      BY <2>1 DEF SetFlag
    <3> QED
      BY <2>2, <3>1, <3>2, <3>3, StoredAnswers
  <2> QED
    BY <2>3, <2>4
<1> QED
  BY <1>1, <1>2, <1>3

\* A row matches one key of a length.
LEMMA OneKeyMatches ==
  ASSUME NEW n, NEW key \in KeysOf(n), NEW other \in KeysOf(n), NEW row,
         Matches(row, key), Matches(row, other)
  PROVE  key = other
<1>1. DOMAIN key = 1 .. n /\ DOMAIN other = 1 .. n
  BY DEF KeysOf
<1>2. \A i \in 1 .. n : key[i] = other[i]
  BY <1>1 DEF Matches
<1>3. key = [i \in 1 .. n |-> key[i]] /\ other = [i \in 1 .. n |-> other[i]]
  BY DEF KeysOf
<1> QED
  BY <1>2, <1>3

LEMMA StepHitsAsked ==
  ASSUME RaceTypes, Drawn, Apart, AllAnswer, HitsAsked, Next, ~ Clear,
         Survives(Overlaps)', Survives({"draw"}), Survives({"draw", "clear"})
  PROVE  HitsAsked'
<1> SUFFICES ASSUME NEW t \in Task, handler'[t].sec = "hit" PROVE EntryOf(t)' \in asked'
  BY DEF HitsAsked
<1>1. SearchingOn(t) /\ handler \in [Task -> Local] /\ Fits(t)
  BY StepSearches DEF RaceTypes, Searching
<1>2. ASSUME NEW regs \in Regs, OpenTable(t, regs) PROVE FALSE
  <2>1. handler'[t].sec = handler[t].sec /\ handler[t].at = "open"
    BY <1>2, OpenTableKeys
  <2> QED
    BY <1>1, <2>1 DEF Fits
<1>3. Searching(t) /\ EntryOf(t)' = EntryOf(t) /\ asked \subseteq asked'
  BY <1>1, <1>2, StepGrows DEF SearchingOn, EntryOf
<1>4. CASE handler[t].sec = "hit"
  BY <1>3, <1>4 DEF HitsAsked
<1>5. CASE Probe(t) /\ handler[t].sec # "hit"
  <2> DEFINE i == handler[t].bias
             b == BucketOf(t)
             w == handler[t].way
  <2>1. /\ w # Asos /\ ~ Free(t)
        /\ Matches(pool[i].table[b][w], handler[t].key)
    BY <1>1, <1>5, ProbeDoes
  <2>2. w \in Way
    BY <1>1, <2>1, RaceConstants DEF Local, Way
  <2>3. i \in Table /\ b \in Bucket /\ pool[i] \in SyscallTable
        /\ handler[t].key \in KeysOf(KeyLength(t))
        /\ Hooked(t) \in Hook /\ handler[t].s \in Syscall
    BY <1>3, SearchType
  <2>4. pool[i].flag[b][w] = 1
    BY <2>1, <2>2, <2>3 DEF Free, SyscallTable
  <2>5. ASSUME NEW u \in Task, Copying(u, i, b, w) PROVE FALSE
    <3>1. ~ \E v \in Task \ {t} : Storing(v) /\ SameWay(t, v)
      BY <1>5, NotNoted DEF Probe, Overlaps
    <3>2. u # t
      BY <1>5, <2>5 DEF Probe, At, Copying
    <3>3. Storing(u) /\ SameWay(t, u)
      BY <2>5, CopierStores DEF Copying, SameWay
    <3> QED
      BY <3>1, <3>2, <3>3
  <2>6. PICK h \in Hook, s \in Syscall, key \in Keys :
          /\ syscall_table[h][s] = i
          /\ <<h, s, Padded(key)>> \in asked
          /\ Fitting(key, s)
          /\ Matches(pool[i].table[b][w], key)
    BY <2>2, <2>3, <2>4, <2>5 DEF AllAnswer, Answers
  <2>7. h = Hooked(t) /\ s = handler[t].s
    <3>1. i = syscall_table[Hooked(t)][handler[t].s] /\ i # NULL
      BY <1>3, <2>3, RaceConstants DEF Drawn, Slot
    <3> QED
      BY <2>3, <2>6, <3>1 DEF Apart
  <2>8. key \in KeysOf(KeyLength(t))
    BY <2>6, <2>7 DEF Fitting, KeyLength
  <2>9. key = handler[t].key
    BY <2>1, <2>3, <2>6, <2>8, OneKeyMatches
  <2> QED
    BY <1>3, <2>6, <2>7, <2>9 DEF EntryOf
<1> QED
  BY <1>1, <1>2, <1>4, <1>5 DEF SearchingOn

LEMMA StepHonest ==
  RaceTypes /\ Untouched /\ Noted /\ Drawn /\ Apart /\ Honest /\ [Next]_vars => Honest'
<1>1. ASSUME Honest, UNCHANGED vars PROVE Honest'
  BY <1>1 DEF Honest, OneStores, HalfCopied, AllAnswer, HitsAsked, vars, Survives, Storing,
     SameWay, BucketOf, At, Copying, Answers, Fitting, EntryOf, Hooked
<1> SUFFICES ASSUME RaceTypes, Untouched, Noted, Drawn, Apart, Honest, Next,
                    Survives(Overlaps)'
             PROVE  (OneStores /\ HalfCopied /\ AllAnswer /\ HitsAsked)'
  BY <1>1 DEF Honest
<1>2. Survives(Overlaps)
  BY Survived
<1>3. /\ OneStores /\ HalfCopied /\ AllAnswer /\ HitsAsked
      /\ Survives({"draw"}) /\ Survives({"draw", "clear"}) /\ Survives({"draw"})'
  BY <1>2 DEF Honest, Survives, Overlaps
<1>4. CASE Clear
  <2>1. /\ handler' = handler /\ pool' = [i \in Table |-> BlankTable]
        /\ \A t \in Task : handler[t].at = "idle" /\ handler[t].sec = "total_call"
    BY <1>4, ClearFinds DEF Clear, Overlaps
  <2>2. \A i \in Table, b \in Bucket, w \in Way : pool'[i].flag[b][w] = 0
    BY <2>1, BlankExact
  <2> QED
    BY <2>1, <2>2 DEF OneStores, HalfCopied, AllAnswer, HitsAsked, Storing, At
<1>5. CASE ~ Clear
  BY <1>3, <1>5, StepOneStores, StepHalfCopied, StepAllAnswer, StepHitsAsked
<1> QED
  BY <1>4, <1>5

LEMMA InitHonest == Init => Honest /\ Noted
<1> SUFFICES ASSUME Init PROVE Honest /\ Noted
  OBVIOUS
<1>1. /\ RaceTypes /\ Start
      /\ \A t \in Task : handler[t].at = "idle" /\ handler[t].sec = "total_call"
  BY InitStarts
<1>2. OneStores /\ HalfCopied /\ HitsAsked /\ Noted
  BY <1>1 DEF OneStores, HalfCopied, HitsAsked, Noted, Storing, At
<1>3. ASSUME NEW i \in Table, NEW b \in Bucket, NEW w \in Way, pool[i].flag[b][w] = 1
      PROVE  Answers(i, b, w)
  <2>1. PICK h \in Hook, key \in Keys : StartShared(h, key)
    BY <1>1, <1>3, BlankExact DEF Start, StartEmpty
  <2>2. Hash[key] \in Bucket /\ 0 \in Way /\ 0 \in Syscall
    BY TableAssumption, RaceConstants DEF Way
  <2>3. PICK n \in 0 .. MaxArgumentCount : key \in KeysOf(n)
    BY DEF Keys, KeysOf
  <2>4. pool[i] = IF i = 0 THEN Occupy(BlankTable, Hash[key], 0, key) ELSE BlankTable
    BY <2>1 DEF StartShared
  <2>5. \A c \in Bucket, v \in Way :
          LET new == Occupy(BlankTable, Hash[key], 0, key) IN
          /\ new.flag[c][v] = IF <<c, v>> = <<Hash[key], 0>> THEN 1
                              ELSE BlankTable.flag[c][v]
          /\ new.table[c][v] = IF <<c, v>> = <<Hash[key], 0>>
                               THEN Overwrite(BlankTable.table[Hash[key]][0], key)
                               ELSE BlankTable.table[c][v]
    BY <2>2, <2>3, BlankExact, OccupyFields
  <2>6. i = 0 /\ b = Hash[key] /\ w = 0
    BY <1>3, <2>4, <2>5, BlankExact
  <2>7. pool[i].table[b][w] = Padded(key)
    <3>1. BlankTable.table[Hash[key]][0] = BlankRow
      BY <2>2 DEF BlankTable
    <3> QED
      BY <2>2, <2>4, <2>5, <2>6, <3>1 DEF Padded
  <2>8. Matches(pool[i].table[b][w], key)
    BY <2>3, <2>7, PaddedType
  <2>9. syscall_table[h][0] = i /\ <<h, 0, Padded(key)>> \in asked /\ Fitting(key, 0)
    BY <2>1, <2>2, <2>6 DEF StartShared, Fitting
  <2> QED
    BY <2>2, <2>8, <2>9 DEF Answers
<1> QED
  BY <1>2, <1>3 DEF Honest, AllAnswer

\* A hit is for a call a handler went to store before for the same block and
\* number, for any number of tasks that share blocks, unless a row was read or
\* written while another handler was storing it, or a table had two owners.
THEOREM HitsAreHonest == Spec => []HitsHonest
<1>1. Honest => HitsHonest
  BY DEF Honest, HitsHonest, HitsAsked, Overlaps
<1> QED
  BY <1>1, InitHonest, StepHonest, StepNoted, AlwaysTypes, AlwaysUntouched, AlwaysDrawn,
     AlwaysApart, PTL DEF Spec

-----------------------------------------------------------------------------
(* The head of the list, and NULL.                                         *)

\* Unless two handlers linked a node at once or the list was cleared late, one
\* handler at a time links its node, and the head is its own while it fills it.
Linked ==
    Survives({"link", "clear"}) =>
        /\ \A t, u \in Task : At(t, Linking) /\ At(u, Linking) => t = u
        /\ \A t \in Task : handler[t].at = "fill" => head = t

LEMMA LinkingOn ==
  ASSUME RaceTypes, Next, NEW t \in Task, handler'[t].at \in Linking
  PROVE  Still(t) \/ Attach(t) \/ AllocateNode(t)
BY OneMoves, StepGoes DEF Step, Linking

LEMMA StepLinked == RaceTypes /\ Untouched /\ Linked /\ [Next]_vars => Linked'
<1>1. ASSUME Linked, UNCHANGED vars PROVE Linked'
  BY <1>1 DEF Linked, vars, Survives, At
<1> SUFFICES ASSUME RaceTypes, Untouched, Linked, Next, Survives({"link", "clear"})'
             PROVE  Linked'
  BY <1>1 DEF Linked
<1>2. /\ \A t, u \in Task : At(t, Linking) /\ At(u, Linking) => t = u
      /\ \A t \in Task : handler[t].at = "fill" => head = t
  BY Survived DEF Linked
<1>3. CASE Clear
  <2>1. handler' = handler /\ \A t \in Task : handler[t].at = "idle"
    BY <1>3, ClearFinds DEF Clear
  <2> QED
    BY <2>1 DEF Linked, At, Linking
<1>4. ASSUME ~ Clear, NEW t \in Task, handler'[t].at \in Linking
      PROVE  \A u \in Task : u # t => handler'[u].at \notin Linking
  <2>1. ASSUME NEW v \in Task, Attach(v), NEW w \in Task, handler'[w].at \in Linking
        PROVE  w = v
    <3>1. ~ \E u \in Task : At(u, Linking)
      BY <2>1, NotNoted DEF Attach
    <3>2. w # v => handler'[w] = handler[w]
      BY <2>1, AttachFits DEF Alone
    <3> QED
      BY <2>1, <3>1, <3>2 DEF At
  <2>2. ASSUME NEW v \in Task, handler'[v].at \in Linking, ~ Attach(v)
        PROVE  At(v, Linking)
    BY <2>2, LinkingOn DEF Still, At, AllocateNode, Linking
  <2> QED
    BY <1>2, <1>4, <2>1, <2>2
<1>5. ASSUME ~ Clear, NEW t \in Task, handler'[t].at = "fill" PROVE head' = t
  <2>1. ~ Attach(t) /\ ~ LoseList(t)
    BY <1>5, StepGoes
  <2>2. CASE AllocateNode(t)
    BY <2>2 DEF AllocateNode
  <2>3. CASE Still(t) /\ ~ AllocateNode(t)
    <3>1. At(t, Linking) /\ head = t
      BY <1>2, <1>5, <2>3 DEF Still, At, Linking
    <3>2. ASSUME NEW u \in Task, AllocateNode(u) \/ LoseList(u) PROVE FALSE
      BY <1>2, <2>1, <2>3, <3>1, <3>2 DEF AllocateNode, LoseList, At, Linking
    <3>3. head' = head
      BY <1>5, <3>2 DEF Next, Step, list, Call, Enter, Leave, Crash, LeaveEarly, Attach,
         FillNode, SecondUnlock, FindTable, ReadCursor, MoveCursor, StoreTable,
         OpenTable, Probe, SetFlag, CopyWord
    <3> QED
      BY <3>1, <3>3
  <2> QED
    BY <1>5, <2>1, <2>2, <2>3, LinkingOn DEF Linking
<1> QED
  BY <1>3, <1>4, <1>5 DEF Linked, At

\* Unless one of these happened, nobody is wild.
Tame == Survives({"draw", "link", "clear"}) => \A t \in Task : ~ At(t, {"wild"})

LEMMA StepTame ==
  RaceTypes /\ Drawn /\ Apart /\ Linked /\ Tame /\ [Next]_vars => Tame'
<1>1. ASSUME Tame, UNCHANGED vars PROVE Tame'
  BY <1>1 DEF Tame, vars, Survives, At
<1> SUFFICES ASSUME RaceTypes, Drawn, Apart, Linked, Tame, Next,
                    Survives({"draw", "link", "clear"})', NEW t \in Task,
                    handler'[t].at = "wild"
             PROVE  FALSE
  BY <1>1 DEF Tame, At
<1>2. Survives({"draw", "link", "clear"})
  BY Survived
<1>3. /\ Survives({"draw"}) /\ Survives({"draw", "clear"}) /\ Survives({"link", "clear"})
      /\ handler[t].at # "wild"
  BY <1>2 DEF Survives, Tame, At
<1>4. handler \in [Task -> Local] /\ cursor \in Nat /\ Fits(t) /\ NULL \notin Task
  BY RaceConstants DEF RaceTypes, Tables
<1>5. handler[t].sec \in Tabled => Slot(t) # NULL
  BY <1>3 DEF Drawn
<1>6. CASE Crash(t)
  BY <1>5, <1>6 DEF Crash, Oops, Tabled
<1>7. ASSUME NEW regs \in Regs, OpenTable(t, regs) PROVE FALSE
  <2>1. handler[t].sec = "table_call"
    BY <1>4, <1>7 DEF OpenTable, At, Fits
  <2> QED
    BY <1>4, <1>5, <1>7, <2>1, OpenTableKeys DEF Tabled
<1>8. CASE StoreTable(t)
  <2>1. handler[t].bias \in Table \cup {NULL}
    BY <1>3, <1>8 DEF Apart, StoreTable, At
  <2>2. Return(t) \/ Lock(t, "process_syscall")
    BY <1>8, <2>1 DEF StoreTable
  <2> QED
    BY <1>4, <2>2, ReturnDoes, LockDoes DEF Section, Idle
<1>9. CASE FillNode(t)
  <2>1. head = t
    BY <1>3, <1>9 DEF Linked, FillNode, At
  <2>2. Goto(t, "unlock")
    BY <1>4, <1>9, <2>1 DEF FillNode
  <2> QED
    BY <1>4, <2>2, GotoDoes DEF Place
<1>10. CASE Still(t)
  BY <1>3, <1>10 DEF Still
<1> QED
  BY <1>6, <1>7, <1>8, <1>9, <1>10, OneMoves, StepGoes DEF Step

\* No handler leaves the pool or follows a NULL slot or head, unless two
\* handlers drew a table at once, two linked a node at once, or one ran before
\* init_hash_table.
THEOREM NoneGoesWild == Spec => []NothingWild
<1>1. Init => Linked /\ Tame
  BY InitStarts DEF Linked, Tame, At, Linking
<1>2. Tame => NothingWild
  BY DEF Tame, NothingWild
<1> QED
  BY <1>1, <1>2, StepLinked, StepTame, AlwaysTypes, AlwaysUntouched, AlwaysDrawn,
     AlwaysApart, PTL DEF Spec

-----------------------------------------------------------------------------
(* The list of tasks.                                                      *)

Node == [process : Pointer, next : Pointer]
NodeTypes == node \in [Task -> Node]

\* Nothing is linked before the first call.
Unmade == ~ cleared /\ calls = FreshCalls => \A t \in Task : node[t] = Unlinked

\* Only a task with a block has a node; it is unmade until the handler that read
\* the head has it, then garbage until it is filled, and then its own.
NodesHooked == \A t \in Task : Hooked(t) = NULL => node[t] = Unlinked
NodesUnmade ==
    \A t \in Task : handler[t].at = "node" => node[t] = Unlinked /\ handler[t].temp = head
NodesGarbage == \A t \in Task : handler[t].at = "fill" => node[t] = Garbage
NodesWhole ==
    \A t \in Task : node[t] # Unlinked /\ handler[t].at # "fill" =>
        node[t].process = t /\ node[t].next \in Task \cup {NULL}

\* The walk meets all nodes, from the head, or from where the node that is being
\* filled will go on.
HeadMeets ==
    (\A t \in Task : handler[t].at # "fill") =>
        \A u \in Task : node[u] # Unlinked => u \in Met(head)
TempMeets ==
    \A t \in Task : handler[t].at = "fill" =>
        \A u \in Task \ {t} : node[u] # Unlinked => u \in Met(handler[t].temp)

\* Unless two handlers linked at once, a node could not be had or the list was
\* cleared late.
Listed ==
    Survives({"link", "node", "clear"}) =>
        /\ NodesHooked /\ NodesUnmade /\ NodesGarbage /\ NodesWhole
        /\ HeadMeets /\ TempMeets

LEMMA PointerTypes ==
  /\ NULL \in Pointer /\ "garbage" \in Pointer /\ Task \subseteq Pointer
  /\ NULL \notin Task /\ "garbage" \notin Task /\ NULL # "garbage"
  /\ Unlinked \in Node /\ Garbage \in Node /\ Unlinked # Garbage
  /\ Unlinked.next = NULL /\ Garbage.next = "garbage"
BY RaceAssumption DEF Pointer, Node, Unlinked, Garbage

\* What is met from a node is met when the node of t, that went nowhere, goes
\* on to something else.
LEMMA MetStays ==
  ASSUME NEW t \in Task, NEW nowhere \in {NULL, "garbage"}, node[t].next = nowhere,
         \A u \in Task : u # t => node'[u] = node[u],
         NEW first, NEW n \in Task, n \in Met(first)
  PROVE  n \in Met(first)'
<1> SUFFICES ASSUME NEW nodes \in SUBSET Pointer, first \in nodes, Closed(nodes)'
             PROVE  n \in nodes
  BY PointerTypes DEF Met
<1> DEFINE more == nodes \cup {nowhere}
<1>1. more \in SUBSET Pointer /\ first \in more /\ nowhere \notin Task
  BY PointerTypes
<1>2. Closed(more)
  <2> SUFFICES ASSUME NEW m \in more \cap Task PROVE node[m].next \in more
    BY DEF Closed
  <2>1. m = t \/ node'[m].next = node[m].next
    OBVIOUS
  <2>2. m \in nodes \cap Task
    BY <1>1
  <2>3. node'[m].next \in nodes
    BY <2>2 DEF Closed
  <2> QED
    BY <2>1, <2>3
<1>3. n \in more
  BY <1>1, <1>2 DEF Met
<1> QED
  BY <1>1, <1>3

LEMMA MetFirst ==
  ASSUME NEW first \in Pointer
  PROVE  first \in Met(first)
BY DEF Met

\* The walk of a list of whole nodes meets no garbage.
LEMMA WalkIsClean ==
  ASSUME NEW first \in Task \cup {NULL},
         \A n \in Task : node[n].next \in Task \cup {NULL}
  PROVE  "garbage" \notin Met(first)
<1>1. Task \cup {NULL} \in SUBSET Pointer
  BY PointerTypes
<1>2. Closed(Task \cup {NULL})
  BY PointerTypes DEF Closed
<1> QED
  BY <1>1, <1>2, PointerTypes DEF Met

\* The steps that make nodes, take the head, or do neither.
LEMMA StepNodes ==
  ASSUME Next
  PROVE  \/ \E t \in Task : AllocateNode(t) \/ FillNode(t) \/ LoseList(t)
         \/ Clear
         \/ UNCHANGED <<node, head>>
BY DEF Next, Step, list, Call, Enter, Leave, Crash, LeaveEarly, Attach, SecondUnlock,
   FindTable, ReadCursor, MoveCursor, StoreTable, OpenTable, Probe, SetFlag, CopyWord

LEMMA StepNodeTypes == RaceTypes /\ NodeTypes /\ [Next]_vars => NodeTypes'
<1> SUFFICES ASSUME RaceTypes, NodeTypes, Next PROVE NodeTypes'
  BY DEF NodeTypes, vars
<1>1. ASSUME NEW t \in Task, AllocateNode(t) PROVE NodeTypes'
  BY <1>1, PointerTypes DEF AllocateNode, NodeTypes
<1>2. ASSUME NEW t \in Task, FillNode(t) PROVE NodeTypes'
  <2>1. head \in Task \cup {NULL} /\ handler[t].temp \in Task \cup {NULL}
    BY DEF RaceTypes, Rest, Local
  <2>2. PICK n \in {t, head}, m \in {t, head} :
           IF NULL \in {n, m} THEN UNCHANGED node
           ELSE node' = [node EXCEPT ![n].process = t, ![m].next = handler[t].temp]
    BY <1>2 DEF FillNode
  <2> DEFINE some == [node EXCEPT ![n].process = t]
             all == [some EXCEPT ![m].next = handler[t].temp]
  <2>3. CASE NULL \notin {n, m}
    <3>1. n \in Task /\ m \in Task
      BY <2>1, <2>3
    <3>2. some \in [Task -> Node]
      BY <3>1, PointerTypes DEF NodeTypes, Node
    <3>3. node' = all
      BY <2>2, <2>3
    <3> HIDE DEF some
    <3>4. all \in [Task -> Node]
      BY <2>1, <3>1, <3>2, PointerTypes DEF Node
    <3> QED
      BY <3>3, <3>4 DEF NodeTypes
  <2> QED
    BY <2>2, <2>3 DEF NodeTypes
<1>3. ASSUME UNCHANGED node PROVE NodeTypes'
  BY <1>3 DEF NodeTypes
<1> QED
  BY <1>1, <1>2, <1>3, StepNodes DEF LoseList, Clear

LEMMA StepUnmade == RaceTypes /\ Untouched /\ Unmade /\ [Next]_vars => Unmade'
<1> SUFFICES ASSUME RaceTypes, Untouched, Unmade, Next, ~ cleared', calls' = FreshCalls
             PROVE  \A t \in Task : node'[t] = Unlinked
  BY DEF Unmade, vars
<1>1. ~ cleared /\ calls \in Int /\ FreshCalls \in Nat
  BY RaceAssumption DEF Next, Step, Clear, RaceTypes, Rest, course, Call, Enter, Leave, Crash,
     LeaveEarly, Attach, AllocateNode, LoseList, FillNode, SecondUnlock, FindTable, ReadCursor,
     MoveCursor, StoreTable, OpenTable, Probe, SetFlag, CopyWord
<1>2. ASSUME NEW t \in Task, Call(t) PROVE FALSE
  <2>1. calls <= FreshCalls /\ calls' = calls - 1
    BY <1>1, <1>2 DEF Untouched, Call
  <2> QED
    BY <1>1, <2>1
<1>3. ASSUME NEW t \in Task, Enter(t) \/ Step(t) PROVE FALSE
  <2>1. handler[t].at # "idle" /\ calls' = calls
    BY <1>3, StepsAreOfCalls
  <2> QED
    BY <1>1, <2>1 DEF Untouched
<1>4. ~ Clear
  BY DEF Clear
<1> QED
  BY <1>2, <1>3, <1>4 DEF Next

LEMMA InitLists == Init => NodeTypes /\ Unmade /\ Listed
<1> SUFFICES ASSUME Init PROVE NodeTypes /\ Unmade /\ Listed
  OBVIOUS
<1>1. RaceTypes /\ \A t \in Task : handler[t].at = "idle"
  BY InitStarts
<1>2. ASSUME NEW mask, FreshInit(mask) PROVE NodeTypes /\ Unmade /\ Listed
  <2>1. node = [t \in Task |-> Unlinked]
    BY <1>2 DEF FreshInit
  <2> QED
    BY <1>1, <2>1, PointerTypes DEF NodeTypes, Unmade, Listed, NodesHooked, NodesUnmade,
       NodesGarbage, NodesWhole, HeadMeets, TempMeets
<1>3. ASSUME NEW mask, SharedInit(mask) PROVE NodeTypes /\ Unmade /\ Listed
  <2> DEFINE t == CHOOSE u \in Task : TRUE
             h == CHOOSE g \in Hook : TRUE
             own == [process |-> t, next |-> NULL]
  <2>1. t \in Task
    BY RaceAssumption
  <2>2. h \in Hook
    <3>1. Cardinality(Hook) # 0
      BY RaceAssumption, FS_EmptySet, FS_CardinalityType
    <3> QED
      BY <3>1, FS_EmptySet
  <2>3. /\ \A u \in Task : seccomp[u] = [Filtered(mask) EXCEPT !.draco_hook = h]
        /\ head = t /\ cleared
        /\ node = [u \in Task |-> IF u = t THEN own ELSE Unlinked]
    BY <1>3 DEF SharedInit
  <2> HIDE DEF t, h
  <2>4. own \in Node /\ own.process = t /\ own.next = NULL
    BY <2>1, PointerTypes DEF Node
  <2> HIDE DEF own
  <2>5. NodeTypes
    BY <2>3, <2>4, PointerTypes DEF NodeTypes
  <2>6. \A u \in Task : Hooked(u) # NULL
    <3>1. ASSUME NEW u \in Task PROVE Hooked(u) = h
      <4>1. seccomp[u] \in Struct /\ seccomp[u] = [Filtered(mask) EXCEPT !.draco_hook = h]
        BY <1>1, <2>3 DEF RaceTypes
      <4>2. DOMAIN seccomp[u] = DOMAIN Filtered(mask)
        BY <4>1
      <4>3. "draco_hook" \in DOMAIN Filtered(mask)
        BY <4>1, <4>2 DEF Struct
      <4> QED
        BY <4>1, <4>3 DEF Hooked
    <3> QED
      BY <2>2, <3>1, RaceConstants
  <2>7. t \in Met(head)
    BY <2>1, <2>3, PointerTypes, MetFirst
  <2>8. Listed
    BY <1>1, <2>1, <2>3, <2>4, <2>6, <2>7 DEF Listed, NodesHooked, NodesUnmade,
       NodesGarbage, NodesWhole, HeadMeets, TempMeets
  <2> QED
    BY <2>3, <2>5, <2>8 DEF Unmade
<1> QED
  BY <1>2, <1>3 DEF Init

\* A handler that links stays where it is or goes on with its node.
LEMMA LinkerOn ==
  ASSUME RaceTypes, Next, NEW t \in Task
  PROVE  /\ handler[t].at = "node" => Still(t) \/ AllocateNode(t) \/ LoseList(t)
         /\ handler[t].at = "fill" => Still(t) \/ FillNode(t)
BY OneMoves DEF Step, At, Call, Enter, Leave, Crash, LeaveEarly, Attach, AllocateNode,
   LoseList, FillNode, SecondUnlock, FindTable, ReadCursor, MoveCursor, StoreTable,
   OpenTable, Probe, SetFlag, CopyWord

\* A block stays.
LEMMA HooksStay ==
  ASSUME RaceTypes, Next, NEW t \in Task, Hooked(t)' = NULL
  PROVE  Hooked(t) = NULL
<1>1. CASE Attach(t)
  <2>1. Fits(t)' /\ handler'[t].at = "node"
    BY <1>1, AttachFits
  <2> QED
    BY <2>1 DEF Fits
<1>2. ASSUME NEW u \in Task, u # t, Attach(u) PROVE Hooked(t) = NULL
  BY <1>2, AttachFits DEF Hooked
<1>3. ASSUME NEW u \in Task, Call(u) \/ Enter(u) \/ Step(u), ~ Attach(u)
      PROVE  Hooked(t) = NULL
  <2>1. UNCHANGED seccomp
    BY <1>3, LockingFits, LinkingFits, DrawingFits, LookupFits DEF Step
  <2> QED
    BY <2>1 DEF Hooked
<1>4. CASE Clear
  BY <1>4 DEF Clear, Hooked
<1> QED
  BY <1>1, <1>2, <1>3, <1>4 DEF Next

LEMMA StepListed ==
  RaceTypes /\ NodeTypes /\ Untouched /\ Unmade /\ Linked /\ Listed /\ [Next]_vars => Listed'
<1>1. ASSUME Listed, UNCHANGED vars PROVE Listed'
  <2>1. UNCHANGED <<handler, seccomp, node, head, mishap>>
    BY <1>1 DEF vars
  <2> QED
    BY <1>1, <2>1 DEF Listed, Survives, Hooked, Met, Closed, NodesHooked, NodesUnmade,
       NodesGarbage, NodesWhole, HeadMeets, TempMeets
<1> SUFFICES ASSUME RaceTypes, NodeTypes, Untouched, Unmade, Linked, Listed, Next,
                    Survives({"link", "node", "clear"})'
             PROVE  (/\ NodesHooked /\ NodesUnmade /\ NodesGarbage /\ NodesWhole
                     /\ HeadMeets /\ TempMeets)'
  BY <1>1 DEF Listed
<1>2. /\ NodesHooked /\ NodesUnmade /\ NodesGarbage /\ NodesWhole
      /\ HeadMeets /\ TempMeets
  BY Survived DEF Listed
<1>3. /\ \A t, u \in Task : handler[t].at \in Linking /\ handler[u].at \in Linking => t = u
      /\ \A t \in Task : handler[t].at = "fill" => head = t
      /\ Survives({"link", "clear"})'
  <2>1. Survives({"link", "clear"}) /\ Survives({"link", "clear"})'
    BY Survived DEF Survives
  <2> QED
    BY <2>1 DEF Linked, At
<1>4. handler \in [Task -> Local] /\ node \in [Task -> Node] /\ head \in Task \cup {NULL}
  BY DEF RaceTypes, Rest, NodeTypes
<1>5. \A t \in Task : Hooked(t)' = NULL => Hooked(t) = NULL
  BY HooksStay
<1>6. CASE Clear
  <2>1. /\ \A t \in Task : handler'[t].at = "idle"
        /\ node' = node
    BY <1>3, <1>6, ClearFinds DEF Clear
  <2>2. \A t \in Task : node[t] = Unlinked
    <3>1. ~ (calls < FreshCalls)
      BY <1>3, <1>6, NotNoted DEF Clear
    <3>2. ~ cleared /\ calls \in Int /\ FreshCalls \in Nat
      BY <1>6, RaceAssumption DEF Clear, RaceTypes, Rest
    <3> QED
      BY <3>1, <3>2 DEF Untouched, Unmade
  <2> QED
    BY <2>1, <2>2 DEF NodesHooked, NodesUnmade, NodesGarbage, NodesWhole, HeadMeets, TempMeets
<1>7. ASSUME NEW t \in Task, AllocateNode(t)
      PROVE  (/\ NodesHooked /\ NodesUnmade /\ NodesGarbage /\ NodesWhole
              /\ HeadMeets /\ TempMeets)'
  <2>1. /\ handler[t].at = "node" /\ head' = t /\ node' = [node EXCEPT ![t] = Garbage]
        /\ UNCHANGED seccomp /\ Goto(t, "fill")
    BY <1>7 DEF AllocateNode, At
  <2>2. Alone(t) /\ handler'[t].at = "fill"
    BY <1>4, <2>1, GotoDoes DEF Place
  <2>3. handler'[t].temp = handler[t].temp
    BY <1>4, <2>1 DEF Goto, Local
  <2>4. node'[t] = Garbage /\ \A u \in Task : u # t => node'[u] = node[u]
    BY <1>4, <2>1
  <2>5. node[t] = Unlinked /\ handler[t].temp = head
    BY <1>2, <2>1 DEF NodesUnmade
  <2>6. \A u \in Task : u # t => handler'[u] = handler[u] /\ handler[u].at \notin Linking
    BY <1>3, <2>1, <2>2 DEF Alone, Linking
  <2>7. NodesHooked'
    <3>1. Hooked(t)' # NULL
      BY <2>2, StepFits DEF Fits
    <3> QED
      BY <1>2, <1>5, <2>4, <3>1 DEF NodesHooked
  <2>8. NodesUnmade' /\ NodesGarbage' /\ NodesWhole'
    BY <1>2, <2>2, <2>4, <2>6 DEF NodesUnmade, NodesGarbage, NodesWhole, Linking
  <2>9. HeadMeets'
    BY <2>2 DEF HeadMeets
  <2>10. ASSUME NEW first, first = handler[t].temp, NEW u \in Task \ {t}, node'[u] # Unlinked
         PROVE  u \in Met(first)'
    <3>1. \A v \in Task : handler[v].at # "fill"
      BY <2>1, <2>6 DEF Linking
    <3>2. u \in Met(first)
      BY <1>2, <2>4, <2>5, <2>10, <3>1 DEF HeadMeets
    <3>3. node[t].next = NULL
      BY <2>5, PointerTypes
    <3> QED
      BY <2>4, <2>10, <3>2, <3>3, MetStays
  <2>11. TempMeets'
    BY <2>2, <2>3, <2>6, <2>10 DEF TempMeets, Linking
  <2> QED
    BY <2>7, <2>8, <2>9, <2>11
<1>8. ASSUME NEW t \in Task, FillNode(t)
      PROVE  (/\ NodesHooked /\ NodesUnmade /\ NodesGarbage /\ NodesWhole
              /\ HeadMeets /\ TempMeets)'
  <2> DEFINE own == [process |-> t, next |-> handler[t].temp]
  <2>1. /\ handler[t].at = "fill" /\ head = t /\ head' = t /\ UNCHANGED seccomp
    BY <1>3, <1>8 DEF FillNode, At
  <2>2. /\ node' = [node EXCEPT ![t].process = t, ![t].next = handler[t].temp]
        /\ Goto(t, "unlock")
    BY <1>8, <2>1, PointerTypes DEF FillNode
  <2>3. Alone(t) /\ handler'[t].at = "unlock"
    BY <1>4, <2>2, GotoDoes DEF Place
  <2>4. node'[t] = own /\ \A u \in Task : u # t => node'[u] = node[u]
    <3>1. node[t] \in Node
      BY <1>4
    <3>2. node'[t] = [node[t] EXCEPT !.process = t, !.next = handler[t].temp]
      BY <1>4, <2>2
    <3>3. node'[t] = own
      BY <3>1, <3>2 DEF Node
    <3> QED
      BY <1>4, <2>2, <3>3
  <2>5. /\ own.process = t /\ own.next = handler[t].temp /\ own # Unlinked
        /\ handler[t].temp \in Task \cup {NULL}
    BY <1>4, PointerTypes DEF Local, Unlinked
  <2> HIDE DEF own
  <2>6. \A u \in Task : u # t => handler'[u] = handler[u] /\ handler[u].at \notin Linking
    BY <1>3, <2>1, <2>3 DEF Alone, Linking
  <2>7. NodesHooked'
    <3>1. Hooked(t)' # NULL
      BY <2>3, StepFits DEF Fits
    <3> QED
      BY <1>2, <1>5, <2>4, <3>1 DEF NodesHooked
  <2>8. NodesUnmade' /\ NodesGarbage' /\ NodesWhole'
    BY <1>2, <2>3, <2>4, <2>5, <2>6 DEF NodesUnmade, NodesGarbage, NodesWhole, Linking
  <2>9. ASSUME NEW first, first = handler[t].temp, NEW u \in Task, node'[u] # Unlinked
        PROVE  u \in Met(t)'
    <3>1. CASE u = t
      <4>1. Pointer' = Pointer /\ t \in Pointer
        BY PointerTypes DEF Pointer
      <4> QED
        BY <3>1, <4>1 DEF Met
    <3>2. CASE u # t
      <4>1. u \in Met(first)
        BY <1>2, <2>1, <2>4, <2>9, <3>2 DEF TempMeets
      <4>2. node[t].next = "garbage"
        BY <1>2, <2>1, PointerTypes DEF NodesGarbage
      <4>3. u \in Met(first)'
        BY <2>4, <4>1, <4>2, MetStays
      <4>4. node'[t].next = first
        BY <2>4, <2>5, <2>9
      <4> QED
        BY <4>3, <4>4 DEF Met, Closed
    <3> QED
      BY <3>1, <3>2
  <2>10. HeadMeets' /\ TempMeets'
    BY <2>1, <2>3, <2>6, <2>9 DEF HeadMeets, TempMeets, Linking
  <2> QED
    BY <2>7, <2>8, <2>10
<1>9. ASSUME NEW t \in Task, LoseList(t) PROVE FALSE
  BY <1>9 DEF LoseList, Survives
<1>10. ASSUME UNCHANGED <<node, head>>,
              \A t \in Task : ~ AllocateNode(t) /\ ~ FillNode(t) /\ ~ LoseList(t)
       PROVE  (/\ NodesHooked /\ NodesUnmade /\ NodesGarbage /\ NodesWhole
               /\ HeadMeets /\ TempMeets)'
  <2>1. \A t \in Task : handler'[t].at = "fill" <=> handler[t].at = "fill"
    BY <1>10, LinkerOn, LinkingOn, StepGoes DEF Still, Linking
  <2>2. \A t \in Task : handler'[t].at = "fill" => handler'[t] = handler[t]
    BY <1>10, LinkingOn, StepGoes DEF Still, Linking
  <2>3. ASSUME NEW t \in Task, handler'[t].at = "node"
        PROVE  node'[t] = Unlinked /\ handler'[t].temp = head'
    <3>1. CASE Still(t)
      BY <1>2, <1>10, <2>3, <3>1 DEF Still, NodesUnmade
    <3>2. CASE Attach(t)
      <4>1. Hooked(t) = NULL
        BY <3>2 DEF Attach, At, RaceTypes, Fits
      <4>2. handler'[t].temp = head
        BY <1>4, <3>2 DEF Attach, Local
      <4> QED
        BY <1>2, <1>10, <4>1, <4>2 DEF NodesHooked
    <3> QED
      BY <1>10, <2>3, <3>1, <3>2, LinkingOn DEF Linking
  <2>4. NodesHooked' /\ NodesUnmade' /\ NodesGarbage' /\ NodesWhole'
    BY <1>2, <1>5, <1>10, <2>1, <2>3 DEF NodesHooked, NodesUnmade, NodesGarbage, NodesWhole
  <2>5. HeadMeets'
    BY <1>2, <1>10, <2>1 DEF HeadMeets, Met, Closed
  <2>6. TempMeets'
    BY <1>2, <1>10, <2>1, <2>2 DEF TempMeets, Met, Closed
  <2> QED
    BY <2>4, <2>5, <2>6
<1> QED
  BY <1>6, <1>7, <1>8, <1>9, <1>10, StepNodes

\* Whenever nobody is linking, rmmod's walk meets every task that attached
\* itself, and no half-made node, for any number of tasks, unless two
\* attachments overlapped, a node could not be had or the list was cleared late.
THEOREM ListIsComplete == Spec => []ListComplete
<1>1. RaceTypes /\ Listed => ListComplete
  <2> SUFFICES ASSUME RaceTypes, Listed, Survives({"link", "node", "clear"}),
                      \A t \in Task : ~ At(t, Linking)
               PROVE  /\ \A t \in Task : node[t] # Unlinked =>
                            t \in Met(head) /\ node[t].process = t
                      /\ "garbage" \notin Met(head)
    BY DEF ListComplete
  <2>1. \A t \in Task : handler[t].at # "fill"
    BY DEF At, Linking
  <2>2. \A t \in Task : node[t] # Unlinked => t \in Met(head) /\ node[t].process = t
    BY <2>1 DEF Listed, HeadMeets, NodesWhole
  <2>3. \A t \in Task : node[t].next \in Task \cup {NULL}
    BY <2>1, PointerTypes DEF Listed, NodesWhole
  <2> QED
    BY <2>2, <2>3, WalkIsClean DEF RaceTypes, Rest
<1>2. Init => Linked
  BY InitStarts DEF Linked, At, Linking
<1> QED
  BY <1>1, <1>2, InitLists, StepLinked, StepNodeTypes, StepUnmade, StepListed, AlwaysTypes,
     AlwaysUntouched, PTL DEF Spec

=============================================================================
