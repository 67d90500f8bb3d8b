------------------------- MODULE SecureComputingProofs --------------------------
(***************************************************************************)
(* Proofs about SecureComputing, for any program: any rules, any tasks and *)
(* any sizes of the tables.  To the module underneath, every step of       *)
(* libseccomp is a change of profiles or nothing at all, so what           *)
(* DracoModuleProofs shows of the module holds here as well.               *)
(***************************************************************************)
EXTENDS SecureComputing, DracoModuleProofs

-----------------------------------------------------------------------------
(* The steps of libseccomp, seen from the module.                          *)

LEMMA ArgPositionType ==
  ASSUME NEW r \in Rule
  PROVE  ArgPosition(r) \in Mask /\ SignBit \notin ArgPosition(r)
BY RuleAssumption DEF ArgPosition, Mask

LEMMA RuleAddChanges ==
  ASSUME AllSound, NEW t \in Task, NEW r \in Rule, NEW taken, RuleAdd(t, r, taken)
  PROVE  ProfilesChange /\ ModuleSame
<1>1. ModuleSame
  BY DEF RuleAdd, ModuleSame
<1>2. CASE r.syscall \in Syscall
  <2> DEFINE s == r.syscall
             new == AddSeccomp(seccomp[t], s, ArgPosition(r))
  <2>1. seccomp' = [seccomp EXCEPT ![t] = new] /\ MayPrctl(t)
    BY <1>2 DEF RuleAdd
  <2>2. seccomp[t] \in Struct /\ Sound(seccomp[t])
    BY DEF AllSound
  <2>3. Sound(new)
    BY <1>2, <2>2, ArgPositionType, AddSound
  <2>4. new.draco_hook = seccomp[t].draco_hook /\ new.mode = seccomp[t].mode
    BY <1>2, <2>2, AddKeepsHook
  <2> HIDE DEF new
  <2>5. AllSound'
    BY <2>1, <2>3, UpdateSound
  <2>6. ProfilesChange
    BY <2>1, <2>4, <2>5, OneProfileChanges DEF MayPrctl
  <2> QED
    BY <1>1, <2>6
<1>3. CASE r.syscall \notin Syscall
  <2>1. seccomp' = seccomp
    BY <1>3 DEF RuleAdd
  <2> QED
    BY <1>1, <2>1 DEF ProfilesChange, AllSound, Kept
<1> QED
  BY <1>2, <1>3

\* What a load leaves of the structure of task u.
Loaded(t, u) == IF u = t THEN LoadSeccomp(seccomp[u]) ELSE seccomp[u]

LEMMA LoadedSound ==
  ASSUME AllSound, NEW t \in Task, NEW u \in Task
  PROVE  /\ Loaded(t, u) \in Struct
         /\ Sound(Loaded(t, u))
         /\ Loaded(t, u).draco_hook = seccomp[u].draco_hook
         /\ Loaded(t, u).mode = seccomp[u].mode
<1>1. seccomp[u] \in Struct /\ Sound(seccomp[u])
  BY DEF AllSound
<1>2. CASE u = t
  BY <1>1, <1>2, LoadSound, LoadFields DEF Loaded, Sound
<1>3. CASE u # t
  BY <1>1, <1>3 DEF Loaded
<1> QED
  BY <1>2, <1>3

LEMMA SetMode ==
  ASSUME NEW sec \in Struct
  PROVE  LET new == [sec EXCEPT !.mode = "filter"] IN
         /\ new.mode = "filter"
         /\ new.draco_hook = sec.draco_hook
         /\ SameProfile(sec, new)
         /\ sec.mode = "filter" => new = sec
BY DEF Struct, SameProfile

LEMMA FilterLoadChanges ==
  ASSUME AllSound, NEW t \in Task, FilterLoad(t)
  PROVE  ProfilesChange /\ ModuleSame
<1>1. ModuleSame
  BY DEF FilterLoad, ModuleSame
<1>2. /\ seccomp' = [u \in Task |->
            IF u \in Receivers(t) THEN [Loaded(t, u) EXCEPT !.mode = "filter"]
            ELSE Loaded(t, u)]
      /\ MayPrctl(t)
  BY DEF FilterLoad, Loaded
<1>3. ASSUME NEW u \in Task PROVE Sound(seccomp'[u]) /\ Kept(u)
  <2>1. /\ Loaded(t, u) \in Struct
        /\ Sound(Loaded(t, u))
        /\ Loaded(t, u).draco_hook = seccomp[u].draco_hook
        /\ Loaded(t, u).mode = seccomp[u].mode
    BY LoadedSound
  <2>2. seccomp[u].mode = "filter" /\ ~ MayReload => Loaded(t, u) = seccomp[u]
    BY <1>2 DEF MayPrctl, Loaded
  <2>3. CASE u \in Receivers(t)
    <3>1. seccomp'[u] = [Loaded(t, u) EXCEPT !.mode = "filter"]
      BY <1>2, <2>3
    <3>2. Sound(seccomp'[u])
      BY <2>1, <3>1, SetModeSound
    <3>3. Kept(u)
      BY <2>1, <2>2, <3>1, SetMode DEF Kept
    <3> QED
      BY <3>2, <3>3
  <2>4. CASE u \notin Receivers(t)
    <3>1. seccomp'[u] = Loaded(t, u)
      BY <1>2, <2>4
    <3> QED
      BY <2>1, <2>2, <3>1 DEF Kept
  <2> QED
    BY <2>3, <2>4
<1>4. seccomp' \in [Task -> Struct]
  BY <1>2, <1>3 DEF Sound
<1> QED
  BY <1>1, <1>3, <1>4 DEF ProfilesChange, AllSound

LEMMA FilterLoadFailsChanges ==
  ASSUME AllSound, NEW t \in Task, FilterLoadFails(t)
  PROVE  ProfilesChange /\ ModuleSame
<1>1. ModuleSame
  BY DEF FilterLoadFails, ModuleSame
<1>2. seccomp' = [seccomp EXCEPT ![t] = LoadSeccomp(seccomp[t])] /\ MayPrctl(t)
  BY DEF FilterLoadFails
<1>3. Sound(seccomp[t]) /\ seccomp[t] \in Struct
  BY DEF AllSound
<1>4. /\ Sound(LoadSeccomp(seccomp[t]))
      /\ LoadSeccomp(seccomp[t]).draco_hook = seccomp[t].draco_hook
      /\ LoadSeccomp(seccomp[t]).mode = seccomp[t].mode
  BY <1>3, LoadSound, LoadFields
<1>5. AllSound'
  BY <1>2, <1>4, UpdateSound
<1> QED
  BY <1>1, <1>2, <1>4, <1>5, OneProfileChanges DEF MayPrctl

LEMMA SCForkChanges ==
  ASSUME AllSound, NEW t \in Task, NEW u \in Task, SCFork(t, u)
  PROVE  ProfilesChange /\ ModuleSame
<1>1. Fork(t, u) /\ ModuleSame
  BY DEF SCFork, ModuleSame
<1>2. ProfileNext
  BY <1>1 DEF ProfileNext
<1> QED
  BY <1>1, <1>2, ProfileNextChanges

\* The module makes a step of its own or none.
LEMMA SCNextSteps ==
  ASSUME TypeOK, AllSound, SCNext
  PROVE  Steps \/ UNCHANGED vars
<1>1. ASSUME NEW t \in Task, NEW r \in Rule, NEW taken, RuleAdd(t, r, taken)
      PROVE  Steps
  BY <1>1, RuleAddChanges DEF Steps
<1>2. ASSUME NEW t \in Task, FilterReset(t) PROVE UNCHANGED vars
  BY <1>2 DEF FilterReset
<1>3. ASSUME NEW t \in Task, FilterLoad(t) PROVE Steps
  BY <1>3, FilterLoadChanges DEF Steps
<1>4. ASSUME NEW t \in Task, FilterLoadFails(t) PROVE Steps
  BY <1>4, FilterLoadFailsChanges DEF Steps
<1>5. ASSUME NEW t \in Task, NEW s, NEW regs \in Regs, SystemCall(t, s, regs)
      PROVE  Steps
  BY <1>5, HandleSteps DEF SystemCall
<1>6. ASSUME NEW t, NEW s, NEW regs, SystemCallUnchecked(t, s, regs)
      PROVE  UNCHANGED vars
  BY <1>6 DEF SystemCallUnchecked
<1>7. ASSUME NEW t \in Task, NEW u \in Task, SCFork(t, u) PROVE Steps
  BY <1>7, SCForkChanges DEF Steps
<1>8. CASE DracoInit \/ DracoExit
  BY <1>8 DEF Steps
<1> QED
  BY <1>1, <1>2, <1>3, <1>4, <1>5, <1>6, <1>7, <1>8 DEF SCNext

LEMMA SCStepInv == MInv /\ [SCNext]_scVars => MInv'
<1>1. MInv /\ SCNext => MInv'
  BY SCNextSteps, StepsInv, StutterInv DEF MInv
<1>2. UNCHANGED scVars => UNCHANGED vars
  BY DEF scVars
<1> QED
  BY <1>1, <1>2, StutterInv

LEMMA SCAlwaysInv == SCSpec => []MInv
<1>1. SCInit => MInv
  BY InitInv DEF SCInit
<1> QED
  BY <1>1, SCStepInv, PTL DEF SCSpec

\* The module keeps its promises under every program.  No two caches share a
\* table:
THEOREM SCPoolIsOwned == SCSpec => []PoolOwned
BY SCAlwaysInv, PTL DEF MInv

\* no probe misses a row, when profiles are built once;
THEOREM SCBucketsAreSound ==
  ASSUME MayReload = FALSE PROVE SCSpec => []BucketsSound
<1>1. MInv => BucketsSound
  BY MInvBuckets
<1> QED
  BY <1>1, SCAlwaysInv, PTL

\* no table loses a row while the module is loaded;
THEOREM SCRowsAlwaysStay == SCSpec => RowsStay
<1>1. MInv /\ [SCNext]_scVars => [RowsKept]_vars
  BY SCNextSteps, StepsKeepRows DEF MInv, scVars
<1> QED
  BY <1>1, SCAlwaysInv, PTL DEF SCSpec, RowsStay, RowsKept

\* and, when profiles are built once, the module implements the memo.
THEOREM SCImplementsMemo ==
  ASSUME MayReload = FALSE PROVE SCSpec => MemoSpec
<1>1. SCInit => Memo!MemoInit
  BY InitMemo DEF SCInit
<1>2. MInv /\ [SCNext]_scVars => MemoStep
  BY SCNextSteps, StepsAreMemoSteps, StutterMemo DEF MInv, scVars
<1> QED
  BY <1>1, <1>2, SCAlwaysInv, PTL DEF SCSpec, MemoSpec, Memo!MemoSpec, MemoStep

-----------------------------------------------------------------------------
(* Types.                                                                  *)

LEMMA VerdictType ==
  ASSUME NEW t, NEW s, NEW regs
  PROVE  Verdict(t, s, regs) \in Action
BY DEF Verdict, Action

SCTypes ==
    /\ rules \in [Task -> SUBSET Rule]
    /\ filters \in [Task -> SUBSET SUBSET Rule]
    /\ killed \in SUBSET Task
    /\ outcome \in [action : Action, due : Action] \cup {NoOutcome}

LEMMA SettleTypes ==
  ASSUME SCTypes, NEW t \in Task, NEW s, NEW regs, NEW checked,
         Settle(t, s, regs, checked)
  PROVE  SCTypes'
<1> DEFINE due == Verdict(t, s, regs)
           action == IF checked THEN "allow" ELSE due
<1>1. due \in Action /\ action \in Action
  BY VerdictType DEF Action
<1>2. /\ outcome' = [action |-> action, due |-> due]
      /\ killed' = IF action = "kill" THEN killed \cup {t} ELSE killed
      /\ UNCHANGED <<rules, filters>>
  BY DEF Settle
<1> HIDE DEF due, action
<1> QED
  BY <1>1, <1>2 DEF SCTypes

LEMMA SCStepTypes == SCTypes /\ [SCNext]_scVars => SCTypes'
<1> SUFFICES ASSUME SCTypes, SCNext PROVE SCTypes'
  BY DEF SCTypes, scVars
<1>1. ASSUME NEW t \in Task, NEW r \in Rule, NEW taken, RuleAdd(t, r, taken)
      PROVE  SCTypes'
  BY <1>1 DEF SCTypes, RuleAdd
<1>2. ASSUME NEW t \in Task, FilterReset(t) PROVE SCTypes'
  BY <1>2 DEF SCTypes, FilterReset
<1>3. ASSUME NEW t \in Task, FilterLoad(t) PROVE SCTypes'
  BY <1>3 DEF SCTypes, FilterLoad
<1>4. ASSUME NEW t \in Task, FilterLoadFails(t) PROVE SCTypes'
  BY <1>4 DEF SCTypes, FilterLoadFails
<1>5. ASSUME NEW t \in Task, NEW s, NEW regs, SystemCall(t, s, regs)
      PROVE  SCTypes'
  BY <1>5, SettleTypes DEF SystemCall
<1>6. ASSUME NEW t \in Task, NEW s, NEW regs, SystemCallUnchecked(t, s, regs)
      PROVE  SCTypes'
  BY <1>6, SettleTypes DEF SystemCallUnchecked
<1>7. ASSUME NEW t \in Task, NEW u \in Task, SCFork(t, u) PROVE SCTypes'
  BY <1>7 DEF SCTypes, SCFork
<1>8. CASE UNCHANGED <<rules, filters, killed, outcome>>
  BY <1>8 DEF SCTypes
<1> QED
  BY <1>1, <1>2, <1>3, <1>4, <1>5, <1>6, <1>7, <1>8 DEF SCNext

LEMMA SCAlwaysTypes == SCSpec => []SCTypes
<1>1. SCInit => SCTypes
  BY DEF SCInit, SCTypes
<1> QED
  BY <1>1, SCStepTypes, PTL DEF SCSpec

\* Whatever rules a program adds, loads, resets or inherits, its profile and
\* what the module and the kernel keep stay within their tables.
THEOREM SCTypeCorrect == SCSpec => []SCTypeOK
<1>1. MInv /\ SCTypes => SCTypeOK
  BY DEF MInv, SCTypes, SCTypeOK
<1> QED
  BY <1>1, SCAlwaysInv, SCAlwaysTypes, PTL

-----------------------------------------------------------------------------
(* Keys cover filters, unless filters are loaded for other threads.        *)

\* The registers a filter tells calls apart by are in mask s of structure sec,
\* and in its keys.
MaskCovers(sec, filter) ==
    \A r \in filter : r.syscall \in Syscall =>
        ArgPosition(r) \subseteq sec.arg_position[r.syscall]

KeyCovers(sec, filter) ==
    \A r \in filter : r.syscall \in Syscall =>
        {b + 1 : b \in ArgPosition(r)} \subseteq KeyPositions(sec, r.syscall)

Unsigned(sec) == \A s \in Syscall : SignBit \notin sec.arg_position[s]

\* Of one task: its rules and filters are in its masks, its filters in its keys.
\* (The masks are what makes the next load find them.)
CoveredBy(sec, collection, installed) ==
    /\ Unsigned(sec)
    /\ MaskCovers(sec, collection)
    /\ \A f \in installed : MaskCovers(sec, f) /\ KeyCovers(sec, f)

Covered == \A t \in Task : CoveredBy(seccomp[t], rules[t], filters[t])

LEMMA SameProfileCovers ==
  ASSUME NEW sec, NEW new, SameProfile(sec, new)
  PROVE  /\ Unsigned(sec) => Unsigned(new)
         /\ \A f : MaskCovers(sec, f) => MaskCovers(new, f)
         /\ \A f : KeyCovers(sec, f) => KeyCovers(new, f)
BY DEF SameProfile, Unsigned, MaskCovers, KeyCovers, KeyPositions

\* A rule more.
LEMMA AddCovers ==
  ASSUME NEW sec, Sound(sec), NEW r \in Rule, r.syscall \in Syscall,
         NEW collection, NEW installed, CoveredBy(sec, collection, installed)
  PROVE  CoveredBy(AddSeccomp(sec, r.syscall, ArgPosition(r)),
                   collection \cup {r}, installed)
<1> DEFINE s == r.syscall
           mask == ArgPosition(r)
           new == AddSeccomp(sec, s, mask)
<1>1. mask \in Mask /\ SignBit \notin mask
  BY ArgPositionType
<1>2. /\ new.sys2arguments = sec.sys2arguments
      /\ new.argument_count_table = sec.argument_count_table
  BY <1>1, AddSound
<1>3. \A q \in Syscall : new.arg_position[q] = IF q = s THEN sec.arg_position[q] \cup mask
                                               ELSE sec.arg_position[q]
  <2> DEFINE filled == FillSlot(sec, s)
  <2>1. filled \in Struct /\ filled.arg_position = sec.arg_position
    BY FillSlotSound DEF Sound
  <2>2. new = [filled EXCEPT !.arg_position = [sec.arg_position EXCEPT ![s] = @ \cup mask]]
    BY <2>1 DEF AddSeccomp, Struct
  <2> HIDE DEF filled, new, mask
  <2>3. new.arg_position = [sec.arg_position EXCEPT ![s] = @ \cup mask]
    BY <2>1, <2>2 DEF Struct
  <2>4. sec.arg_position \in [Syscall -> Mask]
    BY DEF Sound, Struct
  <2> QED
    BY <2>3, <2>4
<1> HIDE DEF new
<1>4. Unsigned(new)
  BY <1>1, <1>3 DEF Unsigned, CoveredBy
<1>5. \A f : MaskCovers(sec, f) => MaskCovers(new, f)
  BY <1>3 DEF MaskCovers
<1>6. \A f : KeyCovers(sec, f) => KeyCovers(new, f)
  BY <1>2 DEF KeyCovers, KeyPositions
<1>7. MaskCovers(new, collection \cup {r})
  <2>1. mask \subseteq new.arg_position[s]
    BY <1>3
  <2>2. MaskCovers(new, collection)
    BY <1>5 DEF CoveredBy
  <2> QED
    BY <2>1, <2>2 DEF MaskCovers
<1> QED
  BY <1>4, <1>5, <1>6, <1>7 DEF CoveredBy, new

\* A load: what is in the masks gets into the keys.
LEMMA LoadCovers ==
  ASSUME NEW sec, Sound(sec), NEW collection, NEW installed,
         CoveredBy(sec, collection, installed)
  PROVE  CoveredBy(LoadSeccomp(sec), collection, installed \cup {collection})
<1> DEFINE new == LoadSeccomp(sec)
<1>1. sec \in Struct
  BY DEF Sound
<1>2. Compiled(new) /\ new.arg_position = sec.arg_position
  BY <1>1, LoadSound, LoadFields
<1> HIDE DEF new
<1>3. Unsigned(new) /\ \A f : MaskCovers(sec, f) => MaskCovers(new, f)
  BY <1>2 DEF Unsigned, MaskCovers, CoveredBy
<1>4. ASSUME NEW f, MaskCovers(sec, f) PROVE KeyCovers(new, f)
  <2> SUFFICES ASSUME NEW r \in f, r.syscall \in Syscall
               PROVE  {b + 1 : b \in ArgPosition(r)} \subseteq KeyPositions(new, r.syscall)
    BY DEF KeyCovers
  <2>1. ArgPosition(r) \subseteq new.arg_position[r.syscall]
    BY <1>2, <1>4 DEF MaskCovers
  <2>2. LoadedBits(new.arg_position[r.syscall]) = new.arg_position[r.syscall]
    BY <1>3 DEF LoadedBits, Unsigned
  <2>3. KeyPositions(new, r.syscall) = {b + 1 : b \in new.arg_position[r.syscall]}
    BY <1>2, <2>2 DEF Compiled
  <2> QED
    BY <2>1, <2>3
<1> QED
  BY <1>3, <1>4 DEF CoveredBy, new

\* What a step of the module does to the profiles: a handler, insmod and rmmod
\* change none.
LEMMA HandleProfiles ==
  ASSUME TypeOK, AllSound, NEW t \in Task, NEW s, NEW regs \in Regs,
         Handle(t, s, regs)
  PROVE  \A u \in Task : SameProfile(seccomp[u], seccomp'[u])
<1>1. CASE UNCHANGED seccomp
  BY <1>1 DEF SameProfile
<1>2. ASSUME NEW h \in Hook, Runs(t), Attach(t, h)
      PROVE  \A u \in Task : SameProfile(seccomp[u], seccomp'[u])
  <2>1. Hooked(t, h)
    BY <1>2, AttachHooks DEF TypeOK
  <2> QED
    BY <2>1 DEF Hooked, SameProfile
<1>3. CASE HandleOutOfRange(t, s) \/ HandleProcessFailure(t, s)
  BY <1>1, <1>3 DEF HandleOutOfRange, HandleProcessFailure
<1>4. ASSUME NEW h \in Hook,
             \/ HandleNodeFailure(t, s, h)
             \/ HandlePoolEmpty(t, s, h, regs)
             \/ \E w \in Way : HandleHit(t, s, h, regs, w)
             \/ HandleConflict(t, s, h, regs)
             \/ \E w \in Way : HandleInsert(t, s, h, regs, w)
      PROVE  Runs(t) /\ Attach(t, h)
  BY <1>4 DEF HandleNodeFailure, HandlePoolEmpty, HandleHit, HandleConflict,
              HandleInsert, Lookup
<1> QED
  BY <1>2, <1>3, <1>4 DEF Handle

\* The steps that leave rules, filters and profiles alone.
Idle ==
    /\ UNCHANGED <<rules, filters>>
    /\ \A u \in Task : SameProfile(seccomp[u], seccomp'[u])

LEMMA CallIsIdle ==
  ASSUME TypeOK, AllSound, NEW t \in Task, NEW s, NEW regs \in Regs,
         SystemCall(t, s, regs) \/ SystemCallUnchecked(t, s, regs)
  PROVE  Idle
<1>1. CASE SystemCall(t, s, regs)
  BY <1>1, HandleProfiles DEF SystemCall, Settle, Idle
<1>2. CASE SystemCallUnchecked(t, s, regs)
  BY <1>2 DEF SystemCallUnchecked, Settle, Idle, vars, SameProfile
<1> QED
  BY <1>1, <1>2

LEMMA SwitchIsIdle ==
  ASSUME TypeOK, AllSound, DracoInit \/ DracoExit,
         UNCHANGED <<rules, filters, killed, outcome>>
  PROVE  Idle
BY ExitHooks DEF DracoInit, Idle, SameProfile

LEMMA IdleCovers ==
  ASSUME Covered, Idle
  PROVE  Covered'
BY SameProfileCovers DEF Idle, Covered, CoveredBy

\* One task changes, the others do not.
LEMMA OneCovers ==
  ASSUME Covered, NEW t \in Task,
         \A u \in Task : u # t => /\ seccomp'[u] = seccomp[u]
                                  /\ rules'[u] = rules[u]
                                  /\ filters'[u] = filters[u],
         CoveredBy(seccomp'[t], rules'[t], filters'[t])
  PROVE  Covered'
BY DEF Covered, CoveredBy

LEMMA RuleAddCovers ==
  ASSUME AllSound, SCTypes, Covered, NEW t \in Task, NEW r \in Rule,
         NEW taken \in BOOLEAN, RuleAdd(t, r, taken)
  PROVE  Covered'
<1>1. /\ rules' = IF taken THEN [rules EXCEPT ![t] = @ \cup {r}] ELSE rules
      /\ filters' = filters
      /\ seccomp' = IF r.syscall \in Syscall
                    THEN [seccomp EXCEPT
                            ![t] = AddSeccomp(seccomp[t], r.syscall, ArgPosition(r))]
                    ELSE seccomp
  BY DEF RuleAdd
<1>2. /\ seccomp \in [Task -> Struct] /\ Sound(seccomp[t])
      /\ rules \in [Task -> SUBSET Rule]
      /\ CoveredBy(seccomp[t], rules[t], filters[t])
  BY DEF AllSound, SCTypes, Covered
<1>3. rules'[t] = rules[t] \/ rules'[t] = rules[t] \cup {r}
  BY <1>1, <1>2
<1>4. CoveredBy(seccomp'[t], rules'[t], filters'[t])
  <2>1. CASE r.syscall \in Syscall
    <3> DEFINE new == AddSeccomp(seccomp[t], r.syscall, ArgPosition(r))
    <3>1. CoveredBy(new, rules[t] \cup {r}, filters[t])
      BY <1>2, <2>1, AddCovers
    <3>2. seccomp'[t] = new
      BY <1>1, <1>2, <2>1
    <3> HIDE DEF new
    <3>3. CoveredBy(new, rules[t], filters[t])
      BY <3>1 DEF CoveredBy, MaskCovers
    <3> QED
      BY <1>1, <1>3, <3>1, <3>2, <3>3
  <2>2. CASE r.syscall \notin Syscall
    <3>1. seccomp'[t] = seccomp[t]
      BY <1>1, <2>2
    <3>2. CoveredBy(seccomp[t], rules[t] \cup {r}, filters[t])
      BY <1>2, <2>2 DEF CoveredBy, MaskCovers
    <3> QED
      BY <1>1, <1>2, <1>3, <3>1, <3>2
  <2> QED
    BY <2>1, <2>2
<1>5. \A u \in Task : u # t => /\ seccomp'[u] = seccomp[u]
                               /\ rules'[u] = rules[u]
                               /\ filters'[u] = filters[u]
  BY <1>1, <1>2
<1> QED
  BY <1>4, <1>5, OneCovers

LEMMA LoadStepsCover ==
  ASSUME Tsync = FALSE, AllSound, SCTypes, Covered, NEW t \in Task,
         FilterLoad(t) \/ FilterLoadFails(t)
  PROVE  Covered'
<1> DEFINE new == LoadSeccomp(seccomp[t])
<1>1. /\ seccomp \in [Task -> Struct] /\ Sound(seccomp[t])
      /\ filters \in [Task -> SUBSET SUBSET Rule]
      /\ CoveredBy(seccomp[t], rules[t], filters[t])
  BY DEF AllSound, SCTypes, Covered
<1>2. CoveredBy(new, rules[t], filters[t] \cup {rules[t]})
  BY <1>1, LoadCovers
<1>3. new \in Struct
  BY <1>1, LoadSound DEF Sound
<1>4. CASE FilterLoad(t)
  <2>1. /\ seccomp' = [u \in Task |->
              IF u = t THEN [new EXCEPT !.mode = "filter"] ELSE seccomp[u]]
        /\ filters' = [u \in Task |->
              IF u = t THEN filters[t] \cup {rules[t]} ELSE filters[u]]
        /\ rules' = rules
    BY <1>4 DEF FilterLoad, Receivers
  <2> HIDE DEF new
  <2>2. SameProfile(new, seccomp'[t])
    BY <1>3, <2>1, SetMode
  <2>3. CoveredBy(seccomp'[t], rules[t], filters[t] \cup {rules[t]})
    BY <1>2, <2>2, SameProfileCovers DEF CoveredBy
  <2> QED
    BY <2>1, <2>3, OneCovers
<1>5. CASE FilterLoadFails(t)
  <2>1. seccomp' = [seccomp EXCEPT ![t] = new] /\ UNCHANGED <<rules, filters>>
    BY <1>5 DEF FilterLoadFails
  <2> HIDE DEF new
  <2>2. CoveredBy(new, rules[t], filters[t])
    BY <1>2 DEF CoveredBy
  <2> QED
    BY <1>1, <2>1, <2>2, OneCovers
<1> QED
  BY <1>4, <1>5

LEMMA SCForkCovers ==
  ASSUME AllSound, SCTypes, Covered, NEW t \in Task, NEW u \in Task, SCFork(t, u)
  PROVE  Covered'
<1>1. /\ seccomp' = [seccomp EXCEPT ![u] = seccomp[t]]
      /\ filters' = [filters EXCEPT ![u] = filters[t]]
      /\ rules' = [rules EXCEPT ![u] = rules[t]]
  BY DEF SCFork, Fork
<1>2. /\ seccomp \in [Task -> Struct]
      /\ rules \in [Task -> SUBSET Rule]
      /\ filters \in [Task -> SUBSET SUBSET Rule]
  BY DEF AllSound, SCTypes
<1>3. CoveredBy(seccomp'[u], rules'[u], filters'[u])
  BY <1>1, <1>2 DEF Covered
<1> QED
  BY <1>1, <1>2, <1>3, OneCovers

LEMMA SCStepCovers ==
  ASSUME Tsync = FALSE, TypeOK, AllSound, SCTypes, Covered, [SCNext]_scVars
  PROVE  Covered'
<1>1. ASSUME NEW t \in Task, NEW r \in Rule, NEW taken \in BOOLEAN, RuleAdd(t, r, taken)
      PROVE  Covered'
  BY <1>1, RuleAddCovers
<1>2. ASSUME NEW t \in Task, FilterReset(t) PROVE Covered'
  BY <1>2 DEF FilterReset, vars, SCTypes, Covered, CoveredBy, MaskCovers
<1>3. ASSUME NEW t \in Task, FilterLoad(t) \/ FilterLoadFails(t) PROVE Covered'
  BY <1>3, LoadStepsCover
<1>4. ASSUME NEW t \in Task, NEW s, NEW regs \in Regs,
             SystemCall(t, s, regs) \/ SystemCallUnchecked(t, s, regs)
      PROVE  Covered'
  BY <1>4, CallIsIdle, IdleCovers
<1>5. ASSUME NEW t \in Task, NEW u \in Task, SCFork(t, u) PROVE Covered'
  BY <1>5, SCForkCovers
<1>6. CASE (DracoInit \/ DracoExit) /\ UNCHANGED <<rules, filters, killed, outcome>>
  BY <1>6, SwitchIsIdle, IdleCovers
<1>7. CASE UNCHANGED scVars
  BY <1>7 DEF scVars, vars, Covered
<1> QED
  BY <1>1, <1>2, <1>3, <1>4, <1>5, <1>6, <1>7 DEF SCNext

LEMMA SCInitCovers == SCInit => Covered
<1> SUFFICES ASSUME SCInit PROVE Covered
  OBVIOUS
<1>1. \A t \in Task : seccomp[t] = CleanStruct /\ rules[t] = {} /\ filters[t] = {}
  BY DEF SCInit, Init, ProfileInit
<1>2. Unsigned(CleanStruct)
  BY DEF Unsigned, CleanStruct
<1> QED
  BY <1>1, <1>2 DEF Covered, CoveredBy, MaskCovers

LEMMA SCAlwaysCovered ==
  ASSUME Tsync = FALSE PROVE SCSpec => []Covered
<1>1. MInv /\ SCTypes /\ Covered /\ [SCNext]_scVars => Covered'
  BY SCStepCovers DEF MInv
<1> QED
  BY <1>1, SCInitCovers, SCAlwaysInv, SCAlwaysTypes, PTL DEF SCSpec

\* Unless filters are loaded for other threads, every register a plain
\* comparison of an installed filter looks at is part of the key of its call.
THEOREM KeysAlwaysCover ==
  ASSUME Tsync = FALSE PROVE SCSpec => []KeysCoverFilters
<1>1. Covered => KeysCoverFilters
  BY DEF Covered, CoveredBy, KeyCovers, KeysCoverFilters
<1> QED
  BY <1>1, SCAlwaysCovered, PTL

-----------------------------------------------------------------------------
(* Cached answers are allowed ones.                                        *)

\* Where this is shown.  Each condition is needed: a profile that grows after
\* the first call leaves rows stored under shorter keys; a child goes on
\* using the rows of a parent that was killed for the call that filled the
\* last of them; a filter loaded for another thread comes without its profile;
\* a call refused with an errno is cached all the same and answered the next
\* time; and no key holds a register that only a masked comparison looks at.
Confined ==
    /\ MayReload = FALSE
    /\ MayFork = FALSE
    /\ Tsync = FALSE
    /\ "errno" \notin {RuleAction, DefaultAction}
    /\ \A r \in Rule, p \in Position : r.chain[p].op # "masked"

LEMMA VerdictBinary ==
  ASSUME Confined, NEW t, NEW s, NEW regs
  PROVE  Verdict(t, s, regs) \in {"allow", "kill"}
<1>1. \A f : Result(f, s, regs) # "errno"
  BY DEF Result, Confined
<1> QED
  BY <1>1 DEF Verdict

\* The filters of a task decide by the key of the call.
LEMMA KeyDetermines ==
  ASSUME Confined, AllSound, SCTypes, Covered, NEW t \in Task, NEW s \in Syscall,
         NEW regs \in Regs, NEW other \in Regs, KeyOf(t, s, other) = KeyOf(t, s, regs)
  PROVE  Verdict(t, s, other) = Verdict(t, s, regs)
<1> DEFINE sec == seccomp[t]
           n == sec.argument_count_table[s]
<1>1. \A i \in 1 .. n : GetArgument(other, sec.sys2arguments[s][i])
                          = GetArgument(regs, sec.sys2arguments[s][i])
  <2> SUFFICES ASSUME NEW i \in 1 .. n
               PROVE  GetArgument(other, sec.sys2arguments[s][i])
                        = GetArgument(regs, sec.sys2arguments[s][i])
    OBVIOUS
  <2>1. KeyOf(t, s, other)[i] = GetArgument(other, sec.sys2arguments[s][i])
    BY DEF KeyOf, ArgumentList
  <2>2. KeyOf(t, s, regs)[i] = GetArgument(regs, sec.sys2arguments[s][i])
    BY DEF KeyOf, ArgumentList
  <2> QED
    BY <2>1, <2>2
<1>2. ASSUME NEW f \in filters[t], NEW r \in f, r.syscall = s, NEW p \in Position,
             r.chain[p].op # "none"
      PROVE  other[p] = regs[p]
  <2>1. r \in Rule
    BY DEF SCTypes
  <2>2. r.chain[p].op = "plain"
    BY <1>2, <2>1, RuleAssumption DEF Confined, Comparison
  <2>3. p - 1 \in ArgPosition(r)
    BY <2>2 DEF ArgPosition
  <2>4. KeyCovers(sec, f)
    BY DEF Covered, CoveredBy
  <2>5. (p - 1) + 1 \in KeyPositions(sec, s)
    BY <1>2, <2>3, <2>4 DEF KeyCovers
  <2>6. (p - 1) + 1 = p
    BY ProfileAssumption DEF Position
  <2>7. PICK i \in 1 .. n : sec.sys2arguments[s][i] = p
    BY <2>5, <2>6 DEF KeyPositions
  <2> QED
    BY <1>1, <2>7 DEF GetArgument
<1>3. ASSUME NEW f \in filters[t], NEW r \in f
      PROVE  RuleMatches(r, s, other) <=> RuleMatches(r, s, regs)
  BY <1>2 DEF RuleMatches
<1>4. \A f \in filters[t] : Result(f, s, other) = Result(f, s, regs)
  BY <1>3 DEF Result
<1> QED
  BY <1>4 DEF Verdict

\* Without fork no two tasks share a hook.
HooksApart ==
    \A t, u \in Task : HasHook(t) /\ seccomp[t].draco_hook = seccomp[u].draco_hook => t = u

\* The row of a call of task t with registers regs is in the table of hook h.
IsCached(t, h, s, regs) ==
    TableAt(h, s) # NULL /\ Padded(KeyOf(t, s, regs)) \in Rows(pool[TableAt(h, s)])

\* The rows a running task can match stand for calls its filters allow.
AllowedRows ==
    \A t \in Task \ killed, h \in usable, s \in Syscall, regs \in Regs :
        seccomp[t].draco_hook = h /\ IsCached(t, h, s, regs) =>
            Verdict(t, s, regs) = "allow"

LEMMA ServedApart ==
  ASSUME HooksApart, NEW t \in Task, NEW s, NEW h \in Hook, Served(t, s, h)
  PROVE  HooksApart'
<1> SUFFICES ASSUME NEW u \in Task, NEW v \in Task,
                    HasHook(u)', seccomp'[u].draco_hook = seccomp'[v].draco_hook
             PROVE  u = v
  BY DEF HooksApart
<1>1. CASE HasHook(t)
  <2>1. \A w \in Task : seccomp'[w].draco_hook = seccomp[w].draco_hook
    BY <1>1, ServedProfiles
  <2> QED
    BY <2>1 DEF HooksApart, HasHook
<1>2. CASE ~ HasHook(t) /\ u # t /\ v # t
  BY <1>2, ServedProfiles DEF HooksApart, HasHook
<1>3. CASE ~ HasHook(t) /\ (u = t \/ v = t)
  BY <1>3, ServedProfiles
<1> QED
  BY <1>1, <1>2, <1>3

LEMMA StepsApart ==
  ASSUME MayFork = FALSE, TypeOK, AllSound, HooksApart, Steps
  PROVE  HooksApart'
<1>1. CASE ProfilesChange /\ ModuleSame
  <2>1. \A u \in Task : seccomp'[u].draco_hook = seccomp[u].draco_hook
    BY <1>1 DEF ProfilesChange, Kept, Copied
  <2> QED
    BY <2>1 DEF HooksApart, HasHook
<1>2. CASE UNCHANGED seccomp
  BY <1>2 DEF HooksApart, HasHook
<1>3. ASSUME NEW t \in Task, NEW s \in Syscall, NEW h \in Hook, EndedEarly(t, s, h)
      PROVE  HooksApart'
  BY <1>3, ServedApart DEF EndedEarly
<1>4. ASSUME NEW t \in Task, NEW s \in Syscall, NEW h \in Hook, NEW regs \in Regs,
             LookupOf(t, s, h, regs)
      PROVE  HooksApart'
  <2>1. Served(t, s, h)
    BY <1>4, LookupCases DEF LookedUp
  <2> QED
    BY <2>1, ServedApart
<1>5. CASE DracoExit
  BY <1>5, ExitHooks DEF HooksApart, HasHook
<1> QED
  BY <1>1, <1>2, <1>3, <1>4, <1>5 DEF Steps, NotListed, TurnedAway, Unserved, DracoInit

\* A step after which the tasks with a hook are as before, as far as cached
\* answers and filters go.
LEMMA SameRowsAllowed ==
  ASSUME AllowedRows, killed \subseteq killed', TypeOK,
         UNCHANGED <<per_process, usable, pool>>,
         \A u \in Task : HasHook(u)' =>
            seccomp'[u] = seccomp[u] /\ filters'[u] = filters[u]
  PROVE  AllowedRows'
<1> SUFFICES ASSUME NEW u \in Task \ killed', NEW g \in usable', NEW r \in Syscall,
                    NEW q \in Regs, seccomp'[u].draco_hook = g, IsCached(u, g, r, q)'
             PROVE  Verdict(u, r, q)' = "allow"
  BY DEF AllowedRows
<1>1. HasHook(u)'
  BY Constants DEF HasHook, TypeOK
<1>2. seccomp'[u] = seccomp[u] /\ filters'[u] = filters[u]
  BY <1>1
<1>3. Verdict(u, r, q)' = Verdict(u, r, q)
  BY <1>2 DEF Verdict
<1>4. IsCached(u, g, r, q)
  BY <1>2 DEF IsCached, KeyOf, ArgumentList, TableAt
<1> QED
  BY <1>2, <1>3, <1>4 DEF AllowedRows

\* What a call of the handler leaves of keys and verdicts.
LEMMA ServedVerdicts ==
  ASSUME NEW t \in Task, NEW s, NEW h \in Hook, Served(t, s, h), filters' = filters,
         NEW u \in Task, NEW r, NEW q
  PROVE  KeyOf(u, r, q)' = KeyOf(u, r, q) /\ Verdict(u, r, q)' = Verdict(u, r, q)
<1>1. SameProfile(seccomp[u], seccomp'[u])
  BY DEF Served, Hooked, SameProfile
<1> QED
  BY <1>1 DEF SameProfile, KeyOf, ArgumentList, Verdict

\* A call that ended early caches nothing.
LEMMA EarlyAllowed ==
  ASSUME TypeOK, AllowedRows, NEW t \in Task, NEW s \in Syscall, NEW h \in Hook,
         EndedEarly(t, s, h), filters' = filters, killed \subseteq killed'
  PROVE  AllowedRows'
<1> SUFFICES ASSUME NEW u \in Task \ killed', NEW g \in usable', NEW r \in Syscall,
                    NEW q \in Regs, seccomp'[u].draco_hook = g, IsCached(u, g, r, q)'
             PROVE  Verdict(u, r, q)' = "allow"
  BY DEF AllowedRows
<1>1. Served(t, s, h) /\ pool' = pool
  BY DEF EndedEarly
<1>2. KeyOf(u, r, q)' = KeyOf(u, r, q) /\ Verdict(u, r, q)' = Verdict(u, r, q)
  BY <1>1, ServedVerdicts
<1>3. TableAt(g, r)' # NULL
  BY DEF IsCached
<1>4. g \in usable /\ TableAt(g, r)' = TableAt(g, r) /\ (g = h => HasHook(t))
  BY <1>3, EarlyTables
<1>5. seccomp[u].draco_hook = g
  BY <1>1, <1>4, ServedProfiles
<1>6. IsCached(u, g, r, q)
  BY <1>1, <1>2, <1>4 DEF IsCached
<1> QED
  BY <1>2, <1>4, <1>5, <1>6 DEF AllowedRows

\* A row the caller finds in the table of its lookup stands for an allowed call.
LEMMA SeenAllowed ==
  ASSUME TypeOK, PoolOwned, AllowedRows, NEW t \in Task \ killed, NEW s \in Syscall,
         NEW h \in Hook, NEW i, NEW tab, LookedUp(t, s, h, i, tab),
         NEW regs \in Regs, Padded(KeyOf(t, s, regs)) \in Rows(pool[i])
  PROVE  Verdict(t, s, regs) = "allow"
<1>1. HasHook(t) /\ TableAt(h, s) # NULL
  BY LookupOwns, BlankRows
<1>2. i = TableAt(h, s) /\ seccomp[t].draco_hook = h /\ h \in usable
  BY <1>1 DEF LookedUp, Served, Hooked
<1> QED
  BY <1>1, <1>2 DEF AllowedRows, IsCached

\* A lookup may add the row of its call, when the call is allowed or its task
\* is gone afterwards.
LEMMA LookupAllowed ==
  ASSUME Confined, TypeOK, AllSound, PoolOwned, SCTypes, Covered, HooksApart, AllowedRows,
         NEW t \in Task \ killed, NEW s \in Syscall, NEW h \in Hook, NEW regs \in Regs,
         NEW i \in Table, NEW tab, LookedUp(t, s, h, i, tab),
         Rows(tab) \subseteq Rows(pool[i]) \cup {Padded(KeyOf(t, s, regs))},
         filters' = filters, killed \subseteq killed',
         t \notin killed' => Verdict(t, s, regs) = "allow"
  PROVE  AllowedRows'
<1> SUFFICES ASSUME NEW u \in Task \ killed', NEW g \in usable', NEW r \in Syscall,
                    NEW q \in Regs, seccomp'[u].draco_hook = g, IsCached(u, g, r, q)'
             PROVE  Verdict(u, r, q)' = "allow"
  BY DEF AllowedRows
<1>1. Served(t, s, h) /\ \A j \in Table : pool'[j] = IF j = i THEN tab ELSE pool[j]
  BY DEF LookedUp
<1>2. KeyOf(u, r, q)' = KeyOf(u, r, q) /\ Verdict(u, r, q)' = Verdict(u, r, q)
  BY <1>1, ServedVerdicts
<1>3. TableAt(g, r)' # NULL /\ Padded(KeyOf(u, r, q)) \in Rows(pool'[TableAt(g, r)'])
  BY <1>2 DEF IsCached
<1>4. CASE g = h /\ r = s
  <2>1. u = t
    <3>1. HooksApart'
      BY <1>1, ServedApart
    <3>2. seccomp'[t].draco_hook = h /\ h # NULL
      BY <1>1, ServedProfiles, Constants
    <3> QED
      BY <1>4, <3>1, <3>2 DEF HooksApart, HasHook
  <2>2. TableAt(g, r)' = i
    BY <1>4, LookupOwns
  <2>3. Padded(KeyOf(t, s, q)) \in Rows(tab)
    BY <1>1, <1>3, <1>4, <2>1, <2>2
  <2>4. CASE Padded(KeyOf(t, s, q)) \in Rows(pool[i])
    BY <1>2, <1>4, <2>1, <2>4, SeenAllowed
  <2>5. CASE Padded(KeyOf(t, s, q)) = Padded(KeyOf(t, s, regs))
    <3>1. /\ KeyLength(t, s) \in 0 .. MaxArgumentCount
          /\ KeyOf(t, s, q) \in KeysOf(KeyLength(t, s))
          /\ KeyOf(t, s, regs) \in KeysOf(KeyLength(t, s))
      BY KeyOfType
    <3>2. KeyOf(t, s, q) = KeyOf(t, s, regs)
      BY <2>5, <3>1, CutPadded
    <3>3. Verdict(t, s, q) = Verdict(t, s, regs)
      BY <3>2, KeyDetermines
    <3> QED
      BY <1>2, <1>4, <2>1, <3>3
  <2> QED
    BY <2>3, <2>4, <2>5
<1>5. CASE ~ (g = h /\ r = s)
  <2>1. /\ g \in usable
        /\ TableAt(g, r)' = TableAt(g, r)
        /\ TableAt(g, r)' # i
        /\ g = h => HasHook(t)
    BY <1>3, <1>5, LookupOwns
  <2>2. seccomp[u].draco_hook = g
    BY <1>1, <2>1, ServedProfiles
  <2>3. TableAt(g, r) # NULL /\ TableAt(g, r) \in Table
    BY <1>3, <2>1 DEF TypeOK, PerProcess, TableAt
  <2>4. pool'[TableAt(g, r)'] = pool[TableAt(g, r)]
    BY <1>1, <2>1, <2>3
  <2>5. IsCached(u, g, r, q)
    BY <1>3, <2>3, <2>4 DEF IsCached
  <2> QED
    BY <1>2, <2>1, <2>2, <2>5 DEF AllowedRows
<1> QED
  BY <1>4, <1>5

\* What the checker says and what becomes of the call.
LEMMA MissSettles ==
  ASSUME Confined, SCTypes, NEW t \in Task, NEW s, NEW regs, Settle(t, s, regs, FALSE)
  PROVE  /\ FilterEnforced'
         /\ killed \subseteq killed' /\ filters' = filters
         /\ t \notin killed' => Verdict(t, s, regs) = "allow"
<1>1. Verdict(t, s, regs) \in {"allow", "kill"}
  BY VerdictBinary
<1> QED
  BY <1>1 DEF Settle, FilterEnforced

LEMMA AllowedHitSettles ==
  ASSUME NEW t \in Task, NEW s, NEW regs, Settle(t, s, regs, TRUE),
         Verdict(t, s, regs) = "allow"
  PROVE  FilterEnforced' /\ killed' = killed /\ filters' = filters
BY DEF Settle, FilterEnforced

\* The rows a lookup leaves, and that a hit is for a row that was there.
LEMMA LookupAnswers ==
  ASSUME TypeOK, PoolOwned, TablesExact, NEW t \in Task, NEW s \in Syscall,
         NEW h \in Hook, NEW regs \in Regs, LookupOf(t, s, h, regs)
  PROVE  \E i \in Table, tab \in SyscallTable :
            /\ LookedUp(t, s, h, i, tab)
            /\ Rows(tab) \subseteq Rows(pool[i]) \cup {Padded(KeyOf(t, s, regs))}
            /\ \/ answer'.hit = FALSE
               \/ answer'.hit = TRUE /\ Padded(KeyOf(t, s, regs)) \in Rows(pool[i])
<1> DEFINE n == KeyLength(t, s)
           key == KeyOf(t, s, regs)
           Goal(i, tab) ==
              /\ LookedUp(t, s, h, i, tab)
              /\ Rows(tab) \subseteq Rows(pool[i]) \cup {Padded(key)}
              /\ \/ answer'.hit = FALSE
                 \/ answer'.hit = TRUE /\ Padded(key) \in Rows(pool[i])
<1>1. n \in 0 .. MaxArgumentCount /\ key \in KeysOf(n) /\ Hash[key] \in Bucket
  BY KeyOfType
<1>2. ASSUME NEW w \in Way, HitBy(t, s, h, regs, w)
      PROVE  \E i \in Table, tab \in SyscallTable : Goal(i, tab)
  <2>1. PICK i \in Table, tab \in SyscallTable :
            /\ LookedUp(t, s, h, i, tab)
            /\ ProbeEnds(pool[i], Hash[key], key, w)
            /\ Found(pool[i], Hash[key], w)
            /\ SameRows(pool[i], tab)
            /\ answer'.hit = TRUE
    BY <1>2 DEF HitBy, Probed, Answered
  <2>2. Exact(pool[i], n) /\ pool[i] \in SyscallTable
    BY <2>1, UsedExact DEF TypeOK
  <2>3. Padded(key) \in Rows(pool[i])
    BY <1>1, <2>1, <2>2, HitIsThere
  <2> QED
    BY <2>1, <2>3, SameRowsSame
<1>3. CASE ConflictBy(t, s, h, regs)
  <2>1. PICK i \in Table, tab \in SyscallTable :
            LookedUp(t, s, h, i, tab) /\ SameRows(pool[i], tab) /\ answer'.hit = FALSE
    BY <1>3 DEF ConflictBy, Answered
  <2> QED
    BY <2>1, SameRowsSame
<1>4. ASSUME NEW w \in Way, InsertBy(t, s, h, regs, w)
      PROVE  \E i \in Table, tab \in SyscallTable : Goal(i, tab)
  <2>1. PICK i \in Table, tab \in SyscallTable :
            /\ LookedUp(t, s, h, i, tab)
            /\ ProbeEnds(pool[i], Hash[key], key, w)
            /\ ~ Found(pool[i], Hash[key], w)
            /\ SameRows(Occupy(pool[i], Hash[key], w, key), tab)
            /\ answer'.hit = FALSE
    BY <1>4 DEF InsertBy, Probed, Answered
  <2>2. Exact(pool[i], n) /\ pool[i] \in SyscallTable
    BY <2>1, UsedExact DEF TypeOK
  <2>3. Rows(tab) = Rows(pool[i]) \cup {Padded(key)}
    BY <1>1, <2>1, <2>2, InsertKeepsExact, SameRowsSame
  <2> QED
    BY <2>1, <2>3
<1> QED
  BY <1>2, <1>3, <1>4 DEF LookupOf

\* The inductive invariant of this part.
Guarded == HooksApart /\ AllowedRows /\ FilterEnforced

LEMMA CallAllowed ==
  ASSUME Confined, MInv, SCTypes, Covered, HooksApart, AllowedRows, NEW t \in Task,
         NEW s, NEW regs \in Regs, SystemCall(t, s, regs)
  PROVE  AllowedRows' /\ FilterEnforced'
<1>1. TypeOK /\ AllSound /\ PoolOwned /\ TablesExact
  BY DEF MInv, Confined
<1>2. t \in Task \ killed /\ Settle(t, s, regs, answer'.hit) /\ HandledBy(t, s, regs)
  BY <1>1, HandleDoes DEF SystemCall
<1>3. CASE Unserved
  <2>1. answer'.hit = FALSE /\ UNCHANGED <<seccomp, per_process, usable, pool>>
    BY <1>3 DEF Unserved, NoAnswer
  <2>2. FilterEnforced' /\ killed \subseteq killed' /\ filters' = filters
    BY <1>2, <2>1, MissSettles
  <2> QED
    BY <1>1, <2>1, <2>2, SameRowsAllowed
<1>4. ASSUME NEW h \in Hook, s \in Syscall, NotListed(t, s, h) \/ TurnedAway(t, s, h, regs)
      PROVE  AllowedRows' /\ FilterEnforced'
  <2>1. answer'.hit = FALSE /\ EndedEarly(t, s, h)
    BY <1>4 DEF NotListed, TurnedAway, Answered, NoAnswer
  <2>2. FilterEnforced' /\ killed \subseteq killed' /\ filters' = filters
    BY <1>2, <2>1, MissSettles
  <2> QED
    BY <1>1, <1>4, <2>1, <2>2, EarlyAllowed
<1>5. ASSUME NEW h \in Hook, s \in Syscall, LookupOf(t, s, h, regs)
      PROVE  AllowedRows' /\ FilterEnforced'
  <2>1. PICK i \in Table, tab \in SyscallTable :
            /\ LookedUp(t, s, h, i, tab)
            /\ Rows(tab) \subseteq Rows(pool[i]) \cup {Padded(KeyOf(t, s, regs))}
            /\ \/ answer'.hit = FALSE
               \/ answer'.hit = TRUE /\ Padded(KeyOf(t, s, regs)) \in Rows(pool[i])
    BY <1>1, <1>5, LookupAnswers
  <2>2. /\ FilterEnforced'
        /\ killed \subseteq killed' /\ filters' = filters
        /\ t \notin killed' => Verdict(t, s, regs) = "allow"
    <3>1. CASE answer'.hit = FALSE
      BY <1>2, <3>1, MissSettles
    <3>2. CASE answer'.hit = TRUE /\ Padded(KeyOf(t, s, regs)) \in Rows(pool[i])
      <4>1. Verdict(t, s, regs) = "allow"
        BY <1>1, <1>2, <1>5, <2>1, <3>2, SeenAllowed
      <4> QED
        BY <1>2, <3>2, <4>1, AllowedHitSettles
    <3> QED
      BY <2>1, <3>1, <3>2
  <2> QED
    BY <1>1, <1>2, <1>5, <2>1, <2>2, LookupAllowed
<1> QED
  BY <1>2, <1>3, <1>4, <1>5 DEF HandledBy

\* A step of libseccomp that touches tasks in the filter mode in nothing: it
\* leaves hooks, tables and outcome alone.
LEMMA QuietAllowed ==
  ASSUME MInv, AllowedRows, FilterEnforced, ModuleSame, UNCHANGED <<killed, outcome>>,
         \A u \in Task : /\ seccomp'[u].draco_hook = seccomp[u].draco_hook
                         /\ seccomp[u].mode = "filter" =>
                              seccomp'[u] = seccomp[u] /\ filters'[u] = filters[u]
  PROVE  AllowedRows' /\ FilterEnforced'
<1>1. ASSUME NEW u \in Task, HasHook(u)'
      PROVE  seccomp'[u] = seccomp[u] /\ filters'[u] = filters[u]
  BY <1>1 DEF HasHook, MInv, HooksLive
<1>2. AllowedRows'
  BY <1>1, SameRowsAllowed DEF ModuleSame, MInv
<1> QED
  BY <1>2 DEF FilterEnforced

\* What a program does to its filters before the last load.
LEMMA LibseccompAllowed ==
  ASSUME Confined, MInv, SCTypes, AllowedRows, FilterEnforced, NEW t \in Task,
         \/ \E r \in Rule, taken \in BOOLEAN : RuleAdd(t, r, taken)
         \/ FilterLoad(t)
         \/ FilterLoadFails(t)
  PROVE  AllowedRows' /\ FilterEnforced'
<1>1. AllSound /\ MayReload = FALSE /\ MayFork = FALSE /\ Tsync = FALSE
  BY DEF MInv, Confined
<1>2. ProfilesChange /\ ModuleSame
  BY <1>1, RuleAddChanges, FilterLoadChanges, FilterLoadFailsChanges
<1>3. UNCHANGED <<killed, outcome>>
  BY DEF RuleAdd, FilterLoad, FilterLoadFails
<1>4. seccomp[t].mode = "disabled"
  BY <1>1 DEF RuleAdd, FilterLoad, FilterLoadFails, MayPrctl
<1>5. \A u \in Task : u # t => filters'[u] = filters[u]
  BY <1>1 DEF RuleAdd, FilterLoad, FilterLoadFails, Receivers
<1>6. \A u \in Task : Kept(u)
  BY <1>1, <1>2 DEF ProfilesChange, Copied
<1>7. ASSUME NEW u \in Task
      PROVE  /\ seccomp'[u].draco_hook = seccomp[u].draco_hook
             /\ seccomp[u].mode = "filter" =>
                   seccomp'[u] = seccomp[u] /\ filters'[u] = filters[u]
  BY <1>1, <1>4, <1>5, <1>6 DEF Kept
<1> QED
  BY <1>2, <1>3, <1>7, QuietAllowed

LEMMA SCStepGuarded ==
  ASSUME Confined, MInv, SCTypes, Covered, Guarded, [SCNext]_scVars
  PROVE  Guarded'
<1>1. HooksApart'
  <2>1. Steps \/ UNCHANGED vars
    BY SCNextSteps DEF MInv, scVars
  <2>2. CASE UNCHANGED vars
    BY <2>2 DEF vars, Guarded, HooksApart, HasHook
  <2> QED
    BY <2>1, <2>2, StepsApart DEF MInv, Confined, Guarded
<1>2. ASSUME NEW t \in Task,
             \/ \E r \in Rule, taken \in BOOLEAN : RuleAdd(t, r, taken)
             \/ FilterLoad(t)
             \/ FilterLoadFails(t)
      PROVE  AllowedRows' /\ FilterEnforced'
  BY <1>2, LibseccompAllowed DEF Guarded
<1>3. ASSUME UNCHANGED <<vars, filters, killed, outcome>>
      PROVE  AllowedRows' /\ FilterEnforced'
  BY <1>3, QuietAllowed DEF vars, ModuleSame, Guarded
<1>4. ASSUME NEW t \in Task, NEW s, NEW regs \in Regs, SystemCall(t, s, regs)
      PROVE  AllowedRows' /\ FilterEnforced'
  BY <1>4, CallAllowed DEF Guarded
<1>5. ASSUME NEW t \in Task, NEW s, NEW regs \in Regs, SystemCallUnchecked(t, s, regs)
      PROVE  AllowedRows' /\ FilterEnforced'
  <2>1. UNCHANGED vars /\ Settle(t, s, regs, FALSE)
    BY <1>5 DEF SystemCallUnchecked
  <2>2. FilterEnforced' /\ killed \subseteq killed' /\ filters' = filters
    BY <2>1, MissSettles
  <2> QED
    BY <2>1, <2>2, SameRowsAllowed DEF vars, MInv, Guarded
<1>6. ASSUME DracoInit \/ DracoExit, UNCHANGED <<rules, filters, killed, outcome>>
      PROVE  AllowedRows' /\ FilterEnforced'
  <2>1. usable' = {}
    BY <1>6, ExitHooks DEF DracoInit, MInv, HooksLive
  <2> QED
    BY <1>6, <2>1 DEF AllowedRows, Guarded, FilterEnforced
<1>7. \A t, u \in Task : ~ SCFork(t, u)
  BY DEF SCFork, Fork, Confined
<1>8. ASSUME SCNext PROVE AllowedRows' /\ FilterEnforced'
  <2>1. ASSUME NEW t \in Task, FilterReset(t) PROVE AllowedRows' /\ FilterEnforced'
    BY <1>3, <2>1 DEF FilterReset
  <2> QED
    BY <1>2, <1>4, <1>5, <1>6, <1>7, <1>8, <2>1 DEF SCNext
<1>9. ASSUME UNCHANGED scVars PROVE AllowedRows' /\ FilterEnforced'
  BY <1>3, <1>9 DEF scVars
<1> QED
  BY <1>1, <1>8, <1>9 DEF Guarded

LEMMA SCInitGuarded == SCInit => Guarded
<1> SUFFICES ASSUME SCInit PROVE Guarded
  OBVIOUS
<1>1. \A t \in Task : ~ HasHook(t)
  BY DEF SCInit, Init, ProfileInit, CleanStruct, HasHook
<1>2. usable = {} /\ outcome = NoOutcome
  BY DEF SCInit, Init, ModuleInit
<1> QED
  BY <1>1, <1>2 DEF Guarded, HooksApart, AllowedRows, FilterEnforced, NoOutcome

LEMMA SCAlwaysGuarded ==
  ASSUME Confined PROVE SCSpec => []Guarded
<1>1. MInv /\ SCTypes /\ Covered /\ Guarded /\ [SCNext]_scVars => Guarded'
  BY SCStepGuarded
<1>2. SCSpec => []Covered
  BY SCAlwaysCovered DEF Confined
<1> QED
  BY <1>1, <1>2, SCInitGuarded, SCAlwaysInv, SCAlwaysTypes, PTL DEF SCSpec

\* No running task can match a row that stands for a call its filters refuse.
THEOREM RowsAlwaysAllowed ==
  ASSUME Confined PROVE SCSpec => []RowsAllowed
<1>1. AllowedRows => RowsAllowed
  <2> SUFFICES ASSUME AllowedRows, NEW t \in Task \ killed, NEW s \in Syscall,
                      NEW regs \in Regs, seccomp[t].draco_hook \in usable,
                      TableAt(seccomp[t].draco_hook, s) # NULL,
                      Padded(ArgumentList(seccomp[t], s, regs))
                        \in Rows(pool[TableAt(seccomp[t].draco_hook, s)])
               PROVE  Verdict(t, s, regs) = "allow"
    BY DEF RowsAllowed
  <2>1. IsCached(t, seccomp[t].draco_hook, s, regs)
    BY DEF IsCached, KeyOf
  <2> QED
    BY <2>1 DEF AllowedRows
<1> QED
  BY <1>1, SCAlwaysGuarded, PTL DEF Guarded

\* What becomes of a system call is what the filters say of it, whatever the
\* module has cached.
THEOREM FiltersAreEnforced ==
  ASSUME Confined PROVE SCSpec => []FilterEnforced
BY SCAlwaysGuarded, PTL DEF Guarded

=============================================================================
