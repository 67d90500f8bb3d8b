----------------------------- MODULE SecureComputing ----------------------------
(***************************************************************************)
(* From the rules a program adds to the verdict on a system call: the two  *)
(* hooks Draco puts into libseccomp (sys_draco_add when a rule is added,   *)
(* prctl(1000) when the filter is loaded) and the one it puts into the     *)
(* kernel (__secure_computing asks draco_checker before the filter), over  *)
(* the module of DracoModule.                                              *)
(*                                                                         *)
(* A filter is the set of its rules: RuleAction when one of them matches,  *)
(* DefaultAction otherwise.  How libseccomp turns it into BPF is not part  *)
(* of this module.                                                         *)
(***************************************************************************)
EXTENDS DracoModule

CONSTANTS
    Rule,           \* the rules a program may add
    RuleAction,     \* the action of every rule
    DefaultAction,  \* the action of the filter
    Tsync           \* TRUE: filters are loaded with SCMP_FLTATR_CTL_TSYNC

Action == {"allow", "errno", "kill"}

\* One comparison per register.  The six plain comparisons look at the whole
\* register, SCMP_CMP_MASKED_EQ at some of its bits; either way a set of
\* values passes.
Comparison == [op : {"none", "plain", "masked"}, passes : SUBSET Val]

\* A register has a bit of its own in a mask, below the sign bit.
ASSUME RuleAssumption ==
    /\ Rule \subseteq [syscall : Number, chain : [Position -> Comparison]]
    /\ {p - 1 : p \in Position} \subseteq ArgBit \ {SignBit}
    /\ RuleAction \in Action
    /\ DefaultAction \in Action \ {RuleAction}
    /\ Tsync \in BOOLEAN

VARIABLES
    rules,      \* rules[t]: the filter collection of the program of task t
    filters,    \* filters[t]: the filters the kernel applies to task t
    killed,     \* the tasks a filter has killed
    outcome     \* history: the last system call and what became of it

scVars == <<vars, rules, filters, killed, outcome>>

NoOutcome == [action |-> "none", due |-> "none"]

SCInit ==
    /\ Init
    /\ rules = [t \in Task |-> {}]
    /\ filters = [t \in Task |-> {}]
    /\ killed = {}
    /\ outcome = NoOutcome

-----------------------------------------------------------------------------
(* libseccomp.                                                             *)

\* Slip: the last register is forgotten.
ArgPositionShort(r) ==
    {p - 1 : p \in {q \in 1 .. MaxArgumentCount - 1 : r.chain[q].op = "plain"}}

\* arg_position of db_col_rule_add: a masked comparison adds nothing to it.
ArgPosition(r) == {p - 1 : p \in {q \in Position : r.chain[q].op = "plain"}}

\* seccomp_rule_add.  sys_draco_add is called whether or not the filters of
\* the collection took the rule; a negative number never reaches the prctl,
\* one past the table is refused by it.
RuleAdd(t, r, taken) ==
    /\ t \notin killed
    /\ MayPrctl(t)
    /\ rules' = IF taken THEN [rules EXCEPT ![t] = @ \cup {r}] ELSE rules
    /\ seccomp' = IF r.syscall \in Syscall
                  THEN [seccomp EXCEPT ![t] =
                            AddSeccomp(@, r.syscall, ArgPosition(r))]
                  ELSE seccomp
    /\ UNCHANGED <<draco_checker, per_process, allocated, usable, pool,
                   hash_table, syscall_number, answer, filters, killed, outcome>>

\* seccomp_reset, or a new collection in place of the old one: the rules are
\* gone, what sys_draco_add told the kernel about them is not.
FilterReset(t) ==
    /\ t \notin killed
    /\ MayPrctl(t)
    /\ rules' = [rules EXCEPT ![t] = {}]
    /\ UNCHANGED <<vars, filters, killed, outcome>>

\* The tasks a filter of task t goes to: all threads of the program when
\* they are synchronised.
Receivers(t) == IF Tsync THEN Task \ killed ELSE {t}

\* The kernel synchronises only threads whose filters the caller has too.
CanSynchronise(t) == \A u \in Receivers(t) : filters[u] \subseteq filters[t]

\* Slip: the profile is not compiled.
FilterLoadUncompiled(t) ==
    /\ t \notin killed
    /\ MayPrctl(t)
    /\ CanSynchronise(t)
    /\ seccomp' = [u \in Task |->
            IF u \in Receivers(t) THEN [seccomp[u] EXCEPT !.mode = "filter"]
            ELSE seccomp[u]]
    /\ filters' = [u \in Task |->
            IF u \in Receivers(t) THEN filters[t] \cup {rules[t]} ELSE filters[u]]
    /\ UNCHANGED <<draco_checker, per_process, allocated, usable, pool,
                   hash_table, syscall_number, answer, rules, killed, outcome>>

\* seccomp_load: the profile of the caller is compiled first, then the
\* filter generated and handed to the kernel, which may refuse it.
FilterLoad(t) ==
    /\ t \notin killed
    /\ MayPrctl(t)
    /\ CanSynchronise(t)
    /\ seccomp' = [u \in Task |->
            LET sec == IF u = t THEN LoadSeccomp(seccomp[u]) ELSE seccomp[u] IN
            IF u \in Receivers(t) THEN [sec EXCEPT !.mode = "filter"] ELSE sec]
    /\ filters' = [u \in Task |->
            IF u \in Receivers(t) THEN filters[t] \cup {rules[t]} ELSE filters[u]]
    /\ UNCHANGED <<draco_checker, per_process, allocated, usable, pool,
                   hash_table, syscall_number, answer, rules, killed, outcome>>

FilterLoadFails(t) ==
    /\ t \notin killed
    /\ MayPrctl(t)
    /\ seccomp' = [seccomp EXCEPT ![t] = LoadSeccomp(@)]
    /\ UNCHANGED <<draco_checker, per_process, allocated, usable, pool,
                   hash_table, syscall_number, answer, rules, filters, killed,
                   outcome>>

-----------------------------------------------------------------------------
(* The kernel.                                                             *)

RuleMatches(r, s, regs) ==
    /\ r.syscall = s
    /\ \A p \in Position :
          r.chain[p].op # "none" => regs[p] \in r.chain[p].passes

Result(filter, s, regs) ==
    IF \E r \in filter : RuleMatches(r, s, regs) THEN RuleAction ELSE DefaultAction

\* Of several filters the most restrictive result counts.
Verdict(t, s, regs) ==
    LET results == {Result(f, s, regs) : f \in filters[t]} IN
    IF "kill" \in results THEN "kill"
    ELSE IF "errno" \in results THEN "errno" ELSE "allow"

\* __secure_computing: a call the checker answers for passes, any other one
\* is up to the filter.
Settle(t, s, regs, checked) ==
    LET due == Verdict(t, s, regs)
        action == IF checked THEN "allow" ELSE due
    IN
    /\ outcome' = [action |-> action, due |-> due]
    /\ killed' = IF action = "kill" THEN killed \cup {t} ELSE killed
    /\ UNCHANGED <<rules, filters>>

SystemCall(t, s, regs) ==
    /\ t \notin killed
    /\ Handle(t, s, regs)
    /\ Settle(t, s, regs, answer'.hit)

\* The same with draco_checker = empty_draco.
SystemCallUnchecked(t, s, regs) ==
    /\ t \notin killed
    /\ seccomp[t].mode = "filter"
    /\ draco_checker = "empty_draco"
    /\ Settle(t, s, regs, FALSE)
    /\ UNCHANGED vars

\* The child inherits the filters, and a copy of the program's memory.
SCFork(t, u) ==
    /\ {t, u} \cap killed = {}
    /\ Fork(t, u)
    /\ filters' = [filters EXCEPT ![u] = filters[t]]
    /\ rules' = [rules EXCEPT ![u] = rules[t]]
    /\ UNCHANGED <<draco_checker, per_process, allocated, usable, pool,
                   hash_table, syscall_number, answer, killed, outcome>>

SCNext ==
    \/ \E t \in Task :
          \/ \E r \in Rule, taken \in BOOLEAN : RuleAdd(t, r, taken)
          \/ FilterReset(t)
          \/ FilterLoad(t)
          \/ FilterLoadFails(t)
    \/ \E t \in Task, s \in Number, regs \in Regs :
          \/ SystemCall(t, s, regs)
          \/ SystemCallUnchecked(t, s, regs)
    \/ \E t, u \in Task : SCFork(t, u)
    \/ /\ DracoInit \/ DracoExit
       /\ UNCHANGED <<rules, filters, killed, outcome>>

SCSpec == SCInit /\ [][SCNext]_scVars

-----------------------------------------------------------------------------
(* Properties.                                                             *)

\* What libseccomp and the kernel keep stays in range as well: no profile
\* built from rules leaves the tables of struct seccomp.
SCTypeOK ==
    /\ TypeOK
    /\ rules \in [Task -> SUBSET Rule]
    /\ filters \in [Task -> SUBSET SUBSET Rule]
    /\ killed \in SUBSET Task
    /\ outcome \in [action : Action, due : Action] \cup {NoOutcome}

\* "If the filter was loaded correctly, the kernel will be enforcing the
\* filter when this function returns": what becomes of a system call is what
\* the filters say of it, however often it was asked before and whatever the
\* module has cached.
FilterEnforced == outcome.action = outcome.due

\* A cached answer of a running task is one its filters give: every flagged
\* row its profile can match stands only for calls they allow.
RowsAllowed ==
    draco_checker = "handler" =>
    \A t \in Task \ killed, s \in Syscall, regs \in Regs :
        LET h == seccomp[t].draco_hook IN
        h \in usable /\ TableAt(h, s) # NULL =>
            (Padded(ArgumentList(seccomp[t], s, regs)) \in Rows(pool[TableAt(h, s)])
                => Verdict(t, s, regs) = "allow")

\* Every register a plain comparison of an installed filter looks at is part
\* of the key of its call, whatever was added, reset, loaded in vain or
\* inherited in between: two calls the filter tells apart by such a register
\* never share a row that was stored under the current profile.
KeysCoverFilters ==
    \A t \in Task : \A f \in filters[t] : \A r \in f :
        r.syscall \in Syscall =>
            {b + 1 : b \in ArgPosition(r)}
                \subseteq KeyPositions(seccomp[t], r.syscall)

=============================================================================
