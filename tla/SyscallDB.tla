-------------------------------- MODULE SyscallDB --------------------------------
(* One struct db_filter of libseccomp: the system calls with their trees,    *)
(* and db_rule_add, which builds a chain for a rule and works it into the    *)
(* tree of the call (src/db.c).                                              *)
(*                                                                           *)
(* A rule is [syscall, action, args]; args are comparisons in the order of   *)
(* their arguments, no argument twice. A datum or a mask is <<hi, lo>>; an   *)
(* architecture of 32 bits looks at lo. The sorted list of calls is a        *)
(* function on the numbers it holds.                                         *)
EXTENDS RuleTree, SequencesExt, TLC

CONSTANTS
    Syscall,        \* the numbers rules and priorities are given for
    Rule,           \* for each architecture, the rules a program may add
    Priority,       \* the values of seccomp_syscall_priority
    DefaultAction,  \* act_default, what a call without a matching rule gets
    Args,           \* for each architecture, arguments the properties try
    MaxRules        \* bound of the runs: operations on the filter

VARIABLES
    arch,           \* db->arch: "x86" of 32 bits, "x86_64" of 64
    heap,           \* the allocated nodes
    syscalls,       \* db->syscalls
    rules,          \* db->rules: those db_rule_add accepted, in order
    outcome         \* history: what the last operation returned, whether a
                    \* rule was ever refused, how many operations there were

dbVars == <<arch, heap, syscalls, rules, outcome>>

Wide == arch = "x86_64"

Kill == "kill"      \* SCMP_ACT_KILL is the action of zeroed memory
ChainMask == 65535  \* _DB_PRI_MASK_CHAIN

Hi(word) == word[1]
Lo(word) == word[2]

\* Neither word of a masked comparison is looked at, or the one there is.
Needed(cmp) ==
    cmp.op = MASKED_EQ => Lo(cmp.mask) # 0 \/ (Wide /\ Hi(cmp.mask) # 0)

\* The comparisons a node makes, and the side on which the rule goes on.
LowOp(op) == CASE op = NE -> EQ [] op = LT -> GE [] op = LE -> GT [] OTHER -> op
HighOp(op) == CASE op = NE -> EQ [] op \in {LT, LE, GT} -> GE [] OTHER -> op
GoesOnTrue(op) == op \notin {NE, LT, LE}

Node(cmp, off, op, t, f) ==
    LET word(w) == IF off = "hi" THEN Hi(w) ELSE Lo(w)
    IN [arg |-> cmp.arg, arg_offset |-> off, op |-> op, mask |-> word(cmp.mask),
        datum |-> word(cmp.datum) & word(cmp.mask),
        act_t |-> t.act, act_f |-> f.act, nxt_t |-> t.nxt, nxt_f |-> f.nxt,
        lvl_prv |-> NULL, lvl_nxt |-> NULL, refcnt |-> 1]

Nothing == [act |-> NULL, nxt |-> NULL]
Do(action) == [act |-> action, nxt |-> NULL]
Then(n) == [act |-> NULL, nxt |-> n]

\* The new chain, on fresh nodes: one per comparison, or a pair with the high
\* word first. A pair that goes on where it is false does so from both nodes.
RuleGen(h, rule) ==
    LET cs == SelectSeq(rule.args, Needed)
        n == Len(cs)
        base == Max(DOMAIN h \cup {0})
        first(i) == base + (IF Wide THEN 2 * i - 1 ELSE i)
        goal(i) == IF i = n THEN Do(rule.action) ELSE Then(first(i + 1))
        low(i) == Node(cs[i], "lo", LowOp(cs[i].op),
                       IF GoesOnTrue(cs[i].op) THEN goal(i) ELSE Nothing,
                       IF GoesOnTrue(cs[i].op) THEN Nothing ELSE goal(i))
        high(i) == Node(cs[i], "hi", HighOp(cs[i].op), Then(first(i) + 1),
                        IF GoesOnTrue(cs[i].op) THEN Nothing ELSE goal(i))
        shared(i) == i > 1 /\ ~GoesOnTrue(cs[i - 1].op)
        new == IF Wide
               THEN [m \in base + 1 .. base + 2 * n |->
                        LET i == (m - base + 1) \div 2
                        IN IF m # first(i) THEN low(i)
                           ELSE IF shared(i) THEN [high(i) EXCEPT !.refcnt = 2]
                           ELSE high(i)]
               ELSE [m \in base + 1 .. base + n |-> low(m - base)]
    IN [h |-> [m \in DOMAIN h \cup DOMAIN new |->
                  IF m \in DOMAIN new THEN new[m] ELSE h[m]],
        chains |-> IF n = 0 THEN NULL ELSE first(1),
        action |-> IF n = 0 THEN rule.action ELSE Kill,
        node_cnt |-> Cardinality(DOMAIN new)]

NewEntry(new) ==
    [valid |-> TRUE, chains |-> new.chains, node_cnt |-> new.node_cnt,
     action |-> new.action, user |-> 0, chain |-> ChainMask - new.node_cnt]

\* Slip: the priority keeps the size the tree once had.
ReprioritisedNot(s) == s

\* The call's entry with its priority brought up to date.
Reprioritised(s) == [s EXCEPT !.chain = ChainMask - s.node_cnt]

\* The ways out of db_rule_add: the whole new chain is freed, or, once its
\* tail from c on hangs in the tree, what comes before c.
AddFree(h, s, top, rc) ==
    [h |-> TreeFree(h, top).h, sys |-> Reprioritised(s), rc |-> rc]

AddFreeMatch(h, s, top, c_prev) ==
    LET cut == [h EXCEPT ![c_prev].nxt_t = NULL, ![c_prev].nxt_f = NULL]
    IN [h |-> IF c_prev = NULL THEN h ELSE TreeFree(cut, top).h,
        sys |-> Reprioritised(s), rc |-> "ok"]

-----------------------------------------------------------------------------

(* The walk of the new chain, of head top, down the tree: c_prev and c are   *)
(* nodes of the chain, left of them from c on; e is a node of the tree. rc   *)
(* is "on", or what the walk ends with.                                      *)
ActionReplaces(w, act, nxt, f) ==
    [w EXCEPT !.h = [f.h EXCEPT ![w.e][nxt] = NULL, ![w.e][act] = w.action],
              !.sys.node_cnt = @ - f.cnt]

\* c has an action on one side, and e is like c: the action goes into e.
MergeSide(w, act, nxt) ==
    IF ChainAction(w.h, w.e)
    THEN IF w.h[w.e][act] \notin {NULL, w.action} THEN [w EXCEPT !.rc = "exist"]
         ELSE [w EXCEPT !.h[w.e][act] = w.action]
    ELSE IF ~TreeActCheck(w.h, w.h[w.e][nxt], w.action) THEN [w EXCEPT !.rc = "exist"]
    ELSE ActionReplaces(w, act, nxt, TreeFree(w.h, w.h[w.e][nxt]))

NodeRemoved(w, r) ==
    [w EXCEPT !.h = r.h, !.sys.chains = r.tree, !.sys.node_cnt = @ - r.cnt, !.rc = "ok"]

\* Both sides of e give the same action now: the node goes.
MergeBoth(w) ==
    IF /\ w.rc = "on"
       /\ ChainAction(w.h, w.c) /\ ChainAction(w.h, w.e)
       /\ w.h[w.e].act_t = w.h[w.e].act_f
    THEN NodeRemoved(w, TreeRemove(w.h, w.sys.chains, w.e))
    ELSE w

Merge(w) ==
    MergeBoth(CASE w.h[w.c].act_t # NULL -> MergeSide(w, "act_t", "nxt_t")
                [] w.h[w.c].act_t = NULL /\ w.h[w.c].act_f # NULL ->
                       MergeSide(w, "act_f", "nxt_f")
                [] OTHER -> w)

\* Where a walk ends that has used the chain up, or none of it, or linked c in.
WalkFree(w, rc) == AddFree(w.h, w.sys, w.top, rc)
WalkFreeMatch(w, h, sys, c_prev) == AddFreeMatch(h, sys, w.top, c_prev)

\* c is put on e's level, between p and n.
LinkBetween(w, p, n) ==
    [k \in DOMAIN w.h |->
        CASE k = w.c -> [w.h[k] EXCEPT !.lvl_prv = p, !.lvl_nxt = n]
          [] k = p -> [w.h[k] EXCEPT !.lvl_nxt = w.c]
          [] k = n -> [w.h[k] EXCEPT !.lvl_prv = w.c]
          [] OTHER -> w.h[k]]

RECURSIVE Walk(_)

\* c is like e, and their actions are merged: on with the chain's next node.
WalkEqual(w) ==
    LET side == IF w.h[w.c].nxt_t # NULL THEN "nxt_t" ELSE "nxt_f"
        act == IF w.h[w.c].nxt_t # NULL THEN w.h[w.e].act_t ELSE w.h[w.e].act_f
    IN IF w.rc # "on" THEN WalkFree(w, w.rc)
       ELSE IF ChainLeaf(w.h, w.c) THEN WalkFree(w, "ok")
       ELSE IF w.h[w.e][side] # NULL
       THEN Walk([w EXCEPT !.left = @ - 1, !.c_prev = w.c, !.c = w.h[w.c][side],
                           !.e = w.h[w.e][side]])
       ELSE IF act # NULL THEN WalkFree(w, IF act = w.action THEN "ok" ELSE "exist")
       ELSE WalkFreeMatch(w, [w.h EXCEPT ![w.e][side] = w.h[w.c][side]],
                          [w.sys EXCEPT !.node_cnt = @ + w.left - 1], w.c)

Walk(w) ==
    LET grown == [w.sys EXCEPT !.node_cnt = @ + w.left,
                               !.chains = IF w.e = @ /\ ChainLt(w.h, w.c, w.e) THEN w.c ELSE @]
        next == w.h[w.e].lvl_nxt
    IN IF ChainEq(w.h, w.c, w.e) THEN WalkEqual(Merge(w))
       ELSE IF ChainLt(w.h, w.c, w.e)
       THEN IF w.h[w.e].lvl_prv # NULL THEN Walk([w EXCEPT !.e = w.h[w.e].lvl_prv])
            ELSE WalkFreeMatch(w, LinkBetween(w, NULL, w.e), grown, w.c_prev)
       ELSE IF next = NULL \/ ChainLt(w.h, w.c, next)
       THEN WalkFreeMatch(w, LinkBetween(w, w.e, next), grown, w.c_prev)
       ELSE Walk([w EXCEPT !.e = next])

\* A rule for a call that has an entry: nothing to compare with, a rule
\* without comparisons, or a tree to prune until nothing more goes.
RECURSIVE AddReset(_, _, _, _, _)

AddPruned(p, s, new, action) ==
    LET pruned == [s EXCEPT !.chains = p.prev.at,
                            !.node_cnt = @ - (IF p.rc > 0 THEN p.rc ELSE 0)]
    IN IF p.rc > 0 THEN AddReset(p.h, pruned, new, action, TRUE)
       ELSE IF p.rc < 0 THEN AddFree(p.h, pruned, new.chains, "ok")
       ELSE Walk([h |-> p.h, sys |-> pruned, top |-> new.chains, left |-> new.node_cnt,
                  c_prev |-> NULL, c |-> new.chains, e |-> s.chains, action |-> action,
                  rc |-> "on"])

AddReset(h, s, new, action, rm_flag) ==
    IF s.chains = NULL
    THEN IF rm_flag \/ ~s.valid
         THEN [h |-> h, rc |-> "ok",
               sys |-> Reprioritised(
                           [s EXCEPT !.chains = new.chains, !.action = new.action,
                                     !.node_cnt = new.node_cnt, !.valid = TRUE,
                                     !.user = IF s.valid THEN 0 ELSE @])]
         ELSE AddFree(h, s, new.chains, "ok")
    ELSE IF new.chains = NULL
    THEN [h |-> TreeFree(h, s.chains).h, rc |-> "ok",
          sys |-> Reprioritised([s EXCEPT !.chains = NULL, !.node_cnt = 0,
                                          !.action = action])]
    ELSE AddPruned(TreeSubPrune(h, PrevAt(s.chains), s.chains, new.chains, NoPruneState),
                   s, new, action)

\* db_rule_add on a heap and a list of calls.
EntryAdded(sys, nr, a) == [h |-> a.h, sys |-> (nr :> a.sys) @@ sys, rc |-> a.rc]

ChainAdded(sys, rule, new) ==
    EntryAdded(sys, rule.syscall,
               IF rule.syscall \notin DOMAIN sys
               THEN [h |-> new.h, sys |-> NewEntry(new), rc |-> "ok"]
               ELSE AddReset(new.h, sys[rule.syscall], new, rule.action, FALSE))

DbRuleAdd(h, sys, rule) == ChainAdded(sys, rule, RuleGen(h, rule))

\* _db_syscall_priority: a call without rules gets a phantom entry.
DbSyscallPriority(sys, nr, p) ==
    LET phantom == [valid |-> FALSE, chains |-> NULL, node_cnt |-> 0,
                    action |-> Kill, user |-> p, chain |-> 0]
    IN IF nr \notin DOMAIN sys THEN sys @@ (nr :> phantom)
       ELSE IF p > sys[nr].user THEN [sys EXCEPT ![nr].user = p]
       ELSE sys

-----------------------------------------------------------------------------

Init ==
    /\ arch \in DOMAIN Rule
    /\ heap = << >>
    /\ syscalls = << >>
    /\ rules = << >>
    /\ outcome = [rc |-> "ok", refused |-> FALSE, calls |-> 0]

\* arch_filter_rule_add, for a call whose number is the machine's own: the
\* rule joins the list if the tree took it.
RuleAdd(rule) ==
    /\ outcome.calls < MaxRules
    /\ \E a \in {DbRuleAdd(heap, syscalls, rule)} :
           /\ heap' = a.h
           /\ syscalls' = a.sys
           /\ rules' = IF a.rc = "ok" THEN Append(rules, rule) ELSE rules
           /\ outcome' = [rc |-> a.rc, refused |-> outcome.refused \/ a.rc # "ok",
                          calls |-> outcome.calls + 1]
    /\ UNCHANGED arch

SyscallPriority(nr, p) ==
    /\ outcome.calls < MaxRules
    /\ syscalls' = DbSyscallPriority(syscalls, nr, p)
    /\ outcome' = [outcome EXCEPT !.rc = "ok", !.calls = @ + 1]
    /\ UNCHANGED <<arch, heap, rules>>

Replayed(db, a) == [h |-> a.h, sys |-> a.sys, fails |-> db.fails \/ a.rc # "ok"]
Empty == [h |-> << >>, sys |-> << >>, fails |-> FALSE]

\* Slip: the rules are read off the list from its end.
ReplayBackwards(rs) ==
    FoldRight(LAMBDA rule, db : Replayed(db, DbRuleAdd(db.h, db.sys, rule)), rs, Empty)

\* The copy db_col_transaction_start makes: the rules are added again to an
\* empty filter; hints are not among them.
Replay(rs) ==
    FoldLeft(LAMBDA db, rule : Replayed(db, DbRuleAdd(db.h, db.sys, rule)), Empty, rs)

\* A rule that needs several system calls failed at one of them: the copy
\* takes the place of the filter.
TransactionAbort ==
    /\ outcome.calls < MaxRules
    /\ \E copy \in {Replay(rules)} :
           /\ ~copy.fails
           /\ heap' = copy.h
           /\ syscalls' = copy.sys
    /\ outcome' = [outcome EXCEPT !.rc = "abort", !.calls = @ + 1]
    /\ UNCHANGED <<arch, rules>>

Next ==
    \/ \E rule \in Rule[arch] : RuleAdd(rule)
    \/ \E nr \in Syscall, p \in Priority : SyscallPriority(nr, p)
    \/ TransactionAbort

Spec == Init /\ [][Next]_dbVars

-----------------------------------------------------------------------------

(* What a filter says of a call: _gen_bpf_chain and _gen_bpf_node give every *)
(* level one way out, to what follows the node above it.                     *)
Compare(n, word) ==
    CASE n.op \in {EQ, MASKED_EQ} -> word & n.mask = n.datum
      [] n.op = GE -> word >= n.datum
      [] n.op = GT -> word > n.datum

RECURSIVE LevelVerdict(_, _, _, _)
LevelVerdict(h, n, args, other) ==
    LET word == IF h[n].arg_offset = "hi" THEN Hi(args[h[n].arg]) ELSE Lo(args[h[n].arg])
        yes == Compare(h[n], word)
        nxt == IF yes THEN h[n].nxt_t ELSE h[n].nxt_f
        act == IF yes THEN h[n].act_t ELSE h[n].act_f
        on == IF h[n].lvl_nxt = NULL THEN other
              ELSE LevelVerdict(h, h[n].lvl_nxt, args, other)
    IN IF nxt # NULL THEN LevelVerdict(h, LevelHead(h, nxt), args, on)
       ELSE IF act # NULL THEN act
       ELSE on

Verdict(h, sys, nr, args) ==
    IF nr \notin DOMAIN sys \/ ~sys[nr].valid THEN DefaultAction
    ELSE IF sys[nr].chains = NULL THEN sys[nr].action
    ELSE LevelVerdict(h, LevelHead(h, sys[nr].chains), args, DefaultAction)

-----------------------------------------------------------------------------

(* What the documentation of seccomp_rule_add promises: the comparisons of a *)
(* rule are and-ed together, each on a whole argument.                       *)
Number(word) == IF Wide THEN Hi(word) * (Ones + 1) + Lo(word) ELSE Lo(word)

Passes(cmp, arg) ==
    LET x == Number(arg)
        y == Number(cmp.datum)
    IN CASE cmp.op = NE -> x # y
         [] cmp.op = LT -> x < y
         [] cmp.op = LE -> x <= y
         [] cmp.op = EQ -> x = y
         [] cmp.op = GE -> x >= y
         [] cmp.op = GT -> x > y
         [] cmp.op = MASKED_EQ ->
                x & Number(cmp.mask) = y & Number(cmp.mask)

Matches(rule, nr, args) ==
    /\ rule.syscall = nr
    /\ \A i \in DOMAIN rule.args : Passes(rule.args[i], args[rule.args[i].arg])

Promised(nr, args) ==
    LET matching == {rule \in ToSet(rules) : Matches(rule, nr, args)}
    IN IF matching = {} THEN {DefaultAction} ELSE {rule.action : rule \in matching}

\* The nodes a tree reaches, from the levels' heads.
RECURSIVE Reaches(_, _)
Reaches(h, n) ==
    IF n = NULL THEN {}
    ELSE {n} \cup Reaches(h, h[n].lvl_nxt)
         \cup UNION {Reaches(h, LevelHead(h, m)) : m \in {h[n].nxt_t, h[n].nxt_f} \ {NULL}}

Tree(s) ==
    IF s.chains = NULL THEN {} ELSE Reaches(heap, LevelHead(heap, s.chains))

\* A call gets the action of a rule that accepted it, or the default where no
\* rule does: no accepted rule is lost in a merge, none widened.
VerdictsPromised ==
    \A nr \in Syscall, args \in Args[arch] :
        Verdict(heap, syscalls, nr, args) \in Promised(nr, args)

\* Nothing leaks and nothing is freed twice: the allocated nodes are those
\* the trees reach, each tree its own.
NoLeaks ==
    /\ DOMAIN heap = UNION {Tree(syscalls[nr]) : nr \in DOMAIN syscalls}
    /\ \A nr, other \in DOMAIN syscalls :
           nr # other => Tree(syscalls[nr]) \cap Tree(syscalls[other]) = {}

\* The size a priority is computed from is that of the tree, after any merge
\* and pruning.
NodesCounted ==
    \A nr \in DOMAIN syscalls :
        /\ syscalls[nr].node_cnt = Cardinality(Tree(syscalls[nr]))
        /\ syscalls[nr].valid =>
               syscalls[nr].chain = ChainMask - Cardinality(Tree(syscalls[nr]))

\* As long as no rule was refused, an aborted transaction gives the filter
\* back: the rules can be added again, and mean the same.
SnapshotsAgree ==
    ~outcome.refused =>
        \E copy \in {Replay(rules)} :
            /\ ~copy.fails
            /\ \A nr \in Syscall, args \in Args[arch] :
                   Verdict(copy.h, copy.sys, nr, args) = Verdict(heap, syscalls, nr, args)

\* "no more failures allowed after this point that would result in the stored
\* filter being in an inconsistent state" (db.c:1265): a refused rule leaves
\* what the filter says as it was.
RefusedWithoutTrace ==
    [][outcome'.rc = "exist" =>
           \A nr \in Syscall, args \in Args[arch] :
               Verdict(heap', syscalls', nr, args) = Verdict(heap, syscalls, nr, args)]_dbVars

=============================================================================
