------------------------------- MODULE FilterCol --------------------------------
(* The filter collections behind libseccomp's API: one filter per            *)
(* architecture, rules that reach every filter in the architecture's own     *)
(* form, transactions, merging, attributes and loading (src/api.c, the       *)
(* db_col_ part of src/db.c, src/arch.c, src/arch-x86.c, src/system.c).      *)
(*                                                                           *)
(* The operations on one filter are constants here, as nothing in a          *)
(* collection depends on how a filter keeps its rules; SyscallDB has them,   *)
(* and MCFilterCol puts the two together. A program gives a call by its      *)
(* native number; -100, an error on x86, is not among them.                  *)
EXTENDS ScmpCompare, SequencesExt, TLC

CONSTANTS
    Ctx,            \* the contexts a program holds
    Native,         \* the machines looked at: each is arch_def_native once
    Endian,         \* for each architecture, arch->endian
    Numbers,        \* for each architecture, its syscall_resolve_name
    Names,          \* for each architecture, its syscall_resolve_num
    Rule,           \* for each machine, the rules a program adds
    Kernels,        \* for each machine, whether its kernels have seccomp()
    Priority,       \* for each machine, the calls it gives a priority for
    Default,        \* the actions seccomp_init is called with
    Args,           \* arguments the properties try
    MaxCalls        \* bound of the runs: operations

\* For the filter of an architecture, its heap and its list of calls: what
\* db_rule_add and _db_syscall_priority make of them, what comes of adding a
\* list of rules to an empty filter, what the filter says of a call (NULL:
\* the default), and which calls a rule is for.
CONSTANTS
    DbAdd(_, _, _, _),
    DbPriority(_, _, _, _),
    DbReplay(_, _),
    DbVerdict(_, _, _, _, _),
    DbMatches(_, _, _, _)

VARIABLES
    native,         \* arch_def_native
    col,            \* the collection of each context
    support,        \* _support_seccomp_syscall
    kernel,         \* external: does seccomp() exist, and does a filter that
                    \* is in force turn it down
    last            \* history: the last operation, what it returned, the
                    \* architectures whose filter refused the rule

colVars == <<native, col, support, kernel, last>>

Arch == DOMAIN Endian
ASSUME FilterColAssumption ==
    /\ \A a \in Arch : Endian[a] # NULL
    /\ Native \subseteq Arch
    /\ \A m \in Native : \A rule \in Rule[m] :
           rule = [syscall |-> rule.syscall, action |-> rule.action, args |-> rule.args]

\* One filter. promised holds the rules the API accepted for it (history).
NewFilter(a) ==
    [arch |-> a, h |-> << >>, sys |-> << >>, rules |-> << >>, promised |-> {}]

\* A collection with one filter, as db_col_reset makes it.
ColOf(a, action) ==
    [valid |-> TRUE, filters |-> <<NewFilter(a)>>, endian |-> Endian[a],
     act_default |-> action, act_badarch |-> "kill", nnp |-> TRUE, tsync |-> FALSE]

ArchsOf(fs) == {fs[i].arch : i \in DOMAIN fs}
ArchExist(c, a) == a \in ArchsOf(col[c].filters)
ColValid(c) == col[c].valid /\ col[c].filters # << >>

-----------------------------------------------------------------------------

\* A native number in the terms of another architecture, by its name.
Translate(a, nr) ==
    IF a = native THEN nr
    ELSE IF nr \in DOMAIN Names[native] /\ Names[native][nr] \in DOMAIN Numbers[a]
    THEN Numbers[a][Names[native][nr]]
    ELSE NULL

\* The socket calls of x86 that socketcall() multiplexes, with the numbers
\* those have that can be called directly.
SockDemux ==
    LET direct == <<359, 361, 362, 363, NULL, 367, 368, 360, NULL, NULL, 369, 371,
                    373, 366, 365, 370, 372, 364, 337, 345>>
    IN [m \in {m \in -120 .. -101 : direct[-100 - m] # NULL} |-> direct[-100 - m]]
SockMux(nr) == CHOOSE m \in DOMAIN SockDemux : SockDemux[m] = nr

IsSocket(a, nr) == a = "x86" /\ nr \in -120 .. -101 \cup 359 .. 373
IsIpc(a, nr) == a = "x86" /\ nr \in -224 .. -200

\* The first argument of a multiplexing call says which call is meant; a
\* comparison the rule makes of its own first argument is overwritten.
Multiplexed(rule, nr, n) ==
    LET which == [arg |-> 0, op |-> EQ, mask |-> <<Ones, Ones>>, datum |-> <<0, n>>]
    IN [rule EXCEPT !.syscall = nr,
                    !.args = <<which>> \o SelectSeq(@, LAMBDA cmp : cmp.arg # 0)]

\* The rules an architecture makes of one: a socket call of x86 is two calls.
\* x86 takes any other negative number without adding a rule for it.
Parts(a, rule) ==
    LET nr == rule.syscall
        mux == IF nr > 0 THEN SockMux(nr) ELSE nr
        direct == IF mux \in DOMAIN SockDemux
                  THEN <<[rule EXCEPT !.syscall = SockDemux[mux]]>> ELSE << >>
    IN IF IsSocket(a, nr) THEN <<Multiplexed(rule, 102, -mux - 100)>> \o direct
       ELSE IF IsIpc(a, nr) THEN <<Multiplexed(rule, 117, -nr - 200)>>
       ELSE IF a = "x86" /\ nr < 0 THEN << >>
       ELSE <<rule>>

\* The rules go one after the other, up to the first the filter refuses.
AddParts(f, parts) ==
    LET add(db, rule) == IF db.rc = "ok"
                         THEN DbAdd(f.arch, db.h, db.sys, rule) ELSE db
    IN FoldLeft(add, [h |-> f.h, sys |-> f.sys, rc |-> "ok"], parts)

WithDb(f, db) == [f EXCEPT !.h = db.h, !.sys = db.sys]

\* What db is of adding a rule to a filter, and what joins the list if it is ok.
Taken(f, kept, db) ==
    [f |-> WithDb(IF db.rc = "ok" THEN [f EXCEPT !.rules = @ \o kept] ELSE f, db),
     rc |-> db.rc]

\* Slip: of the calls a rule became only the first joins the list.
TookFirst(f, rule) ==
    LET parts == Parts(f.arch, rule)
        first == IF parts = << >> THEN <<rule>> ELSE <<parts[1]>>
    IN Taken(f, first, AddParts(f, parts))

\* A filter once a rule in its own number went to it: what it took of the
\* rule joins its list.
Took(f, rule) ==
    LET parts == Parts(f.arch, rule)
        kept == IF parts = << >> THEN <<rule>> ELSE parts
    IN Taken(f, kept, AddParts(f, parts))

Added(fs, i, rule) ==
    LET t == Took(fs[i], rule) IN [fs |-> [fs EXCEPT ![i] = t.f], rc |-> t.rc]

\* db_col_transaction_start: every filter's rules are added to a new one.
Snapshot(fs) == [i \in DOMAIN fs |-> DbReplay(fs[i].arch, fs[i].rules)]

\* Slip: a transaction that fails is committed.
NeverAborted(fs, snap) == fs

\* db_col_transaction_abort: the copies take the place of all filters.
Aborted(fs, snap) == [i \in DOMAIN fs |-> WithDb(fs[i], snap[i])]

\* The transaction of x86_rule_add; a says how adding the rules went.
Transaction(fs, a, snap) ==
    IF \E i \in DOMAIN snap : snap[i].fails THEN [fs |-> fs, rc |-> "ENOMEM"]
    ELSE IF a.rc # "ok" THEN [a EXCEPT !.fs = Aborted(@, snap)]
    ELSE a

\* arch_filter_rule_add for the filter at i, with what x86_rule_add does. A
\* socket call of x86 is a transaction, on the whole collection.
FilterRuleAdd(fs, i, strict, rule) ==
    LET f == fs[i]
        nr == Translate(f.arch, rule.syscall)
        r == [rule EXCEPT !.syscall = nr]
        multiplexed == IsSocket(f.arch, nr) \/ IsIpc(f.arch, nr)
        a == Added(fs, i, r)
        fail(rc) == [fs |-> fs, rc |-> rc]
    IN IF nr = NULL THEN fail("EFAULT")
       ELSE IF strict /\ nr < 0 /\ ~multiplexed THEN fail("EDOM")
       ELSE IF strict /\ multiplexed /\ rule.args # << >> THEN fail("EINVAL")
       ELSE IF IsSocket(f.arch, nr) THEN Transaction(fs, a, Snapshot(fs))
       ELSE a

\* Slip: the caller hears of the last filter only.
AnsweredLast(acc, a, arch) ==
    [fs |-> a.fs, rc |-> a.rc,
     refused |-> IF a.rc = "ok" THEN acc.refused ELSE acc.refused \cup {arch}]

\* The first failure is what the caller hears of.
Answered(acc, a, arch) ==
    [fs |-> a.fs, rc |-> IF acc.rc = "ok" THEN a.rc ELSE acc.rc,
     refused |-> IF a.rc = "ok" THEN acc.refused ELSE acc.refused \cup {arch}]

\* db_col_rule_add: every filter is asked, whatever the ones before it said.
ColRuleAdd(fs, strict, rule) ==
    LET add(acc, i) == Answered(acc, FilterRuleAdd(acc.fs, i, strict, rule), fs[i].arch)
    IN FoldLeftDomain(add, [fs |-> fs, rc |-> "ok", refused |-> {}], fs)

-----------------------------------------------------------------------------

\* Every context was given to seccomp_init, and perhaps had its native filter
\* exchanged for that of another architecture, which two calls do.
Init ==
    /\ native \in Native
    /\ \E default \in [Ctx -> Default], a \in [Ctx -> Arch] :
           col = [c \in Ctx |-> ColOf(a[c], default[c])]
    /\ support = -1
    /\ \E there \in Kernels[native] : kernel = [seccomp |-> there, refuses |-> FALSE]
    /\ last = [op |-> "init", ctx |-> NULL, rc |-> "ok", refused |-> {}, calls |-> 0]

\* An API call: what it returns and what it makes of its collection. A
\* released context is not used again.
Call(op, c, rc, new) ==
    /\ last.calls < MaxCalls
    /\ col[c].valid
    /\ col' = [col EXCEPT ![c] = new]
    /\ last' = [op |-> op, ctx |-> c, rc |-> rc, refused |-> {}, calls |-> last.calls + 1]

SeccompReset(c, action) ==
    /\ Call("reset", c, "ok", ColOf(native, action))
    /\ UNCHANGED <<native, support, kernel>>

SeccompRelease(c) ==
    /\ Call("release", c, "ok", [col[c] EXCEPT !.valid = FALSE, !.filters = << >>])
    /\ UNCHANGED <<native, support, kernel>>

SeccompArchAdd(c, a) ==
    LET new == [col[c] EXCEPT !.filters = Append(@, NewFilter(a)), !.endian = Endian[a]]
        fits == ~ArchExist(c, a) /\ col[c].endian \in {NULL, Endian[a]}
    IN /\ IF fits THEN Call("arch_add", c, "ok", new)
                  ELSE Call("arch_add", c, "EEXIST", col[c])
       /\ UNCHANGED <<native, support, kernel>>

WithoutArch(fs, a) == RemoveFirstMatch(fs, LAMBDA f : f.arch = a)

\* Slip: the collection keeps the byte order of a filter it lost.
RemovedOnly(c, a) == [col[c] EXCEPT !.filters = WithoutArch(@, a)]

\* db_col_db_remove; with the last filter goes the byte order.
Removed(c, a) ==
    LET fs == WithoutArch(col[c].filters, a)
    IN [col[c] EXCEPT !.filters = fs, !.endian = IF fs = << >> THEN NULL ELSE @]

SeccompArchRemove(c, a) ==
    /\ IF ArchExist(c, a) THEN Call("arch_remove", c, "ok", Removed(c, a))
                          ELSE Call("arch_remove", c, "EEXIST", col[c])
    /\ UNCHANGED <<native, support, kernel>>

\* Slip: only the architectures are compared.
MergeableBlind(dst, src) ==
    ArchsOf(col[dst].filters) \cap ArchsOf(col[src].filters) = {}

\* seccomp_merge and db_col_merge: the attributes two collections must share,
\* not act_badarch among them, one byte order and no architecture twice.
Mergeable(dst, src) ==
    /\ ColValid(dst) /\ ColValid(src)
    /\ \A attr \in {"act_default", "nnp", "tsync", "endian"} : col[dst][attr] = col[src][attr]
    /\ ArchsOf(col[dst].filters) \cap ArchsOf(col[src].filters) = {}

SeccompMerge(dst, src) ==
    /\ last.calls < MaxCalls
    /\ col[dst].valid /\ col[src].valid
    /\ col' = IF Mergeable(dst, src)
              THEN [col EXCEPT ![dst].filters = @ \o col[src].filters,
                               ![src].filters = << >>, ![src].valid = FALSE]
              ELSE col
    /\ last' = [op |-> "merge", ctx |-> dst, refused |-> {}, calls |-> last.calls + 1,
                rc |-> IF Mergeable(dst, src) THEN "ok" ELSE "EINVAL"]
    /\ UNCHANGED <<native, support, kernel>>

\* seccomp_rule_add and, with strict, seccomp_rule_add_exact. A rule that was
\* accepted is from then on a promise of every filter in the collection.
RuleAnswer(c, rule, a) ==
    LET promise(f) == [f EXCEPT !.promised = @ \cup {rule}]
    IN /\ last.calls < MaxCalls
       /\ col' = [col EXCEPT ![c].filters =
                     IF a.rc = "ok" THEN [i \in DOMAIN a.fs |-> promise(a.fs[i])] ELSE a.fs]
       /\ last' = [op |-> "rule_add", ctx |-> c, rc |-> a.rc, refused |-> a.refused,
                   calls |-> last.calls + 1]

SeccompRuleAdd(c, strict, rule) ==
    /\ IF ~ColValid(c) \/ rule.syscall \in -99 .. -1
       THEN Call("rule_add", c, "EINVAL", col[c])
       ELSE IF rule.action = col[c].act_default
       THEN Call("rule_add", c, "EPERM", col[c])
       ELSE IF strict /\ Len(col[c].filters) > 1
       THEN Call("rule_add", c, "EOPNOTSUPP", col[c])
       ELSE RuleAnswer(c, rule, ColRuleAdd(col[c].filters, strict, rule))
    /\ UNCHANGED <<native, support, kernel>>

\* A pseudo call that no rewriting helps is passed over.
Hinted(f, nr, p) ==
    LET number == Translate(f.arch, nr)
        rewritten == CASE IsIpc(f.arch, number) -> 117
                       [] IsSocket(f.arch, number) /\ number < 0 -> 102
                       [] OTHER -> number
    IN IF number = NULL \/ rewritten < 0 THEN f
       ELSE [f EXCEPT !.sys = DbPriority(f.arch, @, rewritten, p)]

SeccompSyscallPriority(c, nr, p) ==
    LET fs == [i \in DOMAIN col[c].filters |-> Hinted(col[c].filters[i], nr, p)]
        rc == IF ~ColValid(c) \/ nr \in -99 .. -1 THEN "EINVAL"
              ELSE IF \E a \in ArchsOf(fs) : Translate(a, nr) = NULL THEN "EFAULT" ELSE "ok"
    IN /\ Call("priority", c, rc, IF rc = "EINVAL" THEN col[c] ELSE [col[c] EXCEPT !.filters = fs])
       /\ UNCHANGED <<native, support, kernel>>

-----------------------------------------------------------------------------

\* Slip: the kernel is asked each time.
AskedAgain == IF kernel.seccomp /\ ~kernel.refuses THEN 1 ELSE 0

\* sys_chk_seccomp_syscall: what the first probe found stays.
ChkSeccompSyscall ==
    IF support >= 0 THEN support
    ELSE IF kernel.seccomp /\ ~kernel.refuses THEN 1 ELSE 0

\* seccomp_attr_set; act_default is read only.
SeccompAttrSet(c) ==
    /\ \/ /\ ~ColValid(c)
          /\ Call("attr_set", c, "EINVAL", col[c])
          /\ UNCHANGED support
       \/ /\ ColValid(c)
          /\ \/ Call("attr_set", c, "EACCES", col[c])
             \/ \E action \in Default :
                    Call("attr_set", c, "ok", [col[c] EXCEPT !.act_badarch = action])
             \/ \E on \in BOOLEAN : Call("attr_set", c, "ok", [col[c] EXCEPT !.nnp = on])
          /\ UNCHANGED support
       \/ /\ ColValid(c)
          /\ support' = ChkSeccompSyscall
          /\ \E on \in BOOLEAN :
                 IF ChkSeccompSyscall = 1
                 THEN Call("attr_set", c, "ok", [col[c] EXCEPT !.tsync = on])
                 ELSE Call("attr_set", c, "EOPNOTSUPP", col[c])
    /\ UNCHANGED <<native, kernel>>

\* seccomp_load, sys_filter_load. The kernel takes the program or not; with
\* tsync a thread it could not reach also gives zero. A program in force may
\* turn seccomp() down from then on. op names the way the program went.
SeccompLoad(c) ==
    LET way == IF ChkSeccompSyscall = 1 THEN "seccomp" ELSE "prctl"
        reached == way = "seccomp" => ~kernel.refuses
    IN \/ /\ ~ColValid(c)
          /\ Call("load", c, "EINVAL", col[c])
          /\ UNCHANGED <<native, support, kernel>>
       \/ /\ ColValid(c) /\ col[c].nnp          \* no_new_privs failed
          /\ Call("load", c, "errno", col[c])
          /\ UNCHANGED <<native, support, kernel>>
       \/ /\ ColValid(c)
          /\ support' = ChkSeccompSyscall
          /\ \/ /\ \/ Call(way, c, "errno", col[c])
                   \/ /\ reached /\ way = "seccomp" /\ col[c].tsync
                      /\ Call(way, c, "unsynced", col[c])
                /\ UNCHANGED kernel
             \/ /\ reached
                /\ Call(way, c, "ok", col[c])
                /\ kernel' \in {kernel, [kernel EXCEPT !.refuses = TRUE]}
          /\ UNCHANGED native

Next ==
    \E c \in Ctx :
        \/ \E action \in Default : SeccompReset(c, action)
        \/ SeccompRelease(c)
        \/ \E a \in Arch : SeccompArchAdd(c, a)
        \/ \E a \in Arch : SeccompArchRemove(c, a)
        \/ \E src \in Ctx \ {c} : SeccompMerge(c, src)
        \/ \E rule \in Rule[native], strict \in BOOLEAN : SeccompRuleAdd(c, strict, rule)
        \/ \E nr \in Priority[native] : SeccompSyscallPriority(c, nr, 1)
        \/ SeccompAttrSet(c)
        \/ SeccompLoad(c)

Spec == Init /\ [][Next]_colVars

-----------------------------------------------------------------------------

\* The byte order a collection notes is that of all its filters, none when
\* it has none, and no architecture is in it twice, over any sequence of
\* adding, removing, merging and resetting (db.c:570, 686, 865, 897).
OneEndian ==
    \A c \in Ctx : col[c].valid =>
        LET fs == col[c].filters
        IN /\ {Endian[a] : a \in ArchsOf(fs)} =
                  IF col[c].endian = NULL THEN {} ELSE {col[c].endian}
           /\ Cardinality(ArchsOf(fs)) = Len(fs)

\* What a filter says of a call, in a collection with its default action.
Says(f, default, nr, args) ==
    LET verdict == DbVerdict(f.arch, f.h, f.sys, nr, args)
    IN IF verdict = NULL THEN default ELSE verdict

\* A rule the API accepted is in force in every filter that was there, for
\* each call it becomes on that architecture: the call gets the action of a
\* rule that filter took. Failures in one filter, and the copies an abort
\* puts in the place of the others, lose none (db.c:1617, db.c:1731).
AcceptedInForce ==
    \A c \in Ctx : \A f \in ToSet(col[c].filters) : \A rule \in f.promised :
        LET translated == [rule EXCEPT !.syscall = Translate(f.arch, @)]
            matches(q, nr, args) == DbMatches(f.arch, q, nr, args)
        IN \A p \in ToSet(Parts(f.arch, translated)), args \in Args :
               matches(p, p.syscall, args) =>
                   \E q \in ToSet(f.rules) :
                       /\ matches(q, p.syscall, args)
                       /\ q.action = Says(f, col[c].act_default, p.syscall, args)

\* No task can make a call with a negative number.
SameVerdicts(f, default, g, default_g) ==
    \A nr \in DOMAIN f.sys \cup DOMAIN g.sys \cup {0}, args \in Args :
        nr >= 0 =>
            Says(f, default, nr, args) = Says([g EXCEPT !.arch = f.arch], default_g, nr, args)

\* A call that a rule on the list of a filter is for gets the action of a rule
\* on the list. On x86 the list may hold numbers no rule was added for.
InForce(f, default) ==
    LET matches(q, nr, args) == DbMatches(f.arch, q, nr, args)
    IN \A p \in ToSet(f.rules), args \in Args :
           matches(p, p.syscall, args) /\ ~(f.arch = "x86" /\ p.syscall < 0) =>
               \E q \in ToSet(f.rules) :
                   /\ matches(q, p.syscall, args)
                   /\ q.action = Says(f, default, p.syscall, args)

\* A filter, and the copy of it an abort would put in its place.
Versions(f) ==
    LET copy == DbReplay(f.arch, f.rules)
    IN {f} \cup IF copy.fails THEN {} ELSE {WithDb(f, copy)}

\* A filter that takes a rule has it in force, and one that refuses a rule
\* says what it said before, also if an abort put a copy in its place. What a
\* refused socket call leaves is no matter: there the abort follows.
TakesWell(f, default, rule) ==
    LET nr == Translate(f.arch, rule.syscall)
        took(v) == Took(v, [rule EXCEPT !.syscall = nr])
        well(t) == t.rc = "ok" \/ ~IsSocket(f.arch, nr) =>
                       /\ \A w \in Versions(t.f) : InForce(w, default)
                       /\ t.rc # "ok" => SameVerdicts(f, default, t.f, default)
    IN nr # NULL => \A v \in Versions(f) : well(took(v))

\* What a collection counts on in each of its filters, as long as anything may
\* still be done to it: that the filter alone, without the others and without
\* transactions, does what it promised (db.c:1244, db.c:1665).
FiltersKeepWord ==
    last.calls < MaxCalls =>
        \A c \in Ctx : \A f \in ToSet(col[c].filters) :
            LET default == col[c].act_default
            IN /\ \A v \in Versions(f) :
                      InForce(v, default) /\ SameVerdicts(f, default, v, default)
               /\ \A nr \in Priority[native] : InForce(Hinted(f, nr, 1), default)
               /\ \A rule \in Rule[native] :
                      rule.action # default => TakesWell(f, default, rule)

\* A filter that refuses a rule says what it said before, also when the rule
\* stood for two calls and only the second was refused (arch-x86.c:341).
AbortRestores ==
    [][\A c \in Ctx :
           \A f \in ToSet(col[c].filters), g \in ToSet(col'[c].filters) :
               c = last'.ctx /\ f.arch = g.arch /\ f.arch \in last'.refused =>
                   SameVerdicts(f, col[c].act_default, g, col'[c].act_default)]_colVars

\* A merge keeps every filter of both collections, and what each says of any
\* call (api.c:108, db.c:686).
MergeKeepsVerdicts ==
    [][last'.op = "merge" /\ last'.rc = "ok" =>
           LET dst == col'[last'.ctx]
               taken == {c \in Ctx : col[c] # col'[c] \/ c = last'.ctx}
           IN \A c \in taken : \A f \in ToSet(col[c].filters) :
                  \E g \in ToSet(dst.filters) :
                      /\ g.arch = f.arch
                      /\ SameVerdicts(f, col[c].act_default, g, dst.act_default)]_colVars

\* A collection with tsync is never loaded in the way that reaches only the
\* calling thread, also when a filter loaded earlier turns seccomp() down
\* (system.c:58).
TsyncHonoured ==
    last.op = "prctl" /\ last.rc = "ok" => ~col[last.ctx].tsync

=============================================================================
