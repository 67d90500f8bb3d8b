------------------------------- MODULE MCFilterCol -------------------------------
(* Finite values of the constants of FilterCol for TLC, and the filters of   *)
(* SyscallDB in its collections.                                             *)
EXTENDS FilterCol

\* The filter of architecture a; the operations are those of a heap and a
\* list of calls, its variables are not used.
Db(a) ==
    INSTANCE SyscallDB WITH
        arch <- a, DefaultAction <- NULL, heap <- << >>, syscalls <- << >>,
        rules <- << >>, outcome <- << >>, Syscall <- {}, Rule <- << >>,
        Priority <- {}, Args <- << >>, MaxRules <- 0

MCDbAdd(a, h, sys, rule) == Db(a)!DbRuleAdd(h, sys, rule)
MCDbPriority(a, sys, nr, p) == Db(a)!DbSyscallPriority(sys, nr, p)
MCDbReplay(a, rules) == Db(a)!Replay(rules)
MCDbVerdict(a, h, sys, nr, args) == Db(a)!Verdict(h, sys, nr, args)
MCDbMatches(a, rule, nr, args) == Db(a)!Matches(rule, nr, args)

\* Five calls of the generated tables: two that x86 multiplexes for sockets
\* (one of them with a number below 359), one for ipc, a plain one, and one
\* that x86_64 does not have.
MCNumbers ==
    [x86_64 |-> ("socket" :> 41) @@ ("recvmmsg" :> 299) @@ ("semop" :> 65) @@
                ("read" :> 0) @@ ("socketcall" :> -10060),
     x86 |-> ("socket" :> -101) @@ ("recvmmsg" :> -119) @@ ("semop" :> -201) @@
             ("read" :> 3) @@ ("socketcall" :> 102),
     mips |-> ("socket" :> 4183) @@ ("recvmmsg" :> 4335) @@ ("semop" :> -201) @@
              ("read" :> 4003) @@ ("socketcall" :> 4102)]

MCNames ==
    [x86_64 |-> (41 :> "socket") @@ (299 :> "recvmmsg") @@ (65 :> "semop") @@
                (0 :> "read") @@ (-10060 :> "socketcall"),
     x86 |-> (-101 :> "socket") @@ (-119 :> "recvmmsg") @@ (-201 :> "semop") @@
             (3 :> "read") @@ (102 :> "socketcall") @@ (359 :> "socket") @@ (337 :> "recvmmsg"),
     mips |-> (4183 :> "socket") @@ (4335 :> "recvmmsg") @@ (-201 :> "semop") @@
              (4003 :> "read") @@ (4102 :> "socketcall")]

MCEndian == [x86_64 |-> "little", x86 |-> "little", mips |-> "big"]

Equal(arg, v) == [arg |-> arg, op |-> EQ, mask |-> <<Ones, Ones>>, datum |-> <<0, v>>]
Of(nr, action, args) == [syscall |-> nr, action |-> action, args |-> args]

\* A number without a name (9999) is refused by the other architectures.
MCRule ==
    [x86_64 |-> {Of(41, "allow", <<Equal(0, 1)>>), Of(41, "errno", <<Equal(0, 2)>>),
                 Of(41, "errno", << >>),
                 Of(-10060, "allow", << >>), Of(9999, "allow", << >>)},
     x86 |-> {Of(337, "allow", <<Equal(1, 1)>>), Of(-119, "errno", <<Equal(1, 1)>>),
              Of(359, "allow", << >>), Of(-201, "allow", <<Equal(1, 1)>>),
              Of(-300, "allow", << >>)}]

\* The 32-bit machine has an old kernel, without seccomp().
MCKernels == [x86_64 |-> {TRUE}, x86 |-> {FALSE}]

MCPriority == [x86_64 |-> {41, 65}, x86 |-> {-119, -300}]

\* The first argument tells socket() (1), the second call of a group (2) and
\* recvmmsg() (19) apart.
MCArgs == {[i \in {0, 1} |-> <<0, IF i = 0 THEN x ELSE y>>] : x \in {0, 1, 2, 19}, y \in {0, 1}}

Symmetry == Permutations(Ctx)

=============================================================================
