--------------------------------- MODULE MCBpfGen ---------------------------------
(* Finite values of the constants of BpfGen and SyscallDB for TLC.          *)
EXTENDS BpfGen

Cmp(arg, op, v) == [arg |-> arg, op |-> op, mask |-> <<Ones, Ones>>, datum |-> v]
Masked(arg, v) == [arg |-> arg, op |-> MASKED_EQ, mask |-> v, datum |-> v]

\* Rules of up to two comparisons, for one call.
RulesOf(nr, cmps, actions) ==
    LET of(i) == {c \in cmps : c.arg = i}
        chains == {<< >>} \cup {<<c>> : c \in cmps}
                  \cup {<<c, d>> : c \in of(0), d \in of(1)}
    IN [syscall : {nr}, action : actions, args : chains]

\* x86: comparisons libseccomp keeps on the true side. x86_64: words that
\* differ in the high or in the low half.
NarrowCmps == {Cmp(i, op, <<0, 1>>) : i \in {0, 1}, op \in {EQ, GE}}
              \cup {Cmp(0, EQ, <<0, 2>>), Masked(1, <<0, 1>>)}
WideCmps == {Cmp(i, EQ, v) : i \in {0, 1}, v \in {<<0, 1>>, <<1, 1>>}}

BothRules ==
    [x86 |-> RulesOf(1, NarrowCmps, {"allow", "errno"})
             \cup RulesOf(2, {Cmp(0, EQ, <<0, 1>>)}, {"allow"}),
     x86_64 |-> RulesOf(1, WideCmps, {"allow", "errno"})
                \cup RulesOf(2, {Cmp(0, EQ, <<0, 1>>)}, {"allow"})]

BothArgs ==
    [x86 |-> [{0, 1} -> {<<0, v>> : v \in 0 .. 2}],
     x86_64 |-> [{0, 1} -> {<<0, 0>>, <<0, 1>>, <<1, 1>>}]]

=============================================================================
