--------------------------- MODULE MCSecureComputing ----------------------------
(* Finite values of the constants of SecureComputing for TLC.               *)
EXTENDS SecureComputing, TLC

MCVal == {0, 1}
MCTwoArgBit == {0, 1}
MCBucket == {0, 1}

\* More keys hold a one than a bucket of two ways holds.
MCHash == [k \in Keys |-> IF \E i \in DOMAIN k : k[i] = 1 THEN 1 ELSE 0]

Unused == [op |-> "none", passes |-> {}]
Plain(v) == [op |-> "plain", passes |-> {v}]
Masked(v) == [op |-> "masked", passes |-> {v}]

\* Call 0 by its second register or by both, call 1 whatever its
\* registers, and a pseudo number libseccomp passes on.
PlainRules ==
    {[syscall |-> 0, chain |-> <<Unused, Plain(1)>>],
     [syscall |-> 0, chain |-> <<Plain(0), Plain(0)>>],
     [syscall |-> 1, chain |-> <<Unused, Unused>>],
     [syscall |-> -1, chain |-> <<Unused, Unused>>]}

\* Two rules for call 0, one per register.
SplitRules ==
    {[syscall |-> 0, chain |-> <<Unused, Plain(0)>>],
     [syscall |-> 0, chain |-> <<Plain(0), Unused>>]}

MaskedRules == {[syscall |-> 0, chain |-> <<Masked(1), Unused>>]}

Symmetry == Permutations(Task) \cup Permutations(Hook)

=============================================================================
