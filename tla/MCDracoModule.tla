----------------------------- MODULE MCDracoModule ------------------------------
(* Finite values of the constants of DracoModule for TLC.                   *)
EXTENDS DracoModule, TLC

MCVal == {0, 1}
MCOneArgBit == {0}
MCTwoArgBit == {0, 1}
MCBucket == {0, 1}

\* A hash that parts the keys that hold a one from the others: more of them
\* than a bucket of two ways holds.
MCHash == [k \in Keys |-> IF \E i \in DOMAIN k : k[i] = 1 THEN 1 ELSE 0]

\* A hash with nothing to tell keys apart.
MCCrowdedHash == [k \in Keys |-> 0]

\* A task whose filter is installed, with masks[s] the profile of call s.
FilteredStruct(masks) ==
    LoadSeccomp([CleanStruct EXCEPT
                    !.mode = "filter",
                    !.draco_count = SyscallCount,
                    !.bit_map = [s \in Syscall |-> s],
                    !.fill = [s \in Syscall |-> 1],
                    !.arg_position = masks])

\* Every task has gone through its prctl calls, or waits to be forked: the
\* runs that look at the cache start here.
FilteredInit ==
    /\ seccomp \in [Task -> {FilteredStruct(m) : m \in [Syscall -> Mask]}
                              \cup (IF MayFork THEN {CleanStruct} ELSE {})]
    /\ ModuleInit

FilteredSpec == FilteredInit /\ [][Next]_vars

Symmetry == Permutations(Task) \cup Permutations(Hook)

=============================================================================
