----------------------------- MODULE MCDracoProfile -----------------------------
(* Finite values of the constants of DracoProfile for TLC.                  *)
EXTENDS DracoProfile, TLC

\* Registers 0 and 2, and the sign of the int.
MCArgBit == {0, 2, SignBit}

\* Bound: the masks of all tasks together hold at most four bits, which is
\* enough for a full mask next to another call's, or for a forked pair of
\* two-register keys.
FewBits ==
    Cardinality({<<t, s, b>> \in Task \X Syscall \X ArgBit :
                    b \in seccomp[t].arg_position[s]}) <= 4

Symmetry == Permutations(Task)

=============================================================================
