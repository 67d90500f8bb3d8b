------------------------------ MODULE ScmpCompare -------------------------------
(* The comparisons a rule makes of an argument (include/seccomp.h).          *)
EXTENDS Integers

CONSTANTS
    NULL,
    Ones            \* ARG_MASK_MAX, a word of ones

\* enum scmp_compare
NE == 1
LT == 2
LE == 3
EQ == 4
GE == 5
GT == 6
MASKED_EQ == 7

=============================================================================
