------------------------------- MODULE SyscallMemo ------------------------------
(***************************************************************************)
(* What the cache of checked system calls promises its caller, without     *)
(* buckets, ways, pools or counters: it remembers some of the calls it was *)
(* asked about, answers "hit" exactly for the remembered ones, and forgets *)
(* only all at once.                                                       *)
(***************************************************************************)


CONSTANTS
    Entry,      \* what identifies a call: its owner, its number, its key
    NoEntry     \* a call the cache does not look up

VARIABLES
    memo,       \* the remembered calls
    answer      \* the last call and whether it was a hit

MemoInit == memo = {} /\ answer = [entry |-> NoEntry, hit |-> FALSE]

Hit(e) ==
    /\ e \in memo
    /\ answer' = [entry |-> e, hit |-> TRUE]
    /\ UNCHANGED memo

\* A missed call may be remembered, or dropped when there is no room.
Miss(e) ==
    /\ e \notin memo
    /\ answer' = [entry |-> e, hit |-> FALSE]
    /\ memo' \in {memo, memo \cup {e}}

Decline ==
    /\ answer' = [entry |-> NoEntry, hit |-> FALSE]
    /\ UNCHANGED memo

Forget ==
    /\ memo' = {}
    /\ UNCHANGED answer

MemoNext == (\E e \in Entry : Hit(e) \/ Miss(e)) \/ Decline \/ Forget

MemoSpec == MemoInit /\ [][MemoNext]_<<memo, answer>>

=============================================================================
