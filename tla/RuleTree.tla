-------------------------------- MODULE RuleTree ---------------------------------
(* The trees of argument comparisons libseccomp keeps per system call, and   *)
(* the operations on them (src/db.c, src/db.h).                              *)
(*                                                                           *)
(* A heap maps the allocated nodes to their fields; an operation takes a     *)
(* heap and returns the next one with its results in a record. To look at a  *)
(* freed node is an evaluation error. Nodes on one level of a tree are       *)
(* linked by lvl_prv and lvl_nxt; nxt_t and nxt_f lead to the levels a node  *)
(* goes on with; act_t and act_f are NULL where the flag is not set.         *)
EXTENDS ScmpCompare, Sequences, FiniteSets, Bitwise

\* db_chain_*: how two nodes order, and what a node is.
ChainEq(h, x, y) ==
    /\ h[x].arg = h[y].arg
    /\ h[x].op = h[y].op
    /\ h[x].datum = h[y].datum
    /\ h[x].mask = h[y].mask

ChainLt(h, x, y) ==
    \/ h[x].arg < h[y].arg
    \/ /\ h[x].arg = h[y].arg
       /\ \/ h[x].op < h[y].op
          \/ h[x].mask & h[y].mask = h[y].mask

ChainGt(h, x, y) ==
    \/ h[x].arg > h[y].arg
    \/ /\ h[x].arg = h[y].arg
       /\ \/ h[x].op > h[y].op
          \/ h[x].mask & h[y].mask # h[y].mask

ChainAction(h, x) == h[x].act_t # NULL \/ h[x].act_f # NULL
ChainLeaf(h, x) == h[x].nxt_t = NULL /\ h[x].nxt_f = NULL

\* Slip: a node with an action and nothing below counts as one without use.
ChainZombieLeaf(h, x) == ChainLeaf(h, x)

ChainZombie(h, x) == ChainLeaf(h, x) /\ ~ChainAction(h, x)

ChainEqResult(h, x, y) ==
    /\ h[x].nxt_t = NULL <=> h[y].nxt_t = NULL
    /\ h[x].nxt_f = NULL <=> h[y].nxt_f = NULL
    /\ h[x].act_t = h[y].act_t
    /\ h[x].act_f = h[y].act_f

\* The first node of a node's level.
RECURSIVE LevelHead(_, _)
LevelHead(h, n) ==
    IF h[n].lvl_prv = NULL THEN n ELSE LevelHead(h, h[n].lvl_prv)

-----------------------------------------------------------------------------

\* Freeing: a reference is dropped, and the last one takes the rest of the
\* level and the levels below along. An f holds the heap and in cnt the
\* number of nodes freed so far.
RECURSIVE FreeRef(_, _)
RECURSIVE FreeTree(_, _)

Dropped(f, n) == [h |-> [m \in DOMAIN f.h \ {n} |-> f.h[m]], cnt |-> f.cnt + 1]

\* Slip: the rest of the level stays behind.
FreeRefAlone(f, n) ==
    IF n = NULL THEN f
    ELSE IF f.h[n].refcnt > 1 THEN [f EXCEPT !.h[n].refcnt = @ - 1]
    ELSE Dropped(FreeTree(FreeTree(f, f.h[n].nxt_t), f.h[n].nxt_f), n)

FreeRef(f, n) ==
    IF n = NULL THEN f
    ELSE IF f.h[n].refcnt > 1 THEN [f EXCEPT !.h[n].refcnt = @ - 1]
    ELSE Dropped(FreeTree(FreeTree(FreeRef(f, f.h[n].lvl_nxt), f.h[n].nxt_t),
                          f.h[n].nxt_f), n)

FreeTree(f, n) == IF n = NULL THEN f ELSE FreeRef(f, LevelHead(f.h, n))

TreeFree(h, n) == FreeTree([h |-> h, cnt |-> 0], n)

\* A node is taken off its level.
Unlink(h, n) ==
    LET p == h[n].lvl_prv
        s == h[n].lvl_nxt
    IN [m \in DOMAIN h |->
           CASE m = n -> [h[n] EXCEPT !.lvl_prv = NULL, !.lvl_nxt = NULL]
             [] m # n /\ m = p -> [h[p] EXCEPT !.lvl_nxt = s]
             [] m # n /\ m = s -> [h[s] EXCEPT !.lvl_prv = p]
             [] OTHER -> h[m]]

\* The first node of a tree that is the one looked for, or that does nothing
\* any more, is unlinked and freed. "tree" is what the caller's pointer holds
\* and comes back as what it holds then. An r holds heap, pointer and count.
RECURSIVE TreeRemove(_, _, _)
RECURSIVE LevelRemove(_, _, _)

TreeRemove(h, tree, node) ==
    LET r == [h |-> h, tree |-> tree, cnt |-> 0]
    IN IF tree = NULL \/ node = NULL THEN r ELSE LevelRemove(r, node, LevelHead(h, tree))

\* What was removed below c is taken over in c.
BelowRemoved(r, c, side, below) ==
    [r EXCEPT !.h = [below.h EXCEPT ![c][side] = below.tree], !.cnt = @ + below.cnt]

RemoveBelow(r, node, c, side) ==
    BelowRemoved(r, c, side, TreeRemove(r.h, r.h[c][side], node))

CRemoved(r, c, f) ==
    [h |-> f.h, cnt |-> r.cnt + f.cnt,
     tree |-> IF c # r.tree THEN r.tree
              ELSE IF r.h[c].lvl_prv # NULL THEN r.h[c].lvl_prv
              ELSE r.h[c].lvl_nxt]

RemoveBehind(r, node, c) ==
    IF r.h[c].lvl_nxt = NULL THEN r ELSE LevelRemove(r, node, r.h[c].lvl_nxt)

LevelRemove(r, node, c) ==
    IF c = node \/ ChainZombie(r.h, c)
    THEN CRemoved(r, c, TreeFree(Unlink(r.h, c), c))
    ELSE RemoveBehind(RemoveBelow(RemoveBelow(r, node, c, "nxt_t"), node, c, "nxt_f"),
                      node, c)

\* No action below a node differs from the given one.
RECURSIVE TreeActCheck(_, _, _)
RECURSIVE LevelActCheck(_, _, _)

TreeActCheck(h, tree, action) ==
    tree # NULL => LevelActCheck(h, LevelHead(h, tree), action)

LevelActCheck(h, c, action) ==
    /\ {h[c].act_t, h[c].act_f} \subseteq {action, NULL}
    /\ TreeActCheck(h, h[c].nxt_t, action)
    /\ TreeActCheck(h, h[c].nxt_f, action)
    /\ h[c].lvl_nxt # NULL => LevelActCheck(h, h[c].lvl_nxt, action)

-----------------------------------------------------------------------------

(* Pruning compares a level of the existing tree with the head of the new    *)
(* one. rc counts the nodes removed; -1 says the new tree adds nothing.      *)
(* "prev" is the pointer through which existing nodes may be removed: at is  *)
(* what it holds, some is FALSE where the code passes NULL.                  *)
NoPrev == [some |-> FALSE, at |-> NULL]
PrevAt(n) == [some |-> TRUE, at |-> n]

NoPruneState == [prefix_exist |-> FALSE, prefix_new |-> FALSE, matched |-> FALSE]

Pruned(h, prev, rc) == [h |-> h, prev |-> prev, rc |-> rc]

\* _db_tree_remove through prev, which may be no pointer at all.
RemovedVia(prev, r) == Pruned(r.h, [prev EXCEPT !.at = r.tree], r.cnt)
RemoveVia(h, prev, node) ==
    IF ~prev.some THEN Pruned(h, prev, 0) ELSE RemovedVia(prev, TreeRemove(h, prev.at, node))

Discard(s) == Pruned(s.h, s.prev, IF s.rc > 0 THEN s.rc ELSE -1)

\* The walk: heap, pointer, existing node e and count; stop ends it.
Longer(s, c, act, nxt) == s.h[c][act] # NULL /\ s.h[s.e][nxt] # NULL

\* The new chain ends at a node the tree has: what hangs below the existing
\* one on that side is replaced by the action.
ShortenedBy(s, c, act, nxt, r) ==
    [s EXCEPT !.h = [r.h EXCEPT ![s.e][nxt] = r.tree, ![s.e][act] = s.h[c][act]],
              !.rc = @ + r.cnt]

Shorten(s, c, act, nxt) ==
    IF ~Longer(s, c, act, nxt) THEN s
    ELSE ShortenedBy(s, c, act, nxt, TreeRemove(s.h, s.h[s.e][nxt], s.h[s.e][nxt]))

PruneEnd(s) == Pruned(s.h, s.prev, s.rc)

PruneLeaf(s, c) ==
    IF ChainEqResult(s.h, s.e, c)
    THEN IF s.prev.some THEN RemoveVia(s.h, s.prev, s.e) ELSE Pruned(s.h, s.prev, -1)
    ELSE IF /\ ~s.prev.some
            /\ Longer(s, c, "act_t", "nxt_t") \/ Longer(s, c, "act_f", "nxt_f")
    THEN Pruned(s.h, s.prev, -1)
    ELSE PruneEnd(Shorten(Shorten(s, c, "act_t", "nxt_t"), c, "act_f", "nxt_f"))

RECURSIVE TreeSubPrune(_, _, _, _, _)
RECURSIVE LevelPrune(_, _, _)

TreeSubPrune(h, prev, existing, new, state) ==
    IF existing = NULL \/ new = NULL THEN Pruned(h, prev, 0)
    ELSE LevelPrune([h |-> h, prev |-> prev, e |-> existing, rc |-> 0, stop |-> FALSE],
                    new, state)

\* One side of the existing node, the new node, or both. The removal may move
\* e.
Branched(s, state, rel, p) ==
    [s EXCEPT !.h = p.h, !.e = IF p.prev.some THEN p.prev.at ELSE @,
              !.rc = @ + (IF p.rc > 0 THEN p.rc ELSE 0),
              !.stop = /\ p.rc < 0
                       /\ rel = "gt" \/ (rel = "eq" /\ state.prefix_new)]

Branch(s, c, state, rel, side) ==
    IF s.stop \/ (rel # "lt" /\ s.h[c][side] = NULL) THEN s
    ELSE Branched(s, state, rel,
                  TreeSubPrune(
                      s.h,
                      IF s.prev.some /\ rel # "gt" THEN PrevAt(s.e) ELSE NoPrev,
                      IF rel = "gt" THEN s.e ELSE s.h[s.e][side],
                      IF rel = "lt" THEN c ELSE s.h[c][side],
                      CASE rel = "eq" -> [state EXCEPT !.matched = TRUE]
                        [] rel = "lt" -> [state EXCEPT !.prefix_exist = TRUE]
                        [] rel = "gt" -> [state EXCEPT !.prefix_new = TRUE]))

\* On to the next of the level, without e if it does nothing any more.
Onward(r, rc, next, c, state) ==
    IF next = NULL THEN [r EXCEPT !.rc = @ + rc]
    ELSE LevelPrune([h |-> r.h, prev |-> r.prev, e |-> next, rc |-> rc + r.rc, stop |-> FALSE],
                    c, state)

Advance(s, c, state) ==
    IF s.stop THEN Discard(s)
    ELSE Onward(IF ChainZombie(s.h, s.e) THEN RemoveVia(s.h, s.prev, s.e)
                ELSE Pruned(s.h, s.prev, 0),
                s.rc, s.h[s.e].lvl_nxt, c, state)

LevelPrune(s, c, state) ==
    LET both(rel) == Branch(Branch(s, c, state, rel, "nxt_t"), c, state, rel, "nxt_f")
    IN IF ChainEq(s.h, s.e, c)
       THEN IF ChainLeaf(s.h, c) THEN PruneLeaf(s, c)
            ELSE IF \/ s.h[c].nxt_t # NULL /\ s.h[s.e].act_t # NULL
                    \/ s.h[c].nxt_f # NULL /\ s.h[s.e].act_f # NULL
            THEN Pruned(s.h, s.prev, -1)
            ELSE Advance(both("eq"), c, state)
       ELSE IF ChainLt(s.h, s.e, c) /\ ~state.matched /\ ~state.prefix_new
       THEN Advance(both("lt"), c, state)
       ELSE IF /\ ~ChainLt(s.h, s.e, c) /\ ChainGt(s.h, s.e, c)
               /\ ~state.matched /\ ~state.prefix_exist
       THEN Advance(both("gt"), c, state)
       ELSE Advance(s, c, state)

=============================================================================
