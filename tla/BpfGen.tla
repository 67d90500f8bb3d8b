--------------------------------- MODULE BpfGen ----------------------------------
(* The BPF program libseccomp generates for a filter (src/gen_bpf.c): blocks *)
(* of instructions are made from the trees bottom up and kept once per       *)
(* contents, the calls and the frame around them are strung into a list, and *)
(* BpfBuild makes a program of it. One architecture, that of the filter.     *)
EXTENDS SyscallDB, BpfBuild

CONSTANTS
    MaxBuilt,       \* bound of the runs: rules of a filter that is built
    NoSyscall       \* a number no rule is about

\* Offsets into struct seccomp_data, and numbers no call has.
Nr == <<-1, "nr">>
ArchField == <<-1, "arch">>
X32Bit == 1000
Token == 2000

Jump(op, k, jt, jf) ==
    [Plain(CASE op \in {EQ, MASKED_EQ} -> "jeq" [] op = GE -> "jge" [] op = GT -> "jgt")
        EXCEPT !.k = k, !.jt = jt, !.jf = jf]

\* _hsh_add: the first block of some contents stays.
HshAdd(tbl, code, start, end) ==
    LET same == {h \in DOMAIN tbl : tbl[h].code = code}
    IN IF same # {} THEN [tbl |-> tbl, hash |-> Min(same)]
       ELSE [tbl |-> Append(tbl, [code |-> code, acc_start |-> start, acc_end |-> end]),
             hash |-> Len(tbl) + 1]

AddAction(tbl, action) == HshAdd(tbl, <<Return(action)>>, AccUndef, AccUndef)

\* The blocks every program begins with.
BadArch == AddAction(<< >>, Kill)
Default == AddAction(BadArch.tbl, DefaultAction)

(* _gen_bpf_node, _gen_bpf_chain and _gen_bpf_chain_lvl_res for the level    *)
(* from n on. What follows on the level is made first, then what hangs below *)
(* n; the nodes of a level count on what the one before leaves in the        *)
(* accumulator, the level below on what n itself counts on.                  *)
Reloads(h, n, acc) ==
    acc.offset # <<h[n].arg, h[n].arg_offset>> \/ acc.mask & h[n].mask # h[n].mask
Leaves(h, n) == [offset |-> <<h[n].arg, h[n].arg_offset>>, mask |-> h[n].mask]

RECURSIVE GenLevel(_, _, _, _, _)

\* What a node leads to on one side; rest is what follows on its level, t the
\* blocks there are.
GenSide(h, below, action, rest, start, t) ==
    IF below # NULL THEN GenLevel(h, LevelHead(h, below), rest, start, t)
    ELSE IF action # NULL THEN AddAction(t, action)
    ELSE [tbl |-> t, hash |-> rest]

NodeBlock(h, n, acc, jt, jf) ==
    LET offset == <<h[n].arg, h[n].arg_offset>>
        reload == Reloads(h, n, acc)
        code == (IF reload THEN <<Load(offset)>> ELSE << >>)
                \o (IF h[n].mask # (IF reload THEN Ones ELSE acc.mask)
                    THEN <<Mask(h[n].mask)>> ELSE << >>)
                \o <<Jump(h[n].op, h[n].datum, jt.hash, jf.hash)>>
    IN HshAdd(jf.tbl, code, IF reload THEN AccUndef ELSE acc, Leaves(h, n))

GenFalse(h, n, rest, acc, start, jt) ==
    NodeBlock(h, n, acc, jt, GenSide(h, h[n].nxt_f, h[n].act_f, rest, start, jt.tbl))

GenNode(h, n, acc, start, rest) ==
    GenFalse(h, n, rest.hash, acc, start,
             GenSide(h, h[n].nxt_t, h[n].act_t, rest.hash, start, rest.tbl))

GenLevel(h, n, nxt, acc, tbl) ==
    GenNode(h, n, acc, IF Reloads(h, n, acc) THEN AccUndef ELSE acc,
            IF h[n].lvl_nxt = NULL THEN [tbl |-> tbl, hash |-> nxt]
            ELSE GenLevel(h, h[n].lvl_nxt, nxt, Leaves(h, n), tbl))

GenChain(h, s, acc, tbl) ==
    IF s.chains = NULL THEN AddAction(tbl, s.action)
    ELSE GenLevel(h, LevelHead(h, s.chains), Default.hash, acc, tbl)

\* The calls by priority, the higher first, equals in the order of numbers.
Sorted ==
    LET pri(nr) == syscalls[nr].user * (ChainMask + 1) + syscalls[nr].chain
    IN SetToSortSeq(DOMAIN syscalls,
                    LAMBDA a, b : pri(a) > pri(b) \/ (pri(a) = pri(b) /\ a < b))

\* A list of blocks with one more at its head.
Headed(bs, own, code, start, end) ==
    [tbl |-> own.tbl, blocks |-> <<Block(own.hash, code, start, end)>> \o bs]

WithHead(list, code, start, end) ==
    Headed(list.blocks, HshAdd(list.tbl, code, start, end), code, start, end)

FirstOf(list) == IF list.blocks = << >> THEN Default.hash ELSE list.blocks[1].hash

\* The block of one call, before those of the calls after it. Only the head
\* of the list loads the number, and on x86_64 the check for x32 has done so.
SyscallBlock(nr, reset, list, chain) ==
    WithHead([list EXCEPT !.tbl = chain.tbl],
             (IF reset THEN <<Load(Nr)>> ELSE << >>)
                 \o <<Jump(EQ, nr, chain.hash, FirstOf(list))>>,
             IF reset THEN AccUndef ELSE AccOffset(Nr), AccOffset(Nr))

GenSyscall(nr, head, list) ==
    LET reset == nr = head /\ ~Wide
    IN SyscallBlock(nr, reset, list,
                    GenChain(heap, syscalls[nr], IF reset THEN AccOffset(Nr) ELSE AccUndef,
                             list.tbl))

GenSyscalls ==
    LET order == Sorted
        gen(nr, list) == IF syscalls[nr].valid THEN GenSyscall(nr, order[1], list) ELSE list
    IN FoldRight(gen, order, [tbl |-> Default.tbl, blocks |-> << >>])

\* The rest of _gen_bpf_arch and the frame around it: load the architecture,
\* check it, check the number for the x32 bit; the action for a wrong
\* architecture at the end.
X32Checked(list) ==
    IF Wide
    THEN WithHead(list, <<Load(Nr), Jump(GE, X32Bit, BadArch.hash, FirstOf(list))>>,
                  AccUndef, AccOffset(Nr))
    ELSE list

ArchChecked(list) ==
    WithHead(WithHead(list, <<Jump(EQ, Token, FirstOf(list), BadArch.hash)>>,
                      AccUndef, AccUndef),
             <<Load(ArchField)>>, AccUndef, AccOffset(ArchField))

BadArchBlock == Block(BadArch.hash, <<Return(Kill)>>, AccUndef, AccUndef)

\* Slip: the action for a wrong architecture is put before the calls.
FramedEarly(list) ==
    ArchChecked(X32Checked([list EXCEPT !.blocks = <<BadArchBlock>> \o @]))

Framed(list) ==
    LET framed == ArchChecked(X32Checked(list))
    IN [framed EXCEPT !.blocks = @ \o <<BadArchBlock>>]

GenBlocks == Framed(GenSyscalls)

-----------------------------------------------------------------------------

GenInit == Init /\ BuildInit

\* The filter changes while nothing is generated for it.
Change ==
    /\ stage = "idle"
    /\ Next
    /\ UNCHANGED buildVars

\* _gen_bpf_build_bpf as far as the list of blocks.
Generate ==
    /\ stage = "idle"
    /\ Len(rules) <= MaxBuilt
    /\ stage' = "pull"
    /\ \E g \in {GenBlocks} :
           /\ table' = g.tbl
           /\ blocks' = g.blocks
           /\ found' = {g.blocks[i].hash : i \in DOMAIN g.blocks}
    /\ UNCHANGED <<place, iter, grown>>
    /\ UNCHANGED dbVars

GenNext == Change \/ Generate \/ (BuildStep /\ UNCHANGED dbVars)

GenSpec == GenInit /\ [][GenNext]_<<dbVars, buildVars>>

-----------------------------------------------------------------------------

\* The machine the program runs on, as tools/scmp_bpf_sim.c has it: the
\* accumulator, and forward jumps.
Input(offset, nr, args) ==
    CASE offset = ArchField -> Token
      [] offset = Nr -> nr
      [] offset[2] = "hi" -> Hi(args[offset[1]])
      [] offset[2] = "lo" -> Lo(args[offset[1]])

RECURSIVE Run(_, _, _, _, _)
Run(program, pc, acc, nr, args) ==
    LET ins == program[pc]
        yes == CASE ins.op = "jeq" -> acc = ins.k
                 [] ins.op = "jge" -> acc >= ins.k
                 [] ins.op = "jgt" -> acc > ins.k
        on(distance, a) == Run(program, pc + 1 + distance, a, nr, args)
    IN CASE ins.op = "ret" -> ins.action
         [] ins.op = "ld" -> on(0, Input(ins.offset, nr, args))
         [] ins.op = "and" -> on(0, acc & ins.k)
         [] ins.op = "ja" -> on(ins.kt, acc)
         [] OTHER -> on(IF yes THEN ins.jt ELSE ins.jf, acc)

\* The program says of every call what the trees say: no block relies on an
\* accumulator another path left behind, no jump is cut off or misled by a
\* block of the same contents.
ProgramFaithful ==
    stage = "built" =>
        \E program \in {Program} :
            \A nr \in Syscall \cup {NoSyscall}, args \in Args[arch] :
                Run(program, 1, 0, nr, args) = Verdict(heap, syscalls, nr, args)

\* Whatever hints there are, as long as the call the list begins with has a
\* rule or the number is loaded for the x32 check.
ProgramFaithfulFromHead ==
    syscalls # << >> /\ (Wide \/ syscalls[Sorted[1]].valid) => ProgramFaithful

=============================================================================
