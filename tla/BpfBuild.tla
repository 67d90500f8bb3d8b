-------------------------------- MODULE BpfBuild ---------------------------------
(* The second half of _gen_bpf_build_bpf (src/gen_bpf.c): from the list of   *)
(* blocks made for the architectures to a list that is a program. Blocks     *)
(* that are jumped to are pulled in behind the last block that leads to      *)
(* them, the accumulator reloaded where they count on something else; jumps  *)
(* that are too long go through a copy; the jumps become distances.          *)
(*                                                                           *)
(* A hash stands for the contents of a block: it is the block's place in the *)
(* order in which the blocks were made. A collision of different contents is *)
(* told apart by the code.                                                   *)
EXTENDS ScmpCompare, SequencesExt

CONSTANT
    JumpMax         \* _BPF_JMP_MAX, _BPF_JMP_MAX_RET: 255, less in the runs

ASSUME JumpMaxAssumption == JumpMax \in Nat \ {0}

VARIABLES
    table,          \* state->htbl: what was made under each hash
    blocks,         \* the list of blocks, b_head first
    found,          \* the hashes whose buckets are marked as found
    place,          \* b_iter of the search for long jumps, counted from b_head
    iter,           \* iter: the instruction of that block it is at
    grown,          \* res_cnt > 0: the block got another one behind it
    stage           \* how far the function is: "idle" when it does not run

buildVars == <<table, blocks, found, place, iter, grown, stage>>

NoJump == 0         \* TGT_NONE
Undef == <<-1, "undef">>

\* Instructions. jt, jf and kt are targets of type TGT_PTR_HSH.
Plain(op) == [op |-> op, offset |-> Undef, k |-> 0, action |-> "none",
              jt |-> NoJump, jf |-> NoJump, kt |-> NoJump]
Load(offset) == [Plain("ld") EXCEPT !.offset = offset]
Mask(mask) == [Plain("and") EXCEPT !.k = mask]
Return(action) == [Plain("ret") EXCEPT !.action = action]
LongJump(hash) == [Plain("ja") EXCEPT !.kt = hash]

\* What a block counts on in the accumulator, and what it leaves there.
AccOffset(offset) == [offset |-> offset, mask |-> Ones]
AccUndef == AccOffset(Undef)

Block(hash, code, start, end) ==
    [hash |-> hash, code |-> code, acc_start |-> start, acc_end |-> end]

Leads(ins) == {ins.jt, ins.jf, ins.kt} \ {NoJump}
Goals(code) == UNION {Leads(code[at]) : at \in DOMAIN code}

-----------------------------------------------------------------------------

\* _hsh_find_once finds a block that is in the table and was not found yet.
Unfound(ins) == (Leads(ins) \cap DOMAIN table) \ found
Missing(b) == (Goals(b.code) \cap DOMAIN table) \ found
Wanting == {i \in DOMAIN blocks : Missing(blocks[i]) # {}}

\* Slip: the search goes from the head of the list to its tail.
PullerFromHead == Min(Wanting)

\* The search goes from the tail to the head, and back to the tail after
\* every block it finds.
Puller == Max(Wanting)

\* The block found: for the last instruction that leads to one, jt before jf.
Pulled ==
    LET code == blocks[Puller].code
        ins == code[Max({at \in DOMAIN code : Unfound(code[at]) # {}})]
    IN CASE ins.jt \in Unfound(ins) -> ins.jt
         [] ins.jt \notin Unfound(ins) /\ ins.jf \in Unfound(ins) -> ins.jf
         [] OTHER -> ins.kt

ReloadCode(acc) ==
    <<Load(acc.offset)>> \o (IF acc.mask # Ones THEN <<Mask(acc.mask)>> ELSE << >>)

\* Slip: the block is taken as it was made.
ReloadedNever(hash, end) ==
    Block(hash, table[hash].code, table[hash].acc_start, table[hash].acc_end)

\* A block that counts on something else than the one it is put behind
\* leaves in the accumulator gets its own load in front.
Reloaded(hash, end) ==
    LET b == table[hash]
    IN IF b.acc_start.offset = Undef \/ b.acc_start = end
       THEN Block(hash, b.code, b.acc_start, b.acc_end)
       ELSE Block(hash, ReloadCode(b.acc_start) \o b.code, AccUndef, b.acc_end)

-----------------------------------------------------------------------------

\* The instructions from one block to another, both left out.
Between(bs, i, j) ==
    FoldLeft(LAMBDA n, b : n + Len(b.code), 0, SubSeq(bs, i + 1, j - 1))

\* The blocks of a hash behind block i, and the last of all.
Behind(bs, i, hash) == {j \in i + 1 .. Len(bs) : bs[j].hash = hash}
LastOf(bs, hash) == Max({j \in DOMAIN bs : bs[j].hash = hash})

JumpLength(bs, i, at, hash) ==
    Len(bs[i].code) - at + Between(bs, i, Min(Behind(bs, i, hash)))

\* Slip: any block of one instruction is taken for a return.
IsReturnShort(code) == Len(code) = 1

IsReturn(code) == Len(code) = 1 /\ code[1].op = "ret"

\* What is put behind a block for a jump that is too long: another return, or
\* a long jump that goes by the hash of its target.
Copy(bs, hash) ==
    LET code == bs[LastOf(bs, hash)].code
    IN Block(hash,
             IF IsReturn(code) THEN <<Return(code[1].action)>> ELSE <<LongJump(hash)>>,
             AccUndef, AccUndef)

\* Slip: a jump one too long is left as it is.
ShortenedLate(bs, i, at, hash) ==
    IF \/ hash = NoJump
       \/ Behind(bs, i, hash) = {}
       \/ JumpLength(bs, i, at, hash) <= JumpMax + 1
    THEN bs
    ELSE InsertAt(bs, i + 1, Copy(bs, hash))

\* _gen_bpf_build_jmp for one target.
Shortened(bs, i, at, hash) ==
    IF \/ hash = NoJump
       \/ Behind(bs, i, hash) = {}
       \/ JumpLength(bs, i, at, hash) <= JumpMax
    THEN bs
    ELSE InsertAt(bs, i + 1, Copy(bs, hash))

ShortenedAt(bs, i, at) ==
    Shortened(Shortened(bs, i, at, bs[i].code[at].jt), i, at, bs[i].code[at].jf)

\* Where the jumps of an instruction lead to.
JumpTargets(ins) == {ins.jt, ins.jf} \ {NoJump}
Lost(bs, i, at) == \E hash \in JumpTargets(bs[i].code[at]) : Behind(bs, i, hash) = {}

JumpFits(bs, i, at) ==
    \A hash \in JumpTargets(bs[i].code[at]) :
        Behind(bs, i, hash) # {} /\ JumpLength(bs, i, at, hash) \in 0 .. JumpMax

\* A jump or a long jump as a distance.
Resolved(bs, i) ==
    [at \in DOMAIN bs[i].code |->
        LET ins == bs[i].code[at]
            length(hash) == IF hash = NoJump THEN 0 ELSE JumpLength(bs, i, at, hash)
        IN IF ins.kt # NoJump
           THEN [ins EXCEPT !.kt = Len(bs[i].code) - at + Between(bs, i, LastOf(bs, ins.kt))]
           ELSE [ins EXCEPT !.jt = length(ins.jt), !.jf = length(ins.jf)]]

Program == FlattenSeq([i \in DOMAIN blocks |-> Resolved(blocks, i)])

-----------------------------------------------------------------------------

BuildInit ==
    /\ table = << >> /\ blocks = << >> /\ found = {}
    /\ place = 0 /\ iter = 0 /\ grown = FALSE
    /\ stage = "idle"

IsSeq(s) == Len(s) \in Nat /\ s = [k \in 1 .. Len(s) |-> s[k]]

(* What the first half makes: blocks are made bottom up, those of the list   *)
(* are made once and count as found, and lead to blocks further down the     *)
(* list or to some that are not in it. A block of the list that others lead  *)
(* to was made after those behind it that wait for one to be pulled in.      *)
Generated(tbl, bs, fnd) ==
    LET missing(b) == (Goals(b.code) \cap DOMAIN tbl) \ fnd
    IN /\ IsSeq(tbl) /\ IsSeq(bs) /\ bs # << >>
       /\ fnd = {bs[p].hash : p \in DOMAIN bs}
       /\ \A h \in DOMAIN tbl :
              /\ IsSeq(tbl[h].code)
              /\ Goals(tbl[h].code) \subseteq 1 .. h - 1
              /\ \A at \in DOMAIN tbl[h].code :
                     LET ins == tbl[h].code[at] IN ins.op = "ret" => ins = Return(ins.action)
       /\ \A p \in DOMAIN bs :
              /\ bs[p].hash \in DOMAIN tbl
              /\ bs[p].code = tbl[bs[p].hash].code
              /\ \A h \in Goals(bs[p].code) \cap fnd : Behind(bs, p, h) # {}
       /\ \A p, q \in DOMAIN bs :
              p < q =>
                  /\ bs[p].hash # bs[q].hash
                  /\ missing(bs[q]) # {} /\ (\E h \in DOMAIN tbl : bs[p].hash \in Goals(tbl[h].code))
                         => bs[q].hash < bs[p].hash

\* The first half of the function, whatever filter it is for.
Lay ==
    /\ stage = "idle"
    /\ stage' = "pull"
    /\ Generated(table', blocks', found')
    /\ UNCHANGED <<place, iter, grown>>

\* A block that is jumped to is put right behind the last one that leads to it.
PullIn ==
    /\ stage = "pull"
    /\ Wanting # {}
    /\ blocks' = InsertAt(blocks, Puller + 1, Reloaded(Pulled, blocks[Puller].acc_end))
    /\ found' = found \cup {Pulled}
    /\ UNCHANGED <<table, place, iter, grown, stage>>

\* The search for long jumps begins at the tail.
From(bs, i) == IF i = 0 THEN 0 ELSE Len(bs[i].code)

PullEnds ==
    /\ stage = "pull"
    /\ Wanting = {}
    /\ stage' = "jumps"
    /\ place' = Len(blocks)
    /\ iter' = From(blocks, Len(blocks))
    /\ UNCHANGED <<table, blocks, found, grown>>

\* One instruction, from the last of a block to its first.
CheckJump ==
    /\ stage = "jumps"
    /\ iter > 0
    /\ stage' = IF Lost(blocks, place, iter) THEN "failed" ELSE "jumps"
    /\ blocks' = ShortenedAt(blocks, place, iter)
    /\ grown' = (grown \/ blocks' # blocks)
    /\ iter' = iter - 1
    /\ UNCHANGED <<table, found, place>>

\* A block that grew another behind it is looked at again.
NextBlock ==
    /\ stage = "jumps"
    /\ iter = 0 /\ place > 0
    /\ place' = IF grown THEN place ELSE place - 1
    /\ iter' = From(blocks, place')
    /\ grown' = FALSE
    /\ UNCHANGED <<table, blocks, found, stage>>

\* The jumps become distances, once more checked.
Resolve ==
    /\ stage = "jumps"
    /\ place = 0
    /\ stage' = IF \A i \in DOMAIN blocks : \A at \in DOMAIN blocks[i].code : JumpFits(blocks, i, at)
                THEN "built" ELSE "failed"
    /\ UNCHANGED <<table, blocks, found, place, iter, grown>>

\* gen_bpf_release, or the way out through build_bpf_free_blks.
Release ==
    /\ stage \in {"built", "failed"}
    /\ stage' = "idle"
    /\ table' = << >> /\ blocks' = << >> /\ found' = {}
    /\ place' = 0 /\ iter' = 0 /\ grown' = FALSE

BuildStep == PullIn \/ PullEnds \/ CheckJump \/ NextBlock \/ Resolve \/ Release

BuildNext == Lay \/ BuildStep

\* This half of the function whatever the first made of the filter. Any program
\* of the first half keeps to it as long as the blocks it lays are Generated.
BuildSpec == BuildInit /\ [][BuildNext]_buildVars

-----------------------------------------------------------------------------

\* What the search has passed stays in reach: no copy put into the list makes
\* a jump too long again, and in a program every jump fits its field.
JumpsFit ==
    stage \in {"jumps", "built"} =>
        \A i \in place + 1 .. Len(blocks) :
            \A at \in DOMAIN blocks[i].code : JumpFits(blocks, i, at)

\* No list ends in -EFAULT: whatever a block jumps to is behind it, although
\* blocks are pulled in one at a time and never moved.
BuildSucceeds == stage # "failed"

\* Jumping to a copy is jumping to the block: the last block of a hash is the
\* one that was made, any other one a long jump to it or the same return.
CopiesLead ==
    \A i \in DOMAIN blocks :
        LET hash == blocks[i].hash
            last == LastOf(blocks, hash)
            made == table[hash]
        IN IF i = last
           THEN blocks[i].code \in {made.code, ReloadCode(made.acc_start) \o made.code}
           ELSE \/ blocks[i].code = <<LongJump(hash)>>
                \/ IsReturn(blocks[last].code) /\ blocks[i].code = blocks[last].code

=============================================================================
