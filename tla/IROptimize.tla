----------------------------- MODULE IROptimize -----------------------------
(***************************************************************************)
(* ket_opt_run_passes (src/src/ir_optimize.c) on one basic block of what   *)
(* src/src/ir.c lowers: the passes run one after the other on the block,   *)
(* in the order of the optimisation level.                                 *)
(*                                                                         *)
(* An IRValue is a kind and the bits of its union, in which the number of  *)
(* a register and an integer constant share their storage: reg_id is the   *)
(* low half of const_int.  Integers have LongBits bits and register        *)
(* numbers IntBits, two's complement, where the code has 64 and 32.        *)
(*                                                                         *)
(* Meaning runs a block the way llvm_gen_inst (src/src/codegen.c) prints   *)
(* it; the properties compare what it did before the passes and after each *)
(* of them.  The block is the function's first: it is the only one whose   *)
(* registers the passes track (see RegCount).  Licm and inlining have      *)
(* empty bodies.                                                           *)
(***************************************************************************)
EXTENDS Integers, Sequences, SequencesExt

CONSTANTS
    Literals,  \* the integer literals of programs
    Inputs,    \* the values a variable may have when the block starts
    BinOps,    \* the arithmetic of programs
    MaxInsts,  \* bound: instructions of the block
    LongBits,  \* the width of an int64_t
    IntBits    \* the width of an int

VARIABLES
    code,        \* the block's instructions
    inst_count,  \* block->inst_count
    original,    \* history: the block before the first pass
    todo         \* the passes still to run

vars == <<code, inst_count, original, todo>>

Long == -(2 ^ (LongBits - 1)) .. 2 ^ (LongBits - 1) - 1
Int32 == -(2 ^ (IntBits - 1)) .. 2 ^ (IntBits - 1) - 1

ASSUME OptimizeAssumption ==
    /\ LongBits \in Nat /\ IntBits \in 2 .. LongBits
    /\ MaxInsts \in Nat /\ MaxInsts \in Int32
    /\ Literals \subseteq Long /\ Inputs \subseteq Long
    /\ BinOps \subseteq {"add", "sub", "mul", "div", "mod", "eq", "lt"}

Value == [kind : {"const", "reg", "name"}, bits : Long]
Passes == {"fold", "propagate", "dce", "strength", "gvn"}
Pure == {"none", "add", "sub", "mul", "div", "mod", "eq", "lt", "shl", "shr", "neg", "load"}
Inst == [op : Pure \cup {"store", "call", "ret"}, dst : Value, args : Seq(Value)]

TypeOK ==
    /\ code \in Seq(Inst)
    /\ inst_count = Len(code)
    /\ original \in Seq(Inst)
    /\ todo \in Seq(Passes \cup {"write"})
-----------------------------------------------------------------------------
\* Two's complement in w bits; the int that shares its storage with a long.
Wrap(n, w) == LET m == n % 2 ^ w IN IF m >= 2 ^ (w - 1) THEN m - 2 ^ w ELSE m
Low(n) == Wrap(n, IntBits)

\* C and LLVM divide towards zero.
Abs(n) == IF n < 0 THEN -n ELSE n
Quotient(m, n) == LET q == Abs(m) \div Abs(n) IN IF (m < 0) = (n < 0) THEN q ELSE -q
Bool(b) == IF b THEN 1 ELSE 0

Const(n) == [kind |-> "const", bits |-> n]
Reg(r) == [kind |-> "reg", bits |-> r]
Name == [kind |-> "name", bits |-> 0]

IsConst(v) == v.kind = "const"
IsReg(v) == v.kind = "reg"

\* What an operation computes; division and remainder by zero have no result.
Result(op, m, n) ==
    Wrap(CASE op = "add" -> m + n
           [] op = "sub" -> m - n
           [] op = "mul" -> m * n
           [] op = "div" -> Quotient(m, n)
           [] op = "mod" -> m - n * Quotient(m, n)
           [] op = "eq" -> Bool(m = n)
           [] op = "lt" -> Bool(m < n)
           [] op = "shl" -> m * 2 ^ n
           [] op = "shr" -> m \div 2 ^ n
           [] op = "neg" -> -m, LongBits)
-----------------------------------------------------------------------------
\* What running a block does: the values printed, stored and returned, until a
\* return.  Undef, no int64_t, is what a register holds that nothing has written.
Undef == 2 ^ LongBits

Read(env, v) ==
    IF v.kind # "reg" THEN v.bits
    ELSE IF v.bits \in DOMAIN env THEN env[v.bits] ELSE Undef

Arith(op, vals) ==
    IF Undef \in Range(vals) THEN Undef
    ELSE IF op \in {"div", "mod"} /\ vals[2] = 0 THEN Undef
    ELSE Result(op, vals[1], vals[Len(vals)])

Write(env, r, n) == [x \in DOMAIN env \cup {r} |-> IF x = r THEN n ELSE env[x]]

\* An IR_NONE is printed as a definition of the register its dst.reg_id names.
\* A "load" reads the variable the block has as input.
Perform(m, inst, input) ==
    LET vals == [a \in DOMAIN inst.args |-> Read(m.env, inst.args[a])]
        to == Low(inst.dst.bits)
    IN  IF m.over THEN m
        ELSE CASE inst.op = "none" ->
                    IF IsConst(inst.dst)
                    THEN [m EXCEPT !.env = Write(@, to, inst.dst.bits)] ELSE m
               [] inst.op = "load" -> [m EXCEPT !.env = Write(@, to, input)]
               [] inst.op \in {"store", "call"} ->
                    [m EXCEPT !.did = Append(@, <<inst.op, vals[2]>>)]
               [] inst.op = "ret" ->
                    [m EXCEPT !.did = Append(@, <<"ret", vals[1]>>), !.over = TRUE]
               [] OTHER ->
                    [m EXCEPT !.env = Write(@, to, Arith(inst.op, vals)),
                              !.negdiv = @ \/ /\ inst.op = "div"
                                              /\ vals[1] \in Long /\ vals[1] < 0]

Meaning(block, input) ==
    FoldLeft(LAMBDA m, inst : Perform(m, inst, input),
             [env |-> <<>>, did |-> <<>>, over |-> FALSE, negdiv |-> FALSE], block)

Did(block, input) == Meaning(block, input).did
-----------------------------------------------------------------------------
\* fn->reg_count is 0 when ket_ir_new_function returns and nothing sets it, so
\* register 0 is the only one the passes track.
RegCount == 0
TrackedReg(r) == 0 <= r /\ r <= RegCount

\* ket_opt_constant_folding: an operation on constants becomes an IR_NONE whose
\* dst is the result, written over the number of the register it was to go to.
Foldable(inst) ==
    /\ inst.op \in {"add", "sub", "mul", "div", "mod", "eq", "lt", "shl", "shr", "neg"}
    /\ inst.args # <<>> /\ \A a \in DOMAIN inst.args : IsConst(inst.args[a])
    /\ inst.op \in {"div", "mod"} => inst.args[2].bits # 0

Folded(inst) ==
    IF ~Foldable(inst) THEN inst
    ELSE [inst EXCEPT !.op = "none",
                      !.dst = Const(Result(inst.op, inst.args[1].bits,
                                           inst.args[Len(inst.args)].bits))]

Fold(block) == [i \in DOMAIN block |-> Folded(block[i])]

\* const_propagate: reads the number of the register back from the dst of an
\* IR_NONE, and gives the operands that name it the constant.
Recorded(known, inst) ==
    IF inst.op = "none" /\ IsConst(inst.dst) /\ TrackedReg(Low(inst.dst.bits))
    THEN Write(known, Low(inst.dst.bits), inst.dst.bits) ELSE known

Substituted(known, inst) ==
    [inst EXCEPT !.args = [a \in DOMAIN @ |->
        IF IsReg(@[a]) /\ @[a].bits \in DOMAIN known THEN Const(known[@[a].bits])
        ELSE @[a]]]

Propagate(block) ==
    FoldLeft(LAMBDA m, inst : [known |-> Recorded(m.known, inst),
                               out |-> Append(m.out, Substituted(m.known, inst))],
             [known |-> <<>>, out |-> <<>>], block).out

\* ket_opt_dead_code_elim: what nobody reads and has no effect goes.
SideEffecting(op) == op \in {"store", "call", "ret"}

\* Slip: only the first operand is looked at.
UsedSlip(block) == {r \in Int32 : TrackedReg(r) /\ \E i \in DOMAIN block :
                                    \/ Reg(r) = block[i].args[1]
                                    \/ SideEffecting(block[i].op) /\ Reg(r) = block[i].dst}

\* Registers read, and those a side-effecting operation names as its result.
Used(block) == {r \in Int32 : TrackedReg(r) /\ \E i \in DOMAIN block :
                                \/ Reg(r) \in Range(block[i].args)
                                \/ SideEffecting(block[i].op) /\ Reg(r) = block[i].dst}
Live(block, inst) ==
    \/ ~IsReg(inst.dst) \/ ~TrackedReg(inst.dst.bits)
    \/ inst.dst.bits \in Used(block)
    \/ SideEffecting(inst.op)

Dce(block) == SelectSeq(block, LAMBDA inst : Live(block, inst))

\* strength_reduce: multiplication and division by a power of two.
Log2(v) == CHOOSE k \in 0 .. LongBits : 2 ^ k = v
PowerOfTwo(v) == \E k \in 0 .. LongBits : 2 ^ k = v

Reduced(inst) ==
    IF inst.op \in {"mul", "div"} /\ IsConst(inst.args[2]) /\ PowerOfTwo(inst.args[2].bits)
    THEN [inst EXCEPT !.op = IF @ = "mul" THEN "shl" ELSE "shr",
                      !.args[2] = Const(Log2(@.bits))]
    ELSE inst

Strength(block) == [i \in DOMAIN block |-> Reduced(block[i])]

\* ket_opt_gvn: an instruction of the same operation and constants as one before
\* it becomes an IR_NONE with the dst of that one.  A folded instruction is an
\* IR_NONE that has its operands still.
Operand(inst, a) == IF a \in DOMAIN inst.args THEN inst.args[a]
                    ELSE [kind |-> "nothing", bits |-> 0]
SameValue(x, y) ==
    /\ x.op = y.op
    /\ IsConst(Operand(x, 1)) /\ Operand(x, 1) = Operand(y, 1)
    /\ Operand(x, 2) = Operand(y, 2)

Numbered(block, i) ==
    [j \in DOMAIN block |->
        IF j > i /\ SameValue(block[i], block[j])
        THEN [block[j] EXCEPT !.op = "none", !.dst = block[i].dst]
        ELSE block[j]]

Gvn(block) == FoldLeft(Numbered, block, [i \in DOMAIN block |-> i])
-----------------------------------------------------------------------------
\* The passes of each level.
Level == [none |-> <<>>,
          O1 |-> <<"fold", "propagate", "dce", "strength", "dce", "fold">>,
          O2 |-> <<"fold", "propagate", "dce", "strength", "gvn", "dce", "fold">>]

Init ==
    /\ code = <<>>
    /\ inst_count = 0
    /\ original = <<>>
    /\ todo = <<"write">>

\* new_inst on a block of the entry: the destination is the next register.
\* Operands are literals, or registers that are written already.
Emit(op, args) ==
    /\ todo = <<"write">> /\ inst_count < MaxInsts
    /\ code' = Append(code, [op |-> op, dst |-> Reg(inst_count), args |-> args])
    /\ inst_count' = inst_count + 1
    /\ UNCHANGED <<original, todo>>

Written == {code[i].dst : i \in {j \in DOMAIN code : code[j].op \in Pure}}
Operands == {Const(n) : n \in Literals} \cup Written

\* The block is complete: it has an effect.  The passes of a level begin.
Start(level) ==
    /\ todo = <<"write">> /\ code # <<>> /\ SideEffecting(Last(code).op)
    /\ original' = code
    /\ todo' = Level[level]
    /\ UNCHANGED <<code, inst_count>>

Pass(name, block) ==
    /\ todo # <<>> /\ Head(todo) = name
    /\ todo' = Tail(todo)
    /\ code' = block
    /\ UNCHANGED original

RunFold == Pass("fold", Fold(code)) /\ UNCHANGED inst_count
RunPropagate == Pass("propagate", Propagate(code)) /\ UNCHANGED inst_count
\* Slip: removing an instruction leaves inst_count alone.
RunDceSlip == Pass("dce", Dce(code)) /\ UNCHANGED inst_count
RunDce == Pass("dce", Dce(code)) /\ inst_count' = inst_count - (Len(code) - Len(code'))
RunStrength == Pass("strength", Strength(code)) /\ UNCHANGED inst_count
RunGvn == Pass("gvn", Gvn(code)) /\ UNCHANGED inst_count

Next ==
    \/ Emit("load", <<Name>>)
    \/ \E op \in BinOps, x, y \in Operands : Emit(op, <<x, y>>)
    \/ \E x \in Operands : Emit("neg", <<x>>)
    \/ \E op \in {"call", "store"}, x \in Operands : Emit(op, <<Name, x>>)
    \/ \E x \in Operands : Emit("ret", <<x>>)
    \/ \E level \in DOMAIN Level : Start(level)
    \/ RunFold
    \/ RunPropagate
    \/ RunDce
    \/ RunStrength
    \/ RunGvn

Spec == Init /\ [][Next]_vars
-----------------------------------------------------------------------------
Started == original # <<>>

NothingToFold == \A i \in DOMAIN original : ~Foldable(original[i])
NothingRepeated == \A i, j \in DOMAIN original :
    i # j => ~SameValue(original[i], original[j])

\* The kinds of the effects: what was printed, stored and returned, in order.
Kinds(did) == [i \in DOMAIN did |-> did[i][1]]

\* "Evaluate operations where all operands are constants at compile time"
\* (ir_optimize.c:11), "Remove instructions with no side effects and unused
\* results" (:97): the passes of a level change nothing a block does.  The code
\* keeps this for the kinds of the effects and their order on every block; for
\* the values too on blocks without an operation on constants alone, whose
\* result folding loses, and without two equal operations, of which gvn leaves
\* the second's register unwritten, and on inputs for which nothing negative is
\* divided, which a shift rounds downwards.
MeaningKept ==
    Started => \A x \in Inputs :
        /\ Kinds(Did(code, x)) = Kinds(Did(original, x))
        /\ NothingToFold /\ NothingRepeated /\ ~Meaning(original, x).negdiv =>
               Did(code, x) = Did(original, x)
=============================================================================
