------------------------------ MODULE IRLower ------------------------------
(***************************************************************************)
(* ket_ir_lower (src/src/ir.c): a function's statements become basic       *)
(* blocks of three-address instructions.                                   *)
(*                                                                         *)
(* The function is not fixed: each action of the first phase writes one    *)
(* more piece of source and emits what lower_stmt emits for it, in order,  *)
(* into the current block; the recursion of lower_stmt is the stack        *)
(* `frames` of the ifs and whiles it is inside of.  When the function is   *)
(* complete, and of statements lower_stmt has a case for, the second phase *)
(* runs source and IR side by side, deciding every condition either way,   *)
(* and the properties compare the two.                                     *)
(*                                                                         *)
(* Types, names, constants and which arithmetic operator a token maps to   *)
(* are left out: an instruction is its kind and where its operands come    *)
(* from.  `src`, `pc` and the field `at` of an instruction (its loc) are   *)
(* the source side.                                                        *)
(***************************************************************************)
EXTENDS Naturals, Sequences

CONSTANTS
    Exprs,     \* the expressions programs use, with their subexpressions
    Depth,     \* how deep the tree of each of them is
    Values,    \* those that are initialised, assigned and returned
    Conds,     \* those that ifs and whiles test
    Arguments, \* those that are printed
    Stride,    \* 10000 in new_inst: how far apart blocks number instructions
    MaxStmts,  \* bound: statements of the function
    MaxNest    \* bound: ifs and whiles open at one time

\* What the parser gives to lower_expr is a finite tree.
ASSUME ExprAssumption ==
    /\ Depth \in [Exprs -> Nat]
    /\ \A e \in Exprs :
          /\ e.kind \in {"lit", "other", "var", "unary", "bin", "call"}
          /\ e.kind \in {"unary", "call"} => e.arg \in Exprs /\ Depth[e.arg] < Depth[e]
          /\ e.kind = "bin" => /\ e.left \in Exprs /\ Depth[e.left] < Depth[e]
                               /\ e.right \in Exprs /\ Depth[e.right] < Depth[e]

ASSUME LowerAssumption ==
    /\ Values \cup Conds \cup Arguments \subseteq Exprs
    /\ Stride \in Nat \ {0}
    /\ MaxStmts \in Nat
    /\ MaxNest \in Nat

VARIABLES
    blocks,     \* fn->blocks; block b has the id b - 1
    cur,        \* current_block
    frames,     \* the if and while statements lower_stmt is inside of
    src,        \* the source written so far
    stmts,      \* how many statements it has
    supported,  \* lower_expr and lower_stmt have a case for all of it
    phase,      \* "write", then "run", then "done"
    pos,        \* the instruction the IR is at
    pc          \* the token the source is at

ir == <<blocks, cur>>
run == <<pos, pc>>
vars == <<blocks, cur, frames, src, stmts, supported, phase, pos, pc>>

Value == [kind : {"none", "const", "global", "reg", "block"}, n : Nat]
Inst == [op : {"load", "unary", "bin", "call", "alloca", "store", "ret", "br", "br_cond"},
         id : Nat, args : Seq(Value), at : Nat]

\* No two instructions of a function write the same register, as long as no block
\* outgrows the distance between the numbers of two blocks.
UniqueRegisters ==
    (\A b \in DOMAIN blocks : Len(blocks[b]) <= Stride) =>
        \A b, c \in DOMAIN blocks :
            \A i \in DOMAIN blocks[b], j \in DOMAIN blocks[c] :
                blocks[b][i].id = blocks[c][j].id => b = c /\ i = j

\* The types; a branch goes to a block there is, and a register is one instruction's.
TypeOK ==
    /\ blocks \in Seq(Seq(Inst))
    /\ UniqueRegisters
    /\ cur \in DOMAIN blocks
    /\ \A b \in DOMAIN blocks : \A i \in DOMAIN blocks[b] :
          \A a \in DOMAIN blocks[b][i].args :
             LET v == blocks[b][i].args[a]
             IN  v.kind = "block" => v.n \in DOMAIN blocks
    /\ stmts \in 0 .. MaxStmts
    /\ Len(frames) <= MaxNest
    /\ supported \in BOOLEAN
    /\ phase \in {"write", "run", "done"}
    /\ pos \in [block : DOMAIN blocks, i : Nat \ {0}]
    /\ pc \in 1 .. Len(src) + 1
-----------------------------------------------------------------------------
None == [kind |-> "none", n |-> 0]
Const == [kind |-> "const", n |-> 0]
Global == [kind |-> "global", n |-> 0]
Reg(r) == [kind |-> "reg", n |-> r]
ToBlock(b) == [kind |-> "block", n |-> b]

\* new_inst numbers the n-th instruction of block b.
Id(b, n) == (b - 1) * Stride + n

\* An instruction emitted for the piece of source being written.
New(op, id, args) == [op |-> op, id |-> id, args |-> args, at |-> Len(src) + 1]

\* lower_expr on <<e, b, n>>: the instructions for e when block b already has n
\* of them, the value they leave, and whether there is a case for all of e; f is
\* what lower_expr gives for the subexpressions.  A call is emitted before its
\* arguments are lowered; an expression without a case gives no value and no code.
LowerOf(f, x) ==
    LET e == x[1]
        b == x[2]
        n == x[3]
    IN  CASE e.kind = "lit" -> [code |-> <<>>, val |-> Const, whole |-> TRUE]
          [] e.kind = "other" -> [code |-> <<>>, val |-> None, whole |-> FALSE]
          [] e.kind = "var" ->
               [code |-> <<New("load", Id(b, n), <<Global>>)>>, val |-> Reg(Id(b, n)),
                whole |-> TRUE]
          [] e.kind = "unary" ->
               LET a == f[<<e.arg, b, n>>]
                   id == Id(b, n + Len(a.code))
               IN  IF a.val = None THEN a
                   ELSE [code |-> Append(a.code, New("unary", id, <<a.val>>)),
                         val |-> Reg(id), whole |-> a.whole]
          [] e.kind = "bin" ->
               LET l == f[<<e.left, b, n>>]
                   r == f[<<e.right, b, n + Len(l.code)>>]
                   code == l.code \o r.code
                   id == Id(b, n + Len(code))
                   whole == l.whole /\ r.whole
               IN  IF None \in {l.val, r.val} THEN [code |-> code, val |-> None, whole |-> whole]
                   ELSE [code |-> Append(code, New("bin", id, <<l.val, r.val>>)),
                         val |-> Reg(id), whole |-> whole]
          [] e.kind = "call" ->
               LET a == f[<<e.arg, b, n + 1>>]
               IN  [code |-> <<New("call", Id(b, n), <<a.val>>)>> \o a.code,
                    val |-> Reg(Id(b, n)), whole |-> a.whole]

Places == Exprs \X (Nat \ {0}) \X Nat

Lower[x \in Places] == LowerOf(Lower, x)

Size(b) == Len(blocks[b])
Lowered(e, b) == Lower[<<e, b, Size(b)>>]

\* The instruction that follows the code c at the end of block b.
After(op, b, c, args) == New(op, Id(b, Size(b) + Len(c)), args)

\* Blocks of a function with code appended to block b.
Emitted(bs, b, code) == [bs EXCEPT ![b] = @ \o code]
-----------------------------------------------------------------------------
\* ket_ir_new_function and its entry block.
Init ==
    /\ blocks = <<<<>>>>
    /\ cur = 1
    /\ frames = <<>>
    /\ src = <<>>
    /\ stmts = 0
    /\ supported = TRUE
    /\ phase = "write"
    /\ pos = [block |-> 1, i |-> 1]
    /\ pc = 1

Write(token) == src' = Append(src, token)
Plain(t) == [t |-> t, to |-> 0]

\* The programmer writes a statement that uses an expression, lowered as it is
\* here (lower_stmt on the statement follows).
Statement(token, lowered) ==
    /\ phase = "write"
    /\ stmts < MaxStmts
    /\ stmts' = stmts + 1
    /\ Write(token)
    /\ supported' = (supported /\ lowered.whole)
    /\ UNCHANGED <<phase, run>>

\* print(a);
PrintStmt(a) ==
    LET arg == Lower[<<a, cur, Size(cur) + 1>>]
        code == <<New("call", Id(cur, Size(cur)), <<arg.val>>)>> \o arg.code
    IN  /\ Statement(Plain("print"), arg)
        /\ blocks' = Emitted(blocks, cur, code)
        /\ UNCHANGED <<cur, frames>>

\* Slip: the store comes before the alloca of the slot it writes.
LetStmtSlip(e) ==
    LET init == Lowered(e, cur)
        reg == Reg(Id(cur, Size(cur) + Len(init.code) + 1))
        store == After("store", cur, init.code, <<reg, init.val>>)
        slot == After("alloca", cur, Append(init.code, store), <<Global>>)
    IN  /\ Statement(Plain("let"), init)
        /\ blocks' = Emitted(blocks, cur, init.code \o <<store, slot>>)
        /\ UNCHANGED <<cur, frames>>

\* let v = e;  the initialiser, an alloca, and a store to it.
LetStmt(e) ==
    LET init == Lowered(e, cur)
        slot == After("alloca", cur, init.code, <<Global>>)
        store == After("store", cur, Append(init.code, slot), <<Reg(slot.id), init.val>>)
    IN  /\ Statement(Plain("let"), init)
        /\ blocks' = Emitted(blocks, cur, init.code \o <<slot, store>>)
        /\ UNCHANGED <<cur, frames>>

\* v = e;  no store when e has no value.
AssignStmt(e) ==
    LET val == Lowered(e, cur)
        store == After("store", cur, val.code, <<Global, val.val>>)
    IN  /\ Statement(Plain("assign"), val)
        /\ blocks' = Emitted(blocks, cur,
                             IF val.val = None THEN val.code ELSE Append(val.code, store))
        /\ UNCHANGED <<cur, frames>>

\* return e;  the block goes on after it.
ReturnStmt(e) ==
    LET val == Lowered(e, cur)
        args == IF val.val = None THEN <<>> ELSE <<val.val>>
        ret == After("ret", cur, val.code, args)
    IN  /\ Statement(Plain("return"), val)
        /\ blocks' = Emitted(blocks, cur, Append(val.code, ret))
        /\ UNCHANGED <<cur, frames>>

\* for, loop, match, break, continue: lower_stmt hands them to lower_expr,
\* which has no case for them.
UnloweredStmt ==
    /\ phase = "write"
    /\ stmts < MaxStmts
    /\ stmts' = stmts + 1
    /\ Write(Plain("unlowered"))
    /\ supported' = FALSE
    /\ UNCHANGED <<ir, frames, phase, run>>
-----------------------------------------------------------------------------
Top == frames[Len(frames)]
Popped == SubSeq(frames, 1, Len(frames) - 1)
Jump(b) == <<ToBlock(b)>>

\* if e {   the condition, three blocks, a conditional branch; on in the first.
OpenIf(e) ==
    LET cond == Lowered(e, cur)
        then == Len(blocks) + 1
        br == After("br_cond", cur, cond.code,
                    <<cond.val, ToBlock(then), ToBlock(then + 1)>>)
    IN  /\ Len(frames) < MaxNest
        /\ Statement(Plain("if"), cond)
        /\ blocks' = Emitted(blocks, cur, Append(cond.code, br)) \o <<<<>>, <<>>, <<>>>>
        /\ cur' = then
        /\ frames' = Append(frames, [kind |-> "then", at |-> Len(src) + 1,
                                     next |-> then + 1, end |-> then + 2])

\* Slip: the then block falls into the else block.
ElseIfSlip ==
    /\ phase = "write" /\ frames # <<>> /\ Top.kind = "then"
    /\ blocks' = Emitted(blocks, cur, <<After("br", cur, <<>>, Jump(Top.next))>>)
    /\ cur' = Top.next
    /\ frames' = Append(Popped, [Top EXCEPT !.kind = "else", !.at = Len(src) + 1])
    /\ src' = Append([src EXCEPT ![Top.at].to = Len(src) + 2], Plain("else"))
    /\ UNCHANGED <<stmts, supported, phase, run>>

\* } else {   the then block branches to the merge block.
ElseIf ==
    /\ phase = "write" /\ frames # <<>> /\ Top.kind = "then"
    /\ blocks' = Emitted(blocks, cur, <<After("br", cur, <<>>, Jump(Top.end))>>)
    /\ cur' = Top.next
    /\ frames' = Append(Popped, [Top EXCEPT !.kind = "else", !.at = Len(src) + 1])
    /\ src' = Append([src EXCEPT ![Top.at].to = Len(src) + 2], Plain("else"))
    /\ UNCHANGED <<stmts, supported, phase, run>>

\* }   of an if: every branch goes to the merge block, an else that was not
\* written too.
CloseIf ==
    LET joined == Emitted(blocks, cur, <<After("br", cur, <<>>, Jump(Top.end))>>)
    IN  /\ phase = "write" /\ frames # <<>> /\ Top.kind \in {"then", "else"}
        /\ blocks' = IF Top.kind = "else" THEN joined
                     ELSE Emitted(joined, Top.next,
                                  <<After("br", Top.next, <<>>, Jump(Top.end))>>)
        /\ cur' = Top.end
        /\ frames' = Popped
        /\ src' = Append([src EXCEPT ![Top.at].to = Len(src) + 1], Plain("end"))
        /\ UNCHANGED <<stmts, supported, phase, run>>

\* Slip: the blocks are counted before the condition's block is made.
OpenWhileSlip(e) ==
    LET test == Len(blocks) + 1
        entered == Append(blocks[cur], After("br", cur, <<>>, Jump(test)))
        cond == Lower[<<e, test, 0>>]
        br == New("br_cond", Id(test, Len(cond.code)),
                  <<cond.val, ToBlock(test + 2), ToBlock(test + 3)>>)
    IN  /\ Len(frames) < MaxNest
        /\ Statement(Plain("while"), cond)
        /\ blocks' = [blocks EXCEPT ![cur] = entered]
                       \o <<Append(cond.code, br), <<>>, <<>>>>
        /\ cur' = test + 1
        /\ frames' = Append(frames, [kind |-> "while", at |-> Len(src) + 1,
                                     next |-> test, end |-> test + 2])

\* while e {   a branch to the condition's block, the condition, a conditional
\* branch; on in the body.
OpenWhile(e) ==
    LET test == Len(blocks) + 1
        entered == Append(blocks[cur], After("br", cur, <<>>, Jump(test)))
        cond == Lower[<<e, test, 0>>]
        br == New("br_cond", Id(test, Len(cond.code)),
                  <<cond.val, ToBlock(test + 1), ToBlock(test + 2)>>)
    IN  /\ Len(frames) < MaxNest
        /\ Statement(Plain("while"), cond)
        /\ blocks' = [blocks EXCEPT ![cur] = entered]
                       \o <<Append(cond.code, br), <<>>, <<>>>>
        /\ cur' = test + 1
        /\ frames' = Append(frames, [kind |-> "while", at |-> Len(src) + 1,
                                     next |-> test, end |-> test + 2])

\* }   of a while: back to the condition.
CloseWhile ==
    /\ phase = "write" /\ frames # <<>> /\ Top.kind = "while"
    /\ blocks' = Emitted(blocks, cur, <<After("br", cur, <<>>, Jump(Top.next))>>)
    /\ cur' = Top.end
    /\ frames' = Popped
    /\ src' = Append([src EXCEPT ![Top.at].to = Len(src) + 2],
                     [t |-> "again", to |-> Top.at])
    /\ UNCHANGED <<stmts, supported, phase, run>>

\* }   of the function: "Ensure terminator" adds a return to a last block that
\* is empty.
EndFunction ==
    /\ phase = "write" /\ frames = <<>>
    /\ blocks' = IF Size(cur) > 0 THEN blocks
                 ELSE Emitted(blocks, cur, <<New("ret", Id(cur, 0), <<>>)>>)
    /\ phase' = IF supported THEN "run" ELSE "done"
    /\ UNCHANGED <<cur, frames, src, stmts, supported, run>>
-----------------------------------------------------------------------------
\* The first token from p on that does something: a branch of an if skips the
\* else and the end it runs into, the body of a while goes back to its test.
SettledOf(f, p) ==
    IF p > Len(src) THEN p
    ELSE CASE src[p].t = "else" -> f[src[p].to]
           [] src[p].t = "end" -> f[p + 1]
           [] src[p].t = "again" -> src[p].to
           [] OTHER -> p

Settled[p \in 1 .. Len(src) + 1] == SettledOf(Settled, p)

\* The token after the one at p, given how its condition was decided.
SourceNext(p, taken) ==
    IF src[p].t = "return" THEN Len(src) + 1
    ELSE IF src[p].t \in {"if", "while"} /\ ~taken THEN src[p].to
    ELSE p + 1

AtInst == pos.i <= Size(pos.block)
Current == blocks[pos.block][pos.i]

\* The i-th instruction of code is the effect of the token it was emitted for:
\* of the calls of a print, it is the first.
Visible(code, i) ==
    LET inst == code[i]
    IN  \/ inst.op \in {"store", "br_cond"}
        \/ inst.op = "ret" /\ inst.at <= Len(src)
        \/ /\ inst.op = "call" /\ src[inst.at].t = "print"
           /\ i = 1 \/ code[i - 1].at # inst.at

Effect == Visible(blocks[pos.block], pos.i)

Enter(b) == pos' = [block |-> b, i |-> 1]

\* One instruction, and the token it is the effect of.
RunInst(taken) ==
    /\ phase = "run" /\ AtInst
    /\ CASE Current.op = "br" -> Enter(Current.args[1].n) /\ UNCHANGED phase
         [] Current.op = "br_cond" ->
              Enter(Current.args[IF taken THEN 2 ELSE 3].n) /\ UNCHANGED phase
         [] Current.op = "ret" -> phase' = "done" /\ UNCHANGED pos
         [] OTHER -> pos' = [pos EXCEPT !.i = @ + 1] /\ UNCHANGED phase
    /\ pc' = IF Effect /\ Settled[pc] <= Len(src)
             THEN SourceNext(Settled[pc], taken) ELSE pc
    /\ UNCHANGED <<ir, frames, src, stmts, supported>>

\* Past the last instruction of the last block.
RunEnd ==
    /\ phase = "run" /\ ~AtInst
    /\ phase' = "done"
    /\ UNCHANGED <<ir, frames, src, stmts, supported, run>>

Next ==
    \/ \E e \in Values : LetStmt(e) \/ AssignStmt(e) \/ ReturnStmt(e)
    \/ \E a \in Arguments : PrintStmt(a)
    \/ \E e \in Conds : OpenIf(e) \/ OpenWhile(e)
    \/ UnloweredStmt
    \/ ElseIf
    \/ CloseIf
    \/ CloseWhile
    \/ EndFunction
    \/ \E taken \in BOOLEAN : RunInst(taken)
    \/ RunEnd

Spec == Init /\ [][Next]_vars
-----------------------------------------------------------------------------
Defined(b, i) == \A a \in DOMAIN blocks[b][i].args :
    LET v == blocks[b][i].args[a]
    IN  v.kind = "reg" => \E j \in 1 .. i - 1 : blocks[b][j].id = v.n

\* "All values are SSA registers" (docs/COMPILER_INTERNALS.md:77): a register is
\* written before an instruction reads it.  Calls are the exception, their
\* arguments being lowered after the call is in the block.
OperandsDefinedButCalls ==
    \A b \in DOMAIN blocks : \A i \in DOMAIN blocks[b] :
        blocks[b][i].op # "call" => Defined(b, i)

\* A function of statements lower_stmt has a case for does the same as its IR:
\* on every path the IR comes to the effect of a statement exactly when the
\* source comes to that statement, and ends when the source ends.
PathsAgree ==
    supported =>
        /\ phase = "run" /\ AtInst /\ Effect => Current.at = Settled[pc]
        /\ phase = "done" => Settled[pc] = Len(src) + 1
=============================================================================
