--------------------------- MODULE IRLowerProofs ---------------------------
(***************************************************************************)
(* For all expressions and any number of statements, however deep: the IR  *)
(* of a function is well formed, its instructions read registers written   *)
(* before, and it does the same as its source on every path.               *)
(***************************************************************************)
EXTENDS IRLower, WellFoundedInduction, SequenceTheorems, TLAPS

Tokens == {"print", "let", "assign", "return", "unlowered", "if", "while", "else", "end", "again"}
Token == [t : Tokens, to : Nat]
Frame == [kind : {"then", "else", "while"}, at : Nat, next : Nat, end : Nat]

\* The operations of expressions, those that compute on, and those that leave their block.
Computing == {"load", "unary", "bin", "call"}
Going == Computing \cup {"alloca"}
Leaving == {"ret", "br", "br_cond"}

\* Lowering is still to come to block b, and to the end of the statement that starts at p.
Ahead(fs, b) == \E f \in 1 .. Len(fs) : b = fs[f].end \/ (fs[f].kind = "then" /\ b = fs[f].next)
Open(fs, p) == \E f \in 1 .. Len(fs) : fs[f].at = p
-----------------------------------------------------------------------------
(* What is well formed. *)

\* The value can be read by the instruction after the first k of block b, of n blocks.
Readable(b, k, n, v) ==
    /\ v.kind = "block" => v.n \in 1 .. n
    /\ v.kind = "reg" => \E j \in 1 .. k : v.n = Id(b, j - 1)

\* Code that stands in block b after k instructions, in a function of n blocks and m tokens.
Sound(b, k, code, n, m) ==
    \A i \in 1 .. Len(code) :
        LET inst == code[i]
        IN  /\ inst.id = Id(b, k + i - 1)
            /\ inst.at \in 1 .. m
            /\ inst.op = "br" => Len(inst.args) = 1 /\ inst.args[1].kind = "block"
            /\ inst.op = "br_cond" => /\ Len(inst.args) = 3
                                      /\ inst.args[2].kind = "block" /\ inst.args[3].kind = "block"
            /\ \A a \in 1 .. Len(inst.args) :
                  inst.op # "call" \/ inst.args[a].kind # "reg" =>
                     Readable(b, k + i - 1, n, inst.args[a])

FramesNest(fs, s, n) ==
    /\ \A f \in 1 .. Len(fs) :
          /\ 1 < fs[f].next /\ fs[f].next < fs[f].end /\ fs[f].end <= n
          /\ fs[f].at \in 1 .. Len(s)
          /\ s[fs[f].at].t = IF fs[f].kind = "then" THEN "if" ELSE fs[f].kind
          /\ s[fs[f].at].to = 0
    /\ \A f, g \in 1 .. Len(fs) : f < g => fs[f].at < fs[g].at /\ fs[f].end < fs[g].next

TokensOK(s, fs) ==
    \A p \in 1 .. Len(s) :
        /\ s[p].t = "again" => s[p].to \in 1 .. p - 1 /\ s[s[p].to].t = "while"
        /\ s[p].t \in {"if", "while"} => Open(fs, p) \/ s[p].to \in 1 .. Len(s) + 1
        /\ s[p].t = "else" =>
              Open(fs, p) \/ (s[p].to \in p + 1 .. Len(s) /\ s[s[p].to].t = "end")

Reach == IF phase = "write" THEN Len(src) ELSE Len(src) + 1

Typed ==
    /\ blocks \in Seq(Seq(Inst)) /\ cur \in 1 .. Len(blocks)
    /\ src \in Seq(Token) /\ frames \in Seq(Frame) /\ Len(frames) <= MaxNest
    /\ stmts \in 0 .. MaxStmts /\ supported \in BOOLEAN
    /\ phase \in {"write", "run", "done"}
    /\ pos \in [block : 1 .. Len(blocks), i : Nat \ {0}]
    /\ pc \in 1 .. Len(src) + 1

Formed ==
    /\ Typed
    /\ phase # "write" => frames = <<>>
    /\ FramesNest(frames, src, Len(blocks))
    /\ ~ Ahead(frames, cur)
    /\ \A b \in 1 .. Len(blocks) : Sound(b, 0, blocks[b], Len(blocks), Reach)
    /\ TokensOK(src, frames)
-----------------------------------------------------------------------------
(* What is faithful. *)

\* An instruction of a print's argument: its call came before.
Printed(s, code, i) ==
    /\ code[i].at <= Len(s) /\ s[code[i].at].t = "print"
    /\ i # 1 /\ code[i - 1].at = code[i].at

\* Visible, in the source s.
Shown(s, code, i) ==
    LET inst == code[i]
    IN  \/ inst.op \in {"store", "br_cond"}
        \/ inst.op = "ret" /\ inst.at <= Len(s)
        \/ /\ inst.op = "call" /\ s[inst.at].t = "print"
           /\ i = 1 \/ code[i - 1].at # inst.at

\* Where the source is before and after an instruction.
Due(s, code, i) == IF Printed(s, code, i) THEN code[i].at + 1 ELSE code[i].at
Past(s, code, i) == IF Shown(s, code, i) THEN code[i].at + 1 ELSE Due(s, code, i)

Flows(s, code) ==
    \A i \in 1 .. Len(code) - 1 : code[i].op \notin Leaving => Due(s, code, i + 1) = Past(s, code, i)
Leads(s, code, n) ==
    code # <<>> /\ code[Len(code)].op \notin Leaving => Past(s, code, Len(code)) = n

\* Control enters block b where the source is at p.
Enters(s, fs, bs, b, p) ==
    ~ Ahead(fs, b) /\ p = IF bs[b] = <<>> THEN Len(s) + 1 ELSE bs[b][1].at

Tells(s, fs, bs, inst) ==
    LET p == inst.at
        Goes(a, q) == Enters(s, fs, bs, inst.args[a].n, q)
    IN /\ p > Len(s) => inst.op = "ret"
       /\ inst.op = "store" => s[p].t \in {"let", "assign"}
       /\ inst.op = "ret" /\ p <= Len(s) => s[p].t = "return"
       /\ inst.op = "br" =>
            \/ s[p].t = "while" /\ Goes(1, p)
            \/ s[p].t = "again" /\ Goes(1, s[p].to)
            \/ s[p].t = "end" /\ Goes(1, p + 1)
            \/ /\ s[p].t = "else"
               /\ \/ \E f \in 1 .. Len(fs) : fs[f].at = p /\ inst.args[1].n = fs[f].end
                  \/ s[p].to # 0 /\ Goes(1, s[p].to + 1)
       /\ inst.op = "br_cond" =>
            /\ s[p].t \in {"if", "while"}
            /\ Goes(2, p + 1)
            /\ \/ \E f \in 1 .. Len(fs) :
                     /\ fs[f].at = p
                     /\ inst.args[3].n = IF fs[f].kind = "then" THEN fs[f].next ELSE fs[f].end
               \/ s[p].to # 0 /\ Goes(3, s[p].to)

\* Blocks ahead are empty; those lowering has left end in a branch.
Left(fs, bs, c) ==
    \A b \in 1 .. Len(bs) :
        /\ Ahead(fs, b) => bs[b] = <<>>
        /\ ~ Ahead(fs, b) /\ b # c => bs[b] # <<>> /\ bs[b][Len(bs[b])].op \in {"br", "br_cond"}

Faithful(s, fs, bs, c) ==
    /\ Left(fs, bs, c)
    /\ \A b \in 1 .. Len(bs) :
          Flows(s, bs[b]) /\ \A i \in 1 .. Len(bs[b]) : Tells(s, fs, bs, bs[b][i])
    /\ Leads(s, bs[c], Len(s) + 1)
    /\ \A f \in 1 .. Len(fs) : fs[f].kind = "while" => Enters(s, fs, bs, fs[f].next, fs[f].at)
    /\ Enters(s, fs, bs, 1, 1)

Follows ==
    /\ phase = "write" => pos = [block |-> 1, i |-> 1] /\ pc = 1
    /\ phase # "write" => blocks[cur] # <<>>
    /\ phase = "run" =>
          /\ pos.i <= Size(pos.block) + 1
          /\ Settled[pc] = IF AtInst THEN Settled[Due(src, blocks[pos.block], pos.i)]
                           ELSE Len(src) + 1
    /\ phase = "done" => Settled[pc] = Len(src) + 1

Follow == supported => Faithful(src, frames, blocks, cur) /\ Follows
-----------------------------------------------------------------------------
(* Numbers, sequences and registers *)

\* Induction over numbers, stated for sets: the provers do not take the library's
\* theorems about predicates.
LEMMA NumberInduction ==
    ASSUME NEW P, 0 \in P, \A n \in Nat : n \in P => n + 1 \in P
    PROVE  Nat \subseteq P
<1>. DEFINE R == OpToRel(<, Nat)
            S == {n \in Nat : n \notin P}
<1>1. SUFFICES ASSUME S # {} PROVE FALSE
  OBVIOUS
<1>2. PICK m \in S : \A n \in S : ~ (<<n, m>> \in R)
  <2>. HIDE DEF R, S
  <2>1. IsWellFoundedOn(R, Nat)
    BY NatLessThanWellFounded DEF R
  <2>2. S \subseteq Nat
    BY DEF S
  <2>. QED
    BY <1>1, <2>1, <2>2, WFMin
<1>3. m \in Nat /\ m # 0 /\ m \notin P
  OBVIOUS
<1>4. m - 1 \in Nat /\ (m - 1) + 1 = m /\ m - 1 < m
  BY <1>3
<1>5. <<m - 1, m>> \in R
  BY <1>3, <1>4 DEF OpToRel
<1>. QED
  BY <1>2, <1>3, <1>4, <1>5

\* What stands where in two lists one after the other.
LEMMA Joined ==
    ASSUME NEW T, NEW c \in Seq(T), NEW d \in Seq(T)
    PROVE  /\ c \o d \in Seq(T)
           /\ Len(c \o d) = Len(c) + Len(d)
           /\ \A i \in 1 .. Len(c) : i \in 1 .. Len(c \o d) /\ (c \o d)[i] = c[i]
           /\ \A i \in 1 .. Len(d) : Len(c) + i \in 1 .. Len(c \o d) /\ (c \o d)[Len(c) + i] = d[i]
           /\ \A i \in 1 .. Len(c \o d) :
                 \/ i \in 1 .. Len(c) /\ (c \o d)[i] = c[i]
                 \/ i - Len(c) \in 1 .. Len(d) /\ i \notin 1 .. Len(c) /\ (c \o d)[i] = d[i - Len(c)]
<1>1. Len(c) \in Nat /\ Len(d) \in Nat /\ c \o d \in Seq(T)
  OBVIOUS
<1>2. Len(c \o d) = Len(c) + Len(d)
  OBVIOUS
<1>3. \A i \in 1 .. Len(c) + Len(d) : (c \o d)[i] = IF i <= Len(c) THEN c[i] ELSE d[i - Len(c)]
  OBVIOUS
<1>4. \A i \in 1 .. Len(d) : (Len(c) + i) - Len(c) = i /\ ~ (Len(c) + i <= Len(c))
                                /\ Len(c) + i \in 1 .. Len(c) + Len(d)
  BY <1>1
<1>5. \A i \in 1 .. Len(c) : i <= Len(c) /\ i \in 1 .. Len(c) + Len(d)
  BY <1>1
<1>6. \A i \in 1 .. Len(c) + Len(d) :
         \/ i \in 1 .. Len(c) /\ i <= Len(c)
         \/ i - Len(c) \in 1 .. Len(d) /\ i \notin 1 .. Len(c) /\ ~ (i <= Len(c))
  BY <1>1
<1>. QED
  BY <1>1, <1>2, <1>3, <1>4, <1>5, <1>6

\* A list of one.
LEMMA Single ==
    ASSUME NEW T, NEW x \in T
    PROVE  <<x>> \in Seq(T) /\ Len(<<x>>) = 1 /\ <<x>>[1] = x /\ \A i \in 1 .. Len(<<x>>) : i = 1
  OBVIOUS

\* An element more is a list of one more.
LEMMA Appended ==
    ASSUME NEW T, NEW c \in Seq(T), NEW x \in T
    PROVE  Append(c, x) = c \o <<x>>
  OBVIOUS

\* The numbers of instructions are numbers.
LEMMA IdNat ==
    ASSUME NEW b \in Nat \ {0}, NEW k \in Nat
    PROVE  Id(b, k) \in Nat
<1>1. b - 1 \in Nat /\ Stride \in Nat
  BY LowerAssumption
<1>2. \A x, y \in Nat : x * y \in Nat
  OBVIOUS
<1>3. (b - 1) * Stride \in Nat
  BY <1>1, <1>2, Zenon
<1>. QED
  BY <1>3 DEF Id

\* Instructions of blocks no longer than the distance of their numbers have numbers
\* of their own.
LEMMA IdsDiffer ==
    ASSUME NEW b \in Nat \ {0}, NEW c \in Nat \ {0}, NEW i \in 0 .. Stride - 1, NEW j \in 0 .. Stride - 1,
           Id(b, i) = Id(c, j)
    PROVE  b = c /\ i = j
<1>1. Stride \in Nat \ {0}
  BY LowerAssumption
<1>2. ASSUME NEW s \in Nat \ {0}, NEW x \in Nat, NEW y \in Nat, x < y,
             NEW p \in 0 .. s - 1, NEW q \in 0 .. s - 1
      PROVE  x * s + p # y * s + q
  <2>1. PICK d \in Nat : y = x + 1 + d
    <3>1. y - x - 1 \in Nat /\ y = x + 1 + (y - x - 1)
      BY <1>2
    <3>. QED
      BY <3>1
  <2>2. y * s = x * s + s + d * s
    BY <2>1
  <2>3. x * s \in Nat /\ d * s \in Nat
    <3>1. \A u, v \in Nat : u * v \in Nat
      OBVIOUS
    <3>. QED
      BY <3>1
  <2>4. ASSUME NEW u \in Nat, NEW v \in Nat PROVE u + p # u + s + v + q
    OBVIOUS
  <2>. QED
    BY <2>2, <2>3, <2>4
<1>3. b - 1 \in Nat /\ c - 1 \in Nat
  OBVIOUS
<1>4. (b - 1) * Stride + i = (c - 1) * Stride + j
  BY DEF Id
<1>5. ~ (b - 1 < c - 1) /\ ~ (c - 1 < b - 1)
  BY <1>1, <1>2, <1>3, <1>4
<1>6. b = c
  BY <1>3, <1>5
<1>7. (b - 1) * Stride \in Nat
  <2>1. \A u, v \in Nat : u * v \in Nat
    OBVIOUS
  <2>. QED
    BY <1>1, <1>3, <2>1
<1>8. ASSUME NEW u \in Nat, u + i = u + j PROVE i = j
  BY <1>8, <1>1
<1>. QED
  BY <1>4, <1>6, <1>7, <1>8
-----------------------------------------------------------------------------
(* Sound code *)

\* What can be read stays so after more instructions and with more blocks.
LEMMA ReadableLater ==
    ASSUME NEW b, NEW k \in Nat, NEW l \in Nat, k <= l, NEW n \in Nat, NEW o \in Nat, n <= o,
           NEW v, Readable(b, k, n, v)
    PROVE  Readable(b, l, o, v)
<1>1. 1 .. k \subseteq 1 .. l /\ 1 .. n \subseteq 1 .. o
  OBVIOUS
<1>. QED
  BY <1>1 DEF Readable

\* One instruction of sound code, in a function that has grown.
SoundInst(b, k, inst, n, m) ==
    /\ inst.id = Id(b, k)
    /\ inst.at \in 1 .. m
    /\ inst.op = "br" => Len(inst.args) = 1 /\ inst.args[1].kind = "block"
    /\ inst.op = "br_cond" => /\ Len(inst.args) = 3
                              /\ inst.args[2].kind = "block" /\ inst.args[3].kind = "block"
    /\ \A a \in 1 .. Len(inst.args) :
          inst.op # "call" \/ inst.args[a].kind # "reg" => Readable(b, k, n, inst.args[a])

\* Code is sound when each of its instructions is.
LEMMA SoundInsts ==
    ASSUME NEW b, NEW k \in Nat, NEW code, NEW n, NEW m
    PROVE  Sound(b, k, code, n, m) <=> \A i \in 1 .. Len(code) : SoundInst(b, k + i - 1, code[i], n, m)
  BY DEF Sound, SoundInst

\* Sound code stays so when blocks and tokens are added.
LEMMA SoundLater ==
    ASSUME NEW b, NEW k \in Nat, NEW code, NEW n \in Nat, NEW o \in Nat, n <= o,
           NEW m \in Nat, NEW p \in Nat, m <= p, Sound(b, k, code, n, m)
    PROVE  Sound(b, k, code, o, p)
<1>1. SUFFICES ASSUME NEW i \in 1 .. Len(code) PROVE SoundInst(b, k + i - 1, code[i], o, p)
  BY SoundInsts
<1>2. SoundInst(b, k + i - 1, code[i], n, m)
  BY SoundInsts
<1>3. 1 .. m \subseteq 1 .. p /\ k + i - 1 \in Nat
  OBVIOUS
<1>4. ASSUME NEW v, Readable(b, k + i - 1, n, v) PROVE Readable(b, k + i - 1, o, v)
  BY <1>3, <1>4, ReadableLater
<1>. QED
  BY <1>2, <1>3, <1>4 DEF SoundInst

\* Sound code followed by sound code.
LEMMA SoundJoin ==
    ASSUME NEW b, NEW k \in Nat, NEW c \in Seq(Inst), NEW d \in Seq(Inst), NEW n, NEW m,
           Sound(b, k, c, n, m), Sound(b, k + Len(c), d, n, m)
    PROVE  Sound(b, k, c \o d, n, m)
<1>1. SUFFICES ASSUME NEW i \in 1 .. Len(c \o d)
               PROVE  SoundInst(b, k + i - 1, (c \o d)[i], n, m)
  BY SoundInsts
<1>2. Len(c) \in Nat
  OBVIOUS
<1>3. CASE i \in 1 .. Len(c) /\ (c \o d)[i] = c[i]
  BY <1>3, SoundInsts
<1>4. CASE i - Len(c) \in 1 .. Len(d) /\ i \notin 1 .. Len(c) /\ (c \o d)[i] = d[i - Len(c)]
  <2>1. SoundInst(b, (k + Len(c)) + (i - Len(c)) - 1, d[i - Len(c)], n, m)
    BY <1>2, <1>4, SoundInsts
  <2>2. (k + Len(c)) + (i - Len(c)) - 1 = k + i - 1
    BY <1>2
  <2>. QED
    BY <1>4, <2>1, <2>2
<1>. QED
  BY <1>3, <1>4, Joined

\* One instruction.
LEMMA SoundOne ==
    ASSUME NEW b, NEW k \in Nat, NEW inst \in Inst, NEW n, NEW m, SoundInst(b, k, inst, n, m)
    PROVE  Sound(b, k, <<inst>>, n, m)
<1>1. Len(<<inst>>) = 1 /\ <<inst>>[1] = inst /\ k + 1 - 1 = k
  OBVIOUS
<1>2. \A i \in 1 .. Len(<<inst>>) : i = 1
  BY <1>1
<1>. QED
  BY <1>1, <1>2, SoundInsts
-----------------------------------------------------------------------------
(* What lowering an expression gives *)

\* The code of an expression, lowered in block b after n instructions.
GoodCode(code, b, n) ==
    /\ code \in Seq(Inst)
    /\ \A i \in 1 .. Len(code) : code[i].op \in Computing /\ code[i].at = Len(src) + 1
    /\ Sound(b, n, code, 0, Len(src) + 1)

\* With the value it leaves.
Good(r, b, n) ==
    /\ GoodCode(r.code, b, n)
    /\ r.val \in Value /\ Readable(b, n + Len(r.code), 0, r.val)
    /\ r.whole \in BOOLEAN
    /\ r.whole => r.val # None

\* The expressions a lowering asks for are less deep.
GoodBelow(f, x) == \A y \in Places : Depth[y[1]] < Depth[x[1]] => Good(f[y], y[2], y[3])

\* An expression, a block and how much of it is written; subexpressions have places too.
LEMMA Place ==
    ASSUME NEW x \in Places
    PROVE  /\ x[1] \in Exprs /\ x[2] \in Nat \ {0} /\ x[3] \in Nat /\ x = <<x[1], x[2], x[3]>>
           /\ Depth[x[1]] \in Nat
           /\ x[1].kind \in {"lit", "other", "var", "unary", "bin", "call"}
           /\ \A e \in Exprs, n \in Nat : <<e, x[2], n>> \in Places
<1>1. x[1] \in Exprs /\ x[2] \in Nat \ {0} /\ x[3] \in Nat /\ x = <<x[1], x[2], x[3]>>
  BY DEF Places
<1>2. \A e \in Exprs, n \in Nat : <<e, x[2], n>> \in Places
  BY <1>1 DEF Places
<1>. QED
  BY <1>1, <1>2, ExprAssumption

\* Constants, globals, registers and blocks are values.
LEMMA SomeValues ==
    /\ Const \in Value /\ None \in Value /\ Global \in Value
    /\ \A r \in Nat : Reg(r) \in Value /\ Reg(r) # None /\ Reg(r).kind = "reg" /\ Reg(r).n = r
    /\ \A b, k, n : Readable(b, k, n, Const) /\ Readable(b, k, n, None) /\ Readable(b, k, n, Global)
    /\ Const # None
  BY DEF Const, None, Global, Reg, Value, Readable

\* An instruction for the piece of source being written.
LEMMA NewInst ==
    ASSUME Len(src) \in Nat, NEW b \in Nat \ {0}, NEW k \in Nat, NEW n \in Nat, NEW args \in Seq(Value),
           NEW op \in Computing \cup {"alloca", "store", "ret"},
           op = "call" \/ \A a \in 1 .. Len(args) : Readable(b, k, n, args[a]),
           \A a \in 1 .. Len(args) : args[a].kind # "block"
    PROVE  LET inst == New(op, Id(b, k), args)
           IN  /\ inst \in Inst /\ inst.op = op /\ inst.at = Len(src) + 1 /\ inst.id = Id(b, k)
               /\ SoundInst(b, k, inst, n, Len(src) + 1)
               /\ Sound(b, k, <<inst>>, n, Len(src) + 1)
<1>. DEFINE inst == New(op, Id(b, k), args)
<1>1. inst.op = op /\ inst.at = Len(src) + 1 /\ inst.id = Id(b, k) /\ inst.args = args
  BY DEF New
<1>2. inst \in Inst
  <2>1. op \in {"load", "unary", "bin", "call", "alloca", "store", "ret", "br", "br_cond"}
    BY DEF Computing
  <2>2. Id(b, k) \in Nat
    BY IdNat
  <2>. QED
    BY <2>1, <2>2 DEF New, Inst
<1>3. op # "br" /\ op # "br_cond"
  BY DEF Computing
<1>. HIDE DEF inst
<1>4. ASSUME NEW a \in 1 .. Len(args), op # "call" \/ args[a].kind # "reg"
      PROVE  Readable(b, k, n, args[a])
  BY <1>4 DEF Readable
<1>5. SoundInst(b, k, inst, n, Len(src) + 1)
  BY <1>1, <1>3, <1>4 DEF SoundInst
<1>6. Sound(b, k, <<inst>>, n, Len(src) + 1)
  BY <1>2, <1>5, SoundOne
<1>. QED
  BY <1>1, <1>2, <1>5, <1>6 DEF inst

\* Code of expressions is a sequence of instructions.
LEMMA GoodSeq ==
    ASSUME NEW c, NEW b, NEW n, GoodCode(c, b, n)
    PROVE  c \in Seq(Inst) /\ Len(c) \in Nat
<1>1. c \in Seq(Inst)
  BY DEF GoodCode
<1>. QED
  BY <1>1

\* Code of one expression followed by that of another.
LEMMA GoodJoin ==
    ASSUME NEW b, NEW n \in Nat, NEW c, NEW d, GoodCode(c, b, n), GoodCode(d, b, n + Len(c))
    PROVE  GoodCode(c \o d, b, n) /\ Len(c \o d) = Len(c) + Len(d)
<1>1. c \in Seq(Inst) /\ d \in Seq(Inst)
  BY DEF GoodCode
<1>2. Sound(b, n, c \o d, 0, Len(src) + 1)
  BY <1>1, SoundJoin DEF GoodCode
<1>3. ASSUME NEW i \in 1 .. Len(c \o d)
      PROVE  (c \o d)[i].op \in Computing /\ (c \o d)[i].at = Len(src) + 1
  <2>1. \/ i \in 1 .. Len(c) /\ (c \o d)[i] = c[i]
        \/ i - Len(c) \in 1 .. Len(d) /\ (c \o d)[i] = d[i - Len(c)]
    BY <1>1, Joined
  <2>. QED
    BY <2>1 DEF GoodCode
<1>. QED
  BY <1>1, <1>2, <1>3, Joined DEF GoodCode

\* One instruction of an expression.
LEMMA GoodOne ==
    ASSUME Len(src) \in Nat, NEW b \in Nat \ {0}, NEW n \in Nat, NEW args \in Seq(Value),
           NEW op \in Computing,
           op = "call" \/ \A a \in 1 .. Len(args) : Readable(b, n, 0, args[a]),
           \A a \in 1 .. Len(args) : args[a].kind # "block"
    PROVE  GoodCode(<<New(op, Id(b, n), args)>>, b, n)
<1>. DEFINE inst == New(op, Id(b, n), args)
<1>1. /\ inst \in Inst /\ inst.op = op /\ inst.at = Len(src) + 1
      /\ Sound(b, n, <<inst>>, 0, Len(src) + 1)
  BY NewInst
<1>. HIDE DEF inst
<1>2. GoodCode(<<inst>>, b, n)
  BY <1>1, Single DEF GoodCode
<1>. QED
  BY <1>2 DEF inst

\* What is read of block arguments: an expression has none.
LEMMA NoBlock ==
    ASSUME NEW b, NEW k, NEW v, Readable(b, k, 0, v)
    PROVE  v.kind # "block"
  BY DEF Readable

\* The register of an instruction can be read after it.
LEMMA RegReadable ==
    ASSUME NEW b \in Nat \ {0}, NEW k \in Nat, NEW l \in Nat, k < l
    PROVE  Reg(Id(b, k)) \in Value /\ Reg(Id(b, k)) # None /\ Readable(b, l, 0, Reg(Id(b, k)))
<1>1. k + 1 \in 1 .. l /\ (k + 1) - 1 = k
  OBVIOUS
<1>2. Id(b, k) \in Nat
  BY IdNat
<1>. HIDE DEF Id
<1>3. Reg(Id(b, k)).kind = "reg" /\ Reg(Id(b, k)).n = Id(b, k)
  BY <1>2, SomeValues
<1>. QED
  BY <1>1, <1>2, <1>3, SomeValues DEF Readable

\* An operation on what two expressions leave.
BinResult(l, r, b, n) ==
    LET code == l.code \o r.code
        id == Id(b, n + Len(code))
        whole == l.whole /\ r.whole
    IN  IF None \in {l.val, r.val} THEN [code |-> code, val |-> None, whole |-> whole]
        ELSE [code |-> Append(code, New("bin", id, <<l.val, r.val>>)),
              val |-> Reg(id), whole |-> whole]

\* Two operands and the operation on them.
LEMMA BinGood ==
    ASSUME Len(src) \in Nat, NEW b \in Nat \ {0}, NEW n \in Nat,
           NEW l, Good(l, b, n), NEW r, Good(r, b, n + Len(l.code))
    PROVE  Good(BinResult(l, r, b, n), b, n)
<1>. DEFINE made == l.code \o r.code
            p == Len(l.code)
            q == Len(r.code)
            k == n + p + q
            inst == New("bin", Id(b, k), <<l.val, r.val>>)
            w == l.whole /\ r.whole
            res == BinResult(l, r, b, n)
<1>1. GoodCode(l.code, b, n) /\ GoodCode(r.code, b, n + p)
  BY DEF Good
<1>2. p \in Nat /\ q \in Nat
  BY <1>1, GoodSeq
<1>3. GoodCode(made, b, n) /\ Len(made) = p + q
  BY <1>1, GoodJoin
<1>4. made \in Seq(Inst)
  BY <1>3, GoodSeq
<1>5. /\ l.val \in Value /\ Readable(b, n + p, 0, l.val)
      /\ r.val \in Value /\ Readable(b, (n + p) + q, 0, r.val)
      /\ l.whole \in BOOLEAN /\ r.whole \in BOOLEAN
      /\ l.whole => l.val # None
      /\ r.whole => r.val # None
  BY DEF Good
<1>6. res = IF None \in {l.val, r.val} THEN [code |-> made, val |-> None, whole |-> w]
            ELSE [code |-> Append(made, New("bin", Id(b, n + Len(made)), <<l.val, r.val>>)),
                  val |-> Reg(Id(b, n + Len(made))), whole |-> w]
  BY DEF BinResult
<1>. HIDE DEF made, p, q, res
<1>7. k \in Nat /\ n + p \in Nat /\ n + p <= k /\ (n + p) + q = k /\ n + (p + q) = k
      /\ k < k + 1 /\ k + 1 \in Nat /\ n + ((p + q) + 1) = k + 1
  BY <1>2
<1>8. n + Len(made) = k
  BY <1>3, <1>7
<1>. HIDE DEF k
<1>9. \A v \in {l.val, r.val} : Readable(b, k, 0, v) /\ v.kind # "block" /\ v \in Value
  <2>1. Readable(b, k, 0, l.val)
    BY <1>5, <1>7, ReadableLater
  <2>2. Readable(b, k, 0, r.val)
    BY <1>5, <1>7
  <2>. QED
    BY <1>5, <2>1, <2>2, NoBlock
<1>10. GoodCode(<<inst>>, b, k)
  <2>1. <<l.val, r.val>> \in Seq(Value)
        /\ \A i \in 1 .. Len(<<l.val, r.val>>) : <<l.val, r.val>>[i] \in {l.val, r.val}
    BY <1>9
  <2>. DEFINE args == <<l.val, r.val>>
  <2>2. args \in Seq(Value) /\ \A i \in 1 .. Len(args) : Readable(b, k, 0, args[i]) /\ args[i].kind # "block"
    BY <1>9, <2>1
  <2>. HIDE DEF args
  <2>3. GoodCode(<<New("bin", Id(b, k), args)>>, b, k)
    BY <1>7, <2>2, GoodOne DEF Computing
  <2>. QED
    BY <2>3 DEF args
<1>. HIDE DEF inst
<1>11. inst \in Inst
  <2>1. <<inst>> \in Seq(Inst) /\ Len(<<inst>>) = 1
    BY <1>10, GoodSeq
  <2>. QED
    BY <2>1
<1>12. CASE None \in {l.val, r.val}
  <2>1. w = FALSE
    BY <1>5, <1>12
  <2>2. res = [code |-> made, val |-> None, whole |-> w]
    BY <1>6, <1>12
  <2>. HIDE DEF w
  <2>3. res.code = made /\ res.val = None /\ res.whole = FALSE
    BY <2>1, <2>2
  <2>. QED
    BY <1>3, <2>3, SomeValues DEF Good, res
<1>13. CASE None \notin {l.val, r.val}
  <2>1. res = [code |-> Append(made, inst), val |-> Reg(Id(b, k)), whole |-> w]
    BY <1>6, <1>8, <1>13 DEF inst
  <2>2. Append(made, inst) = made \o <<inst>>
    BY <1>4, <1>11, Appended
  <2>3. GoodCode(made \o <<inst>>, b, n) /\ Len(made \o <<inst>>) = (p + q) + 1
    <3>1. GoodCode(<<inst>>, b, n + Len(made)) /\ Len(<<inst>>) = 1
      BY <1>8, <1>10
    <3>. DEFINE one == <<inst>>
    <3>. HIDE DEF one
    <3>2. GoodCode(made \o one, b, n) /\ Len(made \o one) = Len(made) + Len(one)
      BY <1>3, <3>1, GoodJoin DEF one
    <3>. QED
      BY <1>3, <3>1, <3>2 DEF one
  <2>4. Readable(b, k + 1, 0, Reg(Id(b, k))) /\ Reg(Id(b, k)) \in Value /\ Reg(Id(b, k)) # None
    BY <1>7, RegReadable
  <2>. HIDE DEF w
  <2>5. res.code = made \o <<inst>> /\ res.val = Reg(Id(b, k)) /\ res.whole = w
    BY <2>1, <2>2
  <2>6. w \in BOOLEAN
    BY <1>5 DEF w
  <2>7. n + Len(made \o <<inst>>) = k + 1
    BY <1>7, <2>3
  <2>8. Good(res, b, n)
    BY <2>3, <2>4, <2>5, <2>6, <2>7 DEF Good
  <2>. QED
    BY <2>8 DEF res
<1>. QED
  BY <1>12, <1>13

\* An expression's code when that of its subexpressions is good.
LEMMA LowerGood ==
    ASSUME Len(src) \in Nat, NEW x \in Places, NEW f, GoodBelow(f, x)
    PROVE  Good(LowerOf(f, x), x[2], x[3])
<1>. DEFINE e == x[1]
            b == x[2]
            n == x[3]
            r == LowerOf(f, x)
<1>1. e \in Exprs /\ b \in Nat \ {0} /\ n \in Nat
  BY Place
<1>2. GoodCode(<<>>, b, n) /\ Len(<<>>) = 0
  BY DEF GoodCode, Sound
<1>3. CASE e.kind = "lit"
  <2>1. r = [code |-> <<>>, val |-> Const, whole |-> TRUE]
    BY <1>3 DEF LowerOf
  <2>. QED
    BY <1>1, <1>2, <2>1, SomeValues DEF Good
<1>4. CASE e.kind = "other"
  <2>1. r = [code |-> <<>>, val |-> None, whole |-> FALSE]
    BY <1>4 DEF LowerOf
  <2>. QED
    BY <1>1, <1>2, <2>1, SomeValues DEF Good
<1>5. CASE e.kind = "var"
  <2>1. r = [code |-> <<New("load", Id(b, n), <<Global>>)>>, val |-> Reg(Id(b, n)), whole |-> TRUE]
    BY <1>5 DEF LowerOf
  <2>2. <<Global>> \in Seq(Value) /\ \A a \in 1 .. Len(<<Global>>) : <<Global>>[a] = Global
    BY SomeValues
  <2>3. Global.kind # "block" /\ Readable(b, n, 0, Global)
    BY SomeValues DEF Global
  <2>. DEFINE made == <<New("load", Id(b, n), <<Global>>)>>
  <2>4. GoodCode(made, b, n)
    BY <1>1, <2>2, <2>3, GoodOne DEF Computing
  <2>5. Len(made) = 1
    OBVIOUS
  <2>. HIDE DEF made, e, b, n
  <2>6. n < n + Len(made)
    BY <1>1, <2>5
  <2>7. n + Len(made) \in Nat
    BY <1>1, <2>5
  <2>8. Reg(Id(b, n)) \in Value /\ Reg(Id(b, n)) # None /\ Readable(b, n + Len(made), 0, Reg(Id(b, n)))
    BY <1>1, <2>6, <2>7, RegReadable
  <2>9. r = [code |-> made, val |-> Reg(Id(b, n)), whole |-> TRUE]
    BY <2>1 DEF made, b, n
  <2>10. Good(r, b, n)
    BY <2>4, <2>8, <2>9 DEF Good
  <2>. QED
    BY <2>10 DEF b, n
<1>6. CASE e.kind = "unary"
  <2>. DEFINE a == f[<<e.arg, b, n>>]
              k == n + Len(a.code)
              inst == New("unary", Id(b, k), <<a.val>>)
  <2>1. e.arg \in Exprs /\ Depth[e.arg] < Depth[e]
    BY <1>1, <1>6, ExprAssumption
  <2>2. <<e.arg, b, n>> \in Places /\ <<e.arg, b, n>>[1] = e.arg
        /\ <<e.arg, b, n>>[2] = b /\ <<e.arg, b, n>>[3] = n
    BY <1>1, <2>1 DEF Places
  <2>3. Good(a, b, n)
    BY <2>1, <2>2 DEF GoodBelow
  <2>4. r = IF a.val = None THEN a
            ELSE [code |-> Append(a.code, inst), val |-> Reg(Id(b, k)), whole |-> a.whole]
    BY <1>6 DEF LowerOf
  <2>. HIDE DEF a, e, b, n
  <2>5. GoodCode(a.code, b, n) /\ a.code \in Seq(Inst) /\ Len(a.code) \in Nat
    BY <2>3 DEF Good, GoodCode
  <2>6. k \in Nat /\ k < k + 1
    BY <1>1, <2>5
  <2>7. a.val \in Value /\ Readable(b, k, 0, a.val) /\ a.whole \in BOOLEAN /\ (a.whole => a.val # None)
    BY <2>3 DEF Good
  <2>. HIDE DEF k
  <2>8. GoodCode(<<inst>>, b, k)
    <3>1. <<a.val>> \in Seq(Value) /\ \A i \in 1 .. Len(<<a.val>>) : <<a.val>>[i] = a.val
      BY <2>7
    <3>. QED
      BY <1>1, <2>6, <2>7, <3>1, NoBlock, GoodOne DEF Computing
  <2>9. inst \in Inst
    <3>1. <<inst>> \in Seq(Inst) /\ Len(<<inst>>) = 1
      BY <2>8 DEF GoodCode
    <3>. QED
      BY <3>1
  <2>. HIDE DEF inst
  <2>10. CASE a.val = None
    BY <2>3, <2>4, <2>10 DEF b, n
  <2>11. CASE a.val # None
    <3>1. r = [code |-> a.code \o <<inst>>, val |-> Reg(Id(b, k)), whole |-> a.whole]
      BY <2>4, <2>5, <2>9, <2>11, Appended
    <3>2. GoodCode(a.code \o <<inst>>, b, n) /\ Len(a.code \o <<inst>>) = Len(a.code) + 1
      BY <1>1, <2>5, <2>8, <2>9, Single, GoodJoin DEF k
    <3>3. n + Len(a.code \o <<inst>>) = k + 1
      BY <1>1, <2>5, <3>2 DEF k
    <3>4. Readable(b, k + 1, 0, Reg(Id(b, k))) /\ Reg(Id(b, k)) \in Value /\ Reg(Id(b, k)) # None
      BY <1>1, <2>6, RegReadable
    <3>5. Good(r, b, n)
      BY <2>7, <3>1, <3>2, <3>3, <3>4 DEF Good
    <3>. QED
      BY <3>5 DEF b, n
  <2>. QED
    BY <2>10, <2>11
<1>7. CASE e.kind = "bin"
  <2>. DEFINE l == f[<<e.left, b, n>>]
              rr == f[<<e.right, b, n + Len(l.code)>>]
  <2>1. /\ e.left \in Exprs /\ Depth[e.left] < Depth[e]
        /\ e.right \in Exprs /\ Depth[e.right] < Depth[e]
    BY <1>1, <1>7, ExprAssumption
  <2>2. Good(l, b, n)
    <3>1. <<e.left, b, n>> \in Places /\ <<e.left, b, n>>[1] = e.left
          /\ <<e.left, b, n>>[2] = b /\ <<e.left, b, n>>[3] = n
      BY <1>1, <2>1 DEF Places
    <3>. QED
      BY <2>1, <3>1 DEF GoodBelow
  <2>3. n + Len(l.code) \in Nat
    BY <1>1, <2>2, GoodSeq DEF Good
  <2>4. Good(rr, b, n + Len(l.code))
    <3>. DEFINE y == <<e.right, b, n + Len(l.code)>>
    <3>1. y \in Places /\ y[1] = e.right /\ y[2] = b /\ y[3] = n + Len(l.code)
      BY <1>1, <2>1, <2>3 DEF Places
    <3>. QED
      BY <2>1, <3>1 DEF GoodBelow
  <2>5. r = BinResult(l, rr, b, n)
    BY <1>7 DEF LowerOf, BinResult
  <2>. HIDE DEF l, rr, e, b, n, r
  <2>6. Good(r, b, n)
    BY <1>1, <2>2, <2>4, <2>5, BinGood
  <2>. QED
    BY <2>6 DEF b, n, r
<1>8. CASE e.kind = "call"
  <2>. DEFINE a == f[<<e.arg, b, n + 1>>]
              inst == New("call", Id(b, n), <<a.val>>)
              made == <<inst>> \o a.code
  <2>1. e.arg \in Exprs /\ Depth[e.arg] < Depth[e]
    BY <1>1, <1>8, ExprAssumption
  <2>2. Good(a, b, n + 1)
    <3>. DEFINE y == <<e.arg, b, n + 1>>
    <3>1. y \in Places /\ y[1] = e.arg /\ y[2] = b /\ y[3] = n + 1
      BY <1>1, <2>1 DEF Places
    <3>. QED
      BY <2>1, <3>1 DEF GoodBelow
  <2>3. r = [code |-> made, val |-> Reg(Id(b, n)), whole |-> a.whole]
    BY <1>8 DEF LowerOf
  <2>. HIDE DEF a, e, b, n
  <2>4. a.val \in Value /\ a.val.kind # "block" /\ a.whole \in BOOLEAN
    BY <2>2, NoBlock DEF Good
  <2>5. GoodCode(<<inst>>, b, n)
    <3>1. <<a.val>> \in Seq(Value) /\ \A i \in 1 .. Len(<<a.val>>) : <<a.val>>[i] = a.val
      BY <2>4
    <3>. QED
      BY <1>1, <2>4, <3>1, GoodOne DEF Computing
  <2>. HIDE DEF inst
  <2>6. Len(<<inst>>) = 1
    OBVIOUS
  <2>7. GoodCode(made, b, n) /\ Len(made) = 1 + Len(a.code) /\ Len(a.code) \in Nat
    <3>1. GoodCode(a.code, b, n + 1)
      BY <2>2 DEF Good
    <3>2. GoodCode(a.code, b, n + Len(<<inst>>))
      BY <2>6, <3>1
    <3>3. GoodCode(made, b, n) /\ Len(made) = Len(<<inst>>) + Len(a.code)
      <4>. DEFINE one == <<inst>>
                  rest == a.code
      <4>1. GoodCode(one, b, n) /\ GoodCode(rest, b, n + Len(one)) /\ n \in Nat
        BY <1>1, <2>5, <3>2
      <4>. HIDE DEF one, rest
      <4>2. GoodCode(one \o rest, b, n) /\ Len(one \o rest) = Len(one) + Len(rest)
        BY <4>1, GoodJoin
      <4>. QED
        BY <4>2 DEF one, rest
    <3>. HIDE DEF made
    <3>. QED
      BY <2>6, <3>1, <3>3, GoodSeq
  <2>8. n < n + Len(made) /\ n + Len(made) \in Nat
    BY <1>1, <2>7
  <2>. HIDE DEF made
  <2>9. Readable(b, n + Len(made), 0, Reg(Id(b, n))) /\ Reg(Id(b, n)) \in Value /\ Reg(Id(b, n)) # None
    BY <1>1, <2>8, RegReadable
  <2>10. Good(r, b, n)
    BY <2>3, <2>4, <2>7, <2>9 DEF Good
  <2>. QED
    BY <2>10 DEF b, n
<1>. QED
  BY <1>3, <1>4, <1>5, <1>6, <1>7, <1>8, Place
-----------------------------------------------------------------------------
(* Lower is what its definition says: a recursion over the depth of expressions *)

\* Two functions that agree below an expression give the same for it.
LEMMA LowerAgrees ==
    ASSUME Len(src) \in Nat, NEW x \in Places, NEW f, GoodBelow(f, x), NEW g,
           \A y \in Places : Depth[y[1]] < Depth[x[1]] => f[y] = g[y]
    PROVE  LowerOf(f, x) = LowerOf(g, x)
<1>. DEFINE e == x[1]
            b == x[2]
            n == x[3]
<1>1. /\ e \in Exprs /\ b \in Nat \ {0} /\ n \in Nat
      /\ \A y \in Exprs, k \in Nat : <<y, b, k>> \in Places
      /\ \A y, k : <<y, b, k>>[1] = y /\ <<y, b, k>>[2] = b /\ <<y, b, k>>[3] = k
  BY Place
<1>2. ASSUME NEW y \in Exprs, Depth[y] < Depth[e], NEW k \in Nat
      PROVE  f[<<y, b, k>>] = g[<<y, b, k>>] /\ Good(f[<<y, b, k>>], b, k)
  <2>. DEFINE z == <<y, b, k>>
  <2>1. z \in Places /\ z[1] = y /\ z[2] = b /\ z[3] = k
    BY <1>1
  <2>. QED
    BY <1>2, <2>1 DEF GoodBelow
<1>3. CASE e.kind \in {"lit", "other", "var"}
  BY <1>3 DEF LowerOf
<1>4. CASE e.kind = "unary"
  <2>1. e.arg \in Exprs /\ Depth[e.arg] < Depth[e]
    BY <1>1, <1>4, ExprAssumption
  <2>2. f[<<e.arg, b, n>>] = g[<<e.arg, b, n>>]
    BY <1>1, <1>2, <2>1
  <2>. QED
    BY <1>4, <2>2 DEF LowerOf
<1>5. CASE e.kind = "bin"
  <2>1. /\ e.left \in Exprs /\ Depth[e.left] < Depth[e]
        /\ e.right \in Exprs /\ Depth[e.right] < Depth[e]
    BY <1>1, <1>5, ExprAssumption
  <2>. DEFINE l == f[<<e.left, b, n>>]
  <2>2. l = g[<<e.left, b, n>>] /\ Good(l, b, n)
    BY <1>1, <1>2, <2>1
  <2>3. n + Len(l.code) \in Nat
    BY <1>1, <2>2, GoodSeq DEF Good
  <2>4. f[<<e.right, b, n + Len(l.code)>>] = g[<<e.right, b, n + Len(l.code)>>]
    BY <1>1, <1>2, <2>1, <2>3
  <2>5. LowerOf(f, x) = BinResult(l, f[<<e.right, b, n + Len(l.code)>>], b, n)
    BY <1>5 DEF LowerOf, BinResult
  <2>6. LowerOf(g, x) = BinResult(g[<<e.left, b, n>>],
                                  g[<<e.right, b, n + Len(g[<<e.left, b, n>>].code)>>], b, n)
    BY <1>5 DEF LowerOf, BinResult
  <2>. QED
    BY <2>2, <2>4, <2>5, <2>6
<1>6. CASE e.kind = "call"
  <2>1. e.arg \in Exprs /\ Depth[e.arg] < Depth[e] /\ n + 1 \in Nat
    BY <1>1, <1>6, ExprAssumption
  <2>2. f[<<e.arg, b, n + 1>>] = g[<<e.arg, b, n + 1>>]
    BY <1>1, <1>2, <2>1
  <2>. QED
    BY <1>6, <2>2 DEF LowerOf
<1>. QED
  BY <1>3, <1>4, <1>5, <1>6, Place

\* A set of places that has, with a place, those of all expressions less deep.
Closed(S) ==
    /\ S \subseteq Places
    /\ \A x \in S, y \in Places : Depth[y[1]] < Depth[x[1]] => y \in S

\* f does what Lower's definition says on S.
Lowers(f, S) == f = [x \in S |-> LowerOf(f, x)]

\* A function that unfolds as lower_expr does gives good code, by induction on the depth.
LEMMA LowersGood ==
    ASSUME Len(src) \in Nat, NEW S, Closed(S), NEW f, Lowers(f, S)
    PROVE  \A x \in S : Good(f[x], x[2], x[3])
<1>. DEFINE P == {m \in Nat : \A x \in S : Depth[x[1]] < m => Good(f[x], x[2], x[3])}
<1>1. \A x \in S : x \in Places /\ Depth[x[1]] \in Nat
  BY Place DEF Closed
<1>2. 0 \in P
  BY <1>1
<1>3. ASSUME NEW m \in Nat, m \in P PROVE m + 1 \in P
  <2>1. SUFFICES ASSUME NEW x \in S, Depth[x[1]] < m + 1 PROVE Good(f[x], x[2], x[3])
    OBVIOUS
  <2>2. \A y \in Places : Depth[y[1]] < Depth[x[1]] => y \in S /\ Depth[y[1]] < m
    BY <1>1, <2>1, Place DEF Closed
  <2>3. GoodBelow(f, x)
    BY <1>3, <2>2 DEF GoodBelow
  <2>4. f[x] = LowerOf(f, x)
    BY Zenon DEF Lowers
  <2>. QED
    BY <1>1, <2>3, <2>4, LowerGood
<1>4. Nat \subseteq P
  <2>. HIDE DEF P
  <2>. QED
    BY <1>2, <1>3, NumberInduction
<1>. QED
  <2>1. SUFFICES ASSUME NEW x \in S PROVE Good(f[x], x[2], x[3])
    OBVIOUS
  <2>2. Depth[x[1]] + 1 \in P /\ Depth[x[1]] < Depth[x[1]] + 1
    <3>. HIDE DEF P
    <3>. QED
      BY <1>1, <1>4
  <2>. QED
    BY <2>2

\* There is at most one such function, by induction on the depth.
LEMMA LowersSame ==
    ASSUME Len(src) \in Nat, NEW S, Closed(S), NEW f, Lowers(f, S),
           NEW T, Closed(T), NEW g, Lowers(g, T)
    PROVE  \A x \in S \cap T : f[x] = g[x]
<1>. DEFINE P == {m \in Nat : \A x \in S \cap T : Depth[x[1]] < m => f[x] = g[x]}
<1>1. \A x \in S \cap T : x \in Places /\ Depth[x[1]] \in Nat
  BY Place DEF Closed
<1>2. 0 \in P
  BY <1>1
<1>3. ASSUME NEW m \in Nat, m \in P PROVE m + 1 \in P
  <2>1. SUFFICES ASSUME NEW x \in S \cap T, Depth[x[1]] < m + 1 PROVE f[x] = g[x]
    OBVIOUS
  <2>2. \A y \in Places : Depth[y[1]] < Depth[x[1]] => y \in S \cap T /\ Depth[y[1]] < m
    BY <1>1, <2>1, Place DEF Closed
  <2>3. GoodBelow(f, x)
    BY <2>2, LowersGood DEF GoodBelow
  <2>4. f[x] = LowerOf(f, x)
    BY Zenon DEF Lowers
  <2>5. g[x] = LowerOf(g, x)
    BY Zenon DEF Lowers
  <2>6. \A y \in Places : Depth[y[1]] < Depth[x[1]] => f[y] = g[y]
    BY <1>3, <2>2
  <2>. QED
    BY <1>1, <2>3, <2>4, <2>5, <2>6, LowerAgrees
<1>4. Nat \subseteq P
  <2>. HIDE DEF P
  <2>. QED
    BY <1>2, <1>3, NumberInduction
<1>. QED
  <2>1. SUFFICES ASSUME NEW x \in S \cap T PROVE f[x] = g[x]
    OBVIOUS
  <2>2. Depth[x[1]] + 1 \in P /\ Depth[x[1]] < Depth[x[1]] + 1
    <3>. HIDE DEF P
    <3>. QED
      BY <1>1, <1>4
  <2>. QED
    BY <2>2

Shallow(m) == {x \in Places : Depth[x[1]] < m}

\* The parts of an expression are less deep than it is.
LEMMA ShallowClosed ==
    /\ \A m \in Nat : Closed(Shallow(m))
    /\ Closed(Places)
<1>1. ASSUME NEW m \in Nat, NEW x \in Shallow(m), NEW y \in Places, Depth[y[1]] < Depth[x[1]]
      PROVE  y \in Shallow(m)
  <2>1. x \in Places /\ Depth[x[1]] < m
    BY DEF Shallow
  <2>2. Depth[x[1]] \in Nat /\ Depth[y[1]] \in Nat
    BY <2>1, Place
  <2>3. Depth[y[1]] < m
    BY <1>1, <2>1, <2>2
  <2>. QED
    BY <2>3 DEF Shallow
<1>2. \A m \in Nat : Shallow(m) \subseteq Places
  BY DEF Shallow
<1>. QED
  BY <1>1, <1>2 DEF Closed

\* There is such a function on the expressions up to any depth.
LEMMA LowersExists ==
    ASSUME Len(src) \in Nat
    PROVE  \A m \in Nat : \E f : Lowers(f, Shallow(m))
<1>. DEFINE P == {m \in Nat : \E f : Lowers(f, Shallow(m))}
<1>1. 0 \in P
  <2>1. Shallow(0) = {}
    BY Place DEF Shallow
  <2>2. Lowers([x \in {} |-> TRUE], {})
    BY DEF Lowers
  <2>. QED
    BY <2>1, <2>2
<1>2. ASSUME NEW m \in Nat, m \in P PROVE m + 1 \in P
  <2>1. PICK f : Lowers(f, Shallow(m))
    BY <1>2
  <2>. DEFINE h == [x \in Shallow(m + 1) |-> LowerOf(f, x)]
  <2>2. Closed(Shallow(m)) /\ \A x \in Shallow(m) : Good(f[x], x[2], x[3])
    BY <2>1, LowersGood, ShallowClosed
  <2>3. \A x \in Shallow(m) : x \in Shallow(m + 1)
    BY Place DEF Shallow
  <2>4. ASSUME NEW x \in Shallow(m) PROVE f[x] = h[x]
    <3>1. f[x] = LowerOf(f, x)
      BY <2>1, Zenon DEF Lowers
    <3>2. h[x] = LowerOf(f, x)
      BY <2>3
    <3>. QED
      BY <3>1, <3>2, Zenon
  <2>5. ASSUME NEW x \in Shallow(m + 1) PROVE LowerOf(f, x) = LowerOf(h, x)
    <3>1. x \in Places /\ Depth[x[1]] < m + 1
      BY DEF Shallow
    <3>2. \A y \in Places : Depth[y[1]] < Depth[x[1]] => y \in Shallow(m)
      BY <3>1, Place DEF Shallow
    <3>3. GoodBelow(f, x)
      BY <2>2, <3>2 DEF GoodBelow
    <3>4. \A y \in Places : Depth[y[1]] < Depth[x[1]] => f[y] = h[y]
      BY <2>4, <3>2
    <3>. HIDE DEF h
    <3>. QED
      BY <3>1, <3>3, <3>4, LowerAgrees
  <2>6. Lowers(h, Shallow(m + 1))
    BY <2>5, Zenon DEF Lowers
  <2>. HIDE DEF h
  <2>7. \E k : Lowers(k, Shallow(m + 1))
    BY <2>6
  <2>. QED
    BY <2>7
<1>3. Nat \subseteq P
  <2>. HIDE DEF P
  <2>. QED
    BY <1>1, <1>2, NumberInduction
<1>. QED
  BY <1>3

\* Lower satisfies the equation it is defined by.
LEMMA LowerUnfolds ==
    ASSUME Len(src) \in Nat
    PROVE  Lowers(Lower, Places)
<1>. DEFINE F(m) == CHOOSE f : Lowers(f, Shallow(m))
            g == [x \in Places |-> F(Depth[x[1]] + 1)[x]]
            lower == CHOOSE f : f = [x \in Places |-> LowerOf(f, x)]
<1>1. \A m \in Nat : Lowers(F(m), Shallow(m))
  BY LowersExists, Zenon
<1>. HIDE DEF F
<1>2. \A x \in Places : /\ Depth[x[1]] + 1 \in Nat
                        /\ x \in Shallow(Depth[x[1]] + 1)
  BY Place DEF Shallow
<1>3. ASSUME NEW x \in Places PROVE g[x] = LowerOf(g, x)
  <2>. DEFINE d == Depth[x[1]] + 1
              f == F(d)
  <2>1. d \in Nat /\ x \in Shallow(d) /\ Lowers(f, Shallow(d)) /\ Closed(Shallow(d))
    BY <1>1, <1>2, ShallowClosed
  <2>2. g[x] = f[x]
    OBVIOUS
  <2>. HIDE DEF f
  <2>3. f[x] = LowerOf(f, x)
    BY <2>1, Zenon DEF Lowers
  <2>4. ASSUME NEW y \in Places, Depth[y[1]] < Depth[x[1]]
        PROVE  f[y] = g[y] /\ Good(f[y], y[2], y[3])
    <3>. DEFINE c == Depth[y[1]] + 1
    <3>1. c \in Nat /\ y \in Shallow(c) /\ Lowers(F(c), Shallow(c)) /\ Closed(Shallow(c))
      BY <1>1, <1>2, ShallowClosed
    <3>2. y \in Shallow(d)
      BY <2>1, <2>4 DEF Closed
    <3>3. g[y] = F(c)[y]
      OBVIOUS
    <3>. HIDE DEF c, d, g
    <3>4. F(c)[y] = f[y]
      BY <2>1, <3>1, <3>2, LowersSame
    <3>5. Good(f[y], y[2], y[3])
      BY <2>1, <3>2, LowersGood
    <3>. QED
      BY <3>3, <3>4, <3>5
  <2>5. GoodBelow(f, x)
    BY <2>4 DEF GoodBelow
  <2>. HIDE DEF g
  <2>6. LowerOf(f, x) = LowerOf(g, x)
    BY <2>4, <2>5, LowerAgrees
  <2>. QED
    BY <2>2, <2>3, <2>6, Zenon DEF g
<1>4. g = [x \in Places |-> LowerOf(g, x)]
  BY <1>3, Zenon
<1>. HIDE DEF g
<1>5. lower = [x \in Places |-> LowerOf(lower, x)]
  BY <1>4, Zenon
<1>6. Lower = lower
  BY Zenon DEF Lower
<1>. HIDE DEF lower
<1>. QED
  BY <1>5, <1>6, Zenon DEF Lowers

\* What lower_expr gives for every expression.
LEMMA LowerFacts ==
    ASSUME Len(src) \in Nat, NEW e \in Exprs, NEW b \in Nat \ {0}, NEW n \in Nat
    PROVE  Good(Lower[<<e, b, n>>], b, n)
<1>. DEFINE x == <<e, b, n>>
<1>1. x \in Places /\ x[2] = b /\ x[3] = n
  BY DEF Places
<1>2. \A y \in Places : Good(Lower[y], y[2], y[3])
  BY LowerUnfolds, LowersGood, ShallowClosed
<1>. QED
  BY <1>1, <1>2
-----------------------------------------------------------------------------
(* The code of a statement *)

\* Code of the piece of source being written, after k instructions of block b, in a
\* function of n blocks: nothing but its last instruction leaves the block.
Line(code, b, k, n) ==
    /\ code \in Seq(Inst)
    /\ Sound(b, k, code, n, Len(src) + 1)
    /\ \A i \in 1 .. Len(code) :
          code[i].at = Len(src) + 1 /\ (i # Len(code) => code[i].op \in Going)

\* And nor does that.
Straight(code, b, k, n) ==
    /\ code \in Seq(Inst)
    /\ Sound(b, k, code, n, Len(src) + 1)
    /\ \A i \in 1 .. Len(code) : code[i].at = Len(src) + 1 /\ code[i].op \in Going

\* Code of an expression does not leave its block.
LEMMA GoodStraight ==
    ASSUME Len(src) \in Nat, NEW b, NEW k \in Nat, NEW n \in Nat, NEW code, GoodCode(code, b, k)
    PROVE  Straight(code, b, k, n)
<1>1. code \in Seq(Inst)
  BY DEF GoodCode
<1>2. Sound(b, k, code, n, Len(src) + 1)
  <2>1. Sound(b, k, code, 0, Len(src) + 1) /\ 0 \in Nat /\ 0 <= n /\ Len(src) + 1 <= Len(src) + 1
        /\ Len(src) + 1 \in Nat
    BY DEF GoodCode
  <2>. QED
    BY <2>1, SoundLater
<1>3. \A i \in 1 .. Len(code) : code[i].at = Len(src) + 1 /\ code[i].op \in Going
  BY DEF GoodCode, Going
<1>. QED
  BY <1>1, <1>2, <1>3 DEF Straight

\* Code that does not leave its block is the code of one statement.
LEMMA StraightLine ==
    ASSUME NEW b, NEW k, NEW n, NEW code, Straight(code, b, k, n)
    PROVE  Line(code, b, k, n) /\ code \in Seq(Inst) /\ Len(code) \in Nat
<1>1. code \in Seq(Inst)
  BY DEF Straight
<1>2. Line(code, b, k, n)
  BY DEF Straight, Line
<1>. QED
  BY <1>1, <1>2

\* One more instruction of the same statement.
LEMMA LineMore ==
    ASSUME Len(src) \in Nat, NEW b \in Nat \ {0}, NEW k \in Nat, NEW n \in Nat,
           NEW c, Straight(c, b, k, n),
           NEW inst \in Inst, inst.at = Len(src) + 1,
           Sound(b, k + Len(c), <<inst>>, n, Len(src) + 1)
    PROVE  /\ Line(c \o <<inst>>, b, k, n)
           /\ Append(c, inst) = c \o <<inst>>
           /\ Len(c \o <<inst>>) = Len(c) + 1 /\ Len(c) \in Nat
           /\ c \o <<inst>> # <<>>
           /\ (c \o <<inst>>)[Len(c) + 1] = inst
           /\ inst.op \in Going => Straight(c \o <<inst>>, b, k, n)
<1>. DEFINE one == <<inst>>
            all == c \o one
<1>1. c \in Seq(Inst) /\ one \in Seq(Inst)
  BY DEF Straight
<1>2. Len(c) \in Nat /\ Len(one) = 1 /\ one[1] = inst
  BY <1>1
<1>3. Append(c, inst) = all
  BY <1>1, Appended
<1>4. Sound(b, k, all, n, Len(src) + 1)
  <2>. HIDE DEF one
  <2>. QED
    BY <1>1, SoundJoin DEF Straight, one
<1>. HIDE DEF one
<1>5. all \in Seq(Inst) /\ Len(all) = Len(c) + 1 /\ all[Len(c) + 1] = inst
      /\ \A i \in 1 .. Len(all) : \/ i \in 1 .. Len(c) /\ all[i] = c[i]
                                  \/ i = Len(c) + 1 /\ all[i] = inst
  <2>1. \A i \in 1 .. Len(c) + 1 : i \in 1 .. Len(c) \/ i = Len(c) + 1
    BY <1>2
  <2>2. 1 \in 1 .. Len(one) /\ Len(all) = Len(c) + Len(one)
    <3>1. Len(all) = Len(c) + Len(one)
      BY <1>1, Joined
    <3>2. 1 \in 1 .. Len(one)
      BY <1>2
    <3>. HIDE DEF all
    <3>. QED
      BY <3>1, <3>2
  <2>3. all[Len(c) + 1] = one[1]
    BY <1>1, <2>2, Joined
  <2>. QED
    BY <1>1, <1>2, <2>1, <2>2, <2>3, Joined
<1>6. all # <<>>
  BY <1>2, <1>5
<1>. HIDE DEF all
<1>7. \A i \in 1 .. Len(c) : c[i].at = Len(src) + 1 /\ c[i].op \in Going
  BY DEF Straight
<1>8. Line(all, b, k, n)
  <2>1. ASSUME NEW i \in 1 .. Len(all)
        PROVE  all[i].at = Len(src) + 1 /\ (i # Len(all) => all[i].op \in Going)
    BY <1>5, <1>7
  <2>. QED
    BY <1>4, <1>5, <2>1 DEF Line
<1>9. ASSUME inst.op \in Going PROVE Straight(all, b, k, n)
  <2>1. ASSUME NEW i \in 1 .. Len(all)
        PROVE  all[i].at = Len(src) + 1 /\ all[i].op \in Going
    BY <1>5, <1>7, <1>9
  <2>. QED
    BY <1>4, <1>5, <2>1 DEF Straight
<1>. QED
  BY <1>2, <1>3, <1>5, <1>6, <1>8, <1>9 DEF all, one

\* A branch.
LEMMA JumpInst ==
    ASSUME Len(src) \in Nat, NEW b \in Nat \ {0}, NEW k \in Nat, NEW n \in Nat, NEW t \in 1 .. n
    PROVE  LET inst == New("br", Id(b, k), Jump(t))
           IN  /\ inst \in Inst /\ inst.op = "br" /\ inst.at = Len(src) + 1
               /\ inst.args[1].n = t
               /\ Sound(b, k, <<inst>>, n, Len(src) + 1)
<1>. DEFINE inst == New("br", Id(b, k), Jump(t))
            v == ToBlock(t)
<1>1. v \in Value /\ v.kind = "block" /\ v.n = t
  BY DEF ToBlock, Value
<1>2. Id(b, k) \in Nat
  BY IdNat
<1>3. /\ inst.op = "br" /\ inst.at = Len(src) + 1 /\ inst.id = Id(b, k)
      /\ inst.args = <<v>>
  BY DEF New, Jump
<1>. HIDE DEF v
<1>4. <<v>> \in Seq(Value) /\ Len(<<v>>) = 1 /\ <<v>>[1] = v
  BY <1>1
<1>5. inst \in Inst
  BY <1>2, <1>4 DEF New, Jump, Inst, v
<1>. HIDE DEF inst
<1>6. SoundInst(b, k, inst, n, Len(src) + 1)
  <2>1. \A a \in 1 .. Len(inst.args) : inst.args[a] = v
    BY <1>3, <1>4
  <2>2. Readable(b, k, n, v)
    BY <1>1 DEF Readable
  <2>. QED
    BY <1>1, <1>3, <1>4, <2>1, <2>2 DEF SoundInst
<1>7. Sound(b, k, <<inst>>, n, Len(src) + 1)
  BY <1>5, <1>6, SoundOne
<1>. QED
  BY <1>1, <1>3, <1>4, <1>5, <1>7 DEF inst

\* A conditional branch.
LEMMA CondTyped ==
    ASSUME NEW b \in Nat \ {0}, NEW k \in Nat, NEW t \in Nat, NEW u \in Nat, NEW v \in Value,
           NEW x, x = ToBlock(t), NEW y, y = ToBlock(u)
    PROVE  LET inst == New("br_cond", Id(b, k), <<v, x, y>>)
           IN  /\ inst \in Inst /\ inst.op = "br_cond" /\ inst.at = Len(src) + 1
               /\ inst.id = Id(b, k) /\ Len(inst.args) = 3
               /\ inst.args[1] = v /\ inst.args[2] = x /\ inst.args[3] = y
               /\ x.kind = "block" /\ y.kind = "block" /\ x.n = t /\ y.n = u
<1>. DEFINE args == <<v, x, y>>
            inst == New("br_cond", Id(b, k), args)
<1>1. /\ x \in Value /\ x.kind = "block" /\ x.n = t
      /\ y \in Value /\ y.kind = "block" /\ y.n = u
  BY DEF ToBlock, Value
<1>2. Id(b, k) \in Nat
  BY IdNat
<1>3. args \in Seq(Value) /\ Len(args) = 3 /\ args[1] = v /\ args[2] = x /\ args[3] = y
  BY <1>1
<1>. HIDE DEF args
<1>4. inst.op = "br_cond" /\ inst.at = Len(src) + 1 /\ inst.id = Id(b, k) /\ inst.args = args
  BY DEF New
<1>5. inst \in Inst
  BY <1>2, <1>3 DEF New, Inst
<1>. HIDE DEF inst
<1>6. /\ inst \in Inst /\ inst.op = "br_cond" /\ inst.at = Len(src) + 1
      /\ inst.id = Id(b, k) /\ Len(inst.args) = 3
      /\ inst.args[1] = v /\ inst.args[2] = x /\ inst.args[3] = y
      /\ x.kind = "block" /\ y.kind = "block" /\ x.n = t /\ y.n = u
  BY <1>1, <1>3, <1>4, <1>5
<1>. QED
  BY <1>6 DEF inst, args

\* A conditional branch to two blocks there are is sound.
LEMMA CondSound ==
    ASSUME NEW b, NEW k \in Nat, NEW n \in Nat, NEW m, NEW inst \in Inst,
           inst.op = "br_cond", inst.at \in 1 .. m, inst.id = Id(b, k), Len(inst.args) = 3,
           Readable(b, k, 0, inst.args[1]),
           inst.args[2].kind = "block", inst.args[2].n \in 1 .. n,
           inst.args[3].kind = "block", inst.args[3].n \in 1 .. n
    PROVE  Sound(b, k, <<inst>>, n, m)
<1>1. \A a \in 1 .. 3 : a = 1 \/ a = 2 \/ a = 3
  OBVIOUS
<1>2. Readable(b, k, n, inst.args[1])
  BY ReadableLater
<1>3. Readable(b, k, n, inst.args[2]) /\ Readable(b, k, n, inst.args[3])
  BY DEF Readable
<1>4. \A a \in 1 .. Len(inst.args) : Readable(b, k, n, inst.args[a])
  BY <1>1, <1>2, <1>3
<1>5. SoundInst(b, k, inst, n, m)
  BY <1>4 DEF SoundInst
<1>. QED
  BY <1>5, SoundOne
-----------------------------------------------------------------------------
(* The code of each statement *)

\* What the types say of the current block.
LEMMA TypedFacts ==
    ASSUME Typed
    PROVE  /\ Len(src) \in Nat /\ Len(blocks) \in Nat /\ Len(frames) \in Nat
           /\ \A b \in 1 .. Len(blocks) : b \in Nat \ {0} /\ Size(b) \in Nat /\ blocks[b] \in Seq(Inst)
           /\ \A e \in Values \cup Conds \cup Arguments : e \in Exprs
<1>1. src \in Seq(Token) /\ blocks \in Seq(Seq(Inst)) /\ frames \in Seq(Frame)
  BY DEF Typed
<1>2. Len(src) \in Nat /\ Len(blocks) \in Nat /\ Len(frames) \in Nat
  BY <1>1
<1>3. \A b \in 1 .. Len(blocks) : blocks[b] \in Seq(Inst)
  BY <1>1
<1>4. \A b \in 1 .. Len(blocks) : Size(b) \in Nat
  BY <1>3 DEF Size
<1>5. \A b \in 1 .. Len(blocks) : b \in Nat \ {0}
  BY <1>2
<1>. QED
  BY <1>2, <1>3, <1>4, <1>5, LowerAssumption

\* An expression lowered at the end of a block.
LEMMA LoweredFacts ==
    ASSUME Typed, NEW b \in 1 .. Len(blocks), NEW e \in Values \cup Conds, NEW n \in Nat
    PROVE  /\ Straight(Lowered(e, b).code, b, Size(b), n)
           /\ Lowered(e, b).code \in Seq(Inst) /\ Len(Lowered(e, b).code) \in Nat
           /\ Size(b) + Len(Lowered(e, b).code) \in Nat
           /\ Lowered(e, b).val \in Value
           /\ Readable(b, Size(b) + Len(Lowered(e, b).code), 0, Lowered(e, b).val)
           /\ Lowered(e, b).whole \in BOOLEAN
           /\ Lowered(e, b).whole => Lowered(e, b).val # None
<1>. DEFINE r == Lowered(e, b)
            k == Size(b)
<1>1. Len(src) \in Nat /\ b \in Nat \ {0} /\ k \in Nat /\ e \in Exprs
  BY TypedFacts
<1>2. Good(r, b, k)
  BY <1>1, LowerFacts DEF Lowered
<1>. HIDE DEF r, k
<1>3. GoodCode(r.code, b, k)
  BY <1>2 DEF Good
<1>4. Straight(r.code, b, k, n) /\ r.code \in Seq(Inst) /\ Len(r.code) \in Nat
  BY <1>1, <1>3, GoodStraight, GoodSeq
<1>5. k + Len(r.code) \in Nat
  BY <1>1, <1>4
<1>. QED
  BY <1>2, <1>4, <1>5 DEF r, k, Good

\* print: the call first.
LEMMA PrintCode ==
    ASSUME Typed, NEW e \in Arguments, NEW n \in Nat
    PROVE  LET arg == Lower[<<e, cur, Size(cur) + 1>>]
               code == <<New("call", Id(cur, Size(cur)), <<arg.val>>)>> \o arg.code
           IN  /\ arg.whole \in BOOLEAN
               /\ Straight(code, cur, Size(cur), n)
               /\ \A i \in 1 .. Len(code) : code[i].op \in Computing
               /\ code # <<>> /\ code[1].op = "call"
<1>. DEFINE k == Size(cur)
            arg == Lower[<<e, cur, k + 1>>]
            inst == New("call", Id(cur, k), <<arg.val>>)
            one == <<inst>>
            code == one \o arg.code
<1>1. Len(src) \in Nat /\ cur \in Nat \ {0} /\ k \in Nat /\ e \in Exprs
  BY TypedFacts DEF Typed
<1>2. Good(arg, cur, k + 1)
  BY <1>1, LowerFacts
<1>. HIDE DEF k, arg
<1>3. GoodCode(arg.code, cur, k + 1) /\ arg.whole \in BOOLEAN /\ arg.val \in Value
      /\ arg.val.kind # "block"
  BY <1>2, NoBlock DEF Good
<1>4. GoodCode(one, cur, k)
  <2>1. <<arg.val>> \in Seq(Value) /\ \A i \in 1 .. Len(<<arg.val>>) : <<arg.val>>[i] = arg.val
    BY <1>3
  <2>. DEFINE args == <<arg.val>>
  <2>2. args \in Seq(Value) /\ \A i \in 1 .. Len(args) : args[i].kind # "block"
    BY <1>3, <2>1
  <2>. HIDE DEF args
  <2>3. GoodCode(<<New("call", Id(cur, k), args)>>, cur, k)
    BY <1>1, <2>2, GoodOne DEF Computing
  <2>. QED
    BY <2>3 DEF args
<1>5. Len(one) = 1 /\ one[1] = inst /\ 1 \in 1 .. Len(one) /\ inst.op = "call"
  BY DEF New
<1>. HIDE DEF inst, one
<1>6. GoodCode(code, cur, k) /\ Len(code) = 1 + Len(arg.code)
  <2>. DEFINE rest == arg.code
  <2>1. GoodCode(rest, cur, k + Len(one))
    BY <1>3, <1>5
  <2>. HIDE DEF rest
  <2>2. GoodCode(one \o rest, cur, k) /\ Len(one \o rest) = Len(one) + Len(rest)
    BY <1>1, <1>4, <2>1, GoodJoin
  <2>. QED
    BY <1>5, <2>2 DEF rest
<1>7. code[1].op = "call"
  <2>. DEFINE rest == arg.code
  <2>1. one \in Seq(Inst) /\ rest \in Seq(Inst)
    BY <1>3, <1>4, GoodSeq
  <2>. HIDE DEF rest
  <2>2. (one \o rest)[1] = one[1]
    BY <1>5, <2>1, Joined
  <2>. QED
    BY <1>5, <2>2 DEF rest
<1>8. code # <<>>
  <2>1. Len(arg.code) \in Nat
    BY <1>3, GoodSeq
  <2>. QED
    BY <1>6, <2>1
<1>. HIDE DEF code
<1>9. Straight(code, cur, k, n)
  BY <1>1, <1>6, GoodStraight
<1>10. \A i \in 1 .. Len(code) : code[i].op \in Computing
  BY <1>6 DEF GoodCode
<1>. QED
  BY <1>3, <1>7, <1>8, <1>9, <1>10 DEF code, one, inst, arg, k

\* A last instruction that is no branch.
LEMMA LastTyped ==
    ASSUME Len(src) \in Nat, NEW b \in Nat \ {0}, NEW l \in Nat,
           NEW args \in Seq(Value), NEW op \in {"alloca", "store", "ret"}
    PROVE  /\ New(op, Id(b, l), args) \in Inst
           /\ New(op, Id(b, l), args).op = op
           /\ New(op, Id(b, l), args).at = Len(src) + 1
           /\ New(op, Id(b, l), args).id = Id(b, l)
<1>1. Id(b, l) \in Nat
  BY IdNat
<1>. QED
  BY <1>1 DEF New, Inst

\* An instruction at the end of a block whose operands can be read is sound.
LEMMA LastSound ==
    ASSUME Len(src) \in Nat, NEW b \in Nat \ {0}, NEW l \in Nat, NEW n \in Nat,
           NEW args \in Seq(Value), NEW op \in {"alloca", "store", "ret"},
           \A a \in 1 .. Len(args) : Readable(b, l, n, args[a]) /\ args[a].kind # "block"
    PROVE  Sound(b, l, <<New(op, Id(b, l), args)>>, n, Len(src) + 1)
<1>1. op \in Computing \cup {"alloca", "store", "ret"}
  OBVIOUS
<1>2. /\ \A a \in 1 .. Len(args) : Readable(b, l, n, args[a])
      /\ \A a \in 1 .. Len(args) : args[a].kind # "block"
  OBVIOUS
<1>. QED
  BY <1>1, <1>2, NewInst

\* One value as the arguments.
LEMMA OneArgument ==
    ASSUME NEW v \in Value
    PROVE  <<v>> \in Seq(Value) /\ \A a \in 1 .. Len(<<v>>) : <<v>>[a] = v
  OBVIOUS

\* Two operands.
LEMMA TwoArguments ==
    ASSUME NEW v \in Value, NEW w \in Value
    PROVE  <<v, w>> \in Seq(Value) /\ \A a \in 1 .. Len(<<v, w>>) : <<v, w>>[a] \in {v, w}
  OBVIOUS

\* What lower_stmt emits for a let: it ends in a store to the slot it made.
LEMMA LetCode ==
    ASSUME Typed, NEW e \in Values, NEW n \in Nat
    PROVE  LET init == Lowered(e, cur)
               slot == After("alloca", cur, init.code, <<Global>>)
               store == After("store", cur, Append(init.code, slot), <<Reg(slot.id), init.val>>)
               code == init.code \o <<slot, store>>
           IN  /\ init.whole \in BOOLEAN
               /\ Line(code, cur, Size(cur), n)
               /\ code # <<>> /\ code[Len(code)].op = "store"
<1>. DEFINE init == Lowered(e, cur)
            c == init.code
            k == Size(cur)
            slot == After("alloca", cur, c, <<Global>>)
            d == c \o <<slot>>
            args == <<Reg(slot.id), init.val>>
            store == After("store", cur, Append(c, slot), args)
            code == c \o <<slot, store>>
<1>1. Len(src) \in Nat /\ cur \in Nat \ {0} /\ cur \in 1 .. Len(blocks) /\ k \in Nat
  BY TypedFacts DEF Typed
<1>2. /\ Straight(c, cur, k, n) /\ c \in Seq(Inst) /\ Len(c) \in Nat /\ k + Len(c) \in Nat
      /\ init.val \in Value /\ Readable(cur, k + Len(c), 0, init.val) /\ init.whole \in BOOLEAN
  BY <1>1, LoweredFacts
<1>. HIDE DEF init, c, k
<1>3. slot = New("alloca", Id(cur, k + Len(c)), <<Global>>)
  BY DEF After, k
<1>4. /\ <<Global>> \in Seq(Value)
      /\ \A a \in 1 .. Len(<<Global>>) :
            Readable(cur, k + Len(c), n, <<Global>>[a]) /\ <<Global>>[a].kind # "block"
  <2>1. Global \in Value /\ Readable(cur, k + Len(c), n, Global) /\ Global.kind # "block"
    BY SomeValues DEF Global
  <2>. QED
    BY <2>1, OneArgument
<1>. HIDE DEF slot
<1>5. /\ slot \in Inst /\ slot.id = Id(cur, k + Len(c))
      /\ Straight(d, cur, k, n) /\ Append(c, slot) = d
      /\ Len(d) = Len(c) + 1
  <2>1. /\ slot \in Inst /\ slot.op = "alloca" /\ slot.at = Len(src) + 1
        /\ slot.id = Id(cur, k + Len(c))
        /\ Sound(cur, k + Len(c), <<slot>>, n, Len(src) + 1)
    <3>. DEFINE g == <<Global>>
                l == k + Len(c)
    <3>1. /\ g \in Seq(Value) /\ l \in Nat
          /\ \A a \in 1 .. Len(g) : Readable(cur, l, n, g[a]) /\ g[a].kind # "block"
      BY <1>2, <1>4
    <3>0. slot = New("alloca", Id(cur, l), g)
      BY <1>3
    <3>. HIDE DEF g, l
    <3>2. /\ slot \in Inst /\ slot.op = "alloca" /\ slot.at = Len(src) + 1
          /\ slot.id = Id(cur, l) /\ Sound(cur, l, <<slot>>, n, Len(src) + 1)
      <4>. DEFINE new == New("alloca", Id(cur, l), g)
      <4>0. Sound(cur, l, <<new>>, n, Len(src) + 1)
        BY <1>1, <3>1, LastSound
      <4>1. /\ new \in Inst /\ new.op = "alloca" /\ new.at = Len(src) + 1
            /\ new.id = Id(cur, l)
        BY <1>1, <3>1, LastTyped
      <4>2. slot = new
        BY <3>0
      <4>. HIDE DEF new
      <4>. QED
        BY <4>0, <4>1, <4>2
    <3>. QED
      BY <3>2 DEF l
  <2>. QED
    <3>1. slot.op \in Going
      BY <2>1 DEF Going
    <3>2. Straight(c, cur, k, n) /\ slot \in Inst /\ slot.at = Len(src) + 1
          /\ Sound(cur, k + Len(c), <<slot>>, n, Len(src) + 1)
      BY <1>2, <2>1
    <3>3. Straight(c \o <<slot>>, cur, k, n)
      BY <1>1, <3>1, <3>2, LineMore
    <3>4. Append(c, slot) = c \o <<slot>> /\ Len(c \o <<slot>>) = Len(c) + 1
      BY <1>1, <3>2, LineMore
    <3>. QED
      BY <2>1, <3>3, <3>4
<1>. HIDE DEF d
<1>6. d \in Seq(Inst) /\ Len(d) \in Nat
  BY <1>5, StraightLine
<1>7. store = New("store", Id(cur, k + Len(d)), args)
  BY <1>5 DEF After, k
<1>8. args \in Seq(Value) /\ \A a \in 1 .. Len(args) : Readable(cur, k + Len(d), n, args[a]) /\ args[a].kind # "block"
  <2>1. k + Len(c) < k + Len(d) /\ k + Len(d) \in Nat /\ k + Len(c) <= k + Len(d)
    BY <1>1, <1>2, <1>5, <1>6
  <2>2. Reg(slot.id) \in Value /\ Readable(cur, k + Len(d), 0, Reg(slot.id))
    BY <1>1, <1>2, <1>5, <2>1, RegReadable
  <2>3. Readable(cur, k + Len(d), 0, init.val)
    <3>1. 0 \in Nat /\ 0 <= 0
      OBVIOUS
    <3>. QED
      BY <1>2, <2>1, <3>1, ReadableLater
  <2>4. \A v \in {Reg(slot.id), init.val} : v \in Value /\ Readable(cur, k + Len(d), n, v) /\ v.kind # "block"
    <3>1. ASSUME NEW v \in {Reg(slot.id), init.val}
          PROVE  v \in Value /\ Readable(cur, k + Len(d), n, v) /\ v.kind # "block"
      <4>1. v \in Value /\ Readable(cur, k + Len(d), 0, v)
        BY <1>2, <2>2, <2>3
      <4>2. 0 \in Nat /\ 0 <= n /\ k + Len(d) <= k + Len(d)
        BY <2>1
      <4>. QED
        BY <2>1, <4>1, <4>2, ReadableLater, NoBlock
    <3>. QED
      BY <3>1
  <2>. QED
    BY <2>4, TwoArguments
<1>. HIDE DEF args, store
<1>9. /\ store \in Inst /\ store.op = "store"
      /\ Line(d \o <<store>>, cur, k, n)
      /\ Len(d \o <<store>>) = Len(d) + 1
      /\ d \o <<store>> # <<>>
      /\ (d \o <<store>>)[Len(d) + 1] = store
  <2>. DEFINE l == k + Len(d)
  <2>0. store = New("store", Id(cur, l), args)
    BY <1>7
  <2>1. l \in Nat /\ \A a \in 1 .. Len(args) : Readable(cur, l, n, args[a]) /\ args[a].kind # "block"
    BY <1>1, <1>6, <1>8
  <2>. HIDE DEF l
  <2>2. /\ store \in Inst /\ store.op = "store" /\ store.at = Len(src) + 1
        /\ Sound(cur, l, <<store>>, n, Len(src) + 1)
    <3>. DEFINE new == New("store", Id(cur, l), args)
    <3>0. Sound(cur, l, <<new>>, n, Len(src) + 1)
      BY <1>1, <1>8, <2>1, LastSound
    <3>1. new \in Inst /\ new.op = "store" /\ new.at = Len(src) + 1
      BY <1>1, <1>8, <2>1, LastTyped
    <3>2. store = new
      BY <2>0
    <3>. HIDE DEF new
    <3>. QED
      BY <3>0, <3>1, <3>2
  <2>3. Line(d \o <<store>>, cur, k, n) /\ Len(d \o <<store>>) = Len(d) + 1
        /\ d \o <<store>> # <<>> /\ (d \o <<store>>)[Len(d) + 1] = store
    <3>1. Sound(cur, k + Len(d), <<store>>, n, Len(src) + 1)
      BY <2>2 DEF l
    <3>2. Straight(d, cur, k, n)
      BY <1>5
    <3>. QED
      BY <1>1, <2>2, <3>1, <3>2, LineMore
  <2>. QED
    BY <2>2, <2>3
<1>10. code = d \o <<store>>
  BY <1>2, <1>5, <1>9 DEF d
<1>. QED
  BY <1>2, <1>9, <1>10 DEF init, k, c, slot, store, args

\* What lower_expr emits for an assignment: with a value, it ends in a store.
LEMMA AssignCode ==
    ASSUME Typed, NEW e \in Values, NEW n \in Nat
    PROVE  LET val == Lowered(e, cur)
               store == After("store", cur, val.code, <<Global, val.val>>)
               code == IF val.val = None THEN val.code ELSE Append(val.code, store)
           IN  /\ val.whole \in BOOLEAN
               /\ Line(code, cur, Size(cur), n)
               /\ val.whole => code # <<>> /\ code[Len(code)].op = "store"
<1>. DEFINE val == Lowered(e, cur)
            c == val.code
            k == Size(cur)
            args == <<Global, val.val>>
            store == After("store", cur, c, args)
            code == IF val.val = None THEN c ELSE Append(c, store)
<1>1. Len(src) \in Nat /\ cur \in Nat \ {0} /\ cur \in 1 .. Len(blocks) /\ k \in Nat
  BY TypedFacts DEF Typed
<1>2. /\ Straight(c, cur, k, n) /\ c \in Seq(Inst) /\ Len(c) \in Nat /\ k + Len(c) \in Nat
      /\ val.val \in Value /\ Readable(cur, k + Len(c), 0, val.val)
      /\ val.whole \in BOOLEAN /\ (val.whole => val.val # None)
  BY <1>1, LoweredFacts
<1>. HIDE DEF val, c, k
<1>3. store = New("store", Id(cur, k + Len(c)), args)
  BY DEF After, k
<1>4. args \in Seq(Value) /\ \A a \in 1 .. Len(args) : Readable(cur, k + Len(c), n, args[a]) /\ args[a].kind # "block"
  <2>1. Readable(cur, k + Len(c), n, val.val) /\ val.val.kind # "block"
    <3>1. 0 \in Nat /\ 0 <= n /\ k + Len(c) <= k + Len(c)
      BY <1>2
    <3>. QED
      BY <1>2, <3>1, ReadableLater, NoBlock
  <2>2. Global \in Value /\ Readable(cur, k + Len(c), n, Global) /\ Global.kind # "block"
    BY SomeValues DEF Global
  <2>. QED
    BY <1>2, <2>1, <2>2, TwoArguments
<1>. HIDE DEF args, store
<1>4a. /\ store \in Inst /\ store.op = "store" /\ store.at = Len(src) + 1
       /\ Sound(cur, k + Len(c), <<store>>, n, Len(src) + 1)
  <2>. DEFINE l == k + Len(c)
  <2>0. store = New("store", Id(cur, l), args)
    BY <1>3
  <2>1. l \in Nat /\ \A a \in 1 .. Len(args) : Readable(cur, l, n, args[a]) /\ args[a].kind # "block"
    BY <1>2, <1>4
  <2>. HIDE DEF l
  <2>2. /\ store \in Inst /\ store.op = "store" /\ store.at = Len(src) + 1
        /\ Sound(cur, l, <<store>>, n, Len(src) + 1)
    <3>. DEFINE new == New("store", Id(cur, l), args)
    <3>0. Sound(cur, l, <<new>>, n, Len(src) + 1)
      BY <1>1, <1>4, <2>1, LastSound
    <3>1. new \in Inst /\ new.op = "store" /\ new.at = Len(src) + 1
      BY <1>1, <1>4, <2>1, LastTyped
    <3>2. store = new
      BY <2>0
    <3>. HIDE DEF new
    <3>. QED
      BY <3>0, <3>1, <3>2
  <2>. QED
    BY <2>2 DEF l
<1>5. /\ store.op = "store" /\ Append(c, store) = c \o <<store>>
      /\ Line(c \o <<store>>, cur, k, n)
      /\ Len(c \o <<store>>) = Len(c) + 1
      /\ c \o <<store>> # <<>>
      /\ (c \o <<store>>)[Len(c) + 1] = store
  <2>. HIDE DEF code
  <2>1. Len(src) \in Nat /\ cur \in Nat \ {0} /\ k \in Nat /\ Straight(c, cur, k, n)
    BY <1>1, <1>2
  <2>2. /\ store \in Inst /\ store.at = Len(src) + 1
        /\ Sound(cur, k + Len(c), <<store>>, n, Len(src) + 1)
    BY <1>4a
  <2>3. /\ Line(c \o <<store>>, cur, k, n)
        /\ Append(c, store) = c \o <<store>>
        /\ Len(c \o <<store>>) = Len(c) + 1 /\ Len(c) \in Nat
        /\ c \o <<store>> # <<>>
        /\ (c \o <<store>>)[Len(c) + 1] = store
    BY <2>1, <2>2, LineMore
  <2>. QED
    BY <1>4a, <2>3
<1>6. CASE val.val = None
  <2>1. code = c /\ ~ val.whole
    BY <1>2, <1>6
  <2>2. Line(c, cur, k, n)
    BY <1>2, StraightLine
  <2>. QED
    BY <1>2, <2>1, <2>2 DEF val, k, c, store, args
<1>7. CASE val.val # None
  <2>1. code = c \o <<store>>
    BY <1>5, <1>7
  <2>. QED
    BY <1>2, <1>5, <2>1 DEF val, k, c, store, args
<1>. QED
  BY <1>6, <1>7

\* What lower_stmt emits for a return: it ends in a ret.
LEMMA ReturnCode ==
    ASSUME Typed, NEW e \in Values, NEW n \in Nat
    PROVE  LET val == Lowered(e, cur)
               args == IF val.val = None THEN <<>> ELSE <<val.val>>
               ret == After("ret", cur, val.code, args)
               code == Append(val.code, ret)
           IN  /\ val.whole \in BOOLEAN
               /\ Line(code, cur, Size(cur), n)
               /\ code # <<>> /\ code[Len(code)].op = "ret"
<1>. DEFINE val == Lowered(e, cur)
            c == val.code
            k == Size(cur)
            args == IF val.val = None THEN <<>> ELSE <<val.val>>
            ret == After("ret", cur, c, args)
            code == Append(c, ret)
<1>1. Len(src) \in Nat /\ cur \in Nat \ {0} /\ cur \in 1 .. Len(blocks) /\ k \in Nat
  BY TypedFacts DEF Typed
<1>2. /\ Straight(c, cur, k, n) /\ c \in Seq(Inst) /\ Len(c) \in Nat /\ k + Len(c) \in Nat
      /\ val.val \in Value /\ Readable(cur, k + Len(c), 0, val.val)
      /\ val.whole \in BOOLEAN
  BY <1>1, LoweredFacts
<1>. HIDE DEF val, c, k
<1>3. ret = New("ret", Id(cur, k + Len(c)), args)
  BY DEF After, k
<1>4. args \in Seq(Value) /\ \A a \in 1 .. Len(args) : Readable(cur, k + Len(c), n, args[a]) /\ args[a].kind # "block"
  <2>1. Readable(cur, k + Len(c), n, val.val) /\ val.val.kind # "block"
    <3>1. 0 \in Nat /\ 0 <= n /\ k + Len(c) <= k + Len(c)
      BY <1>2
    <3>. QED
      BY <1>2, <3>1, ReadableLater, NoBlock
  <2>2. CASE val.val = None
    BY <2>2
  <2>3. CASE val.val # None
    BY <1>2, <2>1, <2>3, OneArgument
  <2>. QED
    BY <2>2, <2>3
<1>. HIDE DEF args, ret
<1>4a. /\ ret \in Inst /\ ret.op = "ret" /\ ret.at = Len(src) + 1
       /\ Sound(cur, k + Len(c), <<ret>>, n, Len(src) + 1)
  <2>. DEFINE l == k + Len(c)
  <2>0. ret = New("ret", Id(cur, l), args)
    BY <1>3
  <2>1. l \in Nat /\ \A a \in 1 .. Len(args) : Readable(cur, l, n, args[a]) /\ args[a].kind # "block"
    BY <1>2, <1>4
  <2>. HIDE DEF l
  <2>2. /\ ret \in Inst /\ ret.op = "ret" /\ ret.at = Len(src) + 1
        /\ Sound(cur, l, <<ret>>, n, Len(src) + 1)
    <3>. DEFINE new == New("ret", Id(cur, l), args)
    <3>0. Sound(cur, l, <<new>>, n, Len(src) + 1)
      BY <1>1, <1>4, <2>1, LastSound
    <3>1. new \in Inst /\ new.op = "ret" /\ new.at = Len(src) + 1
      BY <1>1, <1>4, <2>1, LastTyped
    <3>2. ret = new
      BY <2>0
    <3>. HIDE DEF new
    <3>. QED
      BY <3>0, <3>1, <3>2
  <2>. QED
    BY <2>2 DEF l
<1>5. /\ ret.op = "ret" /\ Append(c, ret) = c \o <<ret>>
      /\ Line(c \o <<ret>>, cur, k, n)
      /\ Len(c \o <<ret>>) = Len(c) + 1
      /\ c \o <<ret>> # <<>>
      /\ (c \o <<ret>>)[Len(c) + 1] = ret
  <2>. HIDE DEF code
  <2>1. Len(src) \in Nat /\ cur \in Nat \ {0} /\ k \in Nat /\ Straight(c, cur, k, n)
    BY <1>1, <1>2
  <2>2. /\ ret \in Inst /\ ret.at = Len(src) + 1
        /\ Sound(cur, k + Len(c), <<ret>>, n, Len(src) + 1)
    BY <1>4a
  <2>3. /\ Line(c \o <<ret>>, cur, k, n)
        /\ Append(c, ret) = c \o <<ret>>
        /\ Len(c \o <<ret>>) = Len(c) + 1 /\ Len(c) \in Nat
        /\ c \o <<ret>> # <<>>
        /\ (c \o <<ret>>)[Len(c) + 1] = ret
    BY <2>1, <2>2, LineMore
  <2>. QED
    BY <1>4a, <2>3
<1>. QED
  BY <1>2, <1>5 DEF val, k, c, ret, args

\* Code that ends by going on in block t or in block u.
Tests(code, t, u) ==
    /\ code # <<>> /\ code[Len(code)].op = "br_cond"
    /\ code[Len(code)].args[2].n = t /\ code[Len(code)].args[3].n = u

\* A condition and its branch, after k instructions of block b.
LEMMA CondCode ==
    ASSUME Len(src) \in Nat, NEW b \in Nat \ {0}, NEW k \in Nat, NEW n \in Nat, NEW e \in Exprs,
           NEW t \in 1 .. n, NEW u \in 1 .. n
    PROVE  LET cond == Lower[<<e, b, k>>]
               br == New("br_cond", Id(b, k + Len(cond.code)), <<cond.val, ToBlock(t), ToBlock(u)>>)
               code == Append(cond.code, br)
           IN  /\ cond.whole \in BOOLEAN
               /\ Line(code, b, k, n) /\ Tests(code, t, u)
<1>. DEFINE cond == Lower[<<e, b, k>>]
            c == cond.code
            v == cond.val
            l == k + Len(c)
            br == New("br_cond", Id(b, l), <<v, ToBlock(t), ToBlock(u)>>)
            code == Append(c, br)
<1>1. Good(cond, b, k)
  BY LowerFacts
<1>. HIDE DEF cond
<1>2. GoodCode(c, b, k) /\ cond.whole \in BOOLEAN /\ v \in Value /\ Readable(b, l, 0, v)
  BY <1>1 DEF Good
<1>. HIDE DEF c, v
<1>3. Straight(c, b, k, n) /\ c \in Seq(Inst) /\ Len(c) \in Nat
  BY <1>2, GoodStraight, GoodSeq
<1>4. l \in Nat
  BY <1>3
<1>5. l = k + Len(c)
  OBVIOUS
<1>. HIDE DEF l
<1>6. /\ Sound(b, l, <<br>>, n, Len(src) + 1) /\ br \in Inst /\ br.at = Len(src) + 1
      /\ br.op = "br_cond" /\ br.args[2].n = t /\ br.args[3].n = u
  <2>. DEFINE x == ToBlock(t)
              y == ToBlock(u)
              inst == New("br_cond", Id(b, l), <<v, x, y>>)
  <2>0. x = ToBlock(t) /\ y = ToBlock(u) /\ br = inst
    OBVIOUS
  <2>. HIDE DEF x, y
  <2>1. /\ inst \in Inst /\ inst.op = "br_cond" /\ inst.at = Len(src) + 1
        /\ inst.id = Id(b, l) /\ Len(inst.args) = 3
        /\ inst.args[1] = v /\ inst.args[2] = x /\ inst.args[3] = y
        /\ x.kind = "block" /\ y.kind = "block" /\ x.n = t /\ y.n = u
    BY <1>2, <1>4, <2>0, CondTyped
  <2>. HIDE DEF inst
  <2>2. inst.at \in 1 .. Len(src) + 1
    BY <2>1
  <2>3. Sound(b, l, <<inst>>, n, Len(src) + 1)
    BY <1>2, <1>4, <2>1, <2>2, CondSound
  <2>. HIDE DEF br
  <2>. QED
    BY <2>0, <2>1, <2>3
<1>. HIDE DEF br
<1>7. Sound(b, k + Len(c), <<br>>, n, Len(src) + 1)
  BY <1>5, <1>6
<1>8. /\ Line(c \o <<br>>, b, k, n)
      /\ Append(c, br) = c \o <<br>>
      /\ Len(c \o <<br>>) = Len(c) + 1 /\ Len(c) \in Nat
      /\ c \o <<br>> # <<>>
      /\ (c \o <<br>>)[Len(c) + 1] = br
  <2>1. Straight(c, b, k, n) /\ br \in Inst /\ br.at = Len(src) + 1
    BY <1>3, <1>6
  <2>. HIDE DEF code
  <2>. QED
    BY <1>7, <2>1, LineMore
<1>9. Append(c, br) = c \o <<br>> /\ Len(c \o <<br>>) = Len(c) + 1 /\ c \o <<br>> # <<>>
      /\ (c \o <<br>>)[Len(c) + 1] = br
  <2>. HIDE DEF code
  <2>. QED
    BY <1>8
<1>10. Line(code, b, k, n) /\ code # <<>> /\ code[Len(code)] = br
  BY <1>8, <1>9
<1>. HIDE DEF code
<1>11. /\ cond.whole \in BOOLEAN
       /\ Line(code, b, k, n) /\ Tests(code, t, u)
  BY <1>2, <1>6, <1>10 DEF Tests
<1>. QED
  BY <1>11 DEF code, br, l, v, c, cond

\* A branch alone.
LEMMA JumpCode ==
    ASSUME Len(src) \in Nat, NEW b \in Nat \ {0}, NEW k \in Nat, NEW n \in Nat, NEW t \in 1 .. n
    PROVE  LET code == <<New("br", Id(b, k), Jump(t))>>
           IN  /\ Line(code, b, k, n) /\ code # <<>> /\ Len(code) = 1
               /\ code[Len(code)].op = "br" /\ code[Len(code)].args[1].n = t
<1>. DEFINE inst == New("br", Id(b, k), Jump(t))
            code == <<inst>>
<1>1. /\ Sound(b, k, <<inst>>, n, Len(src) + 1) /\ inst \in Inst /\ inst.op = "br"
      /\ inst.at = Len(src) + 1 /\ inst.args[1].n = t
  BY JumpInst
<1>. HIDE DEF inst
<1>2. code \in Seq(Inst) /\ Len(code) = 1 /\ code[1] = inst /\ code # <<>>
      /\ \A i \in 1 .. Len(code) : i = 1
  BY <1>1
<1>. HIDE DEF code
<1>3. Line(code, b, k, n)
  <2>1. Sound(b, k, code, n, Len(src) + 1)
    BY <1>1 DEF code
  <2>2. \A i \in 1 .. Len(code) : code[i].at = Len(src) + 1 /\ i = Len(code)
    BY <1>1, <1>2
  <2>. QED
    BY <1>2, <2>1, <2>2 DEF Line
<1>4. /\ Line(code, b, k, n) /\ code # <<>> /\ Len(code) = 1
      /\ code[Len(code)].op = "br" /\ code[Len(code)].args[1].n = t
  BY <1>1, <1>2, <1>3
<1>. QED
  BY <1>4 DEF code, inst
-----------------------------------------------------------------------------
(* Blocks, frames and tokens that grow *)

\* Code goes to the end of one block, the others stay.
LEMMA EmittedFacts ==
    ASSUME NEW bs \in Seq(Seq(Inst)), NEW b \in 1 .. Len(bs), NEW code \in Seq(Inst)
    PROVE  /\ Emitted(bs, b, code) \in Seq(Seq(Inst))
           /\ Len(Emitted(bs, b, code)) = Len(bs)
           /\ Emitted(bs, b, code)[b] = bs[b] \o code
           /\ \A c \in 1 .. Len(bs) : c # b => Emitted(bs, b, code)[c] = bs[c]
<1>1. bs[b] \in Seq(Inst)
  OBVIOUS
<1>2. bs[b] \o code \in Seq(Inst)
  BY <1>1
<1>. DEFINE x == bs[b] \o code
<1>3. Emitted(bs, b, code) = [bs EXCEPT ![b] = x]
  BY DEF Emitted
<1>. HIDE DEF x
<1>4. x \in Seq(Inst)
  BY <1>2 DEF x
<1>5. /\ [bs EXCEPT ![b] = x] \in Seq(Seq(Inst))
      /\ Len([bs EXCEPT ![b] = x]) = Len(bs)
      /\ [bs EXCEPT ![b] = x][b] = x
      /\ \A c \in 1 .. Len(bs) : c # b => [bs EXCEPT ![b] = x][c] = bs[c]
  BY <1>4
<1>. QED
  BY <1>3, <1>5 DEF x

\* Every block is sound when one has grown by sound code.
LEMMA SoundGrows ==
    ASSUME NEW bs \in Seq(Seq(Inst)), NEW b \in 1 .. Len(bs), NEW code \in Seq(Inst),
           NEW n \in Nat, NEW o \in Nat, n <= o, NEW m \in Nat, NEW p \in Nat, m <= p,
           \A c \in 1 .. Len(bs) : Sound(c, 0, bs[c], n, m),
           Sound(b, Len(bs[b]), code, o, p)
    PROVE  \A c \in 1 .. Len(bs) : Sound(c, 0, Emitted(bs, b, code)[c], o, p)
<1>1. ASSUME NEW c \in 1 .. Len(bs) PROVE Sound(c, 0, bs[c], o, p)
  BY SoundLater
<1>2. bs[b] \in Seq(Inst) /\ Len(bs[b]) \in Nat /\ 0 + Len(bs[b]) = Len(bs[b])
  OBVIOUS
<1>3. Sound(b, 0, bs[b] \o code, o, p)
  <2>1. Sound(b, 0 + Len(bs[b]), code, o, p) /\ Sound(b, 0, bs[b], o, p) /\ 0 \in Nat
    BY <1>1, <1>2
  <2>. QED
    BY <1>2, <2>1, SoundJoin
<1>4. SUFFICES ASSUME NEW c \in 1 .. Len(bs) PROVE Sound(c, 0, Emitted(bs, b, code)[c], o, p)
  OBVIOUS
<1>5. CASE c = b
  <2>1. Emitted(bs, b, code)[b] = bs[b] \o code
    BY EmittedFacts
  <2>. QED
    BY <1>3, <1>5, <2>1
<1>6. CASE c # b
  <2>1. Emitted(bs, b, code)[c] = bs[c]
    BY <1>6, EmittedFacts
  <2>. QED
    BY <1>1, <2>1
<1>. QED
  BY <1>5, <1>6

\* One element more at the end of a sequence.
LEMMA PushFacts ==
    ASSUME NEW T, NEW fs \in Seq(T), NEW fr \in T
    PROVE  /\ Append(fs, fr) \in Seq(T) /\ Len(Append(fs, fr)) = Len(fs) + 1 /\ Len(fs) \in Nat
           /\ \A f \in 1 .. Len(fs) : f \in 1 .. Len(fs) + 1 /\ Append(fs, fr)[f] = fs[f]
           /\ Append(fs, fr)[Len(fs) + 1] = fr /\ Len(fs) + 1 \in 1 .. Len(fs) + 1
           /\ \A f \in 1 .. Len(fs) + 1 : f \in 1 .. Len(fs) \/ f = Len(fs) + 1
  OBVIOUS

\* The last element taken from a sequence.
LEMMA PopFacts ==
    ASSUME NEW T, NEW fs \in Seq(T), fs # <<>>
    PROVE  /\ SubSeq(fs, 1, Len(fs) - 1) \in Seq(T)
           /\ Len(SubSeq(fs, 1, Len(fs) - 1)) = Len(fs) - 1
           /\ Len(fs) \in Nat /\ Len(fs) - 1 \in Nat
           /\ Len(fs) \in 1 .. Len(fs) /\ fs[Len(fs)] \in T
           /\ \A f \in 1 .. Len(fs) - 1 :
                 /\ SubSeq(fs, 1, Len(fs) - 1)[f] = fs[f]
                 /\ f \in 1 .. Len(fs) /\ f < Len(fs)
           /\ \A f \in 1 .. Len(fs) : f \in 1 .. Len(fs) - 1 \/ f = Len(fs)
<1>1. Len(fs) \in Nat /\ Len(fs) # 0
  OBVIOUS
<1>2. Len(fs) - 1 \in Nat /\ Len(fs) \in 1 .. Len(fs)
  BY <1>1
<1>. DEFINE l == Len(fs) - 1
            pop == SubSeq(fs, 1, l)
<1>3. pop \in Seq(T) /\ Len(pop) = l
  <2>1. \A i \in 1 .. l : fs[i] \in T
    BY <1>1
  <2>2. 1 \in Int /\ l \in Int /\ l - 1 + 1 = l /\ (~ (1 <= l) => l = 0)
    <3>1. l \in Nat
      BY <1>2
    <3>. HIDE DEF l
    <3>. QED
      BY <3>1
  <2>3. pop \in Seq(T) /\ Len(pop) = IF 1 <= l THEN l - 1 + 1 ELSE 0
    <3>. HIDE DEF l
    <3>. QED
      BY <2>1, <2>2, SubSeqProperties
  <2>. HIDE DEF l
  <2>. QED
    BY <2>2, <2>3
<1>4. \A f \in 1 .. l : pop[f] = fs[f]
  BY <1>1, <1>2
<1>5. \A f \in 1 .. l : f \in 1 .. Len(fs) /\ f < Len(fs)
  BY <1>1
<1>6. \A f \in 1 .. Len(fs) : f \in 1 .. l \/ f = Len(fs)
  BY <1>1
<1>7. fs[Len(fs)] \in T
  BY <1>2
<1>. QED
  BY <1>1, <1>2, <1>3, <1>4, <1>5, <1>6, <1>7

\* The frames below the top one, and those with one more.
LEMMA AheadPop ==
    ASSUME NEW fs \in Seq(Frame), fs # <<>>
    PROVE  LET pop == SubSeq(fs, 1, Len(fs) - 1)
               top == fs[Len(fs)]
           IN  /\ \A b : Ahead(fs, b) <=> \/ Ahead(pop, b)
                                          \/ b = top.end
                                          \/ top.kind = "then" /\ b = top.next
               /\ \A p : Open(fs, p) <=> Open(pop, p) \/ p = top.at
<1>. DEFINE pop == SubSeq(fs, 1, Len(fs) - 1)
            l == Len(fs)
<1>1. /\ Len(pop) = l - 1 /\ l \in 1 .. l
      /\ \A f \in 1 .. l - 1 : pop[f] = fs[f] /\ f \in 1 .. l
      /\ \A f \in 1 .. l : f \in 1 .. l - 1 \/ f = l
  BY PopFacts
<1>. HIDE DEF pop
<1>2. \A b : Ahead(fs, b) <=> \/ Ahead(pop, b)
                              \/ b = fs[l].end
                              \/ fs[l].kind = "then" /\ b = fs[l].next
  BY <1>1 DEF Ahead
<1>3. \A p : Open(fs, p) <=> Open(pop, p) \/ p = fs[l].at
  BY <1>1 DEF Open
<1>. QED
  BY <1>2, <1>3 DEF pop

\* A new frame reserves its blocks.
LEMMA AheadPush ==
    ASSUME NEW fs \in Seq(Frame), NEW fr \in Frame
    PROVE  /\ \A b : Ahead(Append(fs, fr), b) <=> \/ Ahead(fs, b)
                                                  \/ b = fr.end
                                                  \/ fr.kind = "then" /\ b = fr.next
           /\ \A p : Open(Append(fs, fr), p) <=> Open(fs, p) \/ p = fr.at
<1>. DEFINE new == Append(fs, fr)
            l == Len(fs) + 1
<1>1. /\ Len(new) = l /\ new[l] = fr /\ l \in 1 .. l
      /\ \A f \in 1 .. Len(fs) : new[f] = fs[f] /\ f \in 1 .. l
      /\ \A f \in 1 .. l : f \in 1 .. Len(fs) \/ f = l
  BY PushFacts
<1>. HIDE DEF new, l
<1>2. \A b : Ahead(new, b) <=> \/ Ahead(fs, b)
                               \/ b = fr.end
                               \/ fr.kind = "then" /\ b = fr.next
  BY <1>1 DEF Ahead
<1>3. \A p : Open(new, p) <=> Open(fs, p) \/ p = fr.at
  BY <1>1 DEF Open
<1>. QED
  BY <1>2, <1>3 DEF new

\* Frames nest when the innermost one is closed.
LEMMA NestPop ==
    ASSUME NEW fs \in Seq(Frame), fs # <<>>, NEW s, NEW n, FramesNest(fs, s, n)
    PROVE  LET pop == SubSeq(fs, 1, Len(fs) - 1)
               top == fs[Len(fs)]
           IN  /\ FramesNest(pop, s, n)
               /\ top \in Frame
               /\ 1 < top.next /\ top.next < top.end /\ top.end <= n
               /\ top.at \in 1 .. Len(s) /\ s[top.at].to = 0
               /\ s[top.at].t = IF top.kind = "then" THEN "if" ELSE top.kind
               /\ \A f \in 1 .. Len(pop) : pop[f].at < top.at /\ pop[f].end < top.next
<1>. DEFINE pop == SubSeq(fs, 1, Len(fs) - 1)
            l == Len(fs)
<1>1. /\ Len(pop) = l - 1 /\ l \in 1 .. l /\ fs[l] \in Frame
      /\ \A f \in 1 .. l - 1 : pop[f] = fs[f] /\ f \in 1 .. l /\ f < l
  BY PopFacts
<1>. HIDE DEF pop
<1>2. FramesNest(pop, s, n)
  BY <1>1 DEF FramesNest
<1>3. \A f \in 1 .. Len(pop) : pop[f].at < fs[l].at /\ pop[f].end < fs[l].next
  BY <1>1 DEF FramesNest
<1>4. /\ 1 < fs[l].next /\ fs[l].next < fs[l].end /\ fs[l].end <= n
      /\ fs[l].at \in 1 .. Len(s) /\ s[fs[l].at].to = 0
      /\ s[fs[l].at].t = IF fs[l].kind = "then" THEN "if" ELSE fs[l].kind
  BY <1>1 DEF FramesNest
<1>. QED
  BY <1>1, <1>2, <1>3, <1>4 DEF pop

\* Frames nest when one is opened behind all blocks.
LEMMA NestPush ==
    ASSUME NEW fs \in Seq(Frame), NEW s, NEW n, FramesNest(fs, s, n), NEW fr \in Frame,
           1 < fr.next, fr.next < fr.end, fr.end <= n,
           fr.at \in 1 .. Len(s), s[fr.at].to = 0,
           s[fr.at].t = IF fr.kind = "then" THEN "if" ELSE fr.kind,
           \A f \in 1 .. Len(fs) : fs[f].at < fr.at /\ fs[f].end < fr.next
    PROVE  FramesNest(Append(fs, fr), s, n)
<1>. DEFINE new == Append(fs, fr)
            l == Len(fs) + 1
<1>1. /\ Len(new) = l /\ new[l] = fr /\ Len(fs) \in Nat
      /\ \A f \in 1 .. Len(fs) : new[f] = fs[f]
      /\ \A f \in 1 .. l : f \in 1 .. Len(fs) \/ f = l
  BY PushFacts
<1>2. \A f \in 1 .. l : ~ (l < f)
  BY <1>1
<1>. HIDE DEF new, l
<1>3. ASSUME NEW f \in 1 .. l
      PROVE  /\ 1 < new[f].next /\ new[f].next < new[f].end /\ new[f].end <= n
             /\ new[f].at \in 1 .. Len(s)
             /\ s[new[f].at].t = IF new[f].kind = "then" THEN "if" ELSE new[f].kind
             /\ s[new[f].at].to = 0
  BY <1>1 DEF FramesNest
<1>4. ASSUME NEW f \in 1 .. l, NEW g \in 1 .. l, f < g
      PROVE  new[f].at < new[g].at /\ new[f].end < new[g].next
  <2>1. CASE f = l
    BY <1>2, <1>4, <2>1
  <2>2. CASE f \in 1 .. Len(fs) /\ g = l
    BY <1>1, <2>2
  <2>3. CASE f \in 1 .. Len(fs) /\ g \in 1 .. Len(fs)
    BY <1>1, <1>4, <2>3 DEF FramesNest
  <2>. QED
    BY <1>1, <2>1, <2>2, <2>3
<1>. QED
  BY <1>1, <1>3, <1>4 DEF FramesNest, new

\* The source has one token more, and token q says where to go on.
Grows(s, s2, q) ==
    /\ Len(s2) = Len(s) + 1
    /\ \A p \in 1 .. Len(s) : s2[p].t = s[p].t /\ (p # q => s2[p] = s[p])

\* Frames nest when the source grows elsewhere.
LEMMA NestStays ==
    ASSUME NEW fs \in Seq(Frame), NEW s \in Seq(Token), NEW s2 \in Seq(Token), NEW q, Grows(s, s2, q),
           NEW n \in Nat, NEW o \in Nat, n <= o, FramesNest(fs, s, n),
           \A f \in 1 .. Len(fs) : fs[f].at # q
    PROVE  FramesNest(fs, s2, o)
<1>1. Len(s) \in Nat /\ 1 .. Len(s) \subseteq 1 .. Len(s) + 1
  OBVIOUS
<1>2. \A f \in 1 .. Len(fs) : fs[f] \in Frame
  OBVIOUS
<1>3. \A f \in 1 .. Len(fs) : fs[f].end \in Nat
  BY <1>2 DEF Frame
<1>4. \A f \in 1 .. Len(fs) : fs[f].end <= n => fs[f].end <= o
  BY <1>3
<1>5. \A f \in 1 .. Len(fs) : fs[f].at \in 1 .. Len(s) => s2[fs[f].at] = s[fs[f].at]
  BY DEF Grows
<1>. QED
  BY <1>1, <1>4, <1>5 DEF FramesNest, Grows

\* The jumps of the source stay right when one token is added and one frame's jump is set.
LEMMA TokensGrow ==
    ASSUME NEW s \in Seq(Token), NEW s2 \in Seq(Token), NEW q \in Nat, Grows(s, s2, q),
           NEW fs, NEW fs2, TokensOK(s, fs),
           \A p \in 1 .. Len(s) : Open(fs, p) => p = q \/ Open(fs2, p),
           q \in 1 .. Len(s) =>
              /\ s[q].t # "again"
              /\ s[q].t \in {"if", "while"} => s2[q].to \in 1 .. Len(s2) + 1
              /\ s[q].t = "else" => s2[q].to = Len(s2) /\ s2[Len(s2)].t = "end",
           s2[Len(s2)].t = "again" =>
              s2[Len(s2)].to \in 1 .. Len(s) /\ s[s2[Len(s2)].to].t = "while",
           s2[Len(s2)].t \in {"if", "while", "else"} => Open(fs2, Len(s2))
    PROVE  TokensOK(s2, fs2)
<1>1. /\ Len(s) \in Nat /\ Len(s2) = Len(s) + 1
      /\ \A p \in 1 .. Len(s) : p \in 1 .. Len(s2) /\ s2[p].t = s[p].t /\ (p # q => s2[p] = s[p])
      /\ \A p \in 1 .. Len(s2) : p \in 1 .. Len(s) \/ p = Len(s2)
      /\ 1 .. Len(s) + 1 \subseteq 1 .. Len(s2) + 1
      /\ \A p \in 1 .. Len(s) : p + 1 .. Len(s) \subseteq p + 1 .. Len(s2)
                                /\ p + 1 .. Len(s) \subseteq 1 .. Len(s)
                                /\ Len(s2) \in p + 1 .. Len(s2)
                                /\ 1 .. p - 1 \subseteq 1 .. Len(s)
      /\ (Len(s) + 1) - 1 = Len(s)
  BY DEF Grows
<1>2. ASSUME NEW p \in 1 .. Len(s)
      PROVE  /\ s2[p].t = "again" => s2[p].to \in 1 .. p - 1 /\ s2[s2[p].to].t = "while"
             /\ s2[p].t \in {"if", "while"} => Open(fs2, p) \/ s2[p].to \in 1 .. Len(s2) + 1
             /\ s2[p].t = "else" =>
                   \/ Open(fs2, p)
                   \/ s2[p].to \in p + 1 .. Len(s2) /\ s2[s2[p].to].t = "end"
  <2>1. CASE p = q
    BY <1>1, <2>1
  <2>2. CASE p # q
    <3>1. s2[p] = s[p] /\ (Open(fs, p) => Open(fs2, p))
      BY <1>1, <2>2
    <3>2. s[p].t = "again" => s[p].to \in 1 .. p - 1 /\ s2[s[p].to].t = "while"
      BY <1>1 DEF TokensOK
    <3>3. s[p].t \in {"if", "while"} => Open(fs2, p) \/ s[p].to \in 1 .. Len(s2) + 1
      BY <1>1, <3>1 DEF TokensOK
    <3>4. s[p].t = "else" => \/ Open(fs2, p)
                             \/ s[p].to \in p + 1 .. Len(s2) /\ s2[s[p].to].t = "end"
      BY <1>1, <3>1 DEF TokensOK
    <3>. QED
      BY <3>1, <3>2, <3>3, <3>4
  <2>. QED
    BY <2>1, <2>2
<1>3. /\ s2[Len(s2)].t = "again" => s2[Len(s2)].to \in 1 .. Len(s2) - 1 /\ s2[s2[Len(s2)].to].t = "while"
      /\ s2[Len(s2)].t \in {"if", "while"} => Open(fs2, Len(s2))
      /\ s2[Len(s2)].t = "else" => Open(fs2, Len(s2))
  BY <1>1
<1>. QED
  BY <1>1, <1>2, <1>3 DEF TokensOK
-----------------------------------------------------------------------------
(* Every step leaves the function well formed *)

\* A source with a token more, nothing patched.
LEMMA AppendGrows ==
    ASSUME NEW s \in Seq(Token), NEW token \in Token
    PROVE  /\ Append(s, token) \in Seq(Token) /\ Len(s) \in Nat
           /\ Len(Append(s, token)) = Len(s) + 1
           /\ Append(s, token)[Len(s) + 1] = token
           /\ Grows(s, Append(s, token), 0)
           /\ \A p \in 1 .. Len(s) : Append(s, token)[p] = s[p]
  BY DEF Grows

\* One token more, and token q says where to go on.
Patched(s, q, to, token) == Append([s EXCEPT ![q].to = to], token)

\* A source with a token more and the jump of one token set.
LEMMA PatchGrows ==
    ASSUME NEW s \in Seq(Token), NEW q \in 1 .. Len(s), NEW to \in Nat, NEW token \in Token,
           NEW s2, s2 = Patched(s, q, to, token)
    PROVE  /\ s2 \in Seq(Token) /\ Len(s) \in Nat
           /\ Len(s2) = Len(s) + 1
           /\ s2[Len(s) + 1] = token
           /\ s2[q].to = to /\ s2[q].t = s[q].t
           /\ Grows(s, s2, q)
<1>. DEFINE x == [s[q] EXCEPT !.to = to]
            r == [s EXCEPT ![q] = x]
            new == Append(r, token)
<1>1. s[q] \in Token /\ Len(s) \in Nat
  OBVIOUS
<1>2. x \in Token /\ x.to = to /\ x.t = s[q].t
  BY <1>1 DEF Token
<1>3. r = [s EXCEPT ![q].to = to]
  OBVIOUS
<1>. HIDE DEF x
<1>4. /\ r \in Seq(Token) /\ Len(r) = Len(s) /\ r[q] = x
      /\ \A p \in 1 .. Len(s) : p # q => r[p] = s[p]
  BY <1>2
<1>. HIDE DEF r
<1>5. /\ new \in Seq(Token) /\ Len(new) = Len(s) + 1 /\ new[Len(s) + 1] = token
      /\ \A p \in 1 .. Len(s) : new[p] = r[p]
  BY <1>1, <1>4
<1>8. s2 = new
  BY <1>3 DEF Patched
<1>. HIDE DEF new
<1>6. s2[q].to = to /\ s2[q].t = s[q].t
  BY <1>2, <1>4, <1>5, <1>8
<1>7. Grows(s, s2, q)
  <2>1. \A p \in 1 .. Len(s) : s2[p].t = s[p].t /\ (p # q => s2[p] = s[p])
    BY <1>2, <1>4, <1>5, <1>8
  <2>. QED
    BY <1>5, <1>8, <2>1 DEF Grows
<1>. QED
  BY <1>1, <1>5, <1>6, <1>7, <1>8

\* A token without a jump.
LEMMA PlainTyped ==
    ASSUME NEW t \in Tokens
    PROVE  Plain(t) \in Token /\ Plain(t).t = t /\ Plain(t).to = 0
  BY DEF Plain, Token

\* What a step of the first phase has to show.
LEMMA GrowFormed ==
    ASSUME Formed, phase = "write", phase' = "write", UNCHANGED run,
           src' \in Seq(Token), Len(src') = Len(src) + 1, TokensOK(src', frames'),
           stmts' \in 0 .. MaxStmts, supported' \in BOOLEAN,
           frames' \in Seq(Frame), Len(frames') <= MaxNest,
           FramesNest(frames', src', Len(blocks')),
           blocks' \in Seq(Seq(Inst)), Len(blocks) <= Len(blocks'),
           cur' \in 1 .. Len(blocks'), ~ Ahead(frames', cur'),
           \A b \in 1 .. Len(blocks') : Sound(b, 0, blocks'[b], Len(blocks'), Len(src) + 1)
    PROVE  Formed'
<1>1. Len(src) \in Nat /\ Len(blocks) \in Nat
  BY TypedFacts DEF Formed
<1>2. Len(blocks') \in Nat
  OBVIOUS
<1>3. 1 .. Len(blocks) \subseteq 1 .. Len(blocks') /\ 1 .. Len(src) + 1 \subseteq 1 .. Len(src') + 1
  BY <1>1, <1>2
<1>4. pos' \in [block : 1 .. Len(blocks'), i : Nat \ {0}] /\ pc' \in 1 .. Len(src') + 1
  BY <1>3 DEF Formed, Typed, run
<1>5. Typed'
  BY <1>4 DEF Typed
<1>6. Reach' = Len(src) + 1
  BY DEF Reach
<1>. QED
  BY <1>5, <1>6 DEF Formed

\* A statement without a body.
LEMMA StatementFormed ==
    ASSUME Formed, NEW code, Line(code, cur, Size(cur), Len(blocks)),
           NEW t \in {"print", "let", "assign", "return"},
           NEW lowered, lowered.whole \in BOOLEAN, Statement(Plain(t), lowered),
           blocks' = Emitted(blocks, cur, code), UNCHANGED <<cur, frames>>
    PROVE  Formed'
<1>1. /\ Len(src) \in Nat /\ Len(blocks) \in Nat /\ cur \in 1 .. Len(blocks)
      /\ blocks \in Seq(Seq(Inst)) /\ frames \in Seq(Frame) /\ src \in Seq(Token)
      /\ code \in Seq(Inst)
  BY TypedFacts DEF Formed, Typed, Line
<1>2. Plain(t) \in Token /\ Plain(t).t = t /\ src' = Append(src, Plain(t)) /\ t \in Tokens
  BY PlainTyped DEF Statement, Write, Tokens
<1>3. /\ src' \in Seq(Token) /\ Len(src') = Len(src) + 1 /\ src'[Len(src')].t = t
      /\ Grows(src, src', 0)
  BY <1>1, <1>2, AppendGrows
<1>4. TokensOK(src', frames')
  <2>1. TokensOK(src, frames) /\ 0 \in Nat /\ 0 \notin 1 .. Len(src)
    BY DEF Formed
  <2>2. t \notin {"if", "while", "else", "again"}
    OBVIOUS
  <2>3. TokensOK(src', frames)
    BY <1>1, <1>3, <2>1, <2>2, TokensGrow
  <2>. QED
    BY <2>3
<1>5. FramesNest(frames', src', Len(blocks))
  <2>1. \A f \in 1 .. Len(frames) : frames[f].at # 0
    BY DEF Formed, FramesNest
  <2>2. FramesNest(frames, src, Len(blocks)) /\ Len(blocks) <= Len(blocks)
    BY <1>1 DEF Formed
  <2>3. FramesNest(frames, src', Len(blocks))
    BY <1>1, <1>3, <2>1, <2>2, NestStays
  <2>. QED
    BY <2>3
<1>6. /\ blocks' \in Seq(Seq(Inst)) /\ Len(blocks') = Len(blocks)
  BY <1>1, EmittedFacts
<1>7. \A b \in 1 .. Len(blocks) : Sound(b, 0, blocks'[b], Len(blocks), Len(src) + 1)
  <2>1. /\ Sound(cur, Len(blocks[cur]), code, Len(blocks), Len(src) + 1)
        /\ \A b \in 1 .. Len(blocks) : Sound(b, 0, blocks[b], Len(blocks), Len(src))
    BY DEF Formed, Reach, Line, Size, Statement
  <2>2. Len(blocks) <= Len(blocks) /\ Len(src) <= Len(src) + 1 /\ Len(src) + 1 \in Nat
    BY <1>1
  <2>3. \A b \in 1 .. Len(blocks) :
           Sound(b, 0, Emitted(blocks, cur, code)[b], Len(blocks), Len(src) + 1)
    BY <1>1, <2>1, <2>2, SoundGrows
  <2>. QED
    BY <2>3
<1>8. /\ stmts' \in 0 .. MaxStmts /\ supported' \in BOOLEAN
      /\ phase = "write" /\ phase' = "write" /\ UNCHANGED run
  BY LowerAssumption DEF Statement, Formed, Typed
<1>9. /\ frames' \in Seq(Frame) /\ Len(frames') <= MaxNest
      /\ cur' \in 1 .. Len(blocks') /\ ~ Ahead(frames', cur') /\ Len(blocks) <= Len(blocks')
  BY <1>1, <1>6 DEF Formed, Typed
<1>. QED
  BY <1>3, <1>4, <1>5, <1>6, <1>7, <1>8, <1>9, GrowFormed

\* A statement without a case changes the source only.
LEMMA UnloweredFormed ==
    ASSUME Formed, UnloweredStmt
    PROVE  Formed'
<1>1. /\ Len(src) \in Nat /\ Len(blocks) \in Nat /\ cur \in 1 .. Len(blocks)
      /\ blocks \in Seq(Seq(Inst)) /\ frames \in Seq(Frame) /\ src \in Seq(Token)
  BY TypedFacts DEF Formed, Typed
<1>2. LET t == "unlowered"
      IN  /\ Plain(t) \in Token /\ Plain(t).t = t /\ src' = Append(src, Plain(t))
  BY PlainTyped DEF UnloweredStmt, Write, Tokens
<1>3. /\ src' \in Seq(Token) /\ Len(src') = Len(src) + 1 /\ src'[Len(src')].t = "unlowered"
      /\ Grows(src, src', 0)
  BY <1>1, <1>2, AppendGrows
<1>4. TokensOK(src', frames')
  <2>1. TokensOK(src, frames) /\ 0 \in Nat /\ 0 \notin 1 .. Len(src)
    BY DEF Formed
  <2>2. TokensOK(src', frames)
    BY <1>1, <1>3, <2>1, TokensGrow
  <2>. QED
    BY <2>2 DEF UnloweredStmt
<1>5. FramesNest(frames', src', Len(blocks))
  <2>1. \A f \in 1 .. Len(frames) : frames[f].at # 0
    BY DEF Formed, FramesNest
  <2>2. FramesNest(frames, src, Len(blocks)) /\ Len(blocks) <= Len(blocks)
    BY <1>1 DEF Formed
  <2>3. FramesNest(frames, src', Len(blocks))
    BY <1>1, <1>3, <2>1, <2>2, NestStays
  <2>. QED
    BY <2>3 DEF UnloweredStmt
<1>6. blocks' = blocks /\ cur' = cur /\ frames' = frames /\ UNCHANGED run
      /\ phase = "write" /\ phase' = "write"
  BY DEF UnloweredStmt, ir
<1>7. \A b \in 1 .. Len(blocks) : Sound(b, 0, blocks[b], Len(blocks), Len(src) + 1)
  <2>1. \A b \in 1 .. Len(blocks) : Sound(b, 0, blocks[b], Len(blocks), Len(src))
    BY <1>6 DEF Formed, Reach
  <2>2. Len(blocks) <= Len(blocks) /\ Len(src) <= Len(src) + 1 /\ Len(src) + 1 \in Nat /\ 0 \in Nat
    BY <1>1
  <2>. QED
    BY <1>1, <2>1, <2>2, SoundLater
<1>8. stmts' \in 0 .. MaxStmts /\ supported' \in BOOLEAN
  <2>1. MaxStmts \in Nat /\ stmts \in 0 .. MaxStmts
    BY LowerAssumption DEF Formed, Typed
  <2>2. stmts < MaxStmts /\ stmts' = stmts + 1 /\ supported' = FALSE
    BY DEF UnloweredStmt
  <2>3. stmts' \in 0 .. MaxStmts
    BY <2>1, <2>2
  <2>. QED
    BY <2>2, <2>3
<1>9. Len(frames) <= MaxNest /\ ~ Ahead(frames, cur) /\ Len(blocks) <= Len(blocks)
  BY <1>1 DEF Formed, Typed
<1>. QED
  BY <1>1, <1>3, <1>4, <1>5, <1>6, <1>7, <1>8, <1>9, GrowFormed

\* Blocks with three more.
LEMMA ThreeMore ==
    ASSUME NEW bs \in Seq(Seq(Inst)), NEW c \in Seq(Inst)
    PROVE  LET new == bs \o <<c, <<>>, <<>>>>
               n == Len(bs)
           IN  /\ new \in Seq(Seq(Inst)) /\ Len(new) = n + 3 /\ n \in Nat
               /\ \A b \in 1 .. n : b \in 1 .. n + 3 /\ new[b] = bs[b]
               /\ new[n + 1] = c /\ new[n + 2] = <<>> /\ new[n + 3] = <<>>
               /\ \A b \in 1 .. n + 3 : b \in 1 .. n \/ b = n + 1 \/ b = n + 2 \/ b = n + 3
<1>. DEFINE n == Len(bs)
            three == <<c, <<>>, <<>>>>
            new == bs \o three
<1>1. n \in Nat
  OBVIOUS
<1>2. <<>> \in Seq(Inst)
  OBVIOUS
<1>3. /\ three \in Seq(Seq(Inst)) /\ Len(three) = 3
      /\ three[1] = c /\ three[2] = <<>> /\ three[3] = <<>>
      /\ 1 \in 1 .. Len(three) /\ 2 \in 1 .. Len(three) /\ 3 \in 1 .. Len(three)
  BY <1>2
<1>. HIDE DEF three
<1>4. /\ new \in Seq(Seq(Inst)) /\ Len(new) = n + 3
      /\ \A b \in 1 .. n : new[b] = bs[b]
      /\ \A i \in 1 .. Len(three) : new[n + i] = three[i]
  <2>1. bs \in Seq(Seq(Inst)) /\ three \in Seq(Seq(Inst))
    BY <1>3
  <2>2. new \in Seq(Seq(Inst)) /\ Len(new) = n + Len(three)
    BY <2>1, Joined
  <2>3. \A b \in 1 .. Len(bs) : (bs \o three)[b] = bs[b]
    BY <2>1, Joined
  <2>4. \A i \in 1 .. Len(three) : (bs \o three)[Len(bs) + i] = three[i]
    BY <2>1, Joined
  <2>. QED
    BY <1>3, <2>2, <2>3, <2>4
<1>5. \A b \in 1 .. n : b \in 1 .. n + 3
  BY <1>1
<1>6. \A b \in 1 .. n + 3 : b \in 1 .. n \/ b = n + 1 \/ b = n + 2 \/ b = n + 3
  BY <1>1
<1>7. new[n + 1] = c /\ new[n + 2] = <<>> /\ new[n + 3] = <<>>
  BY <1>3, <1>4
<1>. QED
  BY <1>1, <1>4, <1>5, <1>6, <1>7 DEF three

\* A new block is sound.
LEMMA EmptySound ==
    ASSUME NEW b, NEW k, NEW n, NEW m
    PROVE  Sound(b, k, <<>>, n, m)
  BY DEF Sound

\* The blocks frames reserve are blocks of the function.
LEMMA FramesBelow ==
    ASSUME NEW fs \in Seq(Frame), NEW s, NEW l \in Nat, Len(s) = l, NEW n \in Nat, FramesNest(fs, s, n)
    PROVE  \A f \in 1 .. Len(fs) :
              /\ fs[f].at \in 1 .. l /\ fs[f].at # 0 /\ fs[f].at < l + 1
              /\ fs[f].next \in Nat /\ fs[f].end \in Nat
              /\ 1 < fs[f].next /\ fs[f].next < fs[f].end
              /\ fs[f].next <= n /\ fs[f].end <= n
<1>1. SUFFICES ASSUME NEW f \in 1 .. Len(fs)
               PROVE  /\ fs[f].at \in 1 .. l /\ fs[f].at # 0 /\ fs[f].at < l + 1
                      /\ fs[f].next \in Nat /\ fs[f].end \in Nat
                      /\ 1 < fs[f].next /\ fs[f].next < fs[f].end
                      /\ fs[f].next <= n /\ fs[f].end <= n
  OBVIOUS
<1>2. fs[f] \in Frame
  OBVIOUS
<1>3. fs[f].next \in Nat /\ fs[f].end \in Nat
  BY <1>2 DEF Frame
<1>4. 1 < fs[f].next /\ fs[f].next < fs[f].end /\ fs[f].end <= n /\ fs[f].at \in 1 .. l
  BY DEF FramesNest
<1>. QED
  BY <1>3, <1>4

\* The step that starts an if or a while: code ends the current block, and of three
\* new ones the first has the code c.
Opens(code, c, kind, next, end, lowered) ==
    /\ Statement(Plain(IF kind = "then" THEN "if" ELSE kind), lowered)
    /\ lowered.whole \in BOOLEAN
    /\ Len(frames) < MaxNest
    /\ blocks' = Emitted(blocks, cur, code) \o <<c, <<>>, <<>>>>
    /\ end = Len(blocks) + 3
    /\ \/ kind = "then" /\ cur' = Len(blocks) + 1 /\ next = Len(blocks) + 2
       \/ kind = "while" /\ cur' = Len(blocks) + 2 /\ next = Len(blocks) + 1
    /\ frames' = Append(frames, [kind |-> kind, at |-> Len(src) + 1, next |-> next, end |-> end])

\* What it comes to.
LEMMA OpensFacts ==
    ASSUME Formed, NEW code, NEW c, NEW kind, NEW next, NEW end, NEW lowered,
           Opens(code, c, kind, next, end, lowered), NEW n, n = Len(blocks), NEW l, l = Len(src)
    PROVE  /\ l \in Nat /\ n \in Nat /\ 1 <= n
           /\ end = n + 3 /\ next \in Nat /\ 1 < next /\ next < end
           /\ cur' # next /\ cur' # end /\ cur' \in 1 .. n + 3
           /\ \A x \in Nat : x <= n => x < next /\ x # cur'
           /\ \E fr \in Frame : /\ fr = [kind |-> kind, at |-> l + 1, next |-> next, end |-> end]
                                /\ fr.kind = kind /\ fr.at = l + 1 /\ fr.next = next /\ fr.end = end
                                /\ frames' = Append(frames, fr)
<1>1. l \in Nat /\ n \in Nat /\ 1 <= n
  <2>1. l \in Nat /\ n \in Nat /\ cur \in 1 .. n
    BY TypedFacts DEF Formed, Typed
  <2>. QED
    BY <2>1
<1>2. end = n + 3 /\ (\/ kind = "then" /\ cur' = n + 1 /\ next = n + 2
                      \/ kind = "while" /\ cur' = n + 2 /\ next = n + 1)
  BY DEF Opens
<1>3. /\ end = n + 3 /\ next \in Nat /\ 1 < next /\ next < end
      /\ cur' # next /\ cur' # end /\ cur' \in 1 .. n + 3
      /\ \A x \in Nat : x <= n => x < next /\ x # cur'
  BY <1>1, <1>2
<1>. DEFINE fr == [kind |-> kind, at |-> l + 1, next |-> next, end |-> end]
<1>4. fr \in Frame
  <2>1. l + 1 \in Nat /\ end \in Nat /\ kind \in {"then", "while"}
    BY <1>1, <1>2
  <2>. QED
    BY <1>3, <2>1 DEF Frame
<1>5. frames' = Append(frames, fr)
  BY DEF Opens
<1>6. fr.kind = kind /\ fr.at = l + 1 /\ fr.next = next /\ fr.end = end
  OBVIOUS
<1>. HIDE DEF fr
<1>. QED
  BY <1>1, <1>3, <1>4, <1>5, <1>6 DEF fr

\* An if or a while starts.
LEMMA OpenFormed ==
    ASSUME Formed, NEW code, Line(code, cur, Size(cur), Len(blocks) + 3),
           NEW c \in Seq(Inst), Sound(Len(blocks) + 1, 0, c, Len(blocks) + 3, Len(src) + 1),
           NEW kind \in {"then", "while"}, NEW next, NEW end, NEW lowered,
           Opens(code, c, kind, next, end, lowered)
    PROVE  Formed'
<1>. DEFINE n == Len(blocks)
            l == Len(src)
            t == IF kind = "then" THEN "if" ELSE kind
            es == Emitted(blocks, cur, code)
<1>1. /\ cur \in 1 .. n
      /\ blocks \in Seq(Seq(Inst)) /\ frames \in Seq(Frame) /\ src \in Seq(Token)
      /\ code \in Seq(Inst)
  BY DEF Formed, Typed, Line
<1>2. /\ t \in Tokens /\ t \in {"if", "while"}
      /\ Statement(Plain(t), lowered) /\ lowered.whole \in BOOLEAN /\ Len(frames) < MaxNest
      /\ blocks' = es \o <<c, <<>>, <<>>>>
  BY DEF Opens, Tokens
<1>3. PICK fr \in Frame : /\ fr.kind = kind /\ fr.at = l + 1 /\ fr.next = next /\ fr.end = end
                          /\ frames' = Append(frames, fr)
  <2>1. n = Len(blocks) /\ l = Len(src)
    OBVIOUS
  <2>. HIDE DEF n, l
  <2>. QED
    BY <2>1, OpensFacts
<1>4. /\ l \in Nat /\ n \in Nat /\ 1 <= n
      /\ end = n + 3 /\ next \in Nat /\ 1 < next /\ next < end
      /\ cur' # next /\ cur' # end /\ cur' \in 1 .. n + 3
      /\ \A x \in Nat : x <= n => x < next /\ x # cur'
  <2>1. n = Len(blocks) /\ l = Len(src)
    OBVIOUS
  <2>. HIDE DEF n, l
  <2>. QED
    BY <2>1, OpensFacts
<1>. HIDE DEF t, n, l, es
<1>0. /\ src' \in Seq(Token) /\ Len(src') = l + 1 /\ src'[l + 1].t = t /\ src'[l + 1].to = 0
      /\ Grows(src, src', 0)
  <2>1. Plain(t) \in Token /\ Plain(t).t = t /\ Plain(t).to = 0 /\ src' = Append(src, Plain(t))
    BY <1>2, PlainTyped DEF Statement, Write
  <2>. QED
    BY <1>1, <2>1, AppendGrows DEF l
<1>5. /\ frames' \in Seq(Frame) /\ Len(frames') = Len(frames) + 1 /\ Len(frames) \in Nat
  BY <1>1, <1>3, PushFacts
<1>6. /\ \A b : Ahead(frames', b) <=> \/ Ahead(frames, b)
                                      \/ b = end
                                      \/ kind = "then" /\ b = next
      /\ \A p : Open(frames', p) <=> Open(frames, p) \/ p = l + 1
  <2>1. /\ \A b : Ahead(Append(frames, fr), b) <=> \/ Ahead(frames, b)
                                                   \/ b = fr.end
                                                   \/ fr.kind = "then" /\ b = fr.next
        /\ \A p : Open(Append(frames, fr), p) <=> Open(frames, p) \/ p = fr.at
    BY <1>1, AheadPush
  <2>. QED
    BY <1>3, <2>1
<1>7. TokensOK(src', frames')
  <2>1. TokensOK(src, frames) /\ 0 \in Nat /\ 0 \notin 1 .. Len(src)
    BY DEF Formed
  <2>2. t \notin {"else", "again"}
    BY <1>2
  <2>3. Len(src') = l + 1 /\ src'[Len(src')].t = t /\ Open(frames', Len(src'))
    BY <1>0, <1>6
  <2>. QED
    BY <1>0, <1>1, <1>6, <2>1, <2>2, <2>3, TokensGrow
<1>8. \A f \in 1 .. Len(frames) : /\ frames[f].at # 0 /\ frames[f].at < l + 1
                                  /\ frames[f].next <= n /\ frames[f].end <= n
                                  /\ frames[f].next \in Nat /\ frames[f].end \in Nat
  <2>1. FramesNest(frames, src, n) /\ Len(src) = l
    BY DEF Formed, n, l
  <2>. QED
    BY <1>1, <1>4, <2>1, FramesBelow
<1>10. FramesNest(frames', src', n + 3)
  <2>0. n <= n + 3 /\ n + 3 \in Nat
    BY <1>4
  <2>1. FramesNest(frames, src, n)
    BY DEF Formed, n
  <2>2. FramesNest(frames, src', n + 3)
    <3>1. /\ frames \in Seq(Frame) /\ src \in Seq(Token) /\ src' \in Seq(Token) /\ Grows(src, src', 0)
          /\ n \in Nat /\ n + 3 \in Nat /\ n <= n + 3
          /\ \A f \in 1 .. Len(frames) : frames[f].at # 0
      BY <1>0, <1>1, <1>4, <1>8, <2>0
    <3>. QED
      BY <2>1, <3>1, NestStays
  <2>3. fr.at \in 1 .. Len(src') /\ src'[fr.at].to = 0
        /\ src'[fr.at].t = IF fr.kind = "then" THEN "if" ELSE fr.kind
    BY <1>0, <1>3, <1>4 DEF t
  <2>4. 1 < fr.next /\ fr.next < fr.end /\ fr.end <= n + 3
    BY <1>3, <1>4
  <2>5. \A f \in 1 .. Len(frames) : frames[f].at < fr.at /\ frames[f].end < fr.next
    BY <1>3, <1>4, <1>8
  <2>6. FramesNest(Append(frames, fr), src', n + 3)
    BY <1>1, <2>2, <2>3, <2>4, <2>5, NestPush
  <2>. QED
    BY <1>3, <2>6
<1>11. ~ Ahead(frames', cur')
  <2>1. ~ Ahead(frames, cur')
    BY <1>4, <1>8 DEF Ahead
  <2>. QED
    BY <1>4, <1>6, <2>1
<1>12. /\ es \in Seq(Seq(Inst)) /\ Len(es) = n
  BY <1>1, EmittedFacts DEF es, n
<1>13. \A b \in 1 .. n : Sound(b, 0, es[b], n + 3, l + 1)
  <2>1. /\ Sound(cur, Len(blocks[cur]), code, n + 3, l + 1)
        /\ \A b \in 1 .. Len(blocks) : Sound(b, 0, blocks[b], n, l)
    BY <1>2 DEF Formed, Reach, Line, Size, Statement, n, l
  <2>2. n <= n + 3 /\ n + 3 \in Nat /\ l <= l + 1 /\ l + 1 \in Nat
    BY <1>4
  <2>3. cur \in 1 .. Len(blocks)
    BY <1>1 DEF n
  <2>4. \A b \in 1 .. Len(blocks) : Sound(b, 0, Emitted(blocks, cur, code)[b], n + 3, l + 1)
    <3>1. blocks \in Seq(Seq(Inst)) /\ code \in Seq(Inst) /\ n \in Nat /\ l \in Nat
      BY <1>1, <1>4
    <3>2. /\ \A b \in 1 .. Len(blocks) : Sound(b, 0, blocks[b], n, l)
          /\ Sound(cur, Len(blocks[cur]), code, n + 3, l + 1)
      BY <2>1
    <3>. DEFINE o == n + 3
                p == l + 1
    <3>3. /\ o \in Nat /\ n <= o /\ p \in Nat /\ l <= p
          /\ Sound(cur, Len(blocks[cur]), code, o, p)
      BY <2>2, <3>2
    <3>. HIDE DEF o, p
    <3>4. \A b \in 1 .. Len(blocks) : Sound(b, 0, Emitted(blocks, cur, code)[b], o, p)
      BY <2>3, <3>1, <3>2, <3>3, SoundGrows
    <3>. QED
      BY <3>4 DEF o, p
  <2>. QED
    BY <2>4 DEF n, es
<1>15. /\ blocks' \in Seq(Seq(Inst)) /\ Len(blocks') = n + 3
       /\ \A b \in 1 .. n : blocks'[b] = es[b]
       /\ blocks'[n + 1] = c /\ blocks'[n + 2] = <<>> /\ blocks'[n + 3] = <<>>
       /\ \A b \in 1 .. n + 3 : b \in 1 .. n \/ b = n + 1 \/ b = n + 2 \/ b = n + 3
  <2>. DEFINE new == es \o <<c, <<>>, <<>>>>
              m == Len(es)
  <2>1. /\ new \in Seq(Seq(Inst)) /\ Len(new) = m + 3
        /\ \A b \in 1 .. m : b \in 1 .. m + 3 /\ new[b] = es[b]
        /\ new[m + 1] = c /\ new[m + 2] = <<>> /\ new[m + 3] = <<>>
        /\ \A b \in 1 .. m + 3 : b \in 1 .. m \/ b = m + 1 \/ b = m + 2 \/ b = m + 3
    BY <1>12, ThreeMore
  <2>2. blocks' = new /\ m = n
    BY <1>2, <1>12
  <2>. HIDE DEF new, m
  <2>. QED
    BY <2>1, <2>2
<1>16. \A b \in 1 .. Len(blocks') : Sound(b, 0, blocks'[b], Len(blocks'), l + 1)
  <2>1. Sound(n + 1, 0, c, n + 3, l + 1)
    BY DEF n, l
  <2>2. \A b : Sound(b, 0, <<>>, n + 3, l + 1)
    BY EmptySound
  <2>. QED
    BY <1>13, <1>15, <2>1, <2>2
<1>17. /\ stmts' \in 0 .. MaxStmts /\ supported' \in BOOLEAN
       /\ phase = "write" /\ phase' = "write" /\ UNCHANGED run
  BY <1>2, LowerAssumption DEF Statement, Formed, Typed
<1>18. /\ Len(frames') <= MaxNest
       /\ cur' \in 1 .. Len(blocks') /\ n <= Len(blocks')
  <2>1. MaxNest \in Nat /\ Len(frames) < MaxNest
    BY <1>2, LowerAssumption
  <2>2. Len(frames) + 1 <= MaxNest /\ n <= n + 3
    BY <1>4, <1>5, <2>1
  <2>. QED
    BY <1>4, <1>5, <1>15, <2>2
<1>. QED
  <2>1. Len(src') = Len(src) + 1 /\ Len(blocks) <= Len(blocks')
        /\ FramesNest(frames', src', Len(blocks'))
        /\ \A b \in 1 .. Len(blocks') : Sound(b, 0, blocks'[b], Len(blocks'), Len(src) + 1)
    BY <1>0, <1>10, <1>15, <1>16, <1>18 DEF n, l
  <2>. QED
    BY <1>0, <1>5, <1>7, <1>11, <1>15, <1>17, <1>18, <2>1, GrowFormed

\* The innermost if or while, and the others.
LEMMA TopFacts ==
    ASSUME Formed, frames # <<>>, NEW n, n = Len(blocks), NEW l, l = Len(src)
    PROVE  /\ n \in Nat /\ l \in Nat
           /\ Top \in Frame /\ Popped \in Seq(Frame)
           /\ Len(frames) \in Nat /\ Len(Popped) \in Nat /\ Len(Popped) + 1 = Len(frames)
           /\ Len(frames) <= MaxNest
           /\ FramesNest(Popped, src, n)
           /\ Top.at \in 1 .. l /\ src[Top.at].to = 0
           /\ src[Top.at].t = IF Top.kind = "then" THEN "if" ELSE Top.kind
           /\ Top.next \in 1 .. n /\ Top.end \in 1 .. n /\ 1 < Top.next /\ Top.next < Top.end
           /\ \A f \in 1 .. Len(Popped) :
                 /\ Popped[f].at < Top.at /\ Popped[f].at # Top.at
                 /\ Popped[f].end < Top.next
           /\ \A b : Ahead(frames, b) <=> \/ Ahead(Popped, b)
                                          \/ b = Top.end
                                          \/ Top.kind = "then" /\ b = Top.next
           /\ \A p : Open(frames, p) <=> Open(Popped, p) \/ p = Top.at
           /\ ~ Ahead(Popped, Top.next) /\ ~ Ahead(Popped, Top.end)
<1>1. /\ frames \in Seq(Frame) /\ FramesNest(frames, src, n) /\ Len(frames) <= MaxNest
      /\ l \in Nat /\ n \in Nat
  BY TypedFacts DEF Formed, Typed
<1>2. /\ FramesNest(Popped, src, n)
      /\ Top \in Frame
      /\ 1 < Top.next /\ Top.next < Top.end /\ Top.end <= n
      /\ Top.at \in 1 .. l /\ src[Top.at].to = 0
      /\ src[Top.at].t = IF Top.kind = "then" THEN "if" ELSE Top.kind
      /\ \A f \in 1 .. Len(Popped) : Popped[f].at < Top.at /\ Popped[f].end < Top.next
  BY <1>1, NestPop DEF Top, Popped
<1>3. /\ Popped \in Seq(Frame) /\ Len(Popped) = Len(frames) - 1 /\ Len(frames) \in Nat
      /\ Len(frames) - 1 \in Nat
  BY <1>1, PopFacts DEF Popped
<1>4. /\ \A b : Ahead(frames, b) <=> \/ Ahead(Popped, b)
                                     \/ b = Top.end
                                     \/ Top.kind = "then" /\ b = Top.next
      /\ \A p : Open(frames, p) <=> Open(Popped, p) \/ p = Top.at
  BY <1>1, AheadPop DEF Top, Popped
<1>5. Top.next \in Nat /\ Top.end \in Nat /\ Top.at \in Nat
  BY <1>2 DEF Frame
<1>6. \A f \in 1 .. Len(Popped) :
         /\ Popped[f].at # Top.at
         /\ Popped[f].next # Top.next /\ Popped[f].next # Top.end
         /\ Popped[f].end # Top.next /\ Popped[f].end # Top.end
  <2>1. ASSUME NEW f \in 1 .. Len(Popped)
        PROVE  /\ Popped[f].at # Top.at
               /\ Popped[f].next # Top.next /\ Popped[f].next # Top.end
               /\ Popped[f].end # Top.next /\ Popped[f].end # Top.end
    <3>1. /\ Popped[f].at \in 1 .. l /\ Popped[f].next \in Nat /\ Popped[f].end \in Nat
          /\ Popped[f].next < Popped[f].end
      <4>1. Len(src) = l
        OBVIOUS
      <4>. QED
        BY <1>1, <1>2, <1>3, <4>1, FramesBelow
    <3>2. Popped[f].at < Top.at /\ Popped[f].end < Top.next
      BY <1>2
    <3>3. Top.next < Top.end
      BY <1>2
    <3>. QED
      BY <1>1, <1>5, <3>1, <3>2, <3>3
  <2>. QED
    BY <2>1
<1>7. ~ Ahead(Popped, Top.next) /\ ~ Ahead(Popped, Top.end)
  BY <1>6 DEF Ahead
<1>8. Top.next \in 1 .. n /\ Top.end \in 1 .. n
  BY <1>1, <1>2, <1>5
<1>9. Len(Popped) \in Nat /\ Len(Popped) + 1 = Len(frames)
  BY <1>3
<1>. QED
  BY <1>1, <1>2, <1>3, <1>4, <1>6, <1>7, <1>8, <1>9

\* What is written in place of the innermost one's end.
LEMMA PatchFacts ==
    ASSUME Formed, frames # <<>>, NEW to \in Nat, NEW token \in Token,
           src' = Patched(src, Top.at, to, token), NEW l, l = Len(src)
    PROVE  /\ src' \in Seq(Token) /\ Len(src') = l + 1 /\ src'[l + 1] = token /\ l \in Nat
           /\ src'[Top.at].to = to /\ src'[Top.at].t = src[Top.at].t
           /\ Grows(src, src', Top.at)
           /\ FramesNest(Popped, src', Len(blocks))
<1>1. src \in Seq(Token)
  BY DEF Formed, Typed
<1>2. /\ Top.at \in 1 .. Len(src) /\ Len(blocks) \in Nat /\ Popped \in Seq(Frame)
      /\ FramesNest(Popped, src, Len(blocks))
      /\ \A f \in 1 .. Len(Popped) : Popped[f].at # Top.at
  BY TopFacts
<1>3. /\ src' \in Seq(Token) /\ Len(src') = Len(src) + 1 /\ src'[Len(src) + 1] = token
      /\ Len(src) \in Nat
      /\ src'[Top.at].to = to /\ src'[Top.at].t = src[Top.at].t
      /\ Grows(src, src', Top.at)
  <2>1. /\ src' \in Seq(Token) /\ Len(src') = Len(src) + 1 /\ src'[Len(src) + 1] = token
        /\ src'[Top.at].to = to /\ src'[Top.at].t = src[Top.at].t
        /\ Grows(src, src', Top.at)
    <3>1. \A q \in 1 .. Len(src) : LET s2 == Patched(src, q, to, token)
                                   IN  /\ s2 \in Seq(Token) /\ Len(s2) = Len(src) + 1
                                       /\ s2[Len(src) + 1] = token
                                       /\ s2[q].to = to /\ s2[q].t = src[q].t
                                       /\ Grows(src, s2, q)
      BY <1>1, PatchGrows
    <3>. QED
      BY <1>2, <3>1
  <2>2. Len(src) \in Nat
    BY <1>1
  <2>. QED
    BY <2>1, <2>2
<1>4. FramesNest(Popped, src', Len(blocks))
  <2>1. Len(blocks) <= Len(blocks)
    BY <1>2
  <2>. QED
    BY <1>1, <1>2, <1>3, <2>1, NestStays
<1>. QED
  BY <1>3, <1>4

\* A branch at the end of a block.
LEMMA AfterJump ==
    ASSUME Typed, NEW b \in 1 .. Len(blocks), NEW t
    PROVE  After("br", b, <<>>, Jump(t)) = New("br", Id(b, Size(b)), Jump(t))
<1>1. Size(b) \in Nat
  BY TypedFacts
<1>2. Len(<<>>) = 0 /\ Size(b) + 0 = Size(b)
  BY <1>1
<1>. QED
  BY <1>2 DEF After

\* A block ends with a branch.
LEMMA JumpSound ==
    ASSUME Formed, phase = "write", NEW b \in 1 .. Len(blocks), NEW t \in 1 .. Len(blocks),
           NEW bs \in Seq(Seq(Inst)), Len(bs) = Len(blocks), bs[b] = blocks[b],
           NEW m \in {Len(src), Len(src) + 1},
           \A c \in 1 .. Len(bs) : Sound(c, 0, bs[c], Len(blocks), m)
    PROVE  LET new == Emitted(bs, b, <<After("br", b, <<>>, Jump(t))>>)
           IN  /\ new \in Seq(Seq(Inst)) /\ Len(new) = Len(blocks)
               /\ \A c \in 1 .. Len(blocks) : c # b => new[c] = bs[c]
               /\ \A c \in 1 .. Len(blocks) : Sound(c, 0, new[c], Len(blocks), Len(src) + 1)
<1>. DEFINE code == <<New("br", Id(b, Size(b)), Jump(t))>>
            new == Emitted(bs, b, code)
            n == Len(blocks)
            p == Len(src) + 1
<1>1. /\ Len(src) \in Nat /\ n \in Nat /\ b \in Nat \ {0} /\ Size(b) \in Nat
  BY TypedFacts DEF Formed
<1>2. After("br", b, <<>>, Jump(t)) = New("br", Id(b, Size(b)), Jump(t))
  BY AfterJump DEF Formed
<1>3. Line(code, b, Size(b), n)
  BY <1>1, JumpCode
<1>4. n <= n /\ m \in Nat /\ m <= p /\ p \in Nat /\ n \in Nat
  BY <1>1
<1>. HIDE DEF code, n
<1>5. code \in Seq(Inst) /\ Sound(b, Len(bs[b]), code, n, p)
  BY <1>3 DEF Line, Size
<1>. HIDE DEF p
<1>6. b \in 1 .. Len(bs) /\ \A c \in 1 .. Len(bs) : Sound(c, 0, bs[c], n, m)
  BY DEF n
<1>7. \A c \in 1 .. Len(bs) : Sound(c, 0, Emitted(bs, b, code)[c], n, p)
  BY <1>4, <1>5, <1>6, SoundGrows
<1>8. new \in Seq(Seq(Inst)) /\ Len(new) = Len(bs) /\ \A c \in 1 .. Len(bs) : c # b => new[c] = bs[c]
  BY <1>5, <1>6, EmittedFacts
<1>. QED
  BY <1>2, <1>7, <1>8 DEF code, n, p

\* What the end of an if or while, or of its first branch, has to show.
LEMMA CloseFormed ==
    ASSUME Formed, phase = "write", phase' = "write", frames # <<>>,
           UNCHANGED <<stmts, supported, run>>,
           NEW to \in 1 .. Len(src) + 2, NEW token \in Token,
           src' = Patched(src, Top.at, to, token),
           token.t \notin {"if", "while"}, token.t = "else" => Open(frames', Len(src) + 1),
           token.t = "again" => token.to \in 1 .. Len(src) /\ src[token.to].t = "while",
           Top.kind = "else" => to = Len(src) + 1 /\ token.t = "end",
           \A p : Open(Popped, p) => Open(frames', p),
           frames' \in Seq(Frame), Len(frames') <= MaxNest,
           FramesNest(frames', src', Len(blocks)),
           blocks' \in Seq(Seq(Inst)), Len(blocks') = Len(blocks),
           cur' \in 1 .. Len(blocks), ~ Ahead(frames', cur'),
           \A b \in 1 .. Len(blocks) : Sound(b, 0, blocks'[b], Len(blocks), Len(src) + 1)
    PROVE  Formed'
<1>. DEFINE l == Len(src)
<1>1. /\ Len(blocks) \in Nat /\ l \in Nat /\ src \in Seq(Token) /\ TokensOK(src, frames)
      /\ stmts' \in 0 .. MaxStmts /\ supported' \in BOOLEAN /\ UNCHANGED run
  BY TypedFacts DEF Formed, Typed
<1>2. /\ Top.at \in 1 .. l /\ Top.at \in Nat /\ Top \in Frame
      /\ src[Top.at].t = IF Top.kind = "then" THEN "if" ELSE Top.kind
      /\ \A p : Open(frames, p) <=> Open(Popped, p) \/ p = Top.at
  <2>1. /\ Top.at \in 1 .. Len(src) /\ Top \in Frame
        /\ src[Top.at].t = IF Top.kind = "then" THEN "if" ELSE Top.kind
        /\ \A p : Open(frames, p) <=> Open(Popped, p) \/ p = Top.at
    BY TopFacts
  <2>. QED
    BY <1>1, <2>1
<1>3. to \in Nat
  BY <1>1
<1>4. /\ src' \in Seq(Token) /\ Len(src') = l + 1 /\ src'[l + 1] = token
      /\ src'[Top.at].to = to
      /\ Grows(src, src', Top.at)
  BY <1>3, PatchFacts
<1>5. TokensOK(src', frames')
  <2>1. \A p \in 1 .. Len(src) : Open(frames, p) => p = Top.at \/ Open(frames', p)
    BY <1>2
  <2>2. /\ src[Top.at].t # "again"
        /\ src[Top.at].t \in {"if", "while"} => src'[Top.at].to \in 1 .. Len(src') + 1
        /\ src[Top.at].t = "else" => src'[Top.at].to = Len(src') /\ src'[Len(src')].t = "end"
    <3>1. Top.kind \in {"then", "else", "while"}
      BY <1>2 DEF Frame
    <3>2. to \in 1 .. (l + 1) + 1
      BY <1>1
    <3>. QED
      BY <1>2, <1>4, <3>1, <3>2
  <2>3. /\ src'[Len(src')].t = "again" =>
             src'[Len(src')].to \in 1 .. Len(src) /\ src[src'[Len(src')].to].t = "while"
        /\ src'[Len(src')].t \in {"if", "while", "else"} => Open(frames', Len(src'))
    BY <1>4
  <2>4. /\ src \in Seq(Token) /\ src' \in Seq(Token) /\ Top.at \in Nat
        /\ Grows(src, src', Top.at) /\ TokensOK(src, frames)
    BY <1>1, <1>2, <1>4
  <2>. QED
    BY <2>1, <2>2, <2>3, <2>4, TokensGrow
<1>6. Len(blocks) <= Len(blocks')
  BY <1>1
<1>. QED
  BY <1>1, <1>4, <1>5, <1>6, GrowFormed

\* An else: the branch to the merge block, and on in the block of the else.
LEMMA ElseIfFormed ==
    ASSUME Formed, ElseIf
    PROVE  Formed'
<1>. DEFINE n == Len(blocks)
            l == Len(src)
            fr == [Top EXCEPT !.kind = "else", !.at = l + 1]
            token == Plain("else")
<1>1. /\ phase = "write" /\ phase' = "write" /\ frames # <<>> /\ Top.kind = "then"
      /\ UNCHANGED <<stmts, supported, run>>
      /\ blocks' = Emitted(blocks, cur, <<After("br", cur, <<>>, Jump(Top.end))>>)
      /\ cur' = Top.next
      /\ frames' = Append(Popped, fr)
      /\ src' = Patched(src, Top.at, l + 2, token)
  BY DEF ElseIf, Patched
<1>2. /\ n \in Nat /\ l \in Nat /\ Len(Popped) \in Nat /\ Len(Popped) + 1 = Len(frames)
      /\ Top \in Frame /\ Popped \in Seq(Frame)
      /\ Len(frames) <= MaxNest
      /\ Top.next \in 1 .. n /\ Top.end \in 1 .. n /\ 1 < Top.next /\ Top.next < Top.end
      /\ \A f \in 1 .. Len(Popped) : Popped[f].end < Top.next
      /\ ~ Ahead(Popped, Top.next)
  <2>1. n = Len(blocks) /\ l = Len(src)
    OBVIOUS
  <2>. HIDE DEF n, l
  <2>. QED
    BY <1>1, <2>1, TopFacts
<1>3. token \in Token /\ token.t = "else" /\ token.to = 0
  BY PlainTyped DEF Tokens
<1>. HIDE DEF token
<1>4. /\ fr \in Frame /\ fr.kind = "else" /\ fr.at = l + 1 /\ fr.next = Top.next /\ fr.end = Top.end
  <2>1. l + 1 \in Nat /\ Top \in Frame
    BY <1>2
  <2>. HIDE DEF l
  <2>. QED
    BY <2>1 DEF Frame
<1>. HIDE DEF fr
<1>5. /\ src' \in Seq(Token) /\ Len(src') = l + 1 /\ src'[l + 1] = token
      /\ FramesNest(Popped, src', n)
  <2>1. l + 2 \in Nat
    BY <1>2
  <2>. QED
    BY <1>1, <1>3, <2>1, PatchFacts
<1>6. /\ frames' \in Seq(Frame) /\ Len(frames') = Len(Popped) + 1
  BY <1>1, <1>2, <1>4, PushFacts
<1>7. /\ \A b : Ahead(frames', b) <=> Ahead(Popped, b) \/ b = Top.end
      /\ \A p : Open(frames', p) <=> Open(Popped, p) \/ p = l + 1
  <2>1. /\ \A b : Ahead(Append(Popped, fr), b) <=> \/ Ahead(Popped, b)
                                                   \/ b = fr.end
                                                   \/ fr.kind = "then" /\ b = fr.next
        /\ \A p : Open(Append(Popped, fr), p) <=> Open(Popped, p) \/ p = fr.at
    BY <1>2, <1>4, AheadPush
  <2>. QED
    BY <1>1, <1>4, <2>1
<1>8. FramesNest(frames', src', n)
  <2>1. fr.at \in 1 .. Len(src') /\ src'[fr.at].to = 0
        /\ src'[fr.at].t = IF fr.kind = "then" THEN "if" ELSE fr.kind
    BY <1>2, <1>3, <1>4, <1>5
  <2>2. 1 < fr.next /\ fr.next < fr.end /\ fr.end <= n
    BY <1>2, <1>4
  <2>3. \A f \in 1 .. Len(Popped) : Popped[f].at < fr.at /\ Popped[f].end < fr.next
    <3>1. \A f \in 1 .. Len(Popped) : Popped[f].at < l + 1
      <4>1. FramesNest(Popped, src, n) /\ Len(src) = l
        BY <1>1, TopFacts
      <4>. QED
        BY <1>2, <4>1, FramesBelow
    <3>. QED
      BY <1>2, <1>4, <3>1
  <2>4. FramesNest(Append(Popped, fr), src', n)
    BY <1>2, <1>4, <1>5, <2>1, <2>2, <2>3, NestPush
  <2>. QED
    BY <1>1, <2>4
<1>9. /\ blocks' \in Seq(Seq(Inst)) /\ Len(blocks') = n
      /\ \A b \in 1 .. n : Sound(b, 0, blocks'[b], n, l + 1)
  <2>1. /\ blocks \in Seq(Seq(Inst)) /\ cur \in 1 .. n
        /\ \A b \in 1 .. n : Sound(b, 0, blocks[b], n, l)
    BY <1>1 DEF Formed, Typed, Reach
  <2>. QED
    BY <1>1, <1>2, <2>1, JumpSound
<1>. QED
  <2>1. /\ l + 2 \in 1 .. Len(src) + 2 /\ Open(frames', Len(src) + 1)
        /\ Len(frames') <= MaxNest /\ cur' \in 1 .. Len(blocks) /\ ~ Ahead(frames', cur')
    <3>1. l + 2 \in 1 .. l + 2
      BY <1>2
    <3>2. Top.next # Top.end
      BY <1>2
    <3>. QED
      BY <1>1, <1>2, <1>6, <1>7, <3>1, <3>2
  <2>2. token.t \notin {"if", "while", "again"} /\ Top.kind # "else"
    BY <1>1, <1>3
  <2>3. \A p : Open(Popped, p) => Open(frames', p)
    BY <1>7
  <2>. QED
    BY <1>1, <1>3, <1>5, <1>6, <1>8, <1>9, <2>1, <2>2, <2>3, CloseFormed

\* The end of an if, with or without an else.
LEMMA CloseIfFormed ==
    ASSUME Formed, CloseIf
    PROVE  Formed'
<1>. DEFINE n == Len(blocks)
            l == Len(src)
            token == Plain("end")
            joined == Emitted(blocks, cur, <<After("br", cur, <<>>, Jump(Top.end))>>)
            both == Emitted(joined, Top.next, <<After("br", Top.next, <<>>, Jump(Top.end))>>)
<1>1. /\ phase = "write" /\ phase' = "write" /\ frames # <<>> /\ Top.kind \in {"then", "else"}
      /\ UNCHANGED <<stmts, supported, run>>
      /\ blocks' = IF Top.kind = "else" THEN joined ELSE both
      /\ cur' = Top.end
      /\ frames' = Popped
      /\ src' = Patched(src, Top.at, l + 1, token)
  BY DEF CloseIf, Patched
<1>2. /\ n \in Nat /\ l \in Nat /\ Len(Popped) \in Nat /\ Len(Popped) + 1 = Len(frames)
      /\ Popped \in Seq(Frame)
      /\ Len(frames) <= MaxNest
      /\ Top.next \in 1 .. n /\ Top.end \in 1 .. n
      /\ ~ Ahead(Popped, Top.end)
      /\ Top.kind = "then" => Ahead(frames, Top.next)
  <2>1. n = Len(blocks) /\ l = Len(src)
    OBVIOUS
  <2>. HIDE DEF n, l
  <2>. QED
    BY <1>1, <2>1, TopFacts
<1>3. token \in Token /\ token.t = "end"
  BY PlainTyped DEF Tokens
<1>. HIDE DEF token
<1>5. /\ src' \in Seq(Token) /\ Len(src') = l + 1 /\ FramesNest(Popped, src', n)
  <2>1. l + 1 \in Nat
    BY <1>2
  <2>. QED
    BY <1>1, <1>3, <2>1, PatchFacts
<1>6. /\ blocks \in Seq(Seq(Inst)) /\ cur \in 1 .. n /\ ~ Ahead(frames, cur)
      /\ \A b \in 1 .. n : Sound(b, 0, blocks[b], n, l)
  BY <1>1 DEF Formed, Typed, Reach
<1>7. /\ joined \in Seq(Seq(Inst)) /\ Len(joined) = n
      /\ \A c \in 1 .. n : c # cur => joined[c] = blocks[c]
      /\ \A b \in 1 .. n : Sound(b, 0, joined[b], n, l + 1)
  BY <1>1, <1>2, <1>6, JumpSound
<1>. HIDE DEF joined
<1>8. ASSUME Top.kind = "then"
      PROVE  /\ both \in Seq(Seq(Inst)) /\ Len(both) = n
             /\ \A b \in 1 .. n : Sound(b, 0, both[b], n, l + 1)
  <2>1. joined[Top.next] = blocks[Top.next]
    BY <1>2, <1>6, <1>7, <1>8
  <2>. QED
    BY <1>1, <1>2, <1>7, <2>1, JumpSound
<1>. HIDE DEF both
<1>9. /\ blocks' \in Seq(Seq(Inst)) /\ Len(blocks') = n
      /\ \A b \in 1 .. n : Sound(b, 0, blocks'[b], n, l + 1)
  BY <1>1, <1>7, <1>8
<1>. QED
  <2>1. /\ l + 1 \in 1 .. Len(src) + 2 /\ Len(frames') <= MaxNest
    <3>1. l + 1 \in 1 .. l + 2
      BY <1>2
    <3>2. MaxNest \in Nat
      BY LowerAssumption
    <3>3. Len(Popped) <= MaxNest
      BY <1>2, <3>2
    <3>. QED
      BY <1>1, <3>1, <3>3
  <2>2. /\ token.t \notin {"if", "while", "else", "again"}
        /\ \A p : Open(Popped, p) => Open(frames', p)
        /\ frames' \in Seq(Frame) /\ FramesNest(frames', src', n)
        /\ cur' \in 1 .. n /\ ~ Ahead(frames', cur')
    BY <1>1, <1>2, <1>3, <1>5
  <2>. QED
    BY <1>1, <1>3, <1>5, <1>9, <2>1, <2>2, CloseFormed

\* The end of a while: the branch back to its condition.
LEMMA CloseWhileFormed ==
    ASSUME Formed, CloseWhile
    PROVE  Formed'
<1>. DEFINE n == Len(blocks)
            l == Len(src)
            token == [t |-> "again", to |-> Top.at]
<1>1. /\ phase = "write" /\ phase' = "write" /\ frames # <<>> /\ Top.kind = "while"
      /\ UNCHANGED <<stmts, supported, run>>
      /\ blocks' = Emitted(blocks, cur, <<After("br", cur, <<>>, Jump(Top.next))>>)
      /\ cur' = Top.end
      /\ frames' = Popped
      /\ src' = Patched(src, Top.at, l + 2, token)
  BY DEF CloseWhile, Patched
<1>2. /\ n \in Nat /\ l \in Nat /\ Len(Popped) \in Nat /\ Len(Popped) + 1 = Len(frames)
      /\ Popped \in Seq(Frame)
      /\ Len(frames) <= MaxNest
      /\ Top.next \in 1 .. n /\ Top.end \in 1 .. n
      /\ ~ Ahead(Popped, Top.end)
      /\ Top.at \in 1 .. l
      /\ src[Top.at].t = IF Top.kind = "then" THEN "if" ELSE Top.kind
  <2>1. n = Len(blocks) /\ l = Len(src)
    OBVIOUS
  <2>. HIDE DEF n, l
  <2>. QED
    BY <1>1, <2>1, TopFacts
<1>3. token \in Token /\ token.t = "again" /\ token.to = Top.at
  <2>1. Top.at \in Nat
    BY <1>2
  <2>. QED
    BY <2>1 DEF Token, Tokens
<1>. HIDE DEF token
<1>4. src[Top.at].t = "while"
  BY <1>1, <1>2
<1>5. /\ src' \in Seq(Token) /\ Len(src') = l + 1 /\ FramesNest(Popped, src', n)
  <2>1. l + 2 \in Nat
    BY <1>2
  <2>. QED
    BY <1>1, <1>3, <2>1, PatchFacts
<1>6. /\ blocks \in Seq(Seq(Inst)) /\ cur \in 1 .. n
      /\ \A b \in 1 .. n : Sound(b, 0, blocks[b], n, l)
  BY <1>1 DEF Formed, Typed, Reach
<1>7. /\ blocks' \in Seq(Seq(Inst)) /\ Len(blocks') = n
      /\ \A b \in 1 .. n : Sound(b, 0, blocks'[b], n, l + 1)
  BY <1>1, <1>2, <1>6, JumpSound
<1>. QED
  <2>1. /\ l + 2 \in 1 .. Len(src) + 2 /\ Len(frames') <= MaxNest
    <3>1. l + 2 \in 1 .. l + 2
      BY <1>2
    <3>2. MaxNest \in Nat
      BY LowerAssumption
    <3>3. Len(Popped) <= MaxNest
      BY <1>2, <3>2
    <3>. QED
      BY <1>1, <3>1, <3>3
  <2>2. /\ token.t \notin {"if", "while", "else"} /\ Top.kind # "else"
        /\ token.to \in 1 .. Len(src) /\ src[token.to].t = "while"
        /\ \A p : Open(Popped, p) => Open(frames', p)
        /\ frames' \in Seq(Frame) /\ FramesNest(frames', src', n)
        /\ cur' \in 1 .. n /\ ~ Ahead(frames', cur')
    BY <1>1, <1>2, <1>3, <1>4, <1>5
  <2>. QED
    BY <1>1, <1>3, <1>5, <1>7, <2>1, <2>2, CloseFormed

\* The end of the function, with a return for an empty last block.
LEMMA EndFormed ==
    ASSUME Formed, EndFunction
    PROVE  Formed'
<1>. DEFINE inst == New("ret", Id(cur, 0), <<>>)
            code == <<inst>>
            n == Len(blocks)
            l == Len(src)
<1>1. /\ l \in Nat /\ n \in Nat /\ cur \in Nat \ {0} /\ cur \in 1 .. n
      /\ blocks \in Seq(Seq(Inst)) /\ Size(cur) \in Nat
  BY TypedFacts DEF Formed, Typed
<1>2. /\ phase = "write" /\ frames = <<>>
      /\ blocks' = IF Size(cur) > 0 THEN blocks ELSE Emitted(blocks, cur, code)
      /\ phase' \in {"run", "done"}
      /\ UNCHANGED <<cur, frames, src, stmts, supported, run>>
  BY DEF EndFunction
<1>3. inst \in Inst /\ Sound(cur, 0, code, n, l + 1)
  <2>1. <<>> \in Seq(Value) /\ Len(<<>>) = 0 /\ 0 \in Nat
    OBVIOUS
  <2>2. \A a \in 1 .. Len(<<>>) : Readable(cur, 0, n, <<>>[a]) /\ <<>>[a].kind # "block"
    BY <2>1
  <2>3. inst \in Inst
    BY <1>1, <2>1, LastTyped
  <2>. DEFINE none == <<>>
  <2>4. none \in Seq(Value) /\ \A a \in 1 .. Len(none) : Readable(cur, 0, n, none[a]) /\ none[a].kind # "block"
    BY <2>1, <2>2
  <2>. HIDE DEF none
  <2>5. Sound(cur, 0, <<New("ret", Id(cur, 0), none)>>, n, Len(src) + 1)
    BY <1>1, <2>1, <2>4, LastSound
  <2>. QED
    BY <2>3, <2>5 DEF none
<1>. HIDE DEF inst
<1>4. code \in Seq(Inst)
  BY <1>3
<1>. HIDE DEF code
<1>5. \A b \in 1 .. n : Sound(b, 0, blocks[b], n, l)
  BY <1>2 DEF Formed, Reach
<1>6. /\ blocks' \in Seq(Seq(Inst)) /\ Len(blocks') = n
      /\ \A b \in 1 .. n : Sound(b, 0, blocks'[b], n, l + 1)
  <2>. DEFINE p == l + 1
  <2>1. n <= n /\ l <= p /\ p \in Nat
    BY <1>1
  <2>2. Sound(cur, 0, code, n, p)
    BY <1>3 DEF code
  <2>. HIDE DEF p, n, l
  <2>3. CASE Size(cur) > 0
    <3>1. \A b \in 1 .. n : Sound(b, 0, blocks[b], n, p)
      <4>1. 0 \in Nat
        OBVIOUS
      <4>. QED
        BY <1>1, <1>5, <2>1, <4>1, SoundLater
    <3>. QED
      BY <1>1, <1>2, <2>3, <3>1 DEF p, n
  <2>4. CASE ~ (Size(cur) > 0)
    <3>1. Len(blocks[cur]) = 0
      BY <1>1, <2>4 DEF Size
    <3>2. Sound(cur, Len(blocks[cur]), code, n, p)
      BY <2>2, <3>1
    <3>3. cur \in 1 .. Len(blocks) /\ \A b \in 1 .. Len(blocks) : Sound(b, 0, blocks[b], n, l)
      BY <1>1, <1>5 DEF n
    <3>4. \A b \in 1 .. Len(blocks) : Sound(b, 0, Emitted(blocks, cur, code)[b], n, p)
      BY <1>1, <1>4, <2>1, <3>2, <3>3, SoundGrows
    <3>5. Emitted(blocks, cur, code) \in Seq(Seq(Inst)) /\ Len(Emitted(blocks, cur, code)) = Len(blocks)
      BY <1>1, <1>4, <3>3, EmittedFacts
    <3>. QED
      BY <1>2, <2>4, <3>4, <3>5 DEF p, n
  <2>. QED
    BY <2>3, <2>4
<1>7. Typed'
  BY <1>2, <1>6 DEF Formed, Typed, run
<1>8. Reach' = Len(src) + 1
  BY <1>2 DEF Reach
<1>. QED
  BY <1>2, <1>6, <1>7, <1>8 DEF Formed
-----------------------------------------------------------------------------
(* Where the source goes on *)

\* f does what Settled's definition says on S.
Settles(f, S) == f = [p \in S |-> SettledOf(f, p)]

\* From a token on, Settled looks further on.
LEMMA SettlesLocal ==
    ASSUME Len(src) \in Nat, src \in Seq(Token), TokensOK(src, <<>>), NEW p \in 1 .. Len(src) + 1, NEW f, NEW g,
           \A q \in p + 1 .. Len(src) + 1 : f[q] = g[q]
    PROVE  SettledOf(f, p) = SettledOf(g, p)
<1>1. CASE p > Len(src)
  BY <1>1 DEF SettledOf
<1>2. CASE ~ (p > Len(src))
  <2>1. p \in 1 .. Len(src) /\ p + 1 \in p + 1 .. Len(src) + 1
    BY <1>2
  <2>2. src[p].t = "else" => src[p].to \in p + 1 .. Len(src)
    BY <2>1 DEF TokensOK, Open
  <2>3. src[p].t = "else" => src[p].to \in p + 1 .. Len(src) + 1
    BY <2>2
  <2>4. f[p + 1] = g[p + 1]
    BY <2>1
  <2>5. src[p].t = "else" => f[src[p].to] = g[src[p].to]
    BY <2>3
  <2>6. CASE src[p].t = "else"
    BY <2>5, <2>6, <1>2 DEF SettledOf
  <2>7. CASE src[p].t = "end"
    BY <2>4, <2>7, <1>2 DEF SettledOf
  <2>8. CASE src[p].t = "again"
    BY <2>8, <1>2 DEF SettledOf
  <2>9. CASE src[p].t \notin {"else", "end", "again"}
    BY <2>9, <1>2 DEF SettledOf
  <2>. QED
    BY <2>6, <2>7, <2>8, <2>9
<1>. QED
  BY <1>1, <1>2

\* Settled satisfies the equation it is defined by, by induction from the end of the source.
LEMMA SettledUnfolds ==
    ASSUME src \in Seq(Token), TokensOK(src, <<>>)
    PROVE  Settles(Settled, 1 .. Len(src) + 1)
<1>. DEFINE l == Len(src)
            D(m) == l + 1 - m .. l + 1
            P == {m \in Nat : m <= l => \E f : Settles(f, D(m))}
            settled == CHOOSE f : f = [p \in 1 .. l + 1 |-> SettledOf(f, p)]
<1>0. l \in Nat
  OBVIOUS
<1>1. 0 \in P
  <2>. DEFINE f == [p \in D(0) |-> p]
  <2>1. \A p \in D(0) : p = l + 1 /\ p > Len(src)
    BY <1>0
  <2>2. \A p \in D(0) : SettledOf(f, p) = p
    BY <2>1 DEF SettledOf
  <2>3. f = [p \in D(0) |-> SettledOf(f, p)]
    BY <2>2
  <2>. HIDE DEF f
  <2>4. Settles(f, D(0))
    BY <2>3 DEF Settles
  <2>. QED
    BY <2>4
<1>2. ASSUME NEW m \in Nat, m \in P PROVE m + 1 \in P
  <2>1. SUFFICES ASSUME m + 1 <= l PROVE \E f : Settles(f, D(m + 1))
    OBVIOUS
  <2>2. PICK f : Settles(f, D(m))
    BY <1>0, <1>2, <2>1
  <2>. DEFINE g == [p \in D(m + 1) |-> IF p \in D(m) THEN f[p] ELSE SettledOf(f, p)]
              a == l + 1 - (m + 1)
  <2>3. /\ \A p \in D(m) : p \in D(m + 1)
        /\ \A p \in D(m + 1) : /\ p \in 1 .. Len(src) + 1
                               /\ \A q \in p + 1 .. Len(src) + 1 : q \in D(m) /\ q \in D(m + 1)
    BY <1>0, <2>1
  <2>. HIDE DEF D
  <2>4. \A p \in D(m) : f[p] = SettledOf(f, p)
    BY <2>2 DEF Settles
  <2>5. \A p \in D(m + 1) : g[p] = SettledOf(f, p)
    BY <2>4
  <2>6. \A p \in D(m) : f[p] = g[p]
    BY <2>3, <2>4, <2>5
  <2>. HIDE DEF g
  <2>7. ASSUME NEW p \in D(m + 1) PROVE SettledOf(f, p) = SettledOf(g, p)
    <3>1. p \in 1 .. Len(src) + 1 /\ \A q \in p + 1 .. Len(src) + 1 : f[q] = g[q]
      BY <2>3, <2>6
    <3>2. Len(src) \in Nat
      BY <1>0
    <3>. QED
      BY <3>1, <3>2, SettlesLocal
  <2>8. g = [p \in D(m + 1) |-> SettledOf(g, p)]
    <3>1. \A p \in D(m + 1) : g[p] = SettledOf(g, p)
      BY <2>5, <2>7
    <3>. QED
      BY <3>1, Zenon DEF g
  <2>. QED
    BY <2>8 DEF Settles
<1>3. Nat \subseteq P
  <2>. HIDE DEF P
  <2>. QED
    BY <1>1, <1>2, NumberInduction
<1>4. PICK f : Settles(f, D(l))
  BY <1>0, <1>3
<1>5. D(l) = 1 .. l + 1
  <2>1. l + 1 - l = 1
    BY <1>0
  <2>. QED
    BY <2>1
<1>6. f = [p \in 1 .. l + 1 |-> SettledOf(f, p)]
  BY <1>4, <1>5 DEF Settles
<1>7. settled = [p \in 1 .. l + 1 |-> SettledOf(settled, p)]
  BY <1>6, Zenon
<1>8. Settled = settled
  BY Zenon DEF Settled
<1>. HIDE DEF settled
<1>. QED
  BY <1>7, <1>8, Zenon DEF Settles

\* Where the source settles, from the token p on.
SettledAt(p) ==
    /\ Settled[p] \in 1 .. Len(src) + 1
    /\ p = Len(src) + 1 => Settled[p] = p
    /\ p <= Len(src) =>
          /\ src[p].t = "else" => Settled[p] = Settled[src[p].to] /\ src[p].to \in p + 1 .. Len(src)
                                  /\ src[src[p].to].t = "end"
          /\ src[p].t = "end" => Settled[p] = Settled[p + 1]
          /\ src[p].t = "again" => Settled[p] = src[p].to /\ src[p].to \in 1 .. Len(src)
                                   /\ src[src[p].to].t = "while"
          /\ src[p].t \notin {"else", "end", "again"} => Settled[p] = p
    /\ Settled[p] <= Len(src) => src[Settled[p]].t \notin {"else", "end", "again"}

\* Where each token leads, and that it is a place of the source.
LEMMA SettledFacts ==
    ASSUME src \in Seq(Token), TokensOK(src, <<>>)
    PROVE  \A p \in 1 .. Len(src) + 1 : SettledAt(p)
<1>. DEFINE l == Len(src)
            P == {m \in Nat : m <= l => \A p \in l + 1 - m .. l + 1 : SettledAt(p)}
<1>0. l \in Nat /\ ~ (l + 1 <= l) /\ l + 1 > l
  OBVIOUS
<1>1. \A p \in 1 .. l + 1 : Settled[p] = SettledOf(Settled, p)
  BY SettledUnfolds DEF Settles
<1>2. ASSUME NEW p \in 1 .. l + 1, \A q \in p + 1 .. l + 1 : SettledAt(q)
      PROVE  SettledAt(p)
  <2>1. CASE p = l + 1
    <3>1. Settled[p] = p
      BY <1>0, <1>1, <2>1 DEF SettledOf
    <3>. QED
      BY <1>0, <2>1, <3>1 DEF SettledAt
  <2>2. CASE p # l + 1
    <3>1. p \in 1 .. l /\ ~ (p > l) /\ p + 1 \in p + 1 .. l + 1
      BY <1>0, <2>2
    <3>2. /\ src[p].t = "else" => src[p].to \in p + 1 .. l /\ src[src[p].to].t = "end"
          /\ src[p].t = "again" => src[p].to \in 1 .. p - 1 /\ src[src[p].to].t = "while"
      BY <3>1 DEF TokensOK, Open
    <3>3. Settled[p] = SettledOf(Settled, p)
      BY <1>1
    <3>4. CASE src[p].t = "else"
      <4>1. Settled[p] = Settled[src[p].to]
        BY <3>1, <3>3, <3>4 DEF SettledOf
      <4>2. src[p].to \in p + 1 .. l + 1
        BY <3>1, <3>2, <3>4
      <4>3. SettledAt(src[p].to)
        BY <1>2, <4>2
      <4>. QED
        BY <2>2, <3>2, <3>4, <4>1, <4>3 DEF SettledAt
    <3>5. CASE src[p].t = "end"
      <4>1. Settled[p] = Settled[p + 1]
        BY <3>1, <3>3, <3>5 DEF SettledOf
      <4>2. SettledAt(p + 1)
        BY <1>2, <3>1
      <4>. QED
        BY <2>2, <3>5, <4>1, <4>2 DEF SettledAt
    <3>6. CASE src[p].t = "again"
      <4>1. Settled[p] = src[p].to
        BY <3>1, <3>3, <3>6 DEF SettledOf
      <4>2. src[p].to \in 1 .. l /\ src[p].to \in 1 .. l + 1 /\ src[src[p].to].t = "while"
        BY <3>1, <3>2, <3>6
      <4>. QED
        BY <2>2, <3>6, <4>1, <4>2 DEF SettledAt
    <3>7. CASE src[p].t \notin {"else", "end", "again"}
      <4>1. Settled[p] = p
        BY <3>1, <3>3, <3>7 DEF SettledOf
      <4>. QED
        BY <2>2, <3>7, <4>1 DEF SettledAt
    <3>. QED
      BY <3>4, <3>5, <3>6, <3>7
  <2>. QED
    BY <2>1, <2>2
<1>3. 0 \in P
  <2>1. \A p \in l + 1 - 0 .. l + 1 : p \in 1 .. l + 1 /\ p + 1 .. l + 1 = {}
    BY <1>0
  <2>. HIDE DEF l
  <2>. QED
    BY <1>2, <2>1
<1>4. ASSUME NEW m \in Nat, m \in P PROVE m + 1 \in P
  <2>1. SUFFICES ASSUME m + 1 <= l, NEW p \in l + 1 - (m + 1) .. l + 1 PROVE SettledAt(p)
    OBVIOUS
  <2>2. p \in 1 .. l + 1 /\ \A q \in p + 1 .. l + 1 : q \in l + 1 - m .. l + 1
    BY <1>0, <2>1
  <2>3. m <= l
    BY <1>0, <2>1
  <2>4. \A q \in l + 1 - m .. l + 1 : SettledAt(q)
    BY <1>4, <2>3
  <2>. HIDE DEF l
  <2>. QED
    BY <1>2, <2>2, <2>4
<1>5. l \in P
  <2>. HIDE DEF P
  <2>1. Nat \subseteq P
    BY <1>3, <1>4, NumberInduction
  <2>. QED
    BY <1>0, <2>1
<1>6. \A p \in 1 .. l + 1 : p \in l + 1 - l .. l + 1
  BY <1>0
<1>. QED
  BY <1>0, <1>5, <1>6

\* A step of the source stays in it.
LEMMA SourceFacts ==
    ASSUME src \in Seq(Token), TokensOK(src, <<>>), NEW p \in 1 .. Len(src), NEW taken
    PROVE  SourceNext(p, taken) \in 1 .. Len(src) + 1
<1>1. src[p].t \in {"if", "while"} => src[p].to \in 1 .. Len(src) + 1
  BY DEF TokensOK, Open
<1>2. p + 1 \in 1 .. Len(src) + 1 /\ Len(src) + 1 \in 1 .. Len(src) + 1
  OBVIOUS
<1>. QED
  BY <1>1, <1>2 DEF SourceNext

\* The instruction that runs.
LEMMA RunFacts ==
    ASSUME Formed, phase = "run", AtInst
    PROVE  /\ Current \in Inst
           /\ Current.op = "br" => Current.args[1].n \in 1 .. Len(blocks)
           /\ Current.op = "br_cond" => /\ Current.args[2].n \in 1 .. Len(blocks)
                                        /\ Current.args[3].n \in 1 .. Len(blocks)
           /\ frames = <<>> /\ src \in Seq(Token) /\ TokensOK(src, <<>>)
           /\ pos.block \in 1 .. Len(blocks) /\ pos.i \in 1 .. Len(blocks[pos.block])
           /\ blocks[pos.block] \in Seq(Inst) /\ Current.at \in 1 .. Len(src) + 1
<1>. DEFINE b == pos.block
            i == pos.i
            n == Len(blocks)
            code == blocks[b]
<1>1. /\ blocks \in Seq(Seq(Inst)) /\ b \in 1 .. n /\ i \in Nat \ {0}
      /\ src \in Seq(Token) /\ frames = <<>>
  BY DEF Formed, Typed
<1>2. code \in Seq(Inst) /\ Len(code) \in Nat
  BY <1>1
<1>3. i \in 1 .. Len(code)
  BY <1>1, <1>2 DEF AtInst, Size
<1>4. Current = code[i] /\ Current \in Inst
  BY <1>2, <1>3 DEF Current
<1>5. Sound(b, 0, code, n, Len(src) + 1)
  BY <1>1 DEF Formed, Reach
<1>. HIDE DEF code, b, i
<1>6. SoundInst(b, 0 + i - 1, code[i], n, Len(src) + 1)
  <2>1. 0 \in Nat
    OBVIOUS
  <2>. QED
    BY <1>3, <1>5, <2>1, SoundInsts
<1>. DEFINE inst == code[i]
<1>7. inst.op = "br" => inst.args[1].n \in 1 .. n
  <2>1. SUFFICES ASSUME inst.op = "br" PROVE inst.args[1].n \in 1 .. n
    OBVIOUS
  <2>2. 1 \in 1 .. Len(inst.args) /\ inst.args[1].kind = "block"
    BY <1>6, <2>1 DEF SoundInst
  <2>3. Readable(b, 0 + i - 1, n, inst.args[1])
    BY <1>6, <2>1, <2>2 DEF SoundInst
  <2>. QED
    BY <2>2, <2>3 DEF Readable
<1>8. inst.op = "br_cond" => inst.args[2].n \in 1 .. n /\ inst.args[3].n \in 1 .. n
  <2>1. SUFFICES ASSUME inst.op = "br_cond" PROVE inst.args[2].n \in 1 .. n /\ inst.args[3].n \in 1 .. n
    OBVIOUS
  <2>2. 2 \in 1 .. Len(inst.args) /\ inst.args[2].kind = "block"
        /\ 3 \in 1 .. Len(inst.args) /\ inst.args[3].kind = "block"
    BY <1>6, <2>1 DEF SoundInst
  <2>3. Readable(b, 0 + i - 1, n, inst.args[2]) /\ Readable(b, 0 + i - 1, n, inst.args[3])
    BY <1>6, <2>1, <2>2 DEF SoundInst
  <2>. QED
    BY <2>2, <2>3 DEF Readable
<1>9. inst.at \in 1 .. Len(src) + 1
  BY <1>6 DEF SoundInst
<1>10. TokensOK(src, <<>>)
  BY <1>1 DEF Formed
<1>. QED
  BY <1>1, <1>2, <1>3, <1>4, <1>7, <1>8, <1>9, <1>10 DEF b, i, code

\* One instruction run leaves the function as it is and goes to a block there is.
LEMMA RunFormed ==
    ASSUME Formed, NEW taken \in BOOLEAN, RunInst(taken)
    PROVE  Formed'
<1>1. /\ phase = "run" /\ AtInst /\ phase' \in {"run", "done"}
      /\ UNCHANGED <<blocks, cur, frames, src, stmts, supported>>
      /\ \/ pos' = pos
         \/ Current.op = "br" /\ pos' = [block |-> Current.args[1].n, i |-> 1]
         \/ Current.op = "br_cond" /\ pos' = [block |-> Current.args[2].n, i |-> 1]
         \/ Current.op = "br_cond" /\ pos' = [block |-> Current.args[3].n, i |-> 1]
         \/ pos' = [pos EXCEPT !.i = @ + 1]
  BY DEF RunInst, ir, Enter
<1>2. /\ Current.op = "br" => Current.args[1].n \in 1 .. Len(blocks)
      /\ Current.op = "br_cond" => /\ Current.args[2].n \in 1 .. Len(blocks)
                                   /\ Current.args[3].n \in 1 .. Len(blocks)
      /\ frames = <<>> /\ src \in Seq(Token) /\ TokensOK(src, <<>>)
  BY <1>1, RunFacts
<1>3. pos' \in [block : 1 .. Len(blocks), i : Nat \ {0}]
  <2>1. pos \in [block : 1 .. Len(blocks), i : Nat \ {0}]
    BY DEF Formed, Typed
  <2>. QED
    BY <1>1, <1>2, <2>1
<1>4. pc' \in 1 .. Len(src) + 1
  <2>1. pc \in 1 .. Len(src) + 1
    BY DEF Formed, Typed
  <2>2. Settled[pc] \in 1 .. Len(src) + 1
    BY <1>2, <2>1, SettledFacts DEF SettledAt
  <2>3. Settled[pc] <= Len(src) => SourceNext(Settled[pc], taken) \in 1 .. Len(src) + 1
    <3>1. ASSUME Settled[pc] <= Len(src) PROVE Settled[pc] \in 1 .. Len(src)
      BY <1>2, <2>2, <3>1
    <3>. QED
      BY <1>2, <3>1, SourceFacts
  <2>4. pc' = IF Effect /\ Settled[pc] <= Len(src) THEN SourceNext(Settled[pc], taken) ELSE pc
    BY DEF RunInst
  <2>. QED
    BY <2>1, <2>3, <2>4
<1>5. Typed'
  BY <1>1, <1>3, <1>4 DEF Formed, Typed
<1>6. Reach' = Reach
  BY <1>1 DEF Reach
<1>. QED
  BY <1>1, <1>2, <1>5, <1>6 DEF Formed

\* The end of the last block, and steps that change nothing.
LEMMA StopFormed ==
    ASSUME Formed, RunEnd \/ UNCHANGED vars
    PROVE  Formed'
<1>1. /\ UNCHANGED <<blocks, cur, frames, src, stmts, supported, pos, pc>>
      /\ phase' = phase \/ (phase = "run" /\ phase' = "done")
  BY DEF RunEnd, ir, run, vars
<1>2. Typed'
  BY <1>1 DEF Formed, Typed
<1>3. Reach' = Reach
  BY <1>1 DEF Reach
<1>. QED
  BY <1>1, <1>2, <1>3 DEF Formed
-----------------------------------------------------------------------------
(* What each action emits *)

\* The step that writes a statement without a body, and code for it.
Emits(t, code, lowered) ==
    /\ Statement(Plain(t), lowered)
    /\ lowered.whole \in BOOLEAN
    /\ blocks' = Emitted(blocks, cur, code)
    /\ UNCHANGED <<cur, frames>>
    /\ Line(code, cur, Size(cur), Len(blocks))

\* The code ends with the effect of a statement, or the whole of it prints.
Ends(t, code) ==
    /\ code # <<>>
    /\ t \in {"let", "assign"} => code[Len(code)].op = "store"
    /\ t = "return" => code[Len(code)].op = "ret"
    /\ t = "print" => code[1].op = "call" /\ \A i \in 1 .. Len(code) : code[i].op \in Computing

\* Some statement is written.
Stated == \E t, code, lowered :
              /\ t \in {"print", "let", "assign", "return"}
              /\ Emits(t, code, lowered) /\ (lowered.whole => Ends(t, code))

\* A let is a statement of straight code.
LEMMA LetStated ==
    ASSUME Typed, NEW e \in Values, LetStmt(e)
    PROVE  Stated
<1>. DEFINE lowered == Lowered(e, cur)
            slot == After("alloca", cur, lowered.code, <<Global>>)
            store == After("store", cur, Append(lowered.code, slot), <<Reg(slot.id), lowered.val>>)
            code == lowered.code \o <<slot, store>>
<1>1. /\ lowered.whole \in BOOLEAN
      /\ Line(code, cur, Size(cur), Len(blocks))
      /\ code # <<>> /\ code[Len(code)].op = "store"
  BY LetCode, TypedFacts
<1>2. /\ Statement(Plain("let"), lowered) /\ blocks' = Emitted(blocks, cur, code)
      /\ UNCHANGED <<cur, frames>>
  BY DEF LetStmt
<1>. HIDE DEF code, lowered
<1>3. Emits("let", code, lowered) /\ Ends("let", code)
  BY <1>1, <1>2 DEF Emits, Ends
<1>. QED
  BY <1>3 DEF Stated

\* An assignment is a statement of straight code.
LEMMA AssignStated ==
    ASSUME Typed, NEW e \in Values, AssignStmt(e)
    PROVE  Stated
<1>. DEFINE lowered == Lowered(e, cur)
            store == After("store", cur, lowered.code, <<Global, lowered.val>>)
            code == IF lowered.val = None THEN lowered.code ELSE Append(lowered.code, store)
<1>1. /\ lowered.whole \in BOOLEAN
      /\ Line(code, cur, Size(cur), Len(blocks))
      /\ lowered.whole => code # <<>> /\ code[Len(code)].op = "store"
  BY AssignCode, TypedFacts
<1>2. /\ Statement(Plain("assign"), lowered) /\ blocks' = Emitted(blocks, cur, code)
      /\ UNCHANGED <<cur, frames>>
  BY DEF AssignStmt
<1>. HIDE DEF code, lowered
<1>3. Emits("assign", code, lowered) /\ (lowered.whole => Ends("assign", code))
  BY <1>1, <1>2 DEF Emits, Ends
<1>. QED
  BY <1>3 DEF Stated

\* A return is a statement of straight code.
LEMMA ReturnStated ==
    ASSUME Typed, NEW e \in Values, ReturnStmt(e)
    PROVE  Stated
<1>. DEFINE lowered == Lowered(e, cur)
            args == IF lowered.val = None THEN <<>> ELSE <<lowered.val>>
            ret == After("ret", cur, lowered.code, args)
            code == Append(lowered.code, ret)
<1>1. /\ lowered.whole \in BOOLEAN
      /\ Line(code, cur, Size(cur), Len(blocks))
      /\ code # <<>> /\ code[Len(code)].op = "ret"
  BY ReturnCode, TypedFacts
<1>2. /\ Statement(Plain("return"), lowered) /\ blocks' = Emitted(blocks, cur, code)
      /\ UNCHANGED <<cur, frames>>
  BY DEF ReturnStmt
<1>. HIDE DEF code, lowered
<1>3. Emits("return", code, lowered) /\ Ends("return", code)
  BY <1>1, <1>2 DEF Emits, Ends
<1>. QED
  BY <1>3 DEF Stated

\* A print is a statement of straight code.
LEMMA PrintStated ==
    ASSUME Typed, NEW e \in Arguments, PrintStmt(e)
    PROVE  Stated
<1>. DEFINE lowered == Lower[<<e, cur, Size(cur) + 1>>]
            code == <<New("call", Id(cur, Size(cur)), <<lowered.val>>)>> \o lowered.code
<1>1. /\ lowered.whole \in BOOLEAN
      /\ Straight(code, cur, Size(cur), Len(blocks))
      /\ \A i \in 1 .. Len(code) : code[i].op \in Computing
      /\ code # <<>> /\ code[1].op = "call"
  BY PrintCode, TypedFacts
<1>2. /\ Statement(Plain("print"), lowered) /\ blocks' = Emitted(blocks, cur, code)
      /\ UNCHANGED <<cur, frames>>
  BY DEF PrintStmt
<1>. HIDE DEF code, lowered
<1>3. Line(code, cur, Size(cur), Len(blocks))
  BY <1>1, StraightLine
<1>4. Emits("print", code, lowered) /\ Ends("print", code)
  BY <1>1, <1>2, <1>3 DEF Emits, Ends
<1>. QED
  BY <1>4 DEF Stated

\* The step of an if, and of a while, with the two codes it emits.
IfOpens(code, lowered, n) ==
    /\ Opens(code, <<>>, "then", n + 2, n + 3, lowered)
    /\ Line(code, cur, Size(cur), n + 3)
    /\ Tests(code, n + 1, n + 2)

WhileOpens(code, test, lowered, n) ==
    /\ Opens(code, test, "while", n + 1, n + 3, lowered)
    /\ Line(code, cur, Size(cur), n + 3)
    /\ code # <<>> /\ Len(code) = 1 /\ code[Len(code)].op = "br" /\ code[Len(code)].args[1].n = n + 1
    /\ Line(test, n + 1, 0, n + 3)
    /\ Tests(test, n + 2, n + 3)

\* An if appends its condition and opens three blocks.
LEMMA IfStated ==
    ASSUME Typed, NEW e \in Conds, OpenIf(e)
    PROVE  \E code, lowered : IfOpens(code, lowered, Len(blocks))
<1>. DEFINE n == Len(blocks)
            k == Size(cur)
            lowered == Lower[<<e, cur, k>>]
            br == New("br_cond", Id(cur, k + Len(lowered.code)),
                      <<lowered.val, ToBlock(n + 1), ToBlock(n + 2)>>)
            code == Append(lowered.code, br)
<1>1. /\ Len(src) \in Nat /\ n \in Nat /\ k \in Nat /\ cur \in Nat \ {0} /\ e \in Exprs
  BY TypedFacts DEF Typed
<1>2. n + 3 \in Nat /\ n + 1 \in 1 .. n + 3 /\ n + 2 \in 1 .. n + 3 /\ n + 1 + 1 = n + 2 /\ n + 1 + 2 = n + 3
  BY <1>1
<1>3. /\ lowered.whole \in BOOLEAN
      /\ Line(code, cur, k, n + 3)
      /\ Tests(code, n + 1, n + 2)
  <2>. DEFINE o == n + 3
              t == n + 1
              u == n + 2
  <2>1. o \in Nat /\ t \in 1 .. o /\ u \in 1 .. o
    BY <1>2
  <2>. HIDE DEF o, t, u, k
  <2>2. LET inst == New("br_cond", Id(cur, k + Len(lowered.code)), <<lowered.val, ToBlock(t), ToBlock(u)>>)
            all == Append(lowered.code, inst)
        IN  /\ lowered.whole \in BOOLEAN
            /\ Line(all, cur, k, o)
            /\ Tests(all, t, u)
    <3>. DEFINE inst == New("br_cond", Id(cur, k + Len(lowered.code)), <<lowered.val, ToBlock(t), ToBlock(u)>>)
                all == Append(lowered.code, inst)
    <3>1. Line(all, cur, k, o)
      BY <1>1, <2>1, CondCode
    <3>2. Tests(all, t, u)
      BY <1>1, <2>1, <3>1, CondCode
    <3>3. lowered.whole \in BOOLEAN
      BY <1>1, LowerFacts DEF Good
    <3>. QED
      BY <3>1, <3>2, <3>3
  <2>. QED
    BY <2>2 DEF o, t, u
<1>4. Opens(code, <<>>, "then", n + 2, n + 3, lowered)
  <2>1. After("br_cond", cur, lowered.code, <<lowered.val, ToBlock(n + 1), ToBlock(n + 1 + 1)>>) = br
    BY <1>2 DEF After
  <2>2. /\ Len(frames) < MaxNest /\ Statement(Plain("if"), lowered)
        /\ blocks' = Emitted(blocks, cur, code) \o <<<<>>, <<>>, <<>>>>
        /\ cur' = n + 1
        /\ frames' = Append(frames, [kind |-> "then", at |-> Len(src) + 1,
                                     next |-> n + 2, end |-> n + 3])
    BY <1>2, <2>1 DEF OpenIf, Lowered
  <2>. HIDE DEF code, lowered
  <2>. QED
    BY <1>3, <2>2 DEF Opens
<1>. HIDE DEF code, lowered
<1>5. IfOpens(code, lowered, n)
  BY <1>3, <1>4 DEF IfOpens
<1>. QED
  BY <1>5

\* A while appends a branch and opens the block of its condition, and two more.
LEMMA WhileStated ==
    ASSUME Typed, NEW e \in Conds, OpenWhile(e)
    PROVE  \E code, test, lowered : WhileOpens(code, test, lowered, Len(blocks))
<1>. DEFINE n == Len(blocks)
            k == Size(cur)
            b == n + 1
            lowered == Lower[<<e, b, 0>>]
            br == New("br_cond", Id(b, Len(lowered.code)),
                      <<lowered.val, ToBlock(n + 2), ToBlock(n + 3)>>)
            test == Append(lowered.code, br)
            jump == New("br", Id(cur, k), Jump(b))
            code == <<jump>>
<1>1. /\ Len(src) \in Nat /\ n \in Nat /\ k \in Nat /\ cur \in Nat \ {0} /\ e \in Exprs
      /\ cur \in 1 .. n /\ blocks \in Seq(Seq(Inst))
  BY TypedFacts DEF Typed
<1>2. /\ n + 3 \in Nat /\ n + 1 \in 1 .. n + 3 /\ n + 2 \in 1 .. n + 3 /\ n + 3 \in 1 .. n + 3
      /\ n + 1 + 1 = n + 2 /\ n + 1 + 2 = n + 3 /\ b \in Nat \ {0}
  BY <1>1
<1>3. /\ Line(code, cur, k, n + 3) /\ code # <<>> /\ Len(code) = 1
      /\ code[Len(code)].op = "br" /\ code[Len(code)].args[1].n = n + 1
  <2>. DEFINE o == n + 3
  <2>1. o \in Nat /\ b \in 1 .. o
    BY <1>2
  <2>. HIDE DEF o, b, k
  <2>2. LET all == <<New("br", Id(cur, k), Jump(b))>>
        IN  /\ Line(all, cur, k, o) /\ all # <<>> /\ Len(all) = 1
            /\ all[Len(all)].op = "br" /\ all[Len(all)].args[1].n = b
    BY <1>1, <2>1, JumpCode
  <2>. QED
    BY <2>2 DEF o, b
<1>4. Len(lowered.code) \in Nat
  <2>1. 0 \in Nat
    OBVIOUS
  <2>2. Good(lowered, b, 0)
    <3>. HIDE DEF b
    <3>. QED
      BY <1>1, <1>2, <2>1, LowerFacts
  <2>. HIDE DEF lowered, b
  <2>. QED
    BY <2>2, GoodSeq DEF Good
<1>5. /\ lowered.whole \in BOOLEAN
      /\ Line(test, n + 1, 0, n + 3)
      /\ Tests(test, n + 2, n + 3)
  <2>. DEFINE o == n + 3
              t == n + 2
              u == n + 3
              z == 0
  <2>1. o \in Nat /\ t \in 1 .. o /\ u \in 1 .. o /\ z \in Nat
    BY <1>2
  <2>2. z + Len(lowered.code) = Len(lowered.code)
    BY <1>4
  <2>. HIDE DEF o, t, u, b, z
  <2>3. LET cond == Lower[<<e, b, z>>]
            inst == New("br_cond", Id(b, z + Len(cond.code)), <<cond.val, ToBlock(t), ToBlock(u)>>)
            all == Append(cond.code, inst)
        IN  /\ cond.whole \in BOOLEAN
            /\ Line(all, b, z, o)
            /\ Tests(all, t, u)
    <3>. DEFINE cond == Lower[<<e, b, z>>]
                inst == New("br_cond", Id(b, z + Len(cond.code)), <<cond.val, ToBlock(t), ToBlock(u)>>)
                all == Append(cond.code, inst)
    <3>1. Line(all, b, z, o)
      BY <1>1, <1>2, <2>1, CondCode
    <3>2. Tests(all, t, u)
      BY <1>1, <1>2, <2>1, <3>1, CondCode
    <3>3. cond.whole \in BOOLEAN
      BY <1>1, <1>2, <2>1, LowerFacts DEF Good
    <3>. QED
      BY <3>1, <3>2, <3>3
  <2>. QED
    BY <2>2, <2>3 DEF o, t, u, b, z
<1>6. [blocks EXCEPT ![cur] = Append(blocks[cur], After("br", cur, <<>>, Jump(b)))]
        = Emitted(blocks, cur, code)
  <2>1. After("br", cur, <<>>, Jump(b)) = jump
    BY <1>1, AfterJump
  <2>2. jump \in Inst
    <3>1. code \in Seq(Inst) /\ 1 \in 1 .. Len(code) /\ code[1] = jump
      BY <1>3 DEF Line
    <3>. HIDE DEF code
    <3>. QED
      BY <3>1
  <2>. HIDE DEF jump
  <2>3. blocks[cur] \in Seq(Inst)
    BY <1>1
  <2>4. Append(blocks[cur], jump) = blocks[cur] \o <<jump>>
    BY <2>2, <2>3, Appended
  <2>. QED
    BY <2>1, <2>4 DEF Emitted
<1>7. Opens(code, test, "while", n + 1, n + 3, lowered)
  <2>1. br = New("br_cond", Id(b, Len(lowered.code)),
                 <<lowered.val, ToBlock(n + 1 + 1), ToBlock(n + 1 + 2)>>)
    BY <1>2
  <2>2. /\ Len(frames) < MaxNest /\ Statement(Plain("while"), lowered)
        /\ blocks' = Emitted(blocks, cur, code) \o <<test, <<>>, <<>>>>
        /\ cur' = n + 2
        /\ frames' = Append(frames, [kind |-> "while", at |-> Len(src) + 1,
                                     next |-> n + 1, end |-> n + 3])
    BY <1>2, <1>6, <2>1 DEF OpenWhile
  <2>. HIDE DEF code, lowered, test
  <2>. QED
    BY <1>5, <2>2 DEF Opens
<1>. HIDE DEF code, lowered, test
<1>8. WhileOpens(code, test, lowered, n)
  BY <1>3, <1>5, <1>7 DEF WhileOpens
<1>. QED
  BY <1>8
-----------------------------------------------------------------------------
(* Types *)

\* A statement of straight code keeps the function well formed.
LEMMA StatedFormed ==
    ASSUME Formed, Stated
    PROVE  Formed'
<1>1. PICK t, code, lowered :
         t \in {"print", "let", "assign", "return"} /\ Emits(t, code, lowered)
  BY DEF Stated
<1>. QED
  BY <1>1, StatementFormed DEF Emits

\* Opening an if keeps the function well formed.
LEMMA IfFormed ==
    ASSUME Formed, NEW e \in Conds, OpenIf(e)
    PROVE  Formed'
<1>1. PICK code, lowered : IfOpens(code, lowered, Len(blocks))
  BY IfStated DEF Formed
<1>. DEFINE n == Len(blocks)
            c == <<>>
<1>2. /\ Opens(code, c, "then", n + 2, n + 3, lowered) /\ Line(code, cur, Size(cur), n + 3)
  BY <1>1 DEF IfOpens
<1>3. c \in Seq(Inst) /\ Sound(n + 1, 0, c, n + 3, Len(src) + 1)
  BY EmptySound
<1>. HIDE DEF c
<1>. QED
  BY <1>2, <1>3, OpenFormed

\* Opening a while keeps the function well formed.
LEMMA WhileFormed ==
    ASSUME Formed, NEW e \in Conds, OpenWhile(e)
    PROVE  Formed'
<1>1. PICK code, test, lowered : WhileOpens(code, test, lowered, Len(blocks))
  BY WhileStated DEF Formed
<1>. DEFINE n == Len(blocks)
<1>2. /\ Opens(code, test, "while", n + 1, n + 3, lowered) /\ Line(code, cur, Size(cur), n + 3)
      /\ test \in Seq(Inst) /\ Sound(n + 1, 0, test, n + 3, Len(src) + 1)
  BY <1>1 DEF WhileOpens, Line
<1>. QED
  BY <1>2, OpenFormed

\* The empty function is well formed.
LEMMA InitFormed == Init => Formed
<1>. SUFFICES ASSUME Init PROVE Formed
  OBVIOUS
<1>. DEFINE empty == <<>>
            b == <<empty>>
<1>1. /\ blocks = b /\ cur = 1 /\ frames = <<>> /\ src = <<>> /\ stmts = 0
      /\ supported = TRUE /\ phase = "write" /\ pos = [block |-> 1, i |-> 1] /\ pc = 1
  BY DEF Init
<1>2. empty \in Seq(Inst)
  OBVIOUS
<1>. HIDE DEF empty
<1>3. b \in Seq(Seq(Inst)) /\ Len(b) = 1 /\ b[1] = empty /\ \A c \in 1 .. Len(b) : c = 1
  BY <1>2
<1>. HIDE DEF b
<1>4. Len(frames) = 0 /\ Len(src) = 0 /\ frames \in Seq(Frame) /\ src \in Seq(Token)
  BY <1>1
<1>5. Typed
  <2>1. MaxNest \in Nat /\ MaxStmts \in Nat
    BY LowerAssumption
  <2>2. pos \in [block : 1 .. Len(blocks), i : Nat \ {0}] /\ pc \in 1 .. Len(src) + 1
        /\ cur \in 1 .. Len(blocks) /\ stmts \in 0 .. MaxStmts /\ Len(frames) <= MaxNest
    BY <1>1, <1>3, <1>4, <2>1
  <2>. QED
    BY <1>1, <1>3, <1>4, <2>2 DEF Typed
<1>6. \A c \in 1 .. Len(blocks) : Sound(c, 0, blocks[c], Len(blocks), Reach)
  BY <1>1, <1>3, EmptySound DEF empty
<1>7. FramesNest(frames, src, Len(blocks)) /\ ~ Ahead(frames, cur) /\ TokensOK(src, frames)
  BY <1>4 DEF FramesNest, Ahead, TokensOK
<1>. QED
  BY <1>1, <1>5, <1>6, <1>7 DEF Formed

\* The actions.
LEMMA Steps ==
    ASSUME Formed, [Next]_vars
    PROVE  \/ Stated
           \/ \E e \in Conds : OpenIf(e)
           \/ \E e \in Conds : OpenWhile(e)
           \/ UnloweredStmt \/ ElseIf \/ CloseIf \/ CloseWhile \/ EndFunction
           \/ \E taken \in BOOLEAN : RunInst(taken)
           \/ RunEnd
           \/ UNCHANGED vars
<1>1. Typed
  BY DEF Formed
<1>2. CASE \E e \in Values : LetStmt(e) \/ AssignStmt(e) \/ ReturnStmt(e)
  BY <1>1, <1>2, LetStated, AssignStated, ReturnStated
<1>3. CASE \E a \in Arguments : PrintStmt(a)
  BY <1>1, <1>3, PrintStated
<1>4. CASE ~ (\E e \in Values : LetStmt(e) \/ AssignStmt(e) \/ ReturnStmt(e))
           /\ ~ (\E a \in Arguments : PrintStmt(a))
  BY <1>4 DEF Next
<1>. QED
  BY <1>2, <1>3, <1>4

\* Every step keeps the function well formed.
LEMMA NextFormed ==
    ASSUME Formed, [Next]_vars
    PROVE  Formed'
<1>1. CASE Stated
  BY <1>1, StatedFormed
<1>2. CASE \E e \in Conds : OpenIf(e)
  BY <1>2, IfFormed
<1>3. CASE \E e \in Conds : OpenWhile(e)
  BY <1>3, WhileFormed
<1>4. CASE UnloweredStmt
  BY <1>4, UnloweredFormed
<1>5. CASE ElseIf
  BY <1>5, ElseIfFormed
<1>6. CASE CloseIf
  BY <1>6, CloseIfFormed
<1>7. CASE CloseWhile
  BY <1>7, CloseWhileFormed
<1>8. CASE EndFunction
  BY <1>8, EndFormed
<1>9. CASE \E taken \in BOOLEAN : RunInst(taken)
  BY <1>9, RunFormed
<1>10. CASE RunEnd \/ UNCHANGED vars
  BY <1>10, StopFormed
<1>. QED
  BY <1>1, <1>2, <1>3, <1>4, <1>5, <1>6, <1>7, <1>8, <1>9, <1>10, Steps

\* The function is well formed as long as it is written and run (ket_ir_lower).
THEOREM LowerFormed == Spec => []Formed
<1>1. Init => Formed
  BY InitFormed
<1>2. Formed /\ [Next]_vars => Formed'
  BY NextFormed
<1>. QED
  BY <1>1, <1>2, PTL DEF Spec

\* An instruction of a well formed function.
LEMMA FormedInst ==
    ASSUME Formed, NEW b \in 1 .. Len(blocks), NEW i \in 1 .. Len(blocks[b])
    PROVE  /\ blocks[b][i] \in Inst
           /\ SoundInst(b, i - 1, blocks[b][i], Len(blocks), Reach)
           /\ blocks[b][i].id = Id(b, i - 1) /\ b \in Nat \ {0} /\ i \in Nat \ {0}
<1>1. blocks \in Seq(Seq(Inst)) /\ b \in Nat \ {0}
  BY TypedFacts DEF Formed, Typed
<1>2. blocks[b] \in Seq(Inst)
  BY <1>1
<1>3. blocks[b][i] \in Inst /\ i \in Nat \ {0}
  BY <1>2
<1>4. Sound(b, 0, blocks[b], Len(blocks), Reach) /\ 0 \in Nat /\ 0 + i - 1 = i - 1
  BY <1>3 DEF Formed
<1>5. SoundInst(b, 0 + i - 1, blocks[b][i], Len(blocks), Reach)
  BY <1>4, SoundInsts
<1>6. SoundInst(b, i - 1, blocks[b][i], Len(blocks), Reach)
  BY <1>4, <1>5
<1>. QED
  BY <1>1, <1>3, <1>6 DEF SoundInst

\* Instructions numbered by position have numbers of their own.
LEMMA FormedUnique == Formed => UniqueRegisters
<1>1. SUFFICES ASSUME Formed, \A b \in DOMAIN blocks : Len(blocks[b]) <= Stride,
                      NEW b \in DOMAIN blocks, NEW c \in DOMAIN blocks,
                      NEW i \in DOMAIN blocks[b], NEW j \in DOMAIN blocks[c],
                      blocks[b][i].id = blocks[c][j].id
               PROVE  b = c /\ i = j
  BY DEF UniqueRegisters
<1>2. blocks \in Seq(Seq(Inst))
  BY <1>1 DEF Formed, Typed
<1>3. b \in 1 .. Len(blocks) /\ c \in 1 .. Len(blocks)
  BY <1>1, <1>2
<1>4. blocks[b] \in Seq(Inst) /\ blocks[c] \in Seq(Inst)
  BY <1>2, <1>3
<1>5. i \in 1 .. Len(blocks[b]) /\ j \in 1 .. Len(blocks[c])
      /\ Len(blocks[b]) \in Nat /\ Len(blocks[c]) \in Nat
  BY <1>1, <1>4
<1>6. /\ blocks[b][i].id = Id(b, i - 1) /\ b \in Nat \ {0}
      /\ blocks[c][j].id = Id(c, j - 1) /\ c \in Nat \ {0}
  BY <1>1, <1>3, <1>5, FormedInst
<1>7. Id(b, i - 1) = Id(c, j - 1)
  BY <1>1, <1>6
<1>8. Stride \in Nat /\ Len(blocks[b]) <= Stride /\ Len(blocks[c]) <= Stride
  BY <1>1, LowerAssumption
<1>9. i - 1 \in 0 .. Stride - 1 /\ j - 1 \in 0 .. Stride - 1
  BY <1>5, <1>8
<1>10. b = c /\ i - 1 = j - 1
  BY <1>6, <1>7, <1>9, IdsDiffer
<1>. QED
  BY <1>5, <1>10

\* A well-formed function is well typed.
LEMMA FormedTypeOK == Formed => TypeOK
<1>. SUFFICES ASSUME Formed PROVE TypeOK
  OBVIOUS
<1>1. Typed
  BY DEF Formed
<1>2. blocks \in Seq(Seq(Inst)) /\ DOMAIN blocks = 1 .. Len(blocks)
  BY <1>1 DEF Typed
<1>3. \A b \in DOMAIN blocks : \A i \in DOMAIN blocks[b] : \A a \in DOMAIN blocks[b][i].args :
         LET v == blocks[b][i].args[a]
         IN  v.kind = "block" => v.n \in DOMAIN blocks
  <2>1. SUFFICES ASSUME NEW b \in DOMAIN blocks, NEW i \in DOMAIN blocks[b],
                        NEW a \in DOMAIN blocks[b][i].args, blocks[b][i].args[a].kind = "block"
                 PROVE  blocks[b][i].args[a].n \in DOMAIN blocks
    OBVIOUS
  <2>. DEFINE inst == blocks[b][i]
              v == inst.args[a]
  <2>2. b \in 1 .. Len(blocks) /\ blocks[b] \in Seq(Inst)
    BY <1>2
  <2>3. i \in 1 .. Len(blocks[b])
    BY <2>2
  <2>4. inst \in Inst /\ SoundInst(b, i - 1, inst, Len(blocks), Reach)
    BY <2>2, <2>3, FormedInst
  <2>5. inst.args \in Seq(Value)
    BY <2>4 DEF Inst
  <2>6. a \in 1 .. Len(inst.args)
    BY <2>5
  <2>. HIDE DEF inst
  <2>7. Readable(b, i - 1, Len(blocks), v)
    BY <2>1, <2>4, <2>6 DEF SoundInst, inst
  <2>. QED
    BY <1>2, <2>1, <2>7 DEF Readable, inst
<1>4. pos \in [block : DOMAIN blocks, i : Nat \ {0}] /\ cur \in DOMAIN blocks
  BY <1>1, <1>2 DEF Typed
<1>. QED
  BY <1>1, <1>2, <1>3, <1>4, FormedUnique DEF TypeOK, Typed

\* The types, with the registers of a function each written by one instruction and
\* every branch to a block of it (new_inst, add_block, lower_stmt).
THEOREM LowerTyped == Spec => []TypeOK
<1>1. Formed => TypeOK
  BY FormedTypeOK
<1>. QED
  BY <1>1, LowerFormed, PTL

\* What is readable was written before.
LEMMA FormedDefined == Formed => OperandsDefinedButCalls
<1>1. SUFFICES ASSUME Formed, NEW b \in DOMAIN blocks, NEW i \in DOMAIN blocks[b],
                      blocks[b][i].op # "call",
                      NEW a \in DOMAIN blocks[b][i].args, blocks[b][i].args[a].kind = "reg"
               PROVE  \E j \in 1 .. i - 1 : blocks[b][j].id = blocks[b][i].args[a].n
  BY DEF OperandsDefinedButCalls, Defined
<1>. DEFINE inst == blocks[b][i]
            v == inst.args[a]
<1>2. blocks \in Seq(Seq(Inst))
  BY <1>1 DEF Formed, Typed
<1>3. b \in 1 .. Len(blocks) /\ blocks[b] \in Seq(Inst)
  BY <1>2
<1>4. i \in 1 .. Len(blocks[b]) /\ Len(blocks[b]) \in Nat
  BY <1>3
<1>5. inst \in Inst /\ SoundInst(b, i - 1, inst, Len(blocks), Reach)
  BY <1>1, <1>3, <1>4, FormedInst
<1>6. inst.args \in Seq(Value)
  BY <1>5 DEF Inst
<1>7. a \in 1 .. Len(inst.args)
  BY <1>6
<1>. HIDE DEF inst
<1>8. Readable(b, i - 1, Len(blocks), v)
  BY <1>1, <1>5, <1>7 DEF SoundInst, inst
<1>9. PICK j \in 1 .. i - 1 : v.n = Id(b, j - 1)
  BY <1>1, <1>8 DEF Readable, inst
<1>10. j \in 1 .. Len(blocks[b])
  BY <1>4
<1>11. blocks[b][j].id = Id(b, j - 1)
  BY <1>1, <1>3, <1>10, FormedInst
<1>. QED
  BY <1>9, <1>11 DEF inst

\* A register is written before an instruction reads it, calls aside (lower_expr).
THEOREM LowerOperandsDefined == Spec => []OperandsDefinedButCalls
<1>1. Formed => OperandsDefinedButCalls
  BY FormedDefined
<1>. QED
  BY <1>1, LowerFormed, PTL
-----------------------------------------------------------------------------
(* Where the source is while the code runs *)

\* Code for tokens that were there says the same when there are more.
LEMMA NotesStay ==
    ASSUME NEW s \in Seq(Token), NEW s2, NEW q, Grows(s, s2, q), NEW code,
           \A i \in 1 .. Len(code) : code[i].at \in 1 .. Len(s), NEW i \in 1 .. Len(code)
    PROVE  /\ Shown(s2, code, i) <=> Shown(s, code, i)
           /\ Printed(s2, code, i) <=> Printed(s, code, i)
           /\ Due(s2, code, i) = Due(s, code, i)
           /\ Past(s2, code, i) = Past(s, code, i)
<1>1. /\ code[i].at <= Len(s) /\ code[i].at <= Len(s2)
      /\ s2[code[i].at].t = s[code[i].at].t
  <2>1. Len(s) \in Nat /\ Len(s2) = Len(s) + 1 /\ code[i].at \in 1 .. Len(s)
    BY DEF Grows
  <2>2. s2[code[i].at].t = s[code[i].at].t
    BY <2>1 DEF Grows
  <2>. QED
    BY <2>1, <2>2
<1>2. Shown(s2, code, i) <=> Shown(s, code, i)
  BY <1>1 DEF Shown
<1>3. Printed(s2, code, i) <=> Printed(s, code, i)
  BY <1>1 DEF Printed
<1>. QED
  BY <1>2, <1>3 DEF Due, Past

\* The order of a block's code stays when the source grows.
LEMMA FlowsStay ==
    ASSUME NEW s \in Seq(Token), NEW s2, NEW q, Grows(s, s2, q), NEW code \in Seq(Inst),
           \A i \in 1 .. Len(code) : code[i].at \in 1 .. Len(s)
    PROVE  /\ Flows(s, code) => Flows(s2, code)
           /\ \A n : Leads(s, code, n) => Leads(s2, code, n)
<1>1. Len(code) \in Nat
  OBVIOUS
<1>2. \A i \in 1 .. Len(code) - 1 : i \in 1 .. Len(code) /\ i + 1 \in 1 .. Len(code)
  BY <1>1
<1>3. \A i \in 1 .. Len(code) : Due(s2, code, i) = Due(s, code, i) /\ Past(s2, code, i) = Past(s, code, i)
  BY NotesStay
<1>4. Flows(s, code) => Flows(s2, code)
  BY <1>2, <1>3 DEF Flows
<1>5. code # <<>> => Len(code) \in 1 .. Len(code)
  BY <1>1
<1>6. \A n : Leads(s, code, n) => Leads(s2, code, n)
  BY <1>3, <1>5 DEF Leads
<1>. QED
  BY <1>4, <1>6

\* Two codes, the second for other tokens than the first.
LEMMA NotesJoin ==
    ASSUME NEW s, NEW c \in Seq(Inst), NEW d \in Seq(Inst),
           \A i \in 1 .. Len(c), j \in 1 .. Len(d) : c[i].at # d[j].at
    PROVE  /\ \A i \in 1 .. Len(c) : /\ Due(s, c \o d, i) = Due(s, c, i)
                                     /\ Past(s, c \o d, i) = Past(s, c, i)
           /\ \A j \in 1 .. Len(d) : /\ Due(s, c \o d, Len(c) + j) = Due(s, d, j)
                                     /\ Past(s, c \o d, Len(c) + j) = Past(s, d, j)
<1>. DEFINE e == c \o d
            k == Len(c)
<1>1. /\ k \in Nat /\ Len(d) \in Nat
      /\ \A i \in 1 .. k : e[i] = c[i]
      /\ \A j \in 1 .. Len(d) : e[k + j] = d[j]
  BY Joined
<1>. HIDE DEF e, k
<1>2. ASSUME NEW i \in 1 .. k PROVE Due(s, e, i) = Due(s, c, i) /\ Past(s, e, i) = Past(s, c, i)
  <2>1. e[i] = c[i] /\ (i # 1 => e[i - 1] = c[i - 1])
    <3>1. i # 1 => i - 1 \in 1 .. k
      BY <1>1
    <3>. QED
      BY <1>1, <3>1
  <2>2. Printed(s, e, i) <=> Printed(s, c, i)
    BY <2>1 DEF Printed
  <2>3. Shown(s, e, i) <=> Shown(s, c, i)
    BY <2>1 DEF Shown
  <2>. QED
    BY <2>1, <2>2, <2>3 DEF Due, Past
<1>3. ASSUME NEW j \in 1 .. Len(d)
      PROVE  Due(s, e, k + j) = Due(s, d, j) /\ Past(s, e, k + j) = Past(s, d, j)
  <2>1. e[k + j] = d[j]
    BY <1>1
  <2>2. CASE j = 1 /\ k = 0
    <3>1. k + j = j
      BY <2>2
    <3>2. Printed(s, e, k + j) <=> Printed(s, d, j)
      BY <2>1, <2>2, <3>1 DEF Printed
    <3>3. Shown(s, e, k + j) <=> Shown(s, d, j)
      BY <2>1, <2>2, <3>1 DEF Shown
    <3>. QED
      BY <2>1, <3>2, <3>3 DEF Due, Past
  <2>3. CASE j = 1 /\ k # 0
    <3>1. k \in 1 .. k /\ (k + j) - 1 = k /\ k + j # 1
      BY <1>1, <2>3
    <3>2. e[(k + j) - 1].at # d[j].at
      BY <1>1, <3>1 DEF k
    <3>3. ~ Printed(s, e, k + j) /\ ~ Printed(s, d, j)
      BY <2>1, <2>3, <3>2 DEF Printed
    <3>4. Shown(s, e, k + j) <=> Shown(s, d, j)
      BY <2>1, <2>3, <3>1, <3>2 DEF Shown
    <3>. QED
      BY <2>1, <3>3, <3>4 DEF Due, Past
  <2>4. CASE j # 1
    <3>1. j - 1 \in 1 .. Len(d) /\ (k + j) - 1 = k + (j - 1) /\ k + j # 1
      BY <1>1, <2>4
    <3>2. e[(k + j) - 1] = d[j - 1]
      BY <1>1, <3>1
    <3>3. Printed(s, e, k + j) <=> Printed(s, d, j)
      BY <2>1, <2>4, <3>1, <3>2 DEF Printed
    <3>4. Shown(s, e, k + j) <=> Shown(s, d, j)
      BY <2>1, <2>4, <3>1, <3>2 DEF Shown
    <3>. QED
      BY <2>1, <3>3, <3>4 DEF Due, Past
  <2>. QED
    BY <2>2, <2>3, <2>4
<1>. QED
  BY <1>2, <1>3 DEF e, k

\* Code due where a block ends goes on in its order.
LEMMA FlowsJoin ==
    ASSUME NEW s, NEW c \in Seq(Inst), NEW d \in Seq(Inst), d # <<>>,
           \A i \in 1 .. Len(c), j \in 1 .. Len(d) : c[i].at # d[j].at,
           Flows(s, c), Leads(s, c, d[1].at), Flows(s, d)
    PROVE  /\ Flows(s, c \o d)
           /\ \A n : Leads(s, d, n) => Leads(s, c \o d, n)
<1>. DEFINE e == c \o d
            k == Len(c)
            m == Len(d)
<1>1. /\ k \in Nat /\ m \in Nat /\ m # 0 /\ Len(e) = k + m
      /\ \A i \in 1 .. k : e[i] = c[i]
      /\ \A j \in 1 .. m : e[k + j] = d[j]
  BY Joined
<1>2. /\ \A i \in 1 .. k : Due(s, e, i) = Due(s, c, i) /\ Past(s, e, i) = Past(s, c, i)
      /\ \A j \in 1 .. m : Due(s, e, k + j) = Due(s, d, j) /\ Past(s, e, k + j) = Past(s, d, j)
  BY NotesJoin
<1>3. k # 0 => c # <<>>
  OBVIOUS
<1>4. /\ \A i \in 1 .. k - 1 : c[i].op \notin Leaving => Due(s, c, i + 1) = Past(s, c, i)
      /\ \A j \in 1 .. m - 1 : d[j].op \notin Leaving => Due(s, d, j + 1) = Past(s, d, j)
      /\ k # 0 /\ c[k].op \notin Leaving => Past(s, c, k) = d[1].at
  BY <1>3 DEF Flows, Leads
<1>5. Due(s, d, 1) = d[1].at
  BY DEF Due, Printed
<1>. HIDE DEF e, k, m
<1>6. ASSUME NEW i \in 1 .. Len(e) - 1, e[i].op \notin Leaving
      PROVE  Due(s, e, i + 1) = Past(s, e, i)
  <2>1. CASE i \in 1 .. k - 1
    <3>1. i \in 1 .. k /\ i + 1 \in 1 .. k
      BY <1>1, <2>1
    <3>. QED
      BY <1>1, <1>2, <1>4, <1>6, <2>1, <3>1
  <2>2. CASE i = k
    <3>1. k # 0 /\ k \in 1 .. k /\ 1 \in 1 .. m
      BY <1>1, <1>6, <2>2
    <3>2. Past(s, e, i) = d[1].at
      BY <1>1, <1>2, <1>4, <1>6, <2>2, <3>1
    <3>3. Due(s, e, k + 1) = d[1].at
      BY <1>2, <1>5, <3>1
    <3>. QED
      BY <2>2, <3>2, <3>3
  <2>3. CASE i > k
    <3>. DEFINE j == i - k
    <3>1. j \in 1 .. m - 1 /\ j \in 1 .. m /\ j + 1 \in 1 .. m /\ i = k + j /\ i + 1 = k + (j + 1)
      BY <1>1, <1>6, <2>3
    <3>. HIDE DEF j
    <3>2. d[j].op \notin Leaving
      BY <1>1, <1>6, <3>1
    <3>. QED
      BY <1>2, <1>4, <3>1, <3>2
  <2>. QED
    <3>1. i \in 1 .. k - 1 \/ i = k \/ i > k
      BY <1>1, <1>6
    <3>. QED
      BY <2>1, <2>2, <2>3, <3>1
<1>7. Flows(s, e)
  BY <1>6 DEF Flows
<1>8. ASSUME NEW n, Leads(s, d, n) PROVE Leads(s, e, n)
  <2>1. m \in 1 .. m /\ Len(e) = k + m
    BY <1>1
  <2>2. e[Len(e)] = d[m] /\ Past(s, e, Len(e)) = Past(s, d, m)
    BY <1>1, <1>2, <2>1
  <2>. QED
    BY <1>8, <2>2 DEF Leads, m
<1>. QED
  BY <1>7, <1>8 DEF e

\* Code for the last token, unless that prints, is all before what it does.
LEMMA LineFlows ==
    ASSUME NEW s, NEW code \in Seq(Inst), code # <<>>, s[Len(s)].t # "print", Len(s) \in Nat,
           \A i \in 1 .. Len(code) :
              code[i].at = Len(s) /\ (i # Len(code) => code[i].op \in Going)
    PROVE  /\ Flows(s, code)
           /\ code[Len(code)].op = "store" => Leads(s, code, Len(s) + 1)
<1>1. Len(code) \in Nat /\ Len(code) \in 1 .. Len(code)
  OBVIOUS
<1>2. \A i \in 1 .. Len(code) - 1 : i \in 1 .. Len(code) /\ i # Len(code) /\ i + 1 \in 1 .. Len(code)
  BY <1>1
<1>3. \A i \in 1 .. Len(code) : Due(s, code, i) = Len(s)
  BY DEF Due, Printed
<1>4. \A i \in 1 .. Len(code) : code[i].op \in Going => Past(s, code, i) = Len(s)
  BY <1>3 DEF Past, Shown, Going, Computing
<1>5. Flows(s, code)
  BY <1>2, <1>3, <1>4 DEF Flows
<1>6. code[Len(code)].op = "store" => Past(s, code, Len(code)) = Len(s) + 1
  BY <1>1 DEF Past, Shown
<1>. QED
  BY <1>5, <1>6 DEF Leads

\* Of code that prints, all but the first instruction is after it.
LEMMA PrintFlows ==
    ASSUME NEW s, NEW code \in Seq(Inst), code # <<>>, s[Len(s)].t = "print", Len(s) \in Nat,
           \A i \in 1 .. Len(code) : code[i].at = Len(s) /\ code[i].op \in Computing,
           code[1].op = "call"
    PROVE  Flows(s, code) /\ Leads(s, code, Len(s) + 1)
<1>1. Len(code) \in Nat /\ Len(code) \in 1 .. Len(code) /\ 1 \in 1 .. Len(code)
  OBVIOUS
<1>2. \A i \in 1 .. Len(code) - 1 : i \in 1 .. Len(code) /\ i + 1 \in 1 .. Len(code) /\ i + 1 # 1
  BY <1>1
<1>3. Past(s, code, 1) = Len(s) + 1
  BY <1>1 DEF Past, Shown
<1>4. ASSUME NEW i \in 1 .. Len(code), i # 1
      PROVE  Due(s, code, i) = Len(s) + 1 /\ Past(s, code, i) = Len(s) + 1
  <2>1. i - 1 \in 1 .. Len(code)
    BY <1>1, <1>4
  <2>2. code[i].at = Len(s) /\ code[i - 1].at = Len(s) /\ code[i].op \in Computing
    BY <2>1
  <2>3. Due(s, code, i) = Len(s) + 1
    BY <1>4, <2>2 DEF Due, Printed
  <2>. QED
    BY <1>4, <2>2, <2>3 DEF Past
<1>5. \A i \in 1 .. Len(code) : Past(s, code, i) = Len(s) + 1
  BY <1>3, <1>4
<1>6. Flows(s, code)
  BY <1>2, <1>4, <1>5 DEF Flows
<1>. QED
  BY <1>1, <1>5, <1>6 DEF Leads
-----------------------------------------------------------------------------
(* What a step of the first phase leaves true *)

\* The step adds code for the next token to the current block, and changes no other
\* block that lowering is in or has left.
Adds(code) ==
    /\ code \in Seq(Inst) /\ code # <<>>
    /\ \A i \in 1 .. Len(code) : code[i].at = Len(src) + 1
    /\ blocks'[cur] = blocks[cur] \o code
    /\ Len(blocks) <= Len(blocks')
    /\ \A b \in 1 .. Len(blocks) : ~ Ahead(frames, b) =>
          ~ Ahead(frames', b) /\ (b # cur => blocks'[b] = blocks[b])

\* Control that entered a block where the source was at p still does.
LEMMA KeepsStep ==
    ASSUME Formed, Left(frames, blocks, cur), NEW code, Adds(code),
           NEW b \in 1 .. Len(blocks), NEW p, Enters(src, frames, blocks, b, p)
    PROVE  Enters(src', frames', blocks', b, p)
<1>1. /\ ~ Ahead(frames, b) /\ ~ Ahead(frames', b)
      /\ p = IF blocks[b] = <<>> THEN Len(src) + 1 ELSE blocks[b][1].at
  BY DEF Enters, Adds
<1>2. blocks[b] \in Seq(Inst) /\ code \in Seq(Inst) /\ code # <<>>
  BY TypedFacts DEF Formed, Adds
<1>3. CASE b # cur
  <2>1. blocks[b] # <<>>
    BY <1>1, <1>3 DEF Left
  <2>2. blocks'[b] = blocks[b]
    BY <1>1, <1>3 DEF Adds
  <2>. QED
    BY <1>1, <2>1, <2>2 DEF Enters
<1>4. CASE b = cur /\ blocks[b] = <<>>
  <2>1. blocks'[b] = code
    BY <1>2, <1>4 DEF Adds
  <2>2. 1 \in 1 .. Len(code)
    BY <1>2
  <2>3. blocks'[b] # <<>> /\ blocks'[b][1].at = Len(src) + 1
    BY <1>2, <2>1, <2>2 DEF Adds
  <2>. QED
    BY <1>1, <1>4, <2>3 DEF Enters
<1>5. CASE b = cur /\ blocks[b] # <<>>
  <2>1. blocks'[b] = blocks[b] \o code
    BY <1>5 DEF Adds
  <2>2. blocks'[b] # <<>> /\ blocks'[b][1] = blocks[b][1]
    BY <1>2, <1>5, <2>1
  <2>. QED
    BY <1>1, <1>5, <2>2 DEF Enters
<1>. QED
  BY <1>3, <1>4, <1>5

\* An instruction that goes to blocks there are, for a token there is.
Targeted(inst) ==
    /\ inst \in Inst /\ inst.at \in 1 .. Reach
    /\ inst.op = "br" => inst.args[1].n \in 1 .. Len(blocks)
    /\ inst.op = "br_cond" => inst.args[2].n \in 1 .. Len(blocks) /\ inst.args[3].n \in 1 .. Len(blocks)

\* A sound branch goes to a block there is.
LEMMA SoundTargets ==
    ASSUME NEW b, NEW k, NEW inst \in Inst, SoundInst(b, k, inst, Len(blocks), Reach)
    PROVE  Targeted(inst)
<1>1. inst.op = "br" => inst.args[1].n \in 1 .. Len(blocks)
  <2>1. SUFFICES ASSUME inst.op = "br" PROVE inst.args[1].n \in 1 .. Len(blocks)
    OBVIOUS
  <2>2. 1 \in 1 .. Len(inst.args) /\ inst.args[1].kind = "block"
    BY <2>1 DEF SoundInst
  <2>3. Readable(b, k, Len(blocks), inst.args[1])
    BY <2>1, <2>2 DEF SoundInst
  <2>. QED
    BY <2>2, <2>3 DEF Readable
<1>2. inst.op = "br_cond" => inst.args[2].n \in 1 .. Len(blocks) /\ inst.args[3].n \in 1 .. Len(blocks)
  <2>1. SUFFICES ASSUME inst.op = "br_cond"
                 PROVE  inst.args[2].n \in 1 .. Len(blocks) /\ inst.args[3].n \in 1 .. Len(blocks)
    OBVIOUS
  <2>2. 2 \in 1 .. Len(inst.args) /\ inst.args[2].kind = "block"
        /\ 3 \in 1 .. Len(inst.args) /\ inst.args[3].kind = "block"
    BY <2>1 DEF SoundInst
  <2>3. Readable(b, k, Len(blocks), inst.args[2]) /\ Readable(b, k, Len(blocks), inst.args[3])
    BY <2>1, <2>2 DEF SoundInst
  <2>. QED
    BY <2>2, <2>3 DEF Readable
<1>. QED
  BY <1>1, <1>2 DEF Targeted, SoundInst

\* So does every branch of a well-formed function.
LEMMA Targets ==
    ASSUME Formed, NEW b \in 1 .. Len(blocks), NEW i \in 1 .. Len(blocks[b])
    PROVE  Targeted(blocks[b][i])
<1>1. blocks[b][i] \in Inst /\ SoundInst(b, i - 1, blocks[b][i], Len(blocks), Reach)
  BY FormedInst
<1>. QED
  BY <1>1, SoundTargets

\* Where the source goes on from token q is now known: q is of the innermost statement.
Patch(q) ==
    q # 0 =>
        /\ frames # <<>> /\ q = Top.at
        /\ src'[q].to # 0
        /\ Top.kind = "then" => Enters(src', frames', blocks', Top.next, src'[q].to)
        /\ Top.kind = "while" => Enters(src', frames', blocks', Top.end, src'[q].to)
        /\ Top.kind = "else" => Enters(src', frames', blocks', Top.end, src'[q].to + 1)

KeepsFrames(q) ==
    \A f \in 1 .. Len(frames) : frames[f].at # q => \E g \in 1 .. Len(frames') : frames'[g] = frames[f]

\* The frame of an open statement is there after the step, or it is the innermost.
LEMMA FrameStays ==
    ASSUME Formed, NEW q, KeepsFrames(q), Patch(q), NEW f \in 1 .. Len(frames)
    PROVE  \/ \E g \in 1 .. Len(frames') : frames'[g] = frames[f]
           \/ q # 0 /\ frames[f].at = q /\ frames[f] = Top
<1>1. CASE frames[f].at # q
  BY <1>1 DEF KeepsFrames
<1>2. CASE frames[f].at = q
  <2>1. frames \in Seq(Frame) /\ FramesNest(frames, src, Len(blocks)) /\ Len(src) \in Nat /\ Len(blocks) \in Nat
    BY TypedFacts DEF Formed, Typed
  <2>2. q # 0
    BY <1>2, <2>1, FramesBelow
  <2>3. frames # <<>> /\ frames[f].at = Top.at
    BY <1>2, <2>2 DEF Patch
  <2>4. f = Len(frames)
    <3>1. \A g \in 1 .. Len(frames) : frames[g].at \in 1 .. Len(src)
      BY <2>1 DEF FramesNest
    <3>2. Len(frames) \in 1 .. Len(frames)
      BY <2>1, <2>3
    <3>3. f < Len(frames) => frames[f].at < Top.at
      BY <2>1, <3>2 DEF FramesNest, Top
    <3>4. Top.at \in 1 .. Len(src)
      BY <3>1, <3>2 DEF Top
    <3>. QED
      BY <2>1, <2>3, <3>2, <3>3, <3>4
  <2>. QED
    BY <1>2, <2>2, <2>4 DEF Top
<1>. QED
  BY <1>1, <1>2

\* What a branch that was emitted before tells of the source, and what it tells after the step.
LEMMA BranchTells ==
    ASSUME Formed, phase = "write", Left(frames, blocks, cur), NEW code, Adds(code),
           NEW q, Grows(src, src', q), KeepsFrames(q), Patch(q),
           NEW inst, Targeted(inst), Tells(src, frames, blocks, inst), inst.op = "br",
           NEW p, p = inst.at
    PROVE  \/ src'[p].t = "while" /\ Enters(src', frames', blocks', inst.args[1].n, p)
           \/ src'[p].t = "again" /\ Enters(src', frames', blocks', inst.args[1].n, src'[p].to)
           \/ src'[p].t = "end" /\ Enters(src', frames', blocks', inst.args[1].n, p + 1)
           \/ /\ src'[p].t = "else"
              /\ \/ \E f \in 1 .. Len(frames') : frames'[f].at = p /\ inst.args[1].n = frames'[f].end
                 \/ /\ src'[p].to # 0
                    /\ Enters(src', frames', blocks', inst.args[1].n, src'[p].to + 1)
<1>. DEFINE b == inst.args[1].n
<1>1. p \in 1 .. Len(src) /\ b \in 1 .. Len(blocks)
  BY DEF Targeted, Reach
<1>2. src'[p].t = src[p].t /\ (p # q => src'[p] = src[p])
  BY <1>1 DEF Grows
<1>3. \A x : Enters(src, frames, blocks, b, x) => Enters(src', frames', blocks', b, x)
  BY <1>1, KeepsStep
<1>4. q # 0 => /\ frames # <<>> /\ q = Top.at /\ src[q].to = 0
               /\ Top.kind \in {"then", "else", "while"}
               /\ src[q].t = IF Top.kind = "then" THEN "if" ELSE Top.kind
  <2>1. SUFFICES ASSUME q # 0
                 PROVE  /\ frames # <<>> /\ q = Top.at /\ src[q].to = 0
                        /\ Top.kind \in {"then", "else", "while"}
                        /\ src[q].t = IF Top.kind = "then" THEN "if" ELSE Top.kind
    OBVIOUS
  <2>2. frames # <<>> /\ q = Top.at
    BY <2>1 DEF Patch
  <2>3. Top \in Frame /\ src[Top.at].to = 0 /\ src[Top.at].t = IF Top.kind = "then" THEN "if" ELSE Top.kind
    BY <2>2, TopFacts
  <2>4. Top.kind \in {"then", "else", "while"}
    BY <2>3 DEF Frame
  <2>. QED
    BY <2>2, <2>3, <2>4
<1>5. \/ src[p].t = "while" /\ Enters(src, frames, blocks, b, p)
      \/ src[p].t = "again" /\ Enters(src, frames, blocks, b, src[p].to)
      \/ src[p].t = "end" /\ Enters(src, frames, blocks, b, p + 1)
      \/ /\ src[p].t = "else"
         /\ \/ \E f \in 1 .. Len(frames) : frames[f].at = p /\ b = frames[f].end
            \/ src[p].to # 0 /\ Enters(src, frames, blocks, b, src[p].to + 1)
  BY DEF Tells
<1>6. CASE src[p].t = "while" /\ Enters(src, frames, blocks, b, p)
  BY <1>2, <1>3, <1>6
<1>7. CASE src[p].t = "again" /\ Enters(src, frames, blocks, b, src[p].to)
  <2>1. p # q
    BY <1>1, <1>4, <1>7
  <2>. QED
    BY <1>2, <1>3, <1>7, <2>1
<1>8. CASE src[p].t = "end" /\ Enters(src, frames, blocks, b, p + 1)
  BY <1>2, <1>3, <1>8
<1>9. CASE src[p].t = "else" /\ src[p].to # 0 /\ Enters(src, frames, blocks, b, src[p].to + 1)
  <2>1. p # q
    BY <1>1, <1>4, <1>9
  <2>. QED
    BY <1>2, <1>3, <1>9, <2>1
<1>10. ASSUME src[p].t = "else", NEW f \in 1 .. Len(frames), frames[f].at = p, b = frames[f].end
       PROVE  /\ src'[p].t = "else"
              /\ \/ \E g \in 1 .. Len(frames') : frames'[g].at = p /\ b = frames'[g].end
                 \/ src'[p].to # 0 /\ Enters(src', frames', blocks', b, src'[p].to + 1)
  <2>1. CASE \E g \in 1 .. Len(frames') : frames'[g] = frames[f]
    BY <1>2, <1>10, <2>1
  <2>2. CASE q # 0 /\ frames[f].at = q /\ frames[f] = Top
    <3>1. p = q /\ Top.kind = "else" /\ b = Top.end
      BY <1>4, <1>10, <2>2
    <3>2. src'[q].to # 0 /\ Enters(src', frames', blocks', Top.end, src'[q].to + 1)
      BY <2>2, <3>1 DEF Patch
    <3>. QED
      BY <1>2, <1>10, <3>1, <3>2
  <2>. QED
    BY <2>1, <2>2, FrameStays
<1>. QED
  BY <1>5, <1>6, <1>7, <1>8, <1>9, <1>10

\* The same of a conditional branch.
LEMMA CondTells ==
    ASSUME Formed, phase = "write", Left(frames, blocks, cur), NEW code, Adds(code),
           NEW q, Grows(src, src', q), KeepsFrames(q), Patch(q),
           NEW inst, Targeted(inst), Tells(src, frames, blocks, inst), inst.op = "br_cond",
           NEW p, p = inst.at
    PROVE  /\ src'[p].t \in {"if", "while"}
           /\ Enters(src', frames', blocks', inst.args[2].n, p + 1)
           /\ \/ \E f \in 1 .. Len(frames') :
                    /\ frames'[f].at = p
                    /\ inst.args[3].n = IF frames'[f].kind = "then" THEN frames'[f].next ELSE frames'[f].end
              \/ src'[p].to # 0 /\ Enters(src', frames', blocks', inst.args[3].n, src'[p].to)
<1>. DEFINE b == inst.args[2].n
            c == inst.args[3].n
<1>1. p \in 1 .. Len(src) /\ b \in 1 .. Len(blocks) /\ c \in 1 .. Len(blocks)
  BY DEF Targeted, Reach
<1>2. src'[p].t = src[p].t /\ (p # q => src'[p] = src[p])
  BY <1>1 DEF Grows
<1>3. \A x : /\ Enters(src, frames, blocks, b, x) => Enters(src', frames', blocks', b, x)
             /\ Enters(src, frames, blocks, c, x) => Enters(src', frames', blocks', c, x)
  BY <1>1, KeepsStep
<1>4. q # 0 => /\ frames # <<>> /\ q = Top.at /\ src[q].to = 0
               /\ Top.kind \in {"then", "else", "while"}
               /\ src[q].t = IF Top.kind = "then" THEN "if" ELSE Top.kind
  <2>1. SUFFICES ASSUME q # 0
                 PROVE  /\ frames # <<>> /\ q = Top.at /\ src[q].to = 0
                        /\ Top.kind \in {"then", "else", "while"}
                        /\ src[q].t = IF Top.kind = "then" THEN "if" ELSE Top.kind
    OBVIOUS
  <2>2. frames # <<>> /\ q = Top.at
    BY <2>1 DEF Patch
  <2>3. Top \in Frame /\ src[Top.at].to = 0 /\ src[Top.at].t = IF Top.kind = "then" THEN "if" ELSE Top.kind
    BY <2>2, TopFacts
  <2>4. Top.kind \in {"then", "else", "while"}
    BY <2>3 DEF Frame
  <2>. QED
    BY <2>2, <2>3, <2>4
<1>5. /\ src[p].t \in {"if", "while"}
      /\ Enters(src, frames, blocks, b, p + 1)
      /\ \/ \E f \in 1 .. Len(frames) :
               /\ frames[f].at = p
               /\ c = IF frames[f].kind = "then" THEN frames[f].next ELSE frames[f].end
         \/ src[p].to # 0 /\ Enters(src, frames, blocks, c, src[p].to)
  BY DEF Tells
<1>6. CASE src[p].to # 0 /\ Enters(src, frames, blocks, c, src[p].to)
  <2>1. p # q
    BY <1>1, <1>4, <1>6
  <2>. QED
    BY <1>2, <1>3, <1>5, <1>6, <2>1
<1>7. ASSUME NEW f \in 1 .. Len(frames), frames[f].at = p,
             c = IF frames[f].kind = "then" THEN frames[f].next ELSE frames[f].end
      PROVE  \/ \E g \in 1 .. Len(frames') :
                   /\ frames'[g].at = p
                   /\ c = IF frames'[g].kind = "then" THEN frames'[g].next ELSE frames'[g].end
             \/ src'[p].to # 0 /\ Enters(src', frames', blocks', c, src'[p].to)
  <2>1. CASE \E g \in 1 .. Len(frames') : frames'[g] = frames[f]
    BY <1>7, <2>1
  <2>2. CASE q # 0 /\ frames[f].at = q /\ frames[f] = Top
    <3>1. p = q /\ Top.kind \in {"then", "while"}
          /\ c = IF Top.kind = "then" THEN Top.next ELSE Top.end
      BY <1>4, <1>5, <1>7, <2>2
    <3>2. src'[q].to # 0 /\ Enters(src', frames', blocks', c, src'[q].to)
      BY <2>2, <3>1 DEF Patch
    <3>. QED
      BY <3>1, <3>2
  <2>. QED
    BY <2>1, <2>2, FrameStays
<1>. QED
  BY <1>2, <1>3, <1>5, <1>6, <1>7

\* What was emitted before tells the same after a piece of source is written.
LEMMA OldTells ==
    ASSUME Formed, phase = "write", Left(frames, blocks, cur), NEW code, Adds(code),
           NEW q, Grows(src, src', q), KeepsFrames(q), Patch(q),
           NEW inst, Targeted(inst), Tells(src, frames, blocks, inst)
    PROVE  Tells(src', frames', blocks', inst)
<1>. DEFINE p == inst.at
<1>1. p \in 1 .. Len(src) /\ Len(src) \in Nat /\ Len(src') = Len(src) + 1
  BY TypedFacts DEF Targeted, Reach, Grows, Formed
<1>2. p <= Len(src) /\ ~ (p > Len(src')) /\ p <= Len(src')
  BY <1>1
<1>3. src'[p].t = src[p].t
  BY <1>1 DEF Grows
<1>4. /\ inst.op = "store" => src'[p].t \in {"let", "assign"}
      /\ inst.op = "ret" => src'[p].t = "return"
  BY <1>2, <1>3 DEF Tells
<1>5. inst.op = "br" =>
           \/ src'[p].t = "while" /\ Enters(src', frames', blocks', inst.args[1].n, p)
           \/ src'[p].t = "again" /\ Enters(src', frames', blocks', inst.args[1].n, src'[p].to)
           \/ src'[p].t = "end" /\ Enters(src', frames', blocks', inst.args[1].n, p + 1)
           \/ /\ src'[p].t = "else"
              /\ \/ \E f \in 1 .. Len(frames') : frames'[f].at = p /\ inst.args[1].n = frames'[f].end
                 \/ /\ src'[p].to # 0
                    /\ Enters(src', frames', blocks', inst.args[1].n, src'[p].to + 1)
  BY BranchTells
<1>6. inst.op = "br_cond" =>
           /\ src'[p].t \in {"if", "while"}
           /\ Enters(src', frames', blocks', inst.args[2].n, p + 1)
           /\ \/ \E f \in 1 .. Len(frames') :
                    /\ frames'[f].at = p
                    /\ inst.args[3].n = IF frames'[f].kind = "then" THEN frames'[f].next ELSE frames'[f].end
              \/ src'[p].to # 0 /\ Enters(src', frames', blocks', inst.args[3].n, src'[p].to)
  BY CondTells
<1>. QED
  BY <1>2, <1>4, <1>5, <1>6 DEF Tells

\* The current block, with the code added.
LEMMA CurFlows ==
    ASSUME Formed, phase = "write", Faithful(src, frames, blocks, cur), NEW code, Adds(code),
           src' \in Seq(Token), NEW q, Grows(src, src', q), Flows(src', code)
    PROVE  /\ Flows(src', blocks'[cur])
           /\ \A n : Leads(src', code, n) => Leads(src', blocks'[cur], n)
<1>. DEFINE c == blocks[cur]
            l == Len(src) + 1
<1>1. /\ c \in Seq(Inst) /\ code \in Seq(Inst) /\ code # <<>> /\ cur \in 1 .. Len(blocks)
      /\ src \in Seq(Token) /\ Len(src) \in Nat
  BY TypedFacts DEF Formed, Typed, Adds
<1>2. \A i \in 1 .. Len(c) : c[i].at \in 1 .. Len(src)
  BY <1>1, Targets DEF Targeted, Reach
<1>3. Flows(src, c) /\ Leads(src, c, l)
  BY <1>1 DEF Faithful
<1>4. blocks'[cur] = c \o code /\ \A i \in 1 .. Len(code) : code[i].at = l
  BY DEF Adds
<1>. HIDE DEF c
<1>5. Flows(src', c) /\ Leads(src', c, l)
  BY <1>1, <1>2, <1>3, FlowsStay
<1>6. code[1].at = l
  <2>1. 1 \in 1 .. Len(code)
    BY <1>1
  <2>. QED
    BY <1>4, <2>1
<1>7. \A i \in 1 .. Len(c), j \in 1 .. Len(code) : c[i].at # code[j].at
  <2>1. \A i \in 1 .. Len(c) : c[i].at # l
    BY <1>1, <1>2
  <2>. HIDE DEF l
  <2>. QED
    BY <1>4, <2>1
<1>. HIDE DEF l
<1>8. Leads(src', c, code[1].at)
  BY <1>5, <1>6
<1>9. Flows(src', c \o code) /\ \A n : Leads(src', code, n) => Leads(src', c \o code, n)
  BY <1>1, <1>5, <1>7, <1>8, FlowsJoin
<1>. QED
  BY <1>4, <1>9

\* A block that was there, and that lowering was in or had left.
LEMMA OldBlock ==
    ASSUME Formed, phase = "write", Faithful(src, frames, blocks, cur), NEW code, Adds(code),
           src' \in Seq(Token), NEW q, Grows(src, src', q), KeepsFrames(q), Patch(q),
           Flows(src', code),
           \A i \in 1 .. Len(code) : Tells(src', frames', blocks', code[i]),
           NEW b \in 1 .. Len(blocks), ~ Ahead(frames, b)
    PROVE  /\ Flows(src', blocks'[b])
           /\ \A i \in 1 .. Len(blocks'[b]) : Tells(src', frames', blocks', blocks'[b][i])
<1>1. /\ blocks[b] \in Seq(Inst) /\ code \in Seq(Inst) /\ src \in Seq(Token)
  BY TypedFacts DEF Formed, Typed, Adds
<1>2. /\ Left(frames, blocks, cur) /\ Flows(src, blocks[b])
      /\ \A i \in 1 .. Len(blocks[b]) : Tells(src, frames, blocks, blocks[b][i])
  BY DEF Faithful
<1>3. \A i \in 1 .. Len(blocks[b]) : Targeted(blocks[b][i])
  BY Targets
<1>4. \A i \in 1 .. Len(blocks[b]) : Tells(src', frames', blocks', blocks[b][i])
  BY <1>2, <1>3, OldTells
<1>5. CASE b # cur
  <2>1. blocks'[b] = blocks[b]
    BY <1>5 DEF Adds
  <2>2. \A i \in 1 .. Len(blocks[b]) : blocks[b][i].at \in 1 .. Len(src)
    BY <1>3 DEF Targeted, Reach
  <2>3. Flows(src', blocks[b])
    BY <1>1, <1>2, <2>2, FlowsStay
  <2>. QED
    BY <1>4, <2>1, <2>3
<1>6. CASE b = cur
  <2>1. Flows(src', blocks'[b])
    BY <1>6, CurFlows
  <2>2. blocks'[b] = blocks[b] \o code
    BY <1>6 DEF Adds
  <2>. DEFINE c == blocks[b]
              e == c \o code
  <2>3. \A i \in 1 .. Len(e) : \/ i \in 1 .. Len(c) /\ e[i] = c[i]
                               \/ i - Len(c) \in 1 .. Len(code) /\ e[i] = code[i - Len(c)]
    BY <1>1, Joined
  <2>4. \A i \in 1 .. Len(c) : Tells(src', frames', blocks', c[i])
    BY <1>4
  <2>. HIDE DEF c, e
  <2>5. \A i \in 1 .. Len(e) : Tells(src', frames', blocks', e[i])
    BY <2>3, <2>4
  <2>. QED
    BY <2>1, <2>2, <2>5 DEF c, e
<1>. QED
  BY <1>5, <1>6

\* What a step of the first phase has to show of the blocks it enters or starts.
LEMMA FaithfulStep ==
    ASSUME Formed, phase = "write", Faithful(src, frames, blocks, cur), NEW code, Adds(code),
           src' \in Seq(Token), NEW q, Grows(src, src', q), KeepsFrames(q), Patch(q),
           Flows(src', code),
           \A i \in 1 .. Len(code) : Tells(src', frames', blocks', code[i]),
           \A b \in 1 .. Len(blocks') :
              \/ b \in 1 .. Len(blocks) /\ ~ Ahead(frames, b)
              \/ /\ Flows(src', blocks'[b])
                 /\ \A i \in 1 .. Len(blocks'[b]) : Tells(src', frames', blocks', blocks'[b][i]),
           Left(frames', blocks', cur'), Leads(src', blocks'[cur'], Len(src') + 1),
           \A f \in 1 .. Len(frames') :
              frames'[f].kind = "while" => Enters(src', frames', blocks', frames'[f].next, frames'[f].at)
    PROVE  Faithful(src', frames', blocks', cur')
<1>1. \A b \in 1 .. Len(blocks) : ~ Ahead(frames, b) =>
         /\ Flows(src', blocks'[b])
         /\ \A i \in 1 .. Len(blocks'[b]) : Tells(src', frames', blocks', blocks'[b][i])
  BY OldBlock
<1>2. \A b \in 1 .. Len(blocks') :
         /\ Flows(src', blocks'[b])
         /\ \A i \in 1 .. Len(blocks'[b]) : Tells(src', frames', blocks', blocks'[b][i])
  BY <1>1
<1>3. Enters(src', frames', blocks', 1, 1)
  <2>1. 1 \in 1 .. Len(blocks)
    BY TypedFacts DEF Formed, Typed
  <2>. QED
    BY <2>1, KeepsStep DEF Faithful
<1>. QED
  BY <1>2, <1>3 DEF Faithful

\* Whiles that stay open.
LEMMA WhilesStay ==
    ASSUME Formed, Faithful(src, frames, blocks, cur), NEW code, Adds(code),
           NEW f \in 1 .. Len(frames), frames[f].kind = "while"
    PROVE  Enters(src', frames', blocks', frames[f].next, frames[f].at)
<1>1. frames \in Seq(Frame) /\ FramesNest(frames, src, Len(blocks)) /\ Len(src) \in Nat /\ Len(blocks) \in Nat
  BY TypedFacts DEF Formed, Typed
<1>2. /\ frames[f].next \in Nat /\ 1 < frames[f].next /\ frames[f].next <= Len(blocks)
  BY <1>1, FramesBelow
<1>3. frames[f].next \in 1 .. Len(blocks)
  BY <1>1, <1>2
<1>4. Enters(src, frames, blocks, frames[f].next, frames[f].at) /\ Left(frames, blocks, cur)
  BY DEF Faithful
<1>. QED
  BY <1>3, <1>4, KeepsStep

\* As long as the function is being written, nothing runs.
LEMMA WriteFollows ==
    ASSUME Follow, phase = "write", phase' = "write", UNCHANGED run,
           supported' => supported,
           supported' => Faithful(src', frames', blocks', cur')
    PROVE  Follow'
<1>1. supported' => Follows /\ pos' = pos /\ pc' = pc
  BY DEF Follow, run
<1>2. supported' => Follows'
  BY <1>1 DEF Follows
<1>. QED
  BY <1>2 DEF Follow
-----------------------------------------------------------------------------
(* The first phase is faithful *)

\* A new block is in order, and leads anywhere.
LEMMA EmptyFlows ==
    ASSUME NEW s, NEW code, code = <<>>
    PROVE  /\ Flows(s, code) /\ \A n : Leads(s, code, n)
           /\ \A fs, bs : \A i \in 1 .. Len(code) : Tells(s, fs, bs, code[i])
<1>1. Len(code) = 0
  OBVIOUS
<1>2. 1 .. Len(code) - 1 = {} /\ 1 .. Len(code) = {}
  BY <1>1
<1>3. Flows(s, code)
  BY <1>2 DEF Flows
<1>. QED
  BY <1>2, <1>3 DEF Leads

\* Instructions that go nowhere.
LEMMA EffectTells ==
    ASSUME NEW s, NEW fs, NEW bs, NEW inst, inst.at <= Len(s), Len(s) \in Nat, inst.at \in Nat,
           \/ inst.op \in Going
           \/ inst.op = "store" /\ s[inst.at].t \in {"let", "assign"}
           \/ inst.op = "ret" /\ s[inst.at].t = "return"
    PROVE  Tells(s, fs, bs, inst)
<1>1. ~ (inst.at > Len(s))
  OBVIOUS
<1>2. inst.op \notin {"br", "br_cond"}
  BY DEF Going, Computing
<1>3. /\ inst.op = "store" => s[inst.at].t \in {"let", "assign"}
      /\ inst.op = "ret" => s[inst.at].t = "return"
  BY DEF Going, Computing
<1>. QED
  BY <1>1, <1>2, <1>3 DEF Tells

\* The code of a statement without a body does what the statement does.
LEMMA StatementFlows ==
    ASSUME NEW s, Len(s) \in Nat, NEW t \in {"print", "let", "assign", "return"}, s[Len(s)].t = t,
           NEW code \in Seq(Inst), Ends(t, code),
           \A i \in 1 .. Len(code) :
              code[i].at = Len(s) /\ (i # Len(code) => code[i].op \in Going)
    PROVE  /\ Flows(s, code) /\ Leads(s, code, Len(s) + 1)
           /\ \A fs, bs : \A i \in 1 .. Len(code) : Tells(s, fs, bs, code[i])
<1>. DEFINE k == Len(code)
<1>1. code # <<>> /\ k \in Nat /\ Len(s) <= Len(s)
  BY DEF Ends
<1>2. CASE t = "print"
  <2>1. \A i \in 1 .. k : code[i].op \in Computing
    BY <1>2 DEF Ends
  <2>2. Flows(s, code) /\ Leads(s, code, Len(s) + 1)
    BY <1>1, <1>2, <2>1, PrintFlows DEF Ends
  <2>3. ASSUME NEW fs, NEW bs, NEW i \in 1 .. k PROVE Tells(s, fs, bs, code[i])
    <3>1. code[i].at = Len(s) /\ code[i].op \in Going
      BY <2>1 DEF Going
    <3>2. code[i].at <= Len(s) /\ code[i].at \in Nat
      BY <1>1, <3>1
    <3>. QED
      BY <3>1, <3>2, EffectTells
  <2>. QED
    BY <2>2, <2>3
<1>3. CASE t # "print"
  <2>1. \/ t \in {"let", "assign"} /\ code[k].op = "store"
        \/ t = "return" /\ code[k].op = "ret"
    BY <1>3 DEF Ends
  <2>2. Flows(s, code) /\ (code[k].op = "store" => Leads(s, code, Len(s) + 1))
    BY <1>1, <1>3, LineFlows
  <2>3. Leads(s, code, Len(s) + 1)
    BY <2>1, <2>2 DEF Leads, Leaving
  <2>4. ASSUME NEW fs, NEW bs, NEW i \in 1 .. k PROVE Tells(s, fs, bs, code[i])
    <3>1. code[i].at = Len(s) /\ (i # k => code[i].op \in Going)
      OBVIOUS
    <3>2. code[i].at <= Len(s) /\ code[i].at \in Nat /\ s[code[i].at].t = t
      BY <1>1, <3>1
    <3>3. \/ code[i].op \in Going
          \/ code[i].op = "store" /\ s[code[i].at].t \in {"let", "assign"}
          \/ code[i].op = "ret" /\ s[code[i].at].t = "return"
      BY <2>1, <3>1, <3>2
    <3>. QED
      BY <3>2, <3>3, EffectTells
  <2>. QED
    BY <2>2, <2>3, <2>4
<1>. QED
  BY <1>2, <1>3

\* A statement of straight code keeps the IR faithful.
LEMMA StatedFollows ==
    ASSUME Formed, Follow, Stated
    PROVE  Follow'
<1>1. PICK t, code, lowered :
         /\ t \in {"print", "let", "assign", "return"}
         /\ Emits(t, code, lowered) /\ (lowered.whole => Ends(t, code))
  BY DEF Stated
<1>2. /\ phase = "write" /\ phase' = "write" /\ UNCHANGED run
      /\ supported' = (supported /\ lowered.whole)
      /\ cur' = cur /\ frames' = frames
      /\ blocks' = Emitted(blocks, cur, code) /\ Line(code, cur, Size(cur), Len(blocks))
      /\ src' = Append(src, Plain(t))
  BY <1>1 DEF Emits, Statement, Write
<1>3. ASSUME supported' PROVE Faithful(src', frames', blocks', cur')
  <2>1. supported /\ Ends(t, code)
    BY <1>1, <1>2, <1>3
  <2>2. Faithful(src, frames, blocks, cur)
    BY <2>1 DEF Follow
  <2>3. /\ cur \in 1 .. Len(blocks) /\ blocks \in Seq(Seq(Inst)) /\ src \in Seq(Token) /\ Len(src) \in Nat
        /\ code \in Seq(Inst) /\ Len(blocks) \in Nat
    BY <1>2, TypedFacts DEF Formed, Typed, Line
  <2>. t \in {"print", "let", "assign", "return"}
    BY <1>1
  <2>4. Plain(t) \in Token /\ Plain(t).t = t
    <3>1. t \in Tokens
      BY DEF Tokens
    <3>. QED
      BY <3>1, PlainTyped
  <2>5. /\ src' \in Seq(Token) /\ Len(src') = Len(src) + 1 /\ src'[Len(src) + 1] = Plain(t)
        /\ Grows(src, src', 0)
    BY <1>2, <2>3, <2>4, AppendGrows
  <2>6. Len(src') \in Nat /\ src'[Len(src')].t = t
    BY <2>3, <2>4, <2>5
  <2>7. \A i \in 1 .. Len(code) :
           /\ code[i].at = Len(src) + 1 /\ code[i].at = Len(src')
           /\ i # Len(code) => code[i].op \in Going
    BY <1>2, <2>5 DEF Line
  <2>8. /\ Flows(src', code) /\ Leads(src', code, Len(src') + 1)
        /\ \A i \in 1 .. Len(code) : Tells(src', frames', blocks', code[i])
    BY <2>1, <2>3, <2>6, <2>7, StatementFlows
  <2>9. /\ Len(blocks') = Len(blocks) /\ blocks'[cur] = blocks[cur] \o code
        /\ \A c \in 1 .. Len(blocks) : c # cur => blocks'[c] = blocks[c]
    BY <1>2, <2>3, EmittedFacts
  <2>10. code # <<>>
    BY <2>1 DEF Ends
  <2>11. Adds(code)
    <3>1. Len(blocks) <= Len(blocks')
      BY <2>3, <2>9
    <3>. QED
      BY <1>2, <2>3, <2>7, <2>9, <2>10, <3>1 DEF Adds
  <2>12. KeepsFrames(0) /\ Patch(0)
    BY <1>2 DEF KeepsFrames, Patch
  <2>13. \A b \in 1 .. Len(blocks') :
            \/ b \in 1 .. Len(blocks) /\ ~ Ahead(frames, b)
            \/ /\ Flows(src', blocks'[b])
               /\ \A i \in 1 .. Len(blocks'[b]) : Tells(src', frames', blocks', blocks'[b][i])
    <3>1. SUFFICES ASSUME NEW b \in 1 .. Len(blocks), Ahead(frames, b)
                   PROVE  /\ Flows(src', blocks'[b])
                          /\ \A i \in 1 .. Len(blocks'[b]) : Tells(src', frames', blocks', blocks'[b][i])
      BY <2>9
    <3>2. b # cur
      BY <3>1 DEF Formed
    <3>3. blocks'[b] = <<>>
      BY <2>2, <2>9, <3>1, <3>2 DEF Faithful, Left
    <3>. QED
      BY <3>3, EmptyFlows
  <2>14. Left(frames', blocks', cur')
    <3>1. ~ Ahead(frames, cur)
      BY DEF Formed
    <3>. QED
      BY <1>2, <2>2, <2>9, <3>1 DEF Faithful, Left
  <2>15. Leads(src', blocks'[cur'], Len(src') + 1)
    BY <1>2, <2>2, <2>5, <2>8, <2>11, CurFlows
  <2>16. \A f \in 1 .. Len(frames') :
            frames'[f].kind = "while" => Enters(src', frames', blocks', frames'[f].next, frames'[f].at)
    BY <1>2, <2>2, <2>11, WhilesStay
  <2>. QED
    BY <1>2, <2>2, <2>5, <2>8, <2>11, <2>12, <2>13, <2>14, <2>15, <2>16, FaithfulStep
<1>. QED
  BY <1>2, <1>3, WriteFollows

\* After a statement without a case nothing is claimed.
LEMMA UnloweredFollows ==
    ASSUME Follow, UnloweredStmt
    PROVE  Follow'
<1>1. supported' = FALSE
  BY DEF UnloweredStmt
<1>. QED
  BY <1>1 DEF Follow

\* A test is all before what it decides.
LEMMA TestFlows ==
    ASSUME NEW s, Len(s) \in Nat, s[Len(s)].t \in {"if", "while"}, NEW fs, NEW bs,
           NEW code \in Seq(Inst), code # <<>>, code[Len(code)].op = "br_cond",
           \A i \in 1 .. Len(code) :
              code[i].at = Len(s) /\ (i # Len(code) => code[i].op \in Going),
           Enters(s, fs, bs, code[Len(code)].args[2].n, Len(s) + 1),
           NEW f \in 1 .. Len(fs), fs[f].at = Len(s),
           code[Len(code)].args[3].n = IF fs[f].kind = "then" THEN fs[f].next ELSE fs[f].end
    PROVE  /\ Flows(s, code)
           /\ \A i \in 1 .. Len(code) : Tells(s, fs, bs, code[i])
<1>. DEFINE k == Len(code)
            inst == code[k]
<1>1. k \in Nat /\ k \in 1 .. k
  OBVIOUS
<1>2. Flows(s, code)
  <2>1. s[Len(s)].t # "print"
    OBVIOUS
  <2>. QED
    BY <2>1, LineFlows
<1>3. ASSUME NEW i \in 1 .. k, i # k PROVE Tells(s, fs, bs, code[i])
  <2>1. code[i].at = Len(s) /\ code[i].op \in Going
    BY <1>3
  <2>2. code[i].at <= Len(s) /\ code[i].at \in Nat
    BY <2>1
  <2>. QED
    BY <2>1, <2>2, EffectTells
<1>4. Tells(s, fs, bs, inst)
  <2>1. inst.at = Len(s) /\ inst.op = "br_cond"
    BY <1>1
  <2>2. ~ (inst.at > Len(s))
    BY <2>1
  <2>. HIDE DEF inst, k
  <2>3. /\ Enters(s, fs, bs, inst.args[2].n, Len(s) + 1)
        /\ inst.args[3].n = IF fs[f].kind = "then" THEN fs[f].next ELSE fs[f].end
    BY DEF inst, k
  <2>. QED
    BY <2>1, <2>2, <2>3 DEF Tells
<1>. QED
  BY <1>2, <1>3, <1>4

\* A block that lowering leaves, or had left, ends in a branch.
LEMMA LeftOld ==
    ASSUME Formed, Left(frames, blocks, cur), NEW code, Adds(code),
           code[Len(code)].op \in {"br", "br_cond"},
           NEW b \in 1 .. Len(blocks), ~ Ahead(frames, b)
    PROVE  blocks'[b] # <<>> /\ blocks'[b][Len(blocks'[b])].op \in {"br", "br_cond"}
<1>1. CASE b # cur
  <2>1. blocks'[b] = blocks[b]
    BY <1>1 DEF Adds
  <2>2. blocks[b] # <<>> /\ blocks[b][Len(blocks[b])].op \in {"br", "br_cond"}
    BY <1>1 DEF Left
  <2>. QED
    BY <2>1, <2>2
<1>2. CASE b = cur
  <2>1. blocks'[b] = blocks[b] \o code
    BY <1>2 DEF Adds
  <2>2. blocks[b] \in Seq(Inst) /\ code \in Seq(Inst) /\ code # <<>>
    BY TypedFacts DEF Formed, Adds
  <2>. DEFINE c == blocks[b]
              e == c \o code
  <2>3. e # <<>> /\ e[Len(e)] = code[Len(code)]
    <3>1. /\ e \in Seq(Inst) /\ Len(e) = Len(c) + Len(code) /\ Len(c) \in Nat /\ Len(code) \in Nat
          /\ \A i \in 1 .. Len(code) : e[Len(c) + i] = code[i]
      BY <2>2, Joined
    <3>2. Len(code) \in 1 .. Len(code) /\ Len(code) # 0
      BY <2>2
    <3>. HIDE DEF e, c
    <3>3. Len(e) # 0
      BY <3>1, <3>2
    <3>4. e # <<>>
      BY <3>3
    <3>. QED
      BY <3>1, <3>2, <3>4
  <2>. QED
    BY <2>1, <2>3
<1>. QED
  BY <1>1, <1>2

\* What the step that starts an if or a while comes to, n blocks and l tokens before.
Opened(n, l, c, kind, next, end) ==
    /\ phase = "write" /\ phase' = "write" /\ UNCHANGED run
    /\ n = Len(blocks) /\ l = Len(src) /\ n \in Nat /\ l \in Nat
    /\ src' \in Seq(Token) /\ Len(src') = l + 1 /\ Grows(src, src', 0)
    /\ src'[l + 1].t = IF kind = "then" THEN "if" ELSE kind
    /\ Len(blocks') = n + 3
    /\ \A b \in 1 .. n : Ahead(frames, b) => blocks'[b] = blocks[b]
    /\ blocks'[n + 1] = c /\ blocks'[n + 2] = <<>> /\ blocks'[n + 3] = <<>>
    /\ \A b \in 1 .. n + 3 : b \in 1 .. n \/ b = n + 1 \/ b = n + 2 \/ b = n + 3
    /\ \A b : Ahead(frames', b) <=> \/ Ahead(frames, b)
                                    \/ b = end
                                    \/ kind = "then" /\ b = next
    /\ \A b \in 1 .. n : Ahead(frames', b) <=> Ahead(frames, b)
    /\ ~ Ahead(frames, n + 1) /\ ~ Ahead(frames, n + 2) /\ ~ Ahead(frames, n + 3)
    /\ \A f \in 1 .. Len(frames') :
          \/ f \in 1 .. Len(frames) /\ frames'[f] = frames[f]
          \/ /\ f = Len(frames) + 1
             /\ frames'[f].kind = kind /\ frames'[f].at = l + 1
             /\ frames'[f].next = next /\ frames'[f].end = end
    /\ \A f \in 1 .. Len(frames) : f \in 1 .. Len(frames') /\ frames'[f] = frames[f]
    /\ Len(frames) + 1 \in 1 .. Len(frames')

\* What opening an if or a while leaves of the blocks and frames there were.
LEMMA OpenedFacts ==
    ASSUME Formed, NEW code, NEW c \in Seq(Inst), NEW kind \in {"then", "while"},
           NEW next, NEW end, NEW lowered,
           Opens(code, c, kind, next, end, lowered), code # <<>>,
           Line(code, cur, Size(cur), Len(blocks) + 3)
    PROVE  /\ Opened(Len(blocks), Len(src), c, kind, next, end)
           /\ Adds(code) /\ KeepsFrames(0) /\ Patch(0)
<1>. DEFINE n == Len(blocks)
            l == Len(src)
            t == IF kind = "then" THEN "if" ELSE kind
            es == Emitted(blocks, cur, code)
<1>1. /\ cur \in 1 .. n /\ n \in Nat /\ l \in Nat /\ ~ Ahead(frames, cur)
      /\ blocks \in Seq(Seq(Inst)) /\ frames \in Seq(Frame) /\ src \in Seq(Token)
      /\ code \in Seq(Inst)
      /\ FramesNest(frames, src, n)
  BY TypedFacts DEF Formed, Typed, Line
<1>2. /\ t \in Tokens
      /\ Statement(Plain(t), lowered)
      /\ blocks' = es \o <<c, <<>>, <<>>>>
  BY DEF Opens, Tokens
<1>3. phase = "write" /\ phase' = "write" /\ UNCHANGED run /\ src' = Append(src, Plain(t))
  BY <1>2 DEF Statement, Write
<1>4. Plain(t) \in Token /\ Plain(t).t = t
  <2>. HIDE DEF t
  <2>. QED
    BY <1>2, PlainTyped
<1>5. /\ src' \in Seq(Token) /\ Len(src') = l + 1 /\ Grows(src, src', 0)
      /\ src'[l + 1].t = t
  <2>. HIDE DEF t
  <2>. QED
    BY <1>1, <1>3, <1>4, AppendGrows
<1>6. PICK fr \in Frame : /\ fr.kind = kind /\ fr.at = l + 1 /\ fr.next = next /\ fr.end = end
                          /\ frames' = Append(frames, fr)
  <2>1. n = Len(blocks) /\ l = Len(src)
    OBVIOUS
  <2>. HIDE DEF n, l
  <2>. QED
    BY <2>1, OpensFacts
<1>7. /\ end = n + 3 /\ next \in Nat /\ next < end
      /\ \A x \in Nat : x <= n => x < next
      /\ next > n
  <2>1. /\ end = n + 3 /\ next \in Nat /\ next < end /\ \A x \in Nat : x <= n => x < next
    <3>1. n = Len(blocks) /\ l = Len(src)
      OBVIOUS
    <3>. HIDE DEF n, l
    <3>. QED
      BY <3>1, OpensFacts
  <2>2. n < next
    BY <1>1, <2>1
  <2>. QED
    BY <1>1, <2>1, <2>2
<1>8. /\ es \in Seq(Seq(Inst)) /\ Len(es) = n /\ es[cur] = blocks[cur] \o code
      /\ \A b \in 1 .. n : b # cur => es[b] = blocks[b]
  BY <1>1, EmittedFacts
<1>. HIDE DEF es
<1>9. /\ Len(blocks') = n + 3
      /\ \A b \in 1 .. n : blocks'[b] = es[b]
      /\ blocks'[n + 1] = c /\ blocks'[n + 2] = <<>> /\ blocks'[n + 3] = <<>>
      /\ \A b \in 1 .. n + 3 : b \in 1 .. n \/ b = n + 1 \/ b = n + 2 \/ b = n + 3
  <2>. DEFINE new == es \o <<c, <<>>, <<>>>>
              m == Len(es)
  <2>1. /\ Len(new) = m + 3 /\ \A b \in 1 .. m : new[b] = es[b]
        /\ new[m + 1] = c /\ new[m + 2] = <<>> /\ new[m + 3] = <<>>
        /\ \A b \in 1 .. m + 3 : b \in 1 .. m \/ b = m + 1 \/ b = m + 2 \/ b = m + 3
    BY <1>8, ThreeMore
  <2>2. m = n /\ blocks' = new
    BY <1>2, <1>8
  <2>. HIDE DEF new, m, n
  <2>. QED
    BY <2>1, <2>2
<1>10. /\ Len(frames') = Len(frames) + 1 /\ Len(frames) \in Nat
       /\ \A f \in 1 .. Len(frames) : f \in 1 .. Len(frames') /\ frames'[f] = frames[f]
       /\ Len(frames) + 1 \in 1 .. Len(frames') /\ frames'[Len(frames) + 1] = fr
       /\ \A f \in 1 .. Len(frames') : f \in 1 .. Len(frames) \/ f = Len(frames) + 1
  <2>. DEFINE new == Append(frames, fr)
  <2>1. /\ Len(new) = Len(frames) + 1 /\ Len(frames) \in Nat
        /\ \A f \in 1 .. Len(frames) : f \in 1 .. Len(frames) + 1 /\ new[f] = frames[f]
        /\ new[Len(frames) + 1] = fr /\ Len(frames) + 1 \in 1 .. Len(frames) + 1
        /\ \A f \in 1 .. Len(frames) + 1 : f \in 1 .. Len(frames) \/ f = Len(frames) + 1
    <3>1. frames \in Seq(Frame) /\ fr \in Frame
      BY <1>1
    <3>. QED
      BY <3>1, PushFacts
  <2>2. frames' = new
    BY <1>6
  <2>. HIDE DEF new
  <2>. QED
    BY <2>1, <2>2
<1>11. \A b : Ahead(frames', b) <=> \/ Ahead(frames, b)
                                    \/ b = end
                                    \/ kind = "then" /\ b = next
  <2>1. \A b : Ahead(Append(frames, fr), b) <=> \/ Ahead(frames, b)
                                                \/ b = fr.end
                                                \/ fr.kind = "then" /\ b = fr.next
    BY <1>1, AheadPush
  <2>. QED
    BY <1>6, <2>1
<1>12. \A b \in 1 .. n : Ahead(frames', b) <=> Ahead(frames, b)
  <2>1. \A b \in 1 .. n : b # end /\ b # next
    BY <1>1, <1>7
  <2>. QED
    BY <1>11, <2>1
<1>13. ~ Ahead(frames, n + 1) /\ ~ Ahead(frames, n + 2) /\ ~ Ahead(frames, n + 3)
  <2>1. \A f \in 1 .. Len(frames) : /\ frames[f].next \in Nat /\ frames[f].end \in Nat
                                    /\ frames[f].next <= n /\ frames[f].end <= n
    BY <1>1, FramesBelow
  <2>2. \A x \in Nat : x <= n => x # n + 1 /\ x # n + 2 /\ x # n + 3
    BY <1>1
  <2>. HIDE DEF n
  <2>. QED
    BY <2>1, <2>2 DEF Ahead
<1>14. \A b \in 1 .. n : Ahead(frames, b) => blocks'[b] = blocks[b]
  BY <1>1, <1>8, <1>9
<1>15. Adds(code)
  <2>1. \A i \in 1 .. Len(code) : code[i].at = Len(src) + 1
    BY DEF Line
  <2>2. blocks'[cur] = blocks[cur] \o code
    BY <1>1, <1>8, <1>9
  <2>3. Len(blocks) <= Len(blocks')
    BY <1>1, <1>9
  <2>4. \A b \in 1 .. Len(blocks) : ~ Ahead(frames, b) =>
           ~ Ahead(frames', b) /\ (b # cur => blocks'[b] = blocks[b])
    BY <1>8, <1>9, <1>12
  <2>. QED
    BY <1>1, <2>1, <2>2, <2>3, <2>4 DEF Adds
<1>16. KeepsFrames(0) /\ Patch(0)
  BY <1>10 DEF KeepsFrames, Patch
<1>17. \A f \in 1 .. Len(frames') :
          \/ f \in 1 .. Len(frames) /\ frames'[f] = frames[f]
          \/ /\ f = Len(frames) + 1
             /\ frames'[f].kind = kind /\ frames'[f].at = l + 1
             /\ frames'[f].next = next /\ frames'[f].end = end
  BY <1>6, <1>10
<1>18. Opened(n, l, c, kind, next, end)
  <2>1. src'[l + 1].t = IF kind = "then" THEN "if" ELSE kind
    BY <1>5
  <2>2. n = Len(blocks) /\ l = Len(src)
    OBVIOUS
  <2>. HIDE DEF n, l, t
  <2>. QED
    BY <1>1, <1>3, <1>5, <1>9, <1>10, <1>11, <1>12, <1>13, <1>14, <1>17, <2>1, <2>2 DEF Opened
<1>. QED
  BY <1>15, <1>16, <1>18

\* Opening an if keeps the IR faithful.
LEMMA IfFollows ==
    ASSUME Formed, Follow, NEW e \in Conds, OpenIf(e)
    PROVE  Follow'
<1>. DEFINE n == Len(blocks)
            l == Len(src)
            none == <<>>
<1>1. PICK code, lowered : IfOpens(code, lowered, n)
  BY IfStated DEF Formed
<1>2. /\ Opens(code, none, "then", n + 2, n + 3, lowered)
      /\ Line(code, cur, Size(cur), n + 3)
      /\ Tests(code, n + 1, n + 2)
  BY <1>1 DEF IfOpens
<1>3. code # <<>> /\ code \in Seq(Inst) /\ none \in Seq(Inst)
  BY <1>2 DEF Tests, Line
<1>4. /\ Opened(n, l, none, "then", n + 2, n + 3)
      /\ Adds(code) /\ KeepsFrames(0) /\ Patch(0)
  <2>. HIDE DEF none
  <2>. QED
    BY <1>2, <1>3, OpenedFacts
<1>5. supported' = (supported /\ lowered.whole) /\ cur' = n + 1
  BY <1>2 DEF Opens, Statement
<1>6. phase = "write" /\ phase' = "write" /\ UNCHANGED run
  BY <1>4 DEF Opened
<1>7. ASSUME supported' PROVE Faithful(src', frames', blocks', cur')
  <2>1. Faithful(src, frames, blocks, cur)
    BY <1>5, <1>7 DEF Follow
  <2>2. Left(frames, blocks, cur)
    BY <2>1 DEF Faithful
  <2>3. /\ n \in Nat /\ l \in Nat /\ src' \in Seq(Token) /\ Len(src') = l + 1 /\ Grows(src, src', 0)
        /\ src'[l + 1].t = "if"
        /\ Len(blocks') = n + 3
        /\ blocks'[n + 1] = <<>> /\ blocks'[n + 2] = <<>> /\ blocks'[n + 3] = <<>>
        /\ \A b \in 1 .. n + 3 : b \in 1 .. n \/ b = n + 1 \/ b = n + 2 \/ b = n + 3
        /\ \A b \in 1 .. n : Ahead(frames, b) => blocks'[b] = blocks[b]
        /\ \A b \in 1 .. n : Ahead(frames', b) <=> Ahead(frames, b)
    BY <1>4 DEF Opened
  <2>4. ~ Ahead(frames', n + 1) /\ Ahead(frames', n + 2) /\ Ahead(frames', n + 3)
    <3>1. ~ Ahead(frames, n + 1)
          /\ \A b : Ahead(frames', b) <=> \/ Ahead(frames, b)
                                          \/ b = n + 3
                                          \/ b = n + 2
      BY <1>4 DEF Opened
    <3>2. n + 1 # n + 2 /\ n + 1 # n + 3
      BY <2>3
    <3>. QED
      BY <3>1, <3>2
  <2>5. \A f \in 1 .. Len(frames') :
           \/ f \in 1 .. Len(frames) /\ frames'[f] = frames[f]
           \/ frames'[f].kind = "then"
    BY <1>4 DEF Opened
  <2>6. PICK f \in 1 .. Len(frames') : /\ frames'[f].at = l + 1 /\ frames'[f].kind = "then"
                                       /\ frames'[f].next = n + 2
    <3>1. /\ Len(frames) + 1 \in 1 .. Len(frames')
          /\ \A f \in 1 .. Len(frames') :
                \/ f \in 1 .. Len(frames)
                \/ frames'[f].at = l + 1 /\ frames'[f].kind = "then" /\ frames'[f].next = n + 2
      BY <1>4 DEF Opened
    <3>2. Len(frames) + 1 \notin 1 .. Len(frames)
      BY TypedFacts DEF Formed
    <3>. QED
      BY <3>1, <3>2
  <2>7. Enters(src', frames', blocks', n + 1, l + 2)
    <3>1. Len(src') + 1 = l + 2
      BY <2>3
    <3>. QED
      BY <2>3, <2>4, <3>1 DEF Enters
  <2>8. /\ Flows(src', code)
        /\ \A i \in 1 .. Len(code) : Tells(src', frames', blocks', code[i])
    <3>1. Len(src') \in Nat /\ src'[Len(src')].t \in {"if", "while"} /\ Len(src') + 1 = l + 2
      BY <2>3
    <3>2. \A i \in 1 .. Len(code) :
             code[i].at = Len(src') /\ (i # Len(code) => code[i].op \in Going)
      BY <1>2, <2>3 DEF Line
    <3>3. code[Len(code)].op = "br_cond"
      BY <1>2 DEF Tests
    <3>4. Enters(src', frames', blocks', code[Len(code)].args[2].n, Len(src') + 1)
      BY <1>2, <2>7, <3>1 DEF Tests
    <3>5. /\ code[Len(code)].args[3].n =
               IF frames'[f].kind = "then" THEN frames'[f].next ELSE frames'[f].end
          /\ frames'[f].at = Len(src')
      BY <1>2, <2>3, <2>6 DEF Tests
    <3>. QED
      BY <1>3, <3>1, <3>2, <3>3, <3>4, <3>5, TestFlows
  <2>9. \A b \in 1 .. Len(blocks') :
           \/ b \in 1 .. Len(blocks) /\ ~ Ahead(frames, b)
           \/ blocks'[b] = <<>>
    <3>1. \A b \in 1 .. n : Ahead(frames, b) => blocks[b] = <<>>
      BY <2>2 DEF Left
    <3>. QED
      BY <2>3, <3>1
  <2>10. \A b \in 1 .. Len(blocks') :
            \/ b \in 1 .. Len(blocks) /\ ~ Ahead(frames, b)
            \/ /\ Flows(src', blocks'[b])
               /\ \A i \in 1 .. Len(blocks'[b]) : Tells(src', frames', blocks', blocks'[b][i])
    BY <2>9, EmptyFlows
  <2>11. Left(frames', blocks', cur')
    <3>1. \A b \in 1 .. n : ~ Ahead(frames, b) =>
             blocks'[b] # <<>> /\ blocks'[b][Len(blocks'[b])].op \in {"br", "br_cond"}
      <4>1. code[Len(code)].op \in {"br", "br_cond"}
        BY <1>2 DEF Tests
      <4>. QED
        BY <1>4, <2>2, <4>1, LeftOld
    <3>2. ASSUME NEW b \in 1 .. Len(blocks')
          PROVE  /\ Ahead(frames', b) => blocks'[b] = <<>>
                 /\ ~ Ahead(frames', b) /\ b # cur' =>
                       blocks'[b] # <<>> /\ blocks'[b][Len(blocks'[b])].op \in {"br", "br_cond"}
      <4>1. CASE b \in 1 .. n
        BY <2>3, <2>9, <3>1, <4>1
      <4>2. CASE b = n + 1 \/ b = n + 2 \/ b = n + 3
        BY <1>5, <2>3, <2>4, <4>2
      <4>. QED
        BY <2>3, <4>1, <4>2
    <3>. QED
      BY <3>2 DEF Left
  <2>12. Leads(src', blocks'[cur'], Len(src') + 1)
    BY <1>5, <2>3, EmptyFlows
  <2>13. \A g \in 1 .. Len(frames') :
            frames'[g].kind = "while" => Enters(src', frames', blocks', frames'[g].next, frames'[g].at)
    <3>1. \A g \in 1 .. Len(frames) :
             frames[g].kind = "while" => Enters(src', frames', blocks', frames[g].next, frames[g].at)
      BY <1>4, <2>1, WhilesStay
    <3>. QED
      BY <2>5, <3>1
  <2>. QED
    BY <1>4, <1>6, <2>1, <2>3, <2>8, <2>10, <2>11, <2>12, <2>13, FaithfulStep
<1>. QED
  BY <1>5, <1>6, <1>7, WriteFollows

\* Opening a while keeps the IR faithful.
LEMMA WhileFollows ==
    ASSUME Formed, Follow, NEW e \in Conds, OpenWhile(e)
    PROVE  Follow'
<1>. DEFINE n == Len(blocks)
            l == Len(src)
<1>1. PICK code, test, lowered : WhileOpens(code, test, lowered, n)
  BY WhileStated DEF Formed
<1>2. /\ Opens(code, test, "while", n + 1, n + 3, lowered)
      /\ Line(code, cur, Size(cur), n + 3)
      /\ code # <<>> /\ Len(code) = 1 /\ code[Len(code)].op = "br" /\ code[Len(code)].args[1].n = n + 1
      /\ Line(test, n + 1, 0, n + 3)
      /\ Tests(test, n + 2, n + 3)
  BY <1>1 DEF WhileOpens
<1>3. code # <<>> /\ code \in Seq(Inst) /\ test \in Seq(Inst) /\ test # <<>>
  BY <1>2 DEF Line, Tests
<1>4. /\ Opened(n, l, test, "while", n + 1, n + 3)
      /\ Adds(code) /\ KeepsFrames(0) /\ Patch(0)
  BY <1>2, <1>3, OpenedFacts
<1>5. supported' = (supported /\ lowered.whole) /\ cur' = n + 2
  BY <1>2 DEF Opens, Statement
<1>6. phase = "write" /\ phase' = "write" /\ UNCHANGED run
  BY <1>4 DEF Opened
<1>7. ASSUME supported' PROVE Faithful(src', frames', blocks', cur')
  <2>1. Faithful(src, frames, blocks, cur)
    BY <1>5, <1>7 DEF Follow
  <2>2. Left(frames, blocks, cur)
    BY <2>1 DEF Faithful
  <2>3. /\ n \in Nat /\ l \in Nat /\ src' \in Seq(Token) /\ Len(src') = l + 1 /\ Grows(src, src', 0)
        /\ src'[l + 1].t = "while"
        /\ Len(blocks') = n + 3
        /\ blocks'[n + 1] = test /\ blocks'[n + 2] = <<>> /\ blocks'[n + 3] = <<>>
        /\ \A b \in 1 .. n + 3 : b \in 1 .. n \/ b = n + 1 \/ b = n + 2 \/ b = n + 3
        /\ \A b \in 1 .. n : Ahead(frames, b) => blocks'[b] = blocks[b]
        /\ \A b \in 1 .. n : Ahead(frames', b) <=> Ahead(frames, b)
    BY <1>4 DEF Opened
  <2>4. ~ Ahead(frames', n + 1) /\ ~ Ahead(frames', n + 2) /\ Ahead(frames', n + 3)
    <3>1. /\ ~ Ahead(frames, n + 1) /\ ~ Ahead(frames, n + 2)
          /\ \A b : Ahead(frames', b) <=> \/ Ahead(frames, b)
                                          \/ b = n + 3
      BY <1>4 DEF Opened
    <3>2. n + 1 # n + 3 /\ n + 2 # n + 3
      BY <2>3
    <3>. QED
      BY <3>1, <3>2
  <2>5. \A f \in 1 .. Len(frames') :
           \/ f \in 1 .. Len(frames) /\ frames'[f] = frames[f]
           \/ /\ frames'[f].kind = "while" /\ frames'[f].at = l + 1
              /\ frames'[f].next = n + 1 /\ frames'[f].end = n + 3
    BY <1>4 DEF Opened
  <2>6. PICK f \in 1 .. Len(frames') : /\ frames'[f].at = l + 1 /\ frames'[f].kind = "while"
                                       /\ frames'[f].end = n + 3
    <3>1. Len(frames) + 1 \in 1 .. Len(frames')
      BY <1>4 DEF Opened
    <3>2. Len(frames) + 1 \notin 1 .. Len(frames)
      BY TypedFacts DEF Formed
    <3>. QED
      BY <2>5, <3>1, <3>2
  <2>7. /\ Enters(src', frames', blocks', n + 2, l + 2)
        /\ Enters(src', frames', blocks', n + 1, l + 1)
    <3>1. Len(src') + 1 = l + 2
      BY <2>3
    <3>2. Enters(src', frames', blocks', n + 2, l + 2)
      BY <2>3, <2>4, <3>1 DEF Enters
    <3>3. test[1].at = l + 1
      <4>1. 1 \in 1 .. Len(test)
        BY <1>3
      <4>. QED
        BY <1>2, <4>1 DEF Line
    <3>4. Enters(src', frames', blocks', n + 1, l + 1)
      BY <1>3, <2>3, <2>4, <3>3 DEF Enters
    <3>. QED
      BY <3>2, <3>4
  <2>8. /\ Flows(src', test)
        /\ \A i \in 1 .. Len(test) : Tells(src', frames', blocks', test[i])
    <3>1. Len(src') \in Nat /\ src'[Len(src')].t \in {"if", "while"} /\ Len(src') + 1 = l + 2
      BY <2>3
    <3>2. \A i \in 1 .. Len(test) :
             test[i].at = Len(src') /\ (i # Len(test) => test[i].op \in Going)
      BY <1>2, <2>3 DEF Line
    <3>3. test[Len(test)].op = "br_cond"
      BY <1>2 DEF Tests
    <3>4. Enters(src', frames', blocks', test[Len(test)].args[2].n, Len(src') + 1)
      BY <1>2, <2>7, <3>1 DEF Tests
    <3>5. /\ test[Len(test)].args[3].n =
               IF frames'[f].kind = "then" THEN frames'[f].next ELSE frames'[f].end
          /\ frames'[f].at = Len(src')
      BY <1>2, <2>3, <2>6 DEF Tests
    <3>. QED
      BY <1>3, <3>1, <3>2, <3>3, <3>4, <3>5, TestFlows
  <2>9. /\ Flows(src', code)
        /\ \A i \in 1 .. Len(code) : Tells(src', frames', blocks', code[i])
    <3>1. Flows(src', code)
      <4>1. 1 .. Len(code) - 1 = {}
        BY <1>2
      <4>. QED
        BY <4>1 DEF Flows
    <3>2. ASSUME NEW i \in 1 .. Len(code) PROVE Tells(src', frames', blocks', code[i])
      <4>1. i = Len(code) /\ i = 1
        BY <1>2
      <4>2. code[i].at = l + 1 /\ code[i].op = "br" /\ code[i].args[1].n = n + 1
        BY <1>2, <4>1 DEF Line
      <4>3. ~ (l + 1 > Len(src'))
        BY <2>3
      <4>4. src'[l + 1].t = "while" /\ Enters(src', frames', blocks', n + 1, l + 1)
        BY <2>3, <2>7
      <4>. HIDE DEF l, n
      <4>. QED
        BY <4>2, <4>3, <4>4 DEF Tells
    <3>. QED
      BY <3>1, <3>2
  <2>10. \A b \in 1 .. Len(blocks') :
           \/ b \in 1 .. Len(blocks) /\ ~ Ahead(frames, b)
           \/ blocks'[b] = <<>>
           \/ b = n + 1
    <3>1. \A b \in 1 .. n : Ahead(frames, b) => blocks[b] = <<>>
      BY <2>2 DEF Left
    <3>. QED
      BY <2>3, <3>1
  <2>11. \A b \in 1 .. Len(blocks') :
            \/ b \in 1 .. Len(blocks) /\ ~ Ahead(frames, b)
            \/ /\ Flows(src', blocks'[b])
               /\ \A i \in 1 .. Len(blocks'[b]) : Tells(src', frames', blocks', blocks'[b][i])
    <3>1. SUFFICES ASSUME NEW b \in 1 .. Len(blocks'), blocks'[b] = <<>> \/ b = n + 1
                   PROVE  /\ Flows(src', blocks'[b])
                          /\ \A i \in 1 .. Len(blocks'[b]) : Tells(src', frames', blocks', blocks'[b][i])
      BY <2>10
    <3>2. CASE blocks'[b] = <<>>
      BY <3>2, EmptyFlows
    <3>3. CASE b = n + 1
      <4>1. blocks'[b] = test
        BY <2>3, <3>3
      <4>. QED
        BY <2>8, <4>1
    <3>. QED
      BY <3>1, <3>2, <3>3
  <2>12. Left(frames', blocks', cur')
    <3>1. \A b \in 1 .. n : ~ Ahead(frames, b) =>
             blocks'[b] # <<>> /\ blocks'[b][Len(blocks'[b])].op \in {"br", "br_cond"}
      <4>1. code[Len(code)].op \in {"br", "br_cond"}
        BY <1>2
      <4>. QED
        BY <1>4, <2>2, <4>1, LeftOld
    <3>2. ASSUME NEW b \in 1 .. Len(blocks')
          PROVE  /\ Ahead(frames', b) => blocks'[b] = <<>>
                 /\ ~ Ahead(frames', b) /\ b # cur' =>
                       blocks'[b] # <<>> /\ blocks'[b][Len(blocks'[b])].op \in {"br", "br_cond"}
      <4>1. CASE b \in 1 .. n
        <5>1. b # n + 1
          BY <2>3, <4>1
        <5>2. Ahead(frames, b) => blocks'[b] = <<>>
          BY <2>10, <4>1, <5>1
        <5>. QED
          BY <2>3, <3>1, <4>1, <5>2
      <4>2. CASE b = n + 1
        <5>1. blocks'[b] = test /\ ~ Ahead(frames', b)
          BY <2>3, <2>4, <4>2
        <5>. QED
          BY <1>2, <1>3, <5>1 DEF Tests
      <4>3. CASE b = n + 2 \/ b = n + 3
        BY <1>5, <2>3, <2>4, <4>3
      <4>. QED
        BY <2>3, <4>1, <4>2, <4>3
    <3>. QED
      BY <3>2 DEF Left
  <2>13. Leads(src', blocks'[cur'], Len(src') + 1)
    BY <1>5, <2>3, EmptyFlows
  <2>14. \A g \in 1 .. Len(frames') :
            frames'[g].kind = "while" => Enters(src', frames', blocks', frames'[g].next, frames'[g].at)
    <3>1. \A g \in 1 .. Len(frames) :
             frames[g].kind = "while" => Enters(src', frames', blocks', frames[g].next, frames[g].at)
      BY <1>4, <2>1, WhilesStay
    <3>. QED
      BY <2>5, <2>7, <3>1
  <2>. QED
    BY <1>4, <1>6, <2>1, <2>3, <2>9, <2>11, <2>12, <2>13, <2>14, FaithfulStep
<1>. QED
  BY <1>5, <1>6, <1>7, WriteFollows

\* Code that is one branch, to block t.
Jumps(code, t) ==
    /\ code \in Seq(Inst) /\ code # <<>> /\ Len(code) = 1
    /\ code[1].at = Len(src) + 1 /\ code[1].op = "br" /\ code[1].args[1].n = t

\* A branch as the only code of a piece of source.
LEMMA JumpOne ==
    ASSUME Typed, NEW b \in 1 .. Len(blocks), NEW t \in 1 .. Len(blocks)
    PROVE  Jumps(<<After("br", b, <<>>, Jump(t))>>, t)
<1>. DEFINE n == Len(blocks)
            code == <<New("br", Id(b, Size(b)), Jump(t))>>
<1>1. Len(src) \in Nat /\ n \in Nat /\ b \in Nat \ {0} /\ Size(b) \in Nat
  BY TypedFacts
<1>2. After("br", b, <<>>, Jump(t)) = New("br", Id(b, Size(b)), Jump(t))
  BY AfterJump
<1>3. /\ Line(code, b, Size(b), n) /\ code # <<>> /\ Len(code) = 1
      /\ code[Len(code)].op = "br" /\ code[Len(code)].args[1].n = t
  BY <1>1, JumpCode
<1>. HIDE DEF code
<1>4. 1 \in 1 .. Len(code) /\ code[1].op = "br" /\ code[1].args[1].n = t
  BY <1>3
<1>5. Jumps(code, t)
  BY <1>3, <1>4 DEF Jumps, Line
<1>. QED
  BY <1>2, <1>5 DEF code

\* A branch for the end of a statement's body is taken where the source goes on.
LEMMA JumpTells ==
    ASSUME NEW code, NEW t, Jumps(code, t), NEW l \in Nat, l = Len(src), Len(src') = l + 1,
           \/ src'[l + 1].t = "again" /\ Enters(src', frames', blocks', t, src'[l + 1].to)
           \/ src'[l + 1].t = "end" /\ Enters(src', frames', blocks', t, l + 2)
           \/ /\ src'[l + 1].t = "else"
              /\ \E f \in 1 .. Len(frames') : frames'[f].at = l + 1 /\ t = frames'[f].end
    PROVE  /\ Flows(src', code)
           /\ \A i \in 1 .. Len(code) : Tells(src', frames', blocks', code[i])
<1>1. Flows(src', code)
  <2>1. 1 .. Len(code) - 1 = {}
    BY DEF Jumps
  <2>. QED
    BY <2>1 DEF Flows
<1>2. ASSUME NEW i \in 1 .. Len(code) PROVE Tells(src', frames', blocks', code[i])
  <2>1. i = 1
    BY DEF Jumps
  <2>. DEFINE inst == code[1]
              p == inst.at
  <2>2. p = l + 1 /\ inst.op = "br" /\ inst.args[1].n = t
    BY DEF Jumps
  <2>3. ~ (p > Len(src')) /\ p + 1 = l + 2
    BY <2>2
  <2>. HIDE DEF inst
  <2>4. \/ src'[p].t = "again" /\ Enters(src', frames', blocks', inst.args[1].n, src'[p].to)
        \/ src'[p].t = "end" /\ Enters(src', frames', blocks', inst.args[1].n, p + 1)
        \/ /\ src'[p].t = "else"
           /\ \E f \in 1 .. Len(frames') : frames'[f].at = p /\ inst.args[1].n = frames'[f].end
    BY <2>2, <2>3
  <2>5. Tells(src', frames', blocks', inst)
    BY <2>2, <2>3, <2>4 DEF Tells
  <2>. QED
    BY <2>1, <2>5 DEF inst
<1>. QED
  BY <1>1, <1>2

\* The statements around the innermost one.
LEMMA PopKeeps ==
    ASSUME Formed, frames # <<>>
    PROVE  /\ \A f \in 1 .. Len(frames) :
                 frames[f].at # Top.at => \E g \in 1 .. Len(Popped) : Popped[g] = frames[f]
           /\ \A g \in 1 .. Len(Popped) : g \in 1 .. Len(frames) /\ Popped[g] = frames[g]
           /\ Len(frames) \in 1 .. Len(frames) /\ frames[Len(frames)] = Top
<1>1. frames \in Seq(Frame)
  BY DEF Formed, Typed
<1>2. /\ Len(Popped) = Len(frames) - 1
      /\ Len(frames) \in 1 .. Len(frames)
      /\ \A f \in 1 .. Len(frames) - 1 : Popped[f] = frames[f] /\ f \in 1 .. Len(frames)
      /\ \A f \in 1 .. Len(frames) : f \in 1 .. Len(frames) - 1 \/ f = Len(frames)
  BY <1>1, PopFacts DEF Popped
<1>3. \A f \in 1 .. Len(frames) : frames[f].at # Top.at => f \in 1 .. Len(Popped)
  BY <1>2 DEF Top
<1>. QED
  BY <1>2, <1>3 DEF Top

\* An else keeps the IR faithful: the then branch skips it, a false condition enters it.
LEMMA ElseIfFollows ==
    ASSUME Formed, Follow, ElseIf
    PROVE  Follow'
<1>. DEFINE n == Len(blocks)
            l == Len(src)
            fr == [Top EXCEPT !.kind = "else", !.at = l + 1]
            token == Plain("else")
            code == <<After("br", cur, <<>>, Jump(Top.end))>>
<1>1. /\ phase = "write" /\ phase' = "write" /\ frames # <<>> /\ Top.kind = "then"
      /\ supported' = supported /\ UNCHANGED run
      /\ blocks' = Emitted(blocks, cur, code)
      /\ cur' = Top.next
      /\ frames' = Append(Popped, fr)
      /\ src' = Patched(src, Top.at, l + 2, token)
  BY DEF ElseIf, Patched
<1>2. /\ n \in Nat /\ l \in Nat
      /\ Top \in Frame /\ Popped \in Seq(Frame) /\ Len(Popped) \in Nat
      /\ Top.next \in 1 .. n /\ Top.end \in 1 .. n /\ Top.next # Top.end
      /\ ~ Ahead(Popped, Top.next) /\ Top.at \in 1 .. l
      /\ \A b : Ahead(frames, b) <=> \/ Ahead(Popped, b)
                                     \/ b = Top.end
                                     \/ b = Top.next
  <2>1. n = Len(blocks) /\ l = Len(src)
    OBVIOUS
  <2>. HIDE DEF n, l
  <2>2. /\ n \in Nat /\ l \in Nat
        /\ Top \in Frame /\ Popped \in Seq(Frame) /\ Len(Popped) \in Nat
        /\ Top.next \in 1 .. n /\ Top.end \in 1 .. n /\ Top.next < Top.end
        /\ ~ Ahead(Popped, Top.next) /\ Top.at \in 1 .. l
        /\ \A b : Ahead(frames, b) <=> \/ Ahead(Popped, b)
                                       \/ b = Top.end
                                       \/ Top.kind = "then" /\ b = Top.next
    BY <1>1, <2>1, TopFacts
  <2>3. Top.next # Top.end
    BY <2>2
  <2>. QED
    BY <1>1, <2>2, <2>3
<1>3. token \in Token /\ token.t = "else"
  BY PlainTyped DEF Tokens
<1>. HIDE DEF token
<1>4. /\ fr \in Frame /\ fr.kind = "else" /\ fr.at = l + 1 /\ fr.end = Top.end
  <2>1. l + 1 \in Nat /\ Top \in Frame
    BY <1>2
  <2>. HIDE DEF l
  <2>. QED
    BY <2>1 DEF Frame
<1>. HIDE DEF fr
<1>5. /\ src' \in Seq(Token) /\ Len(src') = l + 1 /\ src'[l + 1] = token
      /\ src'[Top.at].to = l + 2
      /\ Grows(src, src', Top.at)
  <2>1. l + 2 \in Nat
    BY <1>2
  <2>. QED
    BY <1>1, <1>3, <2>1, PatchFacts
<1>6. /\ cur \in 1 .. n /\ blocks \in Seq(Seq(Inst)) /\ ~ Ahead(frames, cur)
  BY DEF Formed, Typed
<1>7. Jumps(code, Top.end)
  BY <1>2, <1>6, JumpOne DEF Formed
<1>. HIDE DEF code
<1>8. /\ code \in Seq(Inst) /\ code # <<>> /\ code[Len(code)].op \in {"br", "br_cond"}
      /\ \A i \in 1 .. Len(code) : code[i].at = l + 1
  <2>1. \A i \in 1 .. Len(code) : i = 1
    BY <1>7 DEF Jumps
  <2>. QED
    BY <1>7, <2>1 DEF Jumps
<1>9. /\ Len(blocks') = n /\ blocks'[cur] = blocks[cur] \o code
      /\ \A b \in 1 .. n : b # cur => blocks'[b] = blocks[b]
  BY <1>1, <1>6, <1>8, EmittedFacts
<1>10. \A b : Ahead(frames', b) <=> Ahead(Popped, b) \/ b = Top.end
  <2>1. \A b : Ahead(Append(Popped, fr), b) <=> \/ Ahead(Popped, b)
                                                \/ b = fr.end
                                                \/ fr.kind = "then" /\ b = fr.next
    BY <1>2, <1>4, AheadPush
  <2>. QED
    BY <1>1, <1>4, <2>1
<1>11. /\ \A f \in 1 .. Len(Popped) : f \in 1 .. Len(frames') /\ frames'[f] = Popped[f]
       /\ Len(Popped) + 1 \in 1 .. Len(frames') /\ frames'[Len(Popped) + 1] = fr
       /\ \A f \in 1 .. Len(frames') : f \in 1 .. Len(Popped) \/ f = Len(Popped) + 1
  BY <1>1, <1>2, <1>4, PushFacts
<1>12. Adds(code)
  <2>1. Len(blocks) <= Len(blocks')
    BY <1>2, <1>9
  <2>2. \A b \in 1 .. Len(blocks) : ~ Ahead(frames, b) =>
           ~ Ahead(frames', b) /\ (b # cur => blocks'[b] = blocks[b])
    BY <1>2, <1>9, <1>10
  <2>. QED
    BY <1>8, <1>9, <2>1, <2>2 DEF Adds
<1>13. ASSUME supported' PROVE Faithful(src', frames', blocks', cur')
  <2>1. Faithful(src, frames, blocks, cur)
    BY <1>1, <1>13 DEF Follow
  <2>2. Left(frames, blocks, cur)
    BY <2>1 DEF Faithful
  <2>3. \A b \in 1 .. n : Ahead(frames, b) => blocks'[b] = <<>>
    BY <1>6, <1>9, <2>2 DEF Left
  <2>4. Enters(src', frames', blocks', Top.next, l + 2)
    <3>1. blocks'[Top.next] = <<>>
      BY <1>2, <2>3
    <3>2. ~ Ahead(frames', Top.next)
      BY <1>2, <1>10
    <3>3. Len(src') + 1 = l + 2
      BY <1>2, <1>5
    <3>. QED
      BY <3>1, <3>2, <3>3 DEF Enters
  <2>5. Patch(Top.at)
    <3>1. l + 2 # 0
      BY <1>2
    <3>. QED
      BY <1>1, <1>5, <2>4, <3>1 DEF Patch
  <2>6. KeepsFrames(Top.at)
    BY <1>1, <1>11, PopKeeps DEF KeepsFrames
  <2>7. /\ Flows(src', code)
        /\ \A i \in 1 .. Len(code) : Tells(src', frames', blocks', code[i])
    <3>1. \E f \in 1 .. Len(frames') : frames'[f].at = l + 1 /\ Top.end = frames'[f].end
      BY <1>4, <1>11
    <3>2. src'[l + 1].t = "else" /\ l = Len(src)
      BY <1>3, <1>5
    <3>. HIDE DEF l
    <3>. QED
      BY <1>2, <1>5, <1>7, <3>1, <3>2, JumpTells
  <2>8. \A b \in 1 .. Len(blocks') :
           \/ b \in 1 .. Len(blocks) /\ ~ Ahead(frames, b)
           \/ /\ Flows(src', blocks'[b])
              /\ \A i \in 1 .. Len(blocks'[b]) : Tells(src', frames', blocks', blocks'[b][i])
    BY <1>9, <2>3, EmptyFlows
  <2>9. Left(frames', blocks', cur')
    <3>1. \A b \in 1 .. n : ~ Ahead(frames, b) =>
             blocks'[b] # <<>> /\ blocks'[b][Len(blocks'[b])].op \in {"br", "br_cond"}
      BY <1>8, <1>12, <2>2, LeftOld
    <3>2. \A b : Ahead(frames', b) => Ahead(frames, b)
      BY <1>2, <1>10
    <3>3. \A b : ~ Ahead(frames', b) /\ b # cur' => ~ Ahead(frames, b)
      BY <1>1, <1>2, <1>10
    <3>. QED
      BY <1>9, <2>3, <3>1, <3>2, <3>3 DEF Left
  <2>10. Leads(src', blocks'[cur'], Len(src') + 1)
    <3>1. blocks'[cur'] = <<>>
      BY <1>1, <1>2, <2>3
    <3>. QED
      BY <3>1, EmptyFlows
  <2>11. \A g \in 1 .. Len(frames') :
            frames'[g].kind = "while" => Enters(src', frames', blocks', frames'[g].next, frames'[g].at)
    <3>1. \A g \in 1 .. Len(frames) :
             frames[g].kind = "while" => Enters(src', frames', blocks', frames[g].next, frames[g].at)
      BY <1>12, <2>1, WhilesStay
    <3>2. \A g \in 1 .. Len(frames') :
             \/ g \in 1 .. Len(frames) /\ frames'[g] = frames[g]
             \/ frames'[g].kind = "else"
      BY <1>1, <1>4, <1>11, PopKeeps
    <3>. QED
      BY <3>1, <3>2
  <2>. QED
    BY <1>1, <1>5, <1>12, <2>1, <2>5, <2>6, <2>7, <2>8, <2>9, <2>10, <2>11, FaithfulStep
<1>. QED
  BY <1>1, <1>13, WriteFollows

\* The innermost one has ended, with the branch code in the current block.
LEMMA CloseStep ==
    ASSUME Formed, phase = "write", frames # <<>>, Faithful(src, frames, blocks, cur),
           NEW code, NEW t, Jumps(code, t), Adds(code), Len(blocks') = Len(blocks),
           src' \in Seq(Token), Grows(src, src', Top.at), Patch(Top.at),
           frames' = Popped, cur' = Top.end, blocks'[cur'] = <<>>,
           Flows(src', code), \A i \in 1 .. Len(code) : Tells(src', frames', blocks', code[i]),
           \A b \in 1 .. Len(blocks) : Ahead(frames, b) =>
              \/ blocks'[b] = <<>>
              \/ /\ ~ Ahead(frames', b)
                 /\ \E new : /\ Jumps(new, Top.end) /\ blocks'[b] = new
                             /\ Flows(src', new)
                             /\ \A i \in 1 .. Len(new) : Tells(src', frames', blocks', new[i]),
           \A b \in 1 .. Len(blocks) :
              Ahead(frames, b) /\ ~ Ahead(frames', b) /\ b # cur' => blocks'[b] # <<>>
    PROVE  Faithful(src', frames', blocks', cur')
<1>1. Left(frames, blocks, cur)
  BY DEF Faithful
<1>2. /\ \A b : Ahead(frames', b) => Ahead(frames, b)
      /\ Len(frames) \in Nat
  <2>1. frames \in Seq(Frame)
    BY DEF Formed, Typed
  <2>. QED
    BY <2>1, AheadPop DEF Popped
<1>3. KeepsFrames(Top.at)
  BY PopKeeps DEF KeepsFrames
<1>4. \A new : Jumps(new, Top.end) => new # <<>> /\ new[Len(new)].op = "br"
  BY DEF Jumps
<1>5. code[Len(code)].op \in {"br", "br_cond"}
  BY DEF Jumps
<1>6. \A b \in 1 .. Len(blocks') :
         \/ b \in 1 .. Len(blocks) /\ ~ Ahead(frames, b)
         \/ /\ Flows(src', blocks'[b])
            /\ \A i \in 1 .. Len(blocks'[b]) : Tells(src', frames', blocks', blocks'[b][i])
  <2>1. SUFFICES ASSUME NEW b \in 1 .. Len(blocks), Ahead(frames, b)
                 PROVE  /\ Flows(src', blocks'[b])
                        /\ \A i \in 1 .. Len(blocks'[b]) : Tells(src', frames', blocks', blocks'[b][i])
    OBVIOUS
  <2>2. CASE blocks'[b] = <<>>
    BY <2>2, EmptyFlows
  <2>3. CASE \E new : /\ Jumps(new, Top.end) /\ blocks'[b] = new
                      /\ Flows(src', new)
                      /\ \A i \in 1 .. Len(new) : Tells(src', frames', blocks', new[i])
    BY <2>3
  <2>. QED
    BY <2>1, <2>2, <2>3
<1>7. Left(frames', blocks', cur')
  <2>1. \A b \in 1 .. Len(blocks) : ~ Ahead(frames, b) =>
           blocks'[b] # <<>> /\ blocks'[b][Len(blocks'[b])].op \in {"br", "br_cond"}
    BY <1>1, <1>5, LeftOld
  <2>2. ASSUME NEW b \in 1 .. Len(blocks)
        PROVE  /\ Ahead(frames', b) => blocks'[b] = <<>>
               /\ ~ Ahead(frames', b) /\ b # cur' =>
                     blocks'[b] # <<>> /\ blocks'[b][Len(blocks'[b])].op \in {"br", "br_cond"}
    <3>1. Ahead(frames', b) => blocks'[b] = <<>>
      BY <1>2
    <3>2. ASSUME ~ Ahead(frames', b), b # cur', Ahead(frames, b)
          PROVE  blocks'[b] # <<>> /\ blocks'[b][Len(blocks'[b])].op \in {"br", "br_cond"}
      <4>1. blocks'[b] # <<>>
        BY <3>2
      <4>2. PICK new : Jumps(new, Top.end) /\ blocks'[b] = new
        BY <3>2, <4>1
      <4>. QED
        BY <1>4, <4>2
    <3>. QED
      BY <2>1, <3>1, <3>2
  <2>. QED
    BY <2>2 DEF Left
<1>8. Leads(src', blocks'[cur'], Len(src') + 1)
  BY EmptyFlows
<1>9. \A g \in 1 .. Len(frames') :
         frames'[g].kind = "while" => Enters(src', frames', blocks', frames'[g].next, frames'[g].at)
  <2>1. \A g \in 1 .. Len(frames) :
           frames[g].kind = "while" => Enters(src', frames', blocks', frames[g].next, frames[g].at)
    BY WhilesStay
  <2>. QED
    BY <2>1, PopKeeps
<1>. QED
  BY <1>3, <1>6, <1>7, <1>8, <1>9, FaithfulStep

\* Closing a while keeps the IR faithful: its body goes back to the test.
LEMMA CloseWhileFollows ==
    ASSUME Formed, Follow, CloseWhile
    PROVE  Follow'
<1>. DEFINE n == Len(blocks)
            l == Len(src)
            token == [t |-> "again", to |-> Top.at]
            code == <<After("br", cur, <<>>, Jump(Top.next))>>
<1>1. /\ phase = "write" /\ phase' = "write" /\ frames # <<>> /\ Top.kind = "while"
      /\ supported' = supported /\ UNCHANGED run
      /\ blocks' = Emitted(blocks, cur, code)
      /\ cur' = Top.end
      /\ frames' = Popped
      /\ src' = Patched(src, Top.at, l + 2, token)
  BY DEF CloseWhile, Patched
<1>2. /\ n \in Nat /\ l \in Nat
      /\ Top.next \in 1 .. n /\ Top.end \in 1 .. n
      /\ ~ Ahead(Popped, Top.end) /\ Top.at \in 1 .. l
      /\ \A b : Ahead(frames, b) <=> Ahead(Popped, b) \/ b = Top.end
  <2>1. n = Len(blocks) /\ l = Len(src)
    OBVIOUS
  <2>. HIDE DEF n, l
  <2>2. /\ n \in Nat /\ l \in Nat
        /\ Top.next \in 1 .. n /\ Top.end \in 1 .. n
        /\ ~ Ahead(Popped, Top.end) /\ Top.at \in 1 .. l
        /\ \A b : Ahead(frames, b) <=> \/ Ahead(Popped, b)
                                       \/ b = Top.end
                                       \/ Top.kind = "then" /\ b = Top.next
    BY <1>1, <2>1, TopFacts
  <2>. QED
    BY <1>1, <2>2
<1>3. token \in Token /\ token.t = "again" /\ token.to = Top.at
  <2>1. Top.at \in Nat
    BY <1>2
  <2>. QED
    BY <2>1 DEF Token, Tokens
<1>. HIDE DEF token
<1>4. /\ src' \in Seq(Token) /\ Len(src') = l + 1 /\ src'[l + 1] = token
      /\ src'[Top.at].to = l + 2
      /\ Grows(src, src', Top.at)
  <2>1. l + 2 \in Nat
    BY <1>2
  <2>. QED
    BY <1>1, <1>3, <2>1, PatchFacts
<1>5. /\ cur \in 1 .. n /\ blocks \in Seq(Seq(Inst)) /\ ~ Ahead(frames, cur)
  BY DEF Formed, Typed
<1>6. Jumps(code, Top.next)
  BY <1>2, <1>5, JumpOne DEF Formed
<1>. HIDE DEF code
<1>7. /\ code \in Seq(Inst) /\ code # <<>>
      /\ \A i \in 1 .. Len(code) : code[i].at = l + 1
  <2>1. \A i \in 1 .. Len(code) : i = 1
    BY <1>6 DEF Jumps
  <2>. QED
    BY <1>6, <2>1 DEF Jumps
<1>8. /\ Len(blocks') = n /\ blocks'[cur] = blocks[cur] \o code
      /\ \A b \in 1 .. n : b # cur => blocks'[b] = blocks[b]
  BY <1>1, <1>5, <1>7, EmittedFacts
<1>9. Adds(code)
  <2>1. Len(blocks) <= Len(blocks')
    BY <1>2, <1>8
  <2>2. \A b \in 1 .. Len(blocks) : ~ Ahead(frames, b) =>
           ~ Ahead(frames', b) /\ (b # cur => blocks'[b] = blocks[b])
    BY <1>1, <1>2, <1>8
  <2>. QED
    BY <1>7, <1>8, <2>1, <2>2 DEF Adds
<1>10. ASSUME supported' PROVE Faithful(src', frames', blocks', cur')
  <2>1. Faithful(src, frames, blocks, cur)
    BY <1>1, <1>10 DEF Follow
  <2>2. \A b \in 1 .. n : Ahead(frames, b) => blocks'[b] = <<>>
    BY <1>5, <1>8, <2>1 DEF Faithful, Left
  <2>3. blocks'[cur'] = <<>>
    BY <1>1, <1>2, <2>2
  <2>4. Enters(src', frames', blocks', Top.end, l + 2)
    <3>1. ~ Ahead(frames', Top.end)
      BY <1>1, <1>2
    <3>2. Len(src') + 1 = l + 2
      BY <1>2, <1>4
    <3>. QED
      BY <1>1, <2>3, <3>1, <3>2 DEF Enters
  <2>5. Patch(Top.at)
    <3>1. l + 2 # 0
      BY <1>2
    <3>. QED
      BY <1>1, <1>4, <2>4, <3>1 DEF Patch
  <2>6. Enters(src', frames', blocks', Top.next, Top.at)
    <3>1. Len(frames) \in 1 .. Len(frames) /\ frames[Len(frames)] = Top
      BY <1>1, PopKeeps
    <3>2. LET f == Len(frames) IN Enters(src', frames', blocks', frames[f].next, frames[f].at)
      BY <1>1, <1>9, <2>1, <3>1, WhilesStay
    <3>. QED
      BY <3>1, <3>2
  <2>7. /\ Flows(src', code)
        /\ \A i \in 1 .. Len(code) : Tells(src', frames', blocks', code[i])
    <3>1. /\ src'[l + 1].t = "again" /\ l = Len(src)
          /\ Enters(src', frames', blocks', Top.next, src'[l + 1].to)
      BY <1>3, <1>4, <2>6
    <3>. HIDE DEF l
    <3>. QED
      BY <1>2, <1>4, <1>6, <3>1, JumpTells
  <2>8. /\ \A b \in 1 .. Len(blocks) : Ahead(frames, b) =>
             \/ blocks'[b] = <<>>
             \/ /\ ~ Ahead(frames', b)
                /\ \E new : /\ Jumps(new, Top.end) /\ blocks'[b] = new
                            /\ Flows(src', new)
                            /\ \A i \in 1 .. Len(new) : Tells(src', frames', blocks', new[i])
        /\ \A b \in 1 .. Len(blocks) :
              Ahead(frames, b) /\ ~ Ahead(frames', b) /\ b # cur' => blocks'[b] # <<>>
    <3>1. \A b : Ahead(frames, b) /\ ~ Ahead(frames', b) => b = cur'
      BY <1>1, <1>2
    <3>. QED
      BY <2>2, <3>1
  <2>9. Len(blocks') = Len(blocks)
    BY <1>8
  <2>. QED
    BY <1>1, <1>4, <1>6, <1>9, <2>1, <2>3, <2>5, <2>7, <2>8, <2>9, CloseStep
<1>. QED
  BY <1>1, <1>10, WriteFollows

\* Closing an if keeps the IR faithful: all its branches go on behind it.
LEMMA CloseIfFollows ==
    ASSUME Formed, Follow, CloseIf
    PROVE  Follow'
<1>. DEFINE n == Len(blocks)
            l == Len(src)
            token == Plain("end")
            code == <<After("br", cur, <<>>, Jump(Top.end))>>
            new == <<After("br", Top.next, <<>>, Jump(Top.end))>>
            joined == Emitted(blocks, cur, code)
<1>1. /\ phase = "write" /\ phase' = "write" /\ frames # <<>> /\ Top.kind \in {"then", "else"}
      /\ supported' = supported /\ UNCHANGED run
      /\ blocks' = IF Top.kind = "else" THEN joined ELSE Emitted(joined, Top.next, new)
      /\ cur' = Top.end
      /\ frames' = Popped
      /\ src' = Patched(src, Top.at, l + 1, token)
  BY DEF CloseIf, Patched
<1>2. /\ n \in Nat /\ l \in Nat
      /\ Top.next \in 1 .. n /\ Top.end \in 1 .. n /\ Top.next # Top.end
      /\ ~ Ahead(Popped, Top.end) /\ ~ Ahead(Popped, Top.next) /\ Top.at \in 1 .. l
      /\ \A b : Ahead(frames, b) <=> \/ Ahead(Popped, b)
                                     \/ b = Top.end
                                     \/ Top.kind = "then" /\ b = Top.next
  <2>1. n = Len(blocks) /\ l = Len(src)
    OBVIOUS
  <2>. HIDE DEF n, l
  <2>2. /\ n \in Nat /\ l \in Nat
        /\ Top.next \in 1 .. n /\ Top.end \in 1 .. n /\ Top.next < Top.end
        /\ ~ Ahead(Popped, Top.end) /\ ~ Ahead(Popped, Top.next) /\ Top.at \in 1 .. l
        /\ \A b : Ahead(frames, b) <=> \/ Ahead(Popped, b)
                                       \/ b = Top.end
                                       \/ Top.kind = "then" /\ b = Top.next
    BY <1>1, <2>1, TopFacts
  <2>3. Top.next # Top.end
    BY <2>2
  <2>. QED
    BY <2>2, <2>3
<1>3. token \in Token /\ token.t = "end"
  BY PlainTyped DEF Tokens
<1>. HIDE DEF token
<1>4. /\ src' \in Seq(Token) /\ Len(src') = l + 1 /\ src'[l + 1] = token
      /\ src'[Top.at].to = l + 1
      /\ Grows(src, src', Top.at)
  <2>1. l + 1 \in Nat
    BY <1>2
  <2>. QED
    BY <1>1, <1>3, <2>1, PatchFacts
<1>5. /\ cur \in 1 .. n /\ blocks \in Seq(Seq(Inst)) /\ ~ Ahead(frames, cur)
  BY DEF Formed, Typed
<1>6. Jumps(code, Top.end) /\ Jumps(new, Top.end)
  BY <1>2, <1>5, JumpOne DEF Formed
<1>. HIDE DEF code, new
<1>7. /\ code \in Seq(Inst) /\ code # <<>> /\ new \in Seq(Inst) /\ new # <<>>
      /\ \A i \in 1 .. Len(code) : code[i].at = l + 1
      /\ new[1].at = l + 1
  <2>1. \A i \in 1 .. Len(code) : i = 1
    BY <1>6 DEF Jumps
  <2>. QED
    BY <1>6, <2>1 DEF Jumps
<1>8. /\ joined \in Seq(Seq(Inst)) /\ Len(joined) = n /\ joined[cur] = blocks[cur] \o code
      /\ \A b \in 1 .. n : b # cur => joined[b] = blocks[b]
  BY <1>5, <1>7, EmittedFacts
<1>. HIDE DEF joined
<1>9. /\ Len(blocks') = n /\ blocks'[cur] = blocks[cur] \o code
      /\ \A b \in 1 .. n : b # cur /\ ~ (Top.kind = "then" /\ b = Top.next) => blocks'[b] = blocks[b]
      /\ Top.kind = "then" => blocks'[Top.next] = blocks[Top.next] \o new
  <2>1. CASE Top.kind = "else"
    BY <1>1, <1>8, <2>1
  <2>2. CASE Top.kind = "then"
    <3>1. blocks' = Emitted(joined, Top.next, new) /\ Top.next \in 1 .. Len(joined)
      BY <1>1, <1>2, <1>8, <2>2
    <3>2. /\ Len(blocks') = Len(joined)
          /\ blocks'[Top.next] = joined[Top.next] \o new
          /\ \A b \in 1 .. Len(joined) : b # Top.next => blocks'[b] = joined[b]
      BY <1>7, <1>8, <3>1, EmittedFacts
    <3>3. Top.next # cur
      BY <1>2, <1>5, <2>2
    <3>. QED
      BY <1>2, <1>5, <1>8, <2>2, <3>2, <3>3
  <2>. QED
    BY <1>1, <2>1, <2>2
<1>10. Adds(code)
  <2>1. Len(blocks) <= Len(blocks')
    BY <1>2, <1>9
  <2>2. \A b \in 1 .. Len(blocks) : ~ Ahead(frames, b) =>
           ~ Ahead(frames', b) /\ (b # cur => blocks'[b] = blocks[b])
    BY <1>1, <1>2, <1>9
  <2>. QED
    BY <1>7, <1>9, <2>1, <2>2 DEF Adds
<1>11. ASSUME supported' PROVE Faithful(src', frames', blocks', cur')
  <2>1. Faithful(src, frames, blocks, cur)
    BY <1>1, <1>11 DEF Follow
  <2>2. \A b \in 1 .. n : Ahead(frames, b) => blocks[b] = <<>>
    BY <2>1 DEF Faithful, Left
  <2>3. /\ \A b \in 1 .. n : Ahead(frames, b) /\ ~ (Top.kind = "then" /\ b = Top.next) => blocks'[b] = <<>>
        /\ Top.kind = "then" => blocks'[Top.next] = new
    <3>1. Top.kind = "then" => blocks[Top.next] = <<>>
      BY <1>2, <2>2
    <3>2. <<>> \o new = new
      BY <1>7
    <3>. QED
      BY <1>2, <1>5, <1>9, <2>2, <3>1, <3>2
  <2>4. blocks'[cur'] = <<>>
    BY <1>1, <1>2, <2>3
  <2>5. /\ ~ Ahead(frames', Top.end) /\ ~ Ahead(frames', Top.next)
        /\ Len(src') + 1 = l + 2 /\ l + 1 + 1 = l + 2 /\ l + 1 # 0
    BY <1>1, <1>2, <1>4
  <2>6. Enters(src', frames', blocks', Top.end, l + 2)
    BY <1>1, <2>4, <2>5 DEF Enters
  <2>7. Top.kind = "then" => Enters(src', frames', blocks', Top.next, l + 1)
    BY <1>7, <2>3, <2>5 DEF Enters
  <2>8. Patch(Top.at)
    BY <1>1, <1>4, <2>5, <2>6, <2>7 DEF Patch
  <2>9. /\ Flows(src', code)
        /\ \A i \in 1 .. Len(code) : Tells(src', frames', blocks', code[i])
        /\ Flows(src', new)
        /\ \A i \in 1 .. Len(new) : Tells(src', frames', blocks', new[i])
    <3>1. src'[l + 1].t = "end" /\ l = Len(src)
      BY <1>3, <1>4
    <3>. HIDE DEF l
    <3>. QED
      BY <1>2, <1>4, <1>6, <2>6, <3>1, JumpTells
  <2>10. \A b \in 1 .. Len(blocks) : Ahead(frames, b) =>
             \/ blocks'[b] = <<>>
             \/ /\ ~ Ahead(frames', b)
                /\ \E x : /\ Jumps(x, Top.end) /\ blocks'[b] = x
                          /\ Flows(src', x)
                          /\ \A i \in 1 .. Len(x) : Tells(src', frames', blocks', x[i])
    BY <1>6, <2>3, <2>5, <2>9
  <2>11. \A b \in 1 .. Len(blocks) :
              Ahead(frames, b) /\ ~ Ahead(frames', b) /\ b # cur' => blocks'[b] # <<>>
    <3>1. \A b : Ahead(frames, b) /\ ~ Ahead(frames', b) /\ b # cur' => Top.kind = "then" /\ b = Top.next
      BY <1>1, <1>2
    <3>. QED
      BY <1>7, <2>3, <3>1
  <2>12. Len(blocks') = Len(blocks)
    BY <1>9
  <2>. QED
    BY <1>1, <1>4, <1>6, <1>10, <2>1, <2>4, <2>8, <2>9, <2>10, <2>11, <2>12, CloseStep
<1>. QED
  BY <1>1, <1>11, WriteFollows

\* The empty function is faithful.
LEMMA InitFollows == Init => Follow
<1>. SUFFICES ASSUME Init PROVE Follow
  OBVIOUS
<1>. DEFINE empty == <<>>
            b == <<empty>>
<1>1. /\ blocks = b /\ cur = 1 /\ frames = <<>> /\ src = <<>> /\ phase = "write"
      /\ pos = [block |-> 1, i |-> 1] /\ pc = 1
  BY DEF Init
<1>2. Len(b) = 1 /\ b[1] = empty /\ \A c \in 1 .. Len(b) : c = 1
  OBVIOUS
<1>. HIDE DEF b
<1>3. Len(frames) = 0 /\ Len(src) = 0
  BY <1>1
<1>4. \A c : ~ Ahead(frames, c)
  BY <1>3 DEF Ahead
<1>5. blocks[1] = <<>> /\ \A c \in 1 .. Len(blocks) : c = 1
  BY <1>1, <1>2
<1>6. Left(frames, blocks, cur)
  BY <1>1, <1>4, <1>5 DEF Left
<1>7. Enters(src, frames, blocks, 1, 1)
  BY <1>3, <1>4, <1>5 DEF Enters
<1>8. Faithful(src, frames, blocks, cur)
  <2>1. \A c \in 1 .. Len(blocks) :
           Flows(src, blocks[c]) /\ \A i \in 1 .. Len(blocks[c]) : Tells(src, frames, blocks, blocks[c][i])
    BY <1>5, EmptyFlows
  <2>2. Leads(src, blocks[cur], Len(src) + 1)
    BY <1>1, <1>5, EmptyFlows
  <2>3. \A f \in 1 .. Len(frames) :
           frames[f].kind = "while" => Enters(src, frames, blocks, frames[f].next, frames[f].at)
    BY <1>3
  <2>. QED
    BY <1>6, <1>7, <2>1, <2>2, <2>3 DEF Faithful
<1>9. Follows
  BY <1>1 DEF Follows
<1>. QED
  BY <1>8, <1>9 DEF Follow
-----------------------------------------------------------------------------
(* The second phase *)

\* Where the source goes on depends on the source alone.
LEMMA SettledStays ==
    ASSUME src' = src
    PROVE  Settled' = Settled
  BY DEF Settled, SettledOf

\* Once the function is complete no block is empty.
LEMMA Full ==
    ASSUME frames = <<>>, Left(frames, blocks, cur), blocks[cur] # <<>>, NEW b \in 1 .. Len(blocks)
    PROVE  /\ ~ Ahead(frames, b) /\ blocks[b] # <<>>
           /\ b # cur => blocks[b][Len(blocks[b])].op \in {"br", "br_cond"}
           /\ \A p : Enters(src, frames, blocks, b, p) => Due(src, blocks[b], 1) = p
<1>1. ~ Ahead(frames, b)
  <2>1. Len(frames) = 0
    OBVIOUS
  <2>. QED
    BY <2>1 DEF Ahead
<1>2. /\ blocks[b] # <<>>
      /\ b # cur => blocks[b][Len(blocks[b])].op \in {"br", "br_cond"}
  BY <1>1 DEF Left
<1>3. \A p : Enters(src, frames, blocks, b, p) => p = blocks[b][1].at
  BY <1>2 DEF Enters
<1>4. Due(src, blocks[b], 1) = blocks[b][1].at
  BY DEF Due, Printed
<1>. QED
  BY <1>1, <1>2, <1>3, <1>4

\* The instruction that is a statement's effect stands where the source stops for it.
LEMMA ShownFacts ==
    ASSUME src \in Seq(Token), TokensOK(src, <<>>), NEW code, NEW i, Shown(src, code, i),
           code[i].at \in 1 .. Len(src) + 1, Tells(src, frames, blocks, code[i])
    PROVE  /\ code[i].at \in 1 .. Len(src)
           /\ Due(src, code, i) = code[i].at /\ Settled[code[i].at] = code[i].at
           /\ Past(src, code, i) = code[i].at + 1
           /\ code[i].op = "ret" <=> src[code[i].at].t = "return"
           /\ code[i].op = "br_cond" <=> src[code[i].at].t \in {"if", "while"}
<1>. DEFINE p == code[i].at
            op == code[i].op
            t == src[p].t
<1>1. p \in 1 .. Len(src)
  <2>1. p > Len(src) => op = "ret"
    BY DEF Tells
  <2>2. op = "ret" => p <= Len(src)
    BY DEF Shown
  <2>3. Len(src) \in Nat
    OBVIOUS
  <2>. HIDE DEF p, op
  <2>4. p \in 1 .. Len(src) + 1
    BY DEF p
  <2>. QED
    BY <2>1, <2>2, <2>3, <2>4
<1>2. \/ op = "store" /\ t \in {"let", "assign"}
      \/ op = "br_cond" /\ t \in {"if", "while"}
      \/ op = "ret" /\ t = "return"
      \/ op = "call" /\ t = "print" /\ (i = 1 \/ code[i - 1].at # p)
  BY <1>1 DEF Shown, Tells
<1>3. ~ Printed(src, code, i)
  BY <1>2 DEF Printed
<1>4. SettledAt(p)
  <2>1. p \in 1 .. Len(src) + 1
    OBVIOUS
  <2>. QED
    BY <2>1, SettledFacts
<1>5. t \notin {"else", "end", "again"} /\ p <= Len(src)
  BY <1>1, <1>2
<1>6. Settled[p] = p
  BY <1>4, <1>5 DEF SettledAt
<1>7. Due(src, code, i) = p /\ Past(src, code, i) = p + 1
  BY <1>3 DEF Due, Past
<1>8. (op = "ret" <=> t = "return") /\ (op = "br_cond" <=> t \in {"if", "while"})
  BY <1>2
<1>. QED
  BY <1>1, <1>6, <1>7, <1>8

\* A branch is taken to where the source settles.
LEMMA BranchSettles ==
    ASSUME src \in Seq(Token), TokensOK(src, <<>>), frames = <<>>,
           NEW inst, inst.op = "br", inst.at \in 1 .. Len(src) + 1, Tells(src, frames, blocks, inst)
    PROVE  /\ inst.at <= Len(src) /\ src[inst.at].t # "print"
           /\ \E x : /\ Enters(src, frames, blocks, inst.args[1].n, x)
                     /\ Settled[x] = Settled[inst.at]
<1>. DEFINE p == inst.at
            Goes(x) == Enters(src, frames, blocks, inst.args[1].n, x)
<1>1. p \in 1 .. Len(src)
  <2>1. ~ (p > Len(src))
    BY DEF Tells
  <2>. QED
    BY <2>1
<1>2. \A x \in 1 .. Len(src) + 1 : SettledAt(x)
  BY SettledFacts
<1>3. Len(frames) = 0
  OBVIOUS
<1>4. \/ src[p].t = "while" /\ Goes(p)
      \/ src[p].t = "again" /\ Goes(src[p].to)
      \/ src[p].t = "end" /\ Goes(p + 1)
      \/ src[p].t = "else" /\ Goes(src[p].to + 1)
  BY <1>3 DEF Tells
<1>. HIDE DEF p, Goes
<1>5. p <= Len(src) /\ p \in 1 .. Len(src) + 1 /\ SettledAt(p)
  BY <1>1, <1>2
<1>6. CASE src[p].t = "while" /\ Goes(p)
  BY <1>5, <1>6 DEF Goes, p
<1>7. CASE src[p].t = "again" /\ Goes(src[p].to)
  <2>1. /\ Settled[p] = src[p].to /\ src[p].to \in 1 .. Len(src)
        /\ src[src[p].to].t = "while"
    BY <1>5, <1>7 DEF SettledAt
  <2>2. SettledAt(src[p].to) /\ src[p].to <= Len(src)
    BY <1>2, <2>1
  <2>3. Settled[src[p].to] = src[p].to
    BY <2>1, <2>2 DEF SettledAt
  <2>. QED
    BY <1>5, <1>7, <2>1, <2>3 DEF Goes, p
<1>8. CASE src[p].t = "end" /\ Goes(p + 1)
  <2>1. Settled[p] = Settled[p + 1]
    BY <1>5, <1>8 DEF SettledAt
  <2>. QED
    BY <1>5, <1>8, <2>1 DEF Goes, p
<1>9. CASE src[p].t = "else" /\ Goes(src[p].to + 1)
  <2>1. /\ Settled[p] = Settled[src[p].to] /\ src[p].to \in p + 1 .. Len(src)
        /\ src[src[p].to].t = "end"
    BY <1>5, <1>9 DEF SettledAt
  <2>2. src[p].to \in 1 .. Len(src) + 1 /\ src[p].to <= Len(src)
    BY <1>1, <2>1
  <2>3. SettledAt(src[p].to)
    BY <1>2, <2>2
  <2>4. Settled[src[p].to] = Settled[src[p].to + 1]
    BY <2>1, <2>2, <2>3 DEF SettledAt
  <2>. QED
    BY <1>5, <1>9, <2>1, <2>4 DEF Goes, p
<1>. QED
  BY <1>4, <1>6, <1>7, <1>8, <1>9

\* The end of the function keeps the IR faithful and puts both sides at the start.
LEMMA EndFollows ==
    ASSUME Formed, Follow, EndFunction
    PROVE  Follow'
<1>. DEFINE inst == New("ret", Id(cur, 0), <<>>)
            code == <<inst>>
            n == Len(blocks)
            l == Len(src)
<1>1. /\ l \in Nat /\ n \in Nat /\ cur \in Nat \ {0} /\ cur \in 1 .. n
      /\ blocks \in Seq(Seq(Inst)) /\ Size(cur) \in Nat /\ blocks[cur] \in Seq(Inst)
      /\ src \in Seq(Token) /\ ~ Ahead(frames, cur)
  BY TypedFacts DEF Formed, Typed
<1>2. /\ phase = "write" /\ frames = <<>>
      /\ blocks' = IF Size(cur) > 0 THEN blocks ELSE Emitted(blocks, cur, code)
      /\ phase' = IF supported THEN "run" ELSE "done"
      /\ cur' = cur /\ frames' = frames /\ src' = src /\ supported' = supported
      /\ pos' = pos /\ pc' = pc
  BY DEF EndFunction, run
<1>3. code \in Seq(Inst) /\ code # <<>> /\ Len(code) = 1 /\ code[1].op = "ret" /\ code[1].at = l + 1
  <2>1. <<>> \in Seq(Value) /\ 0 \in Nat
    OBVIOUS
  <2>2. inst \in Inst
    BY <1>1, <2>1, LastTyped
  <2>3. inst.op = "ret" /\ inst.at = l + 1
    BY DEF New
  <2>. HIDE DEF inst
  <2>. QED
    BY <2>2, <2>3
<1>. HIDE DEF code, inst
<1>4. SUFFICES ASSUME supported PROVE Faithful(src', frames', blocks', cur') /\ Follows'
  BY <1>2 DEF Follow
<1>5. Faithful(src, frames, blocks, cur) /\ Follows
  BY <1>4 DEF Follow
<1>6. Faithful(src', frames', blocks', cur') /\ blocks'[cur] # <<>>
  <2>1. CASE Size(cur) > 0
    <3>1. blocks' = blocks
      BY <1>2, <2>1
    <3>2. blocks[cur] # <<>>
      BY <2>1 DEF Size
    <3>3. Faithful(src, frames, blocks, cur)
      BY <1>5
    <3>. QED
      BY <1>2, <3>1, <3>2, <3>3
  <2>2. CASE ~ (Size(cur) > 0)
    <3>1. blocks[cur] = <<>>
      BY <1>1, <2>2 DEF Size
    <3>2. /\ Len(blocks') = n /\ blocks'[cur] = blocks[cur] \o code
          /\ \A b \in 1 .. n : b # cur => blocks'[b] = blocks[b]
      BY <1>1, <1>2, <1>3, <2>2, EmittedFacts
    <3>3. blocks'[cur] = code
      BY <1>3, <3>1, <3>2
    <3>4. \A i \in 1 .. Len(code) : i = 1
      BY <1>3
    <3>5. Adds(code)
      BY <1>1, <1>2, <1>3, <3>2, <3>4 DEF Adds
    <3>6. \A b \in 1 .. n : \A p : Enters(src, frames, blocks, b, p) => Enters(src, frames, blocks', b, p)
      <4>1. \A b \in 1 .. n : \A p : Enters(src, frames, blocks, b, p) => Enters(src', frames', blocks', b, p)
        BY <1>5, <3>5, KeepsStep DEF Faithful
      <4>. QED
        BY <1>2, <4>1
    <3>7. ASSUME NEW b \in 1 .. n, NEW i \in 1 .. Len(blocks[b])
          PROVE  Tells(src, frames, blocks', blocks[b][i])
      <4>. DEFINE x == blocks[b][i]
      <4>1. Targeted(x) /\ Tells(src, frames, blocks, x)
        BY <1>5, Targets DEF Faithful
      <4>. HIDE DEF x
      <4>2. x.op = "br" => \A p : Enters(src, frames, blocks, x.args[1].n, p)
                                    => Enters(src, frames, blocks', x.args[1].n, p)
        BY <3>6, <4>1 DEF Targeted
      <4>3. x.op = "br_cond" => \A p : /\ Enters(src, frames, blocks, x.args[2].n, p)
                                           => Enters(src, frames, blocks', x.args[2].n, p)
                                       /\ Enters(src, frames, blocks, x.args[3].n, p)
                                           => Enters(src, frames, blocks', x.args[3].n, p)
        BY <3>6, <4>1 DEF Targeted
      <4>4. Tells(src, frames, blocks', x)
        BY <4>1, <4>2, <4>3 DEF Tells
      <4>. QED
        BY <4>4 DEF x
    <3>8. Flows(src, code) /\ Leads(src, code, l + 1)
      <4>1. 1 .. Len(code) - 1 = {}
        BY <1>3
      <4>2. Flows(src, code)
        BY <4>1 DEF Flows
      <4>3. Leads(src, code, l + 1)
        BY <1>3 DEF Leads, Leaving
      <4>. QED
        BY <4>2, <4>3
    <3>9. \A i \in 1 .. Len(code) : Tells(src, frames, blocks', code[i])
      <4>1. code[1].op = "ret" /\ ~ (code[1].at <= l)
        BY <1>1, <1>3
      <4>2. Tells(src, frames, blocks', code[1])
        BY <4>1 DEF Tells
      <4>. QED
        BY <3>4, <4>2
    <3>10. \A b \in 1 .. n :
              Flows(src, blocks'[b]) /\ \A i \in 1 .. Len(blocks'[b]) : Tells(src, frames, blocks', blocks'[b][i])
      <4>1. ASSUME NEW b \in 1 .. n
            PROVE  Flows(src, blocks'[b])
                   /\ \A i \in 1 .. Len(blocks'[b]) : Tells(src, frames, blocks', blocks'[b][i])
        <5>1. CASE b = cur
          BY <3>3, <3>8, <3>9, <5>1
        <5>2. CASE b # cur
          <6>1. blocks'[b] = blocks[b] /\ Flows(src, blocks[b])
            BY <1>5, <3>2, <5>2 DEF Faithful
          <6>. QED
            BY <3>7, <6>1
        <5>. QED
          BY <5>1, <5>2
      <4>. QED
        BY <4>1
    <3>11. Left(frames, blocks', cur)
      <4>1. Left(frames, blocks, cur)
        BY <1>5 DEF Faithful
      <4>2. \A b \in 1 .. n : Ahead(frames, b) => b # cur
        BY <1>1
      <4>. QED
        BY <3>2, <4>1, <4>2 DEF Left
    <3>12. Enters(src, frames, blocks', 1, 1)
      <4>1. 1 \in 1 .. n
        BY <1>1
      <4>. QED
        BY <1>5, <3>6, <4>1 DEF Faithful
    <3>13. Len(frames) = 0
      BY <1>2
    <3>14. Faithful(src, frames, blocks', cur)
      BY <3>2, <3>3, <3>8, <3>10, <3>11, <3>12, <3>13 DEF Faithful
    <3>. QED
      BY <1>2, <1>3, <3>3, <3>14
  <2>. QED
    BY <2>1, <2>2
<1>7. Follows'
  <2>1. /\ blocks'[1] # <<>> /\ Due(src', blocks'[1], 1) = 1
    <3>1. 1 \in 1 .. Len(blocks')
      <4>1. Len(blocks') = n
        <5>1. CASE Size(cur) > 0
          BY <1>2, <5>1
        <5>2. CASE ~ (Size(cur) > 0)
          BY <1>1, <1>2, <1>3, <5>2, EmittedFacts
        <5>. QED
          BY <5>1, <5>2
      <4>. QED
        BY <1>1, <4>1
    <3>2. Left(frames', blocks', cur') /\ Enters(src', frames', blocks', 1, 1)
      BY <1>6 DEF Faithful
    <3>3. ~ Ahead(frames', 1)
      BY <3>2 DEF Enters
    <3>4. blocks'[1] # <<>>
      BY <1>2, <1>6, <3>1, <3>2, <3>3 DEF Left
    <3>5. blocks'[1][1].at = 1
      BY <3>2, <3>4 DEF Enters
    <3>. QED
      BY <3>4, <3>5 DEF Due, Printed
  <2>2. pos' = [block |-> 1, i |-> 1] /\ pc' = 1
    BY <1>2, <1>5 DEF Follows
  <2>3. blocks'[1] \in Seq(Inst)
    <3>1. blocks' \in Seq(Seq(Inst)) /\ 1 \in 1 .. Len(blocks')
      <4>1. Formed'
        BY EndFormed
      <4>. QED
        BY <2>2, <4>1 DEF Formed, Typed
    <3>. QED
      BY <3>1
  <2>4. (pos.i <= Size(pos.block))' /\ (pos.i <= Size(pos.block) + 1)'
    <3>1. Len(blocks'[1]) \in Nat /\ Len(blocks'[1]) # 0
      BY <2>1, <2>3
    <3>2. 1 <= Len(blocks'[1]) /\ 1 <= Len(blocks'[1]) + 1
      BY <3>1
    <3>. QED
      BY <2>2, <3>2 DEF Size
  <2>5. Settled'[pc'] = Settled'[Due(src', blocks'[pos'.block], pos'.i)]
    BY <2>1, <2>2
  <2>6. AtInst'
    BY <2>4 DEF AtInst
  <2>7. phase' = "run"
    BY <1>2, <1>4
  <2>. QED
    BY <1>2, <1>6, <2>4, <2>5, <2>6, <2>7 DEF Follows
<1>. QED
  BY <1>6, <1>7

\* The source and the code before an instruction.
LEMMA RunAt ==
    ASSUME Formed, Follow, supported, phase = "run", AtInst,
           NEW b, b = pos.block, NEW i, i = pos.i, NEW code, code = blocks[b]
    PROVE  /\ src \in Seq(Token) /\ TokensOK(src, <<>>) /\ frames = <<>>
           /\ b \in 1 .. Len(blocks) /\ code \in Seq(Inst) /\ i \in 1 .. Len(code)
           /\ code[i] \in Inst /\ code[i].at \in 1 .. Len(src) + 1 /\ Current = code[i]
           /\ Tells(src, frames, blocks, code[i]) /\ Flows(src, code)
           /\ Left(frames, blocks, cur) /\ blocks[cur] # <<>>
           /\ Leads(src, blocks[cur], Len(src) + 1)
           /\ Settled[pc] = Settled[Due(src, code, i)]
           /\ Effect <=> Shown(src, code, i)
           /\ \A p \in 1 .. Len(src) + 1 : SettledAt(p)
<1>1. /\ src \in Seq(Token) /\ TokensOK(src, <<>>) /\ frames = <<>>
      /\ b \in 1 .. Len(blocks) /\ code \in Seq(Inst) /\ i \in 1 .. Len(code)
      /\ Current \in Inst /\ Current.at \in 1 .. Len(src) + 1
  BY RunFacts
<1>2. Current = code[i]
  BY DEF Current
<1>3. Faithful(src, frames, blocks, cur) /\ Follows
  BY DEF Follow
<1>4. Tells(src, frames, blocks, code[i]) /\ Flows(src, code)
      /\ Left(frames, blocks, cur) /\ Leads(src, blocks[cur], Len(src) + 1)
  BY <1>1, <1>3 DEF Faithful
<1>5. blocks[cur] # <<>> /\ Settled[pc] = Settled[Due(src, code, i)]
  BY <1>3 DEF Follows
<1>6. Effect <=> Shown(src, code, i)
  BY DEF Effect, Visible, Shown
<1>7. \A p \in 1 .. Len(src) + 1 : SettledAt(p)
  BY <1>1, SettledFacts
<1>. QED
  BY <1>1, <1>2, <1>4, <1>5, <1>6, <1>7

\* What runs leaves the function as it is, and what it has to show.
LEMMA RunFollows ==
    ASSUME Formed, Follow, phase = "run", UNCHANGED <<ir, frames, src, stmts, supported>>,
           phase' \in {"run", "done"},
           supported => /\ phase' = "run" =>
                             /\ pos'.i <= Size(pos'.block) + 1
                             /\ Settled[pc'] = IF pos'.i <= Size(pos'.block)
                                               THEN Settled[Due(src, blocks[pos'.block], pos'.i)]
                                               ELSE Len(src) + 1
                        /\ phase' = "done" => Settled[pc'] = Len(src) + 1
    PROVE  Follow'
<1>1. blocks' = blocks /\ cur' = cur /\ frames' = frames /\ src' = src /\ supported' = supported
  BY DEF ir
<1>2. Settled' = Settled
  BY <1>1, SettledStays
<1>3. SUFFICES ASSUME supported PROVE Faithful(src', frames', blocks', cur') /\ Follows'
  BY <1>1 DEF Follow
<1>4. Faithful(src, frames, blocks, cur) /\ Follows
  BY <1>3 DEF Follow
<1>5. Faithful(src', frames', blocks', cur')
  BY <1>1, <1>4
<1>6. blocks'[cur'] # <<>>
  BY <1>1, <1>4 DEF Follows
<1>7. Follows'
  BY <1>1, <1>2, <1>3, <1>6 DEF Follows, AtInst, Size
<1>. QED
  BY <1>5, <1>7

\* An instruction that does not leave its block.
LEMMA PlainRuns ==
    ASSUME Formed, Follow, supported, NEW taken, RunInst(taken), Current.op \notin Leaving
    PROVE  /\ phase' = "run" /\ pos'.i <= Size(pos'.block) + 1
           /\ Settled[pc'] = IF pos'.i <= Size(pos'.block)
                             THEN Settled[Due(src, blocks[pos'.block], pos'.i)]
                             ELSE Len(src) + 1
<1>. DEFINE b == pos.block
            i == pos.i
            code == blocks[b]
            p == code[i].at
<1>1. phase = "run" /\ AtInst
  BY DEF RunInst
<1>2. /\ src \in Seq(Token) /\ TokensOK(src, <<>>) /\ frames = <<>>
      /\ b \in 1 .. Len(blocks) /\ code \in Seq(Inst) /\ i \in 1 .. Len(code)
      /\ p \in 1 .. Len(src) + 1 /\ Current = code[i]
      /\ Tells(src, frames, blocks, code[i]) /\ Flows(src, code)
      /\ Left(frames, blocks, cur) /\ blocks[cur] # <<>>
      /\ Leads(src, blocks[cur], Len(src) + 1)
      /\ Settled[pc] = Settled[Due(src, code, i)]
      /\ Effect <=> Shown(src, code, i)
      /\ \A x \in 1 .. Len(src) + 1 : SettledAt(x)
  BY <1>1, RunAt
<1>3. /\ phase' = "run" /\ pos' = [pos EXCEPT !.i = @ + 1]
      /\ pc' = IF Effect /\ Settled[pc] <= Len(src) THEN SourceNext(Settled[pc], taken) ELSE pc
  <2>1. Current.op \notin {"br", "br_cond", "ret"}
    BY DEF Leaving
  <2>. QED
    BY <1>1, <2>1 DEF RunInst
<1>4. pos'.block = b /\ pos'.i = i + 1
  <2>1. pos \in [block : 1 .. Len(blocks), i : Nat \ {0}]
    BY DEF Formed, Typed
  <2>. QED
    BY <1>3, <2>1
<1>5. code[i].op \notin Leaving
  BY <1>2
<1>6. Settled[pc'] = Settled[Past(src, code, i)]
  <2>. HIDE DEF code, i, b
  <2>1. CASE Shown(src, code, i)
    <3>1. /\ p \in 1 .. Len(src) /\ Due(src, code, i) = p /\ Settled[p] = p
          /\ Past(src, code, i) = p + 1
          /\ code[i].op = "ret" <=> src[p].t = "return"
          /\ code[i].op = "br_cond" <=> src[p].t \in {"if", "while"}
      BY <1>2, <2>1, ShownFacts
    <3>2. Settled[pc] = p /\ p <= Len(src)
      BY <1>2, <3>1
    <3>3. pc' = SourceNext(p, taken)
      BY <1>2, <1>3, <2>1, <3>2
    <3>4. src[p].t \notin {"return", "if", "while"}
      BY <1>5, <3>1 DEF Leaving
    <3>5. SourceNext(p, taken) = p + 1
      BY <3>4 DEF SourceNext
    <3>. QED
      BY <3>1, <3>3, <3>5
  <2>2. CASE ~ Shown(src, code, i)
    <3>1. pc' = pc
      BY <1>2, <1>3, <2>2
    <3>2. Past(src, code, i) = Due(src, code, i)
      BY <2>2 DEF Past
    <3>. QED
      BY <1>2, <3>1, <3>2
  <2>. QED
    BY <2>1, <2>2
<1>7. Len(code) \in Nat /\ i + 1 <= Len(code) + 1
  BY <1>2
<1>8. CASE i + 1 <= Len(code)
  <2>1. i \in 1 .. Len(code) - 1
    BY <1>2, <1>8
  <2>2. Due(src, code, i + 1) = Past(src, code, i)
    BY <1>2, <1>5, <2>1 DEF Flows
  <2>. QED
    BY <1>3, <1>4, <1>6, <1>7, <1>8, <2>2 DEF Size
<1>9. CASE ~ (i + 1 <= Len(code))
  <2>1. i = Len(code)
    BY <1>2, <1>9
  <2>2. b = cur
    <3>1. b # cur => code[Len(code)].op \in {"br", "br_cond"}
      BY <1>2, Full
    <3>. QED
      BY <1>5, <2>1, <3>1 DEF Leaving
  <2>3. Past(src, code, i) = Len(src) + 1
    BY <1>2, <1>5, <2>1, <2>2 DEF Leads
  <2>4. Settled[Len(src) + 1] = Len(src) + 1
    <3>1. Len(src) + 1 \in 1 .. Len(src) + 1
      BY <1>2
    <3>2. SettledAt(Len(src) + 1)
      BY <1>2, <3>1
    <3>. QED
      BY <3>2 DEF SettledAt
  <2>. QED
    BY <1>3, <1>4, <1>6, <1>7, <1>9, <2>3, <2>4 DEF Size
<1>. QED
  BY <1>8, <1>9

\* Control enters a block at the token the source is at.
LEMMA EnterSettles ==
    ASSUME blocks \in Seq(Seq(Inst)), frames = <<>>, Left(frames, blocks, cur), blocks[cur] # <<>>,
           NEW c \in 1 .. Len(blocks), NEW x, Enters(src, frames, blocks, c, x),
           Enter(c), Settled[pc'] = Settled[x]
    PROVE  /\ pos'.i <= Size(pos'.block) + 1
           /\ Settled[pc'] = IF pos'.i <= Size(pos'.block)
                             THEN Settled[Due(src, blocks[pos'.block], pos'.i)]
                             ELSE Len(src) + 1
<1>1. blocks[c] # <<>> /\ Due(src, blocks[c], 1) = x
  BY Full
<1>2. blocks[c] \in Seq(Inst)
  OBVIOUS
<1>3. Len(blocks[c]) \in Nat /\ Len(blocks[c]) # 0
  BY <1>1, <1>2
<1>4. 1 <= Size(c) /\ 1 <= Size(c) + 1
  BY <1>3 DEF Size
<1>5. pos'.block = c /\ pos'.i = 1
  BY DEF Enter
<1>. QED
  BY <1>1, <1>4, <1>5

\* A branch.
LEMMA BranchRuns ==
    ASSUME Formed, Follow, supported, NEW taken, RunInst(taken), Current.op = "br"
    PROVE  /\ phase' = "run" /\ pos'.i <= Size(pos'.block) + 1
           /\ Settled[pc'] = IF pos'.i <= Size(pos'.block)
                             THEN Settled[Due(src, blocks[pos'.block], pos'.i)]
                             ELSE Len(src) + 1
<1>. DEFINE b == pos.block
            i == pos.i
            code == blocks[b]
            c == Current.args[1].n
<1>1. phase = "run" /\ AtInst
  BY DEF RunInst
<1>2. /\ src \in Seq(Token) /\ TokensOK(src, <<>>) /\ frames = <<>>
      /\ Current = code[i] /\ Current.at \in 1 .. Len(src) + 1
      /\ Tells(src, frames, blocks, Current)
      /\ Left(frames, blocks, cur) /\ blocks[cur] # <<>>
      /\ Settled[pc] = Settled[Due(src, code, i)]
      /\ Effect <=> Shown(src, code, i)
  <2>1. /\ src \in Seq(Token) /\ TokensOK(src, <<>>) /\ frames = <<>>
        /\ Current = code[i] /\ code[i].at \in 1 .. Len(src) + 1
        /\ Tells(src, frames, blocks, code[i])
        /\ Left(frames, blocks, cur) /\ blocks[cur] # <<>>
        /\ Settled[pc] = Settled[Due(src, code, i)]
        /\ Effect <=> Shown(src, code, i)
    BY <1>1, RunAt
  <2>. QED
    BY <2>1
<1>3. c \in 1 .. Len(blocks) /\ blocks \in Seq(Seq(Inst))
  BY <1>1, RunFacts DEF Formed, Typed
<1>4. phase' = "run" /\ Enter(c)
      /\ pc' = IF Effect /\ Settled[pc] <= Len(src) THEN SourceNext(Settled[pc], taken) ELSE pc
  BY <1>1 DEF RunInst
<1>5. ~ Effect
  <2>1. code[i].op = "br"
    BY <1>2
  <2>. HIDE DEF code, i
  <2>2. ~ Shown(src, code, i)
    BY <2>1 DEF Shown
  <2>. QED
    BY <1>2, <2>2
<1>6. PICK x : /\ Enters(src, frames, blocks, c, x) /\ Settled[x] = Settled[Current.at]
               /\ Current.at <= Len(src) /\ src[Current.at].t # "print"
  <2>1. /\ Current.at <= Len(src) /\ src[Current.at].t # "print"
        /\ \E x : /\ Enters(src, frames, blocks, Current.args[1].n, x)
                  /\ Settled[x] = Settled[Current.at]
    BY <1>2, BranchSettles
  <2>. QED
    BY <2>1
<1>7. Due(src, code, i) = Current.at
  BY <1>2, <1>6 DEF Due, Printed
<1>8. Settled[pc'] = Settled[x]
  BY <1>2, <1>4, <1>5, <1>6, <1>7
<1>. HIDE DEF c
<1>. QED
  BY <1>2, <1>3, <1>4, <1>6, <1>8, EnterSettles

\* A conditional branch.
LEMMA CondRuns ==
    ASSUME Formed, Follow, supported, NEW taken, RunInst(taken), Current.op = "br_cond"
    PROVE  /\ phase' = "run" /\ pos'.i <= Size(pos'.block) + 1
           /\ Settled[pc'] = IF pos'.i <= Size(pos'.block)
                             THEN Settled[Due(src, blocks[pos'.block], pos'.i)]
                             ELSE Len(src) + 1
<1>. DEFINE b == pos.block
            i == pos.i
            code == blocks[b]
            c == Current.args[IF taken THEN 2 ELSE 3].n
            p == Current.at
<1>1. phase = "run" /\ AtInst
  BY DEF RunInst
<1>2. /\ src \in Seq(Token) /\ TokensOK(src, <<>>) /\ frames = <<>>
      /\ Current = code[i] /\ p \in 1 .. Len(src) + 1
      /\ Tells(src, frames, blocks, Current)
      /\ Left(frames, blocks, cur) /\ blocks[cur] # <<>>
      /\ Settled[pc] = Settled[Due(src, code, i)]
      /\ Effect <=> Shown(src, code, i)
  <2>1. /\ src \in Seq(Token) /\ TokensOK(src, <<>>) /\ frames = <<>>
        /\ Current = code[i] /\ code[i].at \in 1 .. Len(src) + 1
        /\ Tells(src, frames, blocks, code[i])
        /\ Left(frames, blocks, cur) /\ blocks[cur] # <<>>
        /\ Settled[pc] = Settled[Due(src, code, i)]
        /\ Effect <=> Shown(src, code, i)
    BY <1>1, RunAt
  <2>. QED
    BY <2>1
<1>3. c \in 1 .. Len(blocks) /\ blocks \in Seq(Seq(Inst))
  <2>1. Current.args[2].n \in 1 .. Len(blocks) /\ Current.args[3].n \in 1 .. Len(blocks)
    BY <1>1, RunFacts
  <2>. QED
    BY <2>1 DEF Formed, Typed
<1>4. phase' = "run" /\ Enter(c)
      /\ pc' = IF Effect /\ Settled[pc] <= Len(src) THEN SourceNext(Settled[pc], taken) ELSE pc
  BY <1>1 DEF RunInst
<1>5. /\ Effect /\ Settled[pc] = p /\ p <= Len(src)
  <2>1. code[i].op = "br_cond" /\ code[i].at = p
    BY <1>2
  <2>2. code[i].at \in 1 .. Len(src) + 1 /\ Tells(src, frames, blocks, code[i])
    BY <1>2
  <2>3. Len(src) \in Nat
    BY <1>2
  <2>. HIDE DEF code, i, p
  <2>4. Shown(src, code, i)
    BY <2>1 DEF Shown
  <2>5. code[i].at \in 1 .. Len(src) /\ Due(src, code, i) = code[i].at /\ Settled[code[i].at] = code[i].at
    BY <1>2, <2>2, <2>4, ShownFacts
  <2>6. p \in 1 .. Len(src)
    BY <2>1, <2>5
  <2>. QED
    BY <1>2, <2>1, <2>3, <2>4, <2>5, <2>6
<1>6. pc' = SourceNext(p, taken)
  BY <1>4, <1>5
<1>7. /\ src[p].t \in {"if", "while"}
      /\ Enters(src, frames, blocks, Current.args[2].n, p + 1)
      /\ Enters(src, frames, blocks, Current.args[3].n, src[p].to)
  <2>1. Len(frames) = 0 /\ Current.op = "br_cond" /\ Tells(src, frames, blocks, Current)
    BY <1>2
  <2>. HIDE DEF p, c, code, b, i
  <2>2. /\ src[Current.at].t \in {"if", "while"}
        /\ Enters(src, frames, blocks, Current.args[2].n, Current.at + 1)
        /\ \/ \E f \in 1 .. Len(frames) : frames[f].at = Current.at
           \/ Enters(src, frames, blocks, Current.args[3].n, src[Current.at].to)
    BY <2>1 DEF Tells
  <2>3. Enters(src, frames, blocks, Current.args[3].n, src[Current.at].to)
    BY <2>1, <2>2
  <2>. QED
    BY <2>2, <2>3 DEF p
<1>8. pc' = IF taken THEN p + 1 ELSE src[p].to
  BY <1>6, <1>7 DEF SourceNext
<1>9. Enters(src, frames, blocks, c, pc') /\ Settled[pc'] = Settled[pc']
  BY <1>7, <1>8
<1>. HIDE DEF c
<1>. QED
  BY <1>2, <1>3, <1>4, <1>9, EnterSettles

\* A return.
LEMMA RetRuns ==
    ASSUME Formed, Follow, supported, NEW taken, RunInst(taken), Current.op = "ret"
    PROVE  phase' = "done" /\ Settled[pc'] = Len(src) + 1
<1>. DEFINE b == pos.block
            i == pos.i
            code == blocks[b]
            p == code[i].at
<1>1. phase = "run" /\ AtInst
  BY DEF RunInst
<1>2. /\ src \in Seq(Token) /\ TokensOK(src, <<>>)
      /\ Current = code[i] /\ p \in 1 .. Len(src) + 1
      /\ Tells(src, frames, blocks, code[i])
      /\ Settled[pc] = Settled[Due(src, code, i)]
      /\ Effect <=> Shown(src, code, i)
      /\ \A x \in 1 .. Len(src) + 1 : SettledAt(x)
  BY <1>1, RunAt
<1>3. phase' = "done"
      /\ pc' = IF Effect /\ Settled[pc] <= Len(src) THEN SourceNext(Settled[pc], taken) ELSE pc
  BY <1>1 DEF RunInst
<1>4. Settled[Len(src) + 1] = Len(src) + 1 /\ Len(src) \in Nat
  <2>1. Len(src) + 1 \in 1 .. Len(src) + 1 /\ Len(src) \in Nat
    BY <1>2
  <2>2. SettledAt(Len(src) + 1)
    BY <1>2, <2>1
  <2>. QED
    BY <2>1, <2>2 DEF SettledAt
<1>5. code[i].op = "ret"
  BY <1>2
<1>. HIDE DEF code, i
<1>6. CASE p <= Len(src)
  <2>1. Shown(src, code, i)
    BY <1>5, <1>6 DEF Shown
  <2>2. /\ Due(src, code, i) = p /\ Settled[p] = p /\ src[p].t = "return"
    BY <1>2, <1>5, <2>1, ShownFacts
  <2>3. pc' = SourceNext(p, taken)
    BY <1>2, <1>3, <1>6, <2>1, <2>2
  <2>4. pc' = Len(src) + 1
    BY <2>2, <2>3 DEF SourceNext
  <2>. QED
    BY <1>3, <1>4, <2>4
<1>7. CASE ~ (p <= Len(src))
  <2>1. p = Len(src) + 1
    BY <1>2, <1>4, <1>7
  <2>2. ~ Shown(src, code, i)
    BY <1>5, <1>7 DEF Shown
  <2>3. Due(src, code, i) = p
    BY <1>7 DEF Due, Printed
  <2>. QED
    BY <1>2, <1>3, <1>4, <2>1, <2>2, <2>3
<1>. QED
  BY <1>6, <1>7

\* One instruction keeps source and IR at the same place.
LEMMA RunInstFollows ==
    ASSUME Formed, Follow, NEW taken \in BOOLEAN, RunInst(taken)
    PROVE  Follow'
<1>1. phase = "run" /\ UNCHANGED <<ir, frames, src, stmts, supported>>
  BY DEF RunInst
<1>2. CASE Current.op \notin Leaving
  <2>1. phase' \in {"run", "done"} /\ (supported => phase' = "run")
    <3>1. Current.op \notin {"br", "br_cond", "ret"}
      BY <1>2 DEF Leaving
    <3>2. phase' = phase
      BY <3>1 DEF RunInst
    <3>. QED
      BY <1>1, <3>2
  <2>2. supported => /\ pos'.i <= Size(pos'.block) + 1
                     /\ Settled[pc'] = IF pos'.i <= Size(pos'.block)
                                       THEN Settled[Due(src, blocks[pos'.block], pos'.i)]
                                       ELSE Len(src) + 1
    BY <1>2, PlainRuns
  <2>. QED
    BY <1>1, <2>1, <2>2, RunFollows
<1>3. CASE Current.op = "br"
  <2>1. phase' = "run"
    BY <1>1, <1>3 DEF RunInst
  <2>2. supported => /\ pos'.i <= Size(pos'.block) + 1
                     /\ Settled[pc'] = IF pos'.i <= Size(pos'.block)
                                       THEN Settled[Due(src, blocks[pos'.block], pos'.i)]
                                       ELSE Len(src) + 1
    BY <1>3, BranchRuns
  <2>. QED
    BY <1>1, <2>1, <2>2, RunFollows
<1>4. CASE Current.op = "br_cond"
  <2>1. phase' = "run"
    BY <1>1, <1>4 DEF RunInst
  <2>2. supported => /\ pos'.i <= Size(pos'.block) + 1
                     /\ Settled[pc'] = IF pos'.i <= Size(pos'.block)
                                       THEN Settled[Due(src, blocks[pos'.block], pos'.i)]
                                       ELSE Len(src) + 1
    BY <1>4, CondRuns
  <2>. QED
    BY <1>1, <2>1, <2>2, RunFollows
<1>5. CASE Current.op = "ret"
  <2>1. phase' = "done"
    BY <1>5 DEF RunInst
  <2>2. supported => Settled[pc'] = Len(src) + 1
    BY <1>5, RetRuns
  <2>. QED
    BY <1>1, <2>1, <2>2, RunFollows
<1>. QED
  BY <1>2, <1>3, <1>4, <1>5 DEF Leaving

\* The IR stops at the end of the last block, where the source has ended.
LEMMA StopFollows ==
    ASSUME Formed, Follow, RunEnd
    PROVE  Follow'
<1>1. /\ phase = "run" /\ phase' = "done" /\ ~ AtInst /\ pc' = pc
      /\ UNCHANGED <<ir, frames, src, stmts, supported>>
  BY DEF RunEnd, run
<1>2. supported => Settled[pc'] = Len(src) + 1
  BY <1>1 DEF Follow, Follows
<1>. QED
  BY <1>1, <1>2, RunFollows

\* What changes nothing.
LEMMA StutterFollows ==
    ASSUME Formed, Follow, UNCHANGED vars
    PROVE  Follow'
<1>1. /\ blocks' = blocks /\ cur' = cur /\ frames' = frames /\ src' = src
      /\ supported' = supported /\ phase' = phase /\ pos' = pos /\ pc' = pc
  BY DEF vars
<1>2. Settled' = Settled
  BY <1>1, SettledStays
<1>3. Follows' = Follows
  BY <1>1, <1>2 DEF Follows, AtInst, Size
<1>. QED
  BY <1>1, <1>3 DEF Follow

\* Every step keeps the IR faithful and at the source's place.
LEMMA NextFollows ==
    ASSUME Formed, Follow, [Next]_vars
    PROVE  Follow'
<1>1. CASE Stated
  BY <1>1, StatedFollows
<1>2. CASE \E e \in Conds : OpenIf(e)
  BY <1>2, IfFollows
<1>3. CASE \E e \in Conds : OpenWhile(e)
  BY <1>3, WhileFollows
<1>4. CASE UnloweredStmt
  BY <1>4, UnloweredFollows
<1>5. CASE ElseIf
  BY <1>5, ElseIfFollows
<1>6. CASE CloseIf
  BY <1>6, CloseIfFollows
<1>7. CASE CloseWhile
  BY <1>7, CloseWhileFollows
<1>8. CASE EndFunction
  BY <1>8, EndFollows
<1>9. CASE \E taken \in BOOLEAN : RunInst(taken)
  BY <1>9, RunInstFollows
<1>10. CASE RunEnd
  BY <1>10, StopFollows
<1>11. CASE UNCHANGED vars
  BY <1>11, StutterFollows
<1>. QED
  BY <1>1, <1>2, <1>3, <1>4, <1>5, <1>6, <1>7, <1>8, <1>9, <1>10, <1>11, Steps

\* While a function of lowered statements is written, every block takes the source's
\* tokens in their order and every branch goes where the source goes; while it runs, the
\* source is where the next instruction was emitted for (lower_stmt).
THEOREM LowerFollows == Spec => [](Formed /\ Follow)
<1>1. Init => Formed /\ Follow
  BY InitFormed, InitFollows
<1>2. Formed /\ Follow /\ [Next]_vars => (Formed /\ Follow)'
  <2>. SUFFICES ASSUME Formed, Follow, [Next]_vars PROVE Formed' /\ Follow'
    OBVIOUS
  <2>1. Formed'
    BY NextFormed
  <2>2. Follow'
    BY NextFollows
  <2>. QED
    BY <2>1, <2>2
<1>. QED
  BY <1>1, <1>2, PTL DEF Spec

\* At an effect both sides are at its statement, and they end together.
LEMMA FollowAgrees ==
    ASSUME Formed, Follow
    PROVE  PathsAgree
<1>. SUFFICES ASSUME supported
              PROVE  /\ phase = "run" /\ AtInst /\ Effect => Current.at = Settled[pc]
                     /\ phase = "done" => Settled[pc] = Len(src) + 1
  BY DEF PathsAgree
<1>1. phase = "done" => Settled[pc] = Len(src) + 1
  BY DEF Follow, Follows
<1>2. ASSUME phase = "run", AtInst, Effect PROVE Current.at = Settled[pc]
  <2>. DEFINE code == blocks[pos.block]
              i == pos.i
  <2>1. /\ src \in Seq(Token) /\ TokensOK(src, <<>>)
        /\ code[i].at \in 1 .. Len(src) + 1 /\ Current = code[i]
        /\ Tells(src, frames, blocks, code[i])
        /\ Settled[pc] = Settled[Due(src, code, i)]
        /\ Effect <=> Shown(src, code, i)
    BY <1>2, RunAt
  <2>. HIDE DEF code, i
  <2>2. Shown(src, code, i)
    BY <1>2, <2>1
  <2>3. Due(src, code, i) = code[i].at /\ Settled[code[i].at] = code[i].at
    BY <2>1, <2>2, ShownFacts
  <2>. QED
    BY <2>1, <2>3
<1>. QED
  BY <1>1, <1>2

\* On every path, the instructions of a function have the effects its source has, in its
\* order, and end when it does: what lower_stmt emits for ifs, elses and whiles, whatever
\* their conditions and however deep they are nested, goes through the source's statements.
THEOREM LowerPathsAgree == Spec => []PathsAgree
<1>1. Formed /\ Follow => PathsAgree
  BY FollowAgrees
<1>. QED
  BY <1>1, LowerFollows, PTL
=============================================================================
