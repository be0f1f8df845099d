------------------------------ MODULE TypeCheck ------------------------------
(***************************************************************************)
(* The type checker of src/typecheck.c over the scopes of                  *)
(* src/symbol_table.c.  The program is written while it is checked, in     *)
(* the order of the visits: an expression is a postfix sequence of steps   *)
(* on `values`, the types ty_infer_expr has returned and that are not used *)
(* yet, a statement uses them up, a scope is opened and closed around its  *)
(* body.  Types are cells of a heap, for they are shared and written to.   *)
(*                                                                         *)
(* A type variable keeps its number where it later keeps what it is bound  *)
(* to (types.h: bit_width and ptr.pointee are members of one union), so    *)
(* only variable 0 can be looked at; what happens to the others, and to    *)
(* whatever else is read through a pointer that is none, is `broken`.      *)
(* Kinds of types that behave alike have one representative.  Forms the    *)
(* parser does not produce, the built-in names (int, print and the like),   *)
(* messages and counters are left out.                                     *)
(***************************************************************************)
EXTENDS Naturals, Sequences, FiniteSets, TLC

CONSTANTS
    Names,          \* identifiers of the program
    Annotations,    \* the types a program may write down
    NameKinds,      \* whether AST names run to the end of the source: TRUE as the parser
                    \* makes them, FALSE if they ended with the identifier
    MaxCells,       \* bound: types made besides the built-in ones
    MaxValues,      \* bound: operands waiting at one time
    MaxScopes,      \* bound: scopes open at one time
    MaxSteps,       \* bound: steps of the walk
    MaxErrors       \* errors are counted up to this bound

ASSUME CheckAssumption ==
    /\ NameKinds \subseteq BOOLEAN
    /\ MaxCells \in Nat /\ MaxValues \in Nat /\ MaxScopes \in Nat
    /\ MaxSteps \in Nat /\ MaxErrors \in Nat \ {0}

VARIABLES
    suffixed,   \* the kind of names this program has; never changes
    heap,       \* sequence of the types there are
    numbered,   \* a type variable was made: the next has a number above 0
    scopes,     \* environments and their symbol tables, the innermost last
    values,     \* types of the operands not used yet
    errors,     \* ctx->diag.error_count
    phase,      \* walking, accepted, rejected or broken
    steps       \* steps taken, up to the bound

vars == <<suffixed, heap, numbered, scopes, values, errors, phase, steps>>

-----------------------------------------------------------------------------
(* Types *)

\* `id` is the number of a variable, the width of an integer or the length of
\* an array, NoLength for a slice; `link` what a variable is bound to.
Cell(kind, parts) == [kind |-> kind, parts |-> parts, name |-> "", link |-> 0, id |-> 0]
NoLength == 100
Named(kind, name, parts) == [Cell(kind, parts) EXCEPT !.name = name]

\* Singletons of the type table (ty_infer is what `auto` stands for) and an
\* integer literal's own type, which has no width.
BuiltIns == <<Cell("VOID", <<>>), Cell("BOOL", <<>>), [Cell("I32", <<>>) EXCEPT !.id = 32],
              Cell("ERROR", <<>>), Cell("INFER", <<>>), Cell("I64", <<>>)>>
Void == 1
Bool == 2
I32 == 3
Error == 4
Auto == 5
IntLiteral == 6

Composite == {"ARRAY", "REF", "MUTREF", "TUPLE", "FN"}

\* What ty_resolve goes on to from the type c.
Below(h, c) ==
    IF h[c].kind = "INFER" THEN {h[c].link} \ {0}
    ELSE IF h[c].kind \in Composite THEN {h[c].parts[k] : k \in DOMAIN h[c].parts} \ {0}
    ELSE {}

\* No path through types is longer, for of the singletons only auto leads on.
Depth(h) == Len(h) - Len(BuiltIns) + 1

\* All it comes to from the types in S.
Reach(h, S) ==
    LET go[n \in 0..Depth(h)] ==
            IF n = 0 THEN S
            ELSE LET before == go[n - 1] IN before \cup UNION {Below(h, c) : c \in before}
    IN go[Depth(h)]

Cyclic(h, c) ==
    Below(h, c) # {} /\ \E d \in Reach(h, {c}) : Below(h, d) # {} /\ d \in Reach(h, Below(h, d))
Unbound(h, c) == h[c].kind = "INFER" /\ h[c].link = 0

\* ty_resolve cannot return: it goes round for ever, or reads the number of a
\* type variable as a pointer.
Unresolvable(h, c) ==
    Cyclic(h, c) \/ \E d \in Reach(h, {c}) : Unbound(h, d) /\ h[d].id > 0

\* Slip: a bound variable is taken for itself.
RootSlip(h, c) == c

\* ty_resolve on a variable
Root(h, c) ==
    LET chain[n \in 0..Depth(h)] ==
            IF n = 0 THEN c
            ELSE LET d == chain[n - 1]
                 IN IF h[d].kind = "INFER" /\ h[d].link > 0 THEN h[d].link ELSE d
    IN chain[Depth(h)]

\* ty_resolve on the rest: parts that are bound variables are replaced.
Compressed(h, c) ==
    LET compounds == {d \in Reach(h, {c}) : h[d].kind \in Composite}
    IN IF compounds = {} THEN h
       ELSE [d \in DOMAIN h |->
               IF d \in compounds
               THEN [h[d] EXCEPT !.parts = [k \in DOMAIN @ |-> IF @[k] = 0 THEN 0 ELSE Root(h, @[k])]]
               ELSE h[d]]

\* ty_occurs with no variable to look for: reading its number is the end.
\* It does not look behind &mut.
OccursCheckFails(h, c) ==
    LET go[n \in 0..Depth(h)] ==
            IF n = 0 THEN {c}
            ELSE LET before == go[n - 1]
                 IN before \cup UNION {Below(h, d) : d \in {e \in before : h[e].kind # "MUTREF"}}
    IN \E d \in go[Depth(h)] : h[d].kind = "INFER"

\* strcmp = 0, for names of two places in the source
Same(n, m) == ~suffixed /\ n = m

-----------------------------------------------------------------------------
(* ty_unify: whether it succeeds, the heap it leaves, whether it reports an *)
(* error and whether it survives                                            *)

Answer(ok, h) == [ok |-> ok, heap |-> h, reported |-> FALSE, broken |-> FALSE]

Refuse(h) == [Answer(FALSE, h) EXCEPT !.reported = TRUE]
Silently(h) == Answer(FALSE, h)   \* as two enums are refused
Breaks(h) == [Answer(FALSE, h) EXCEPT !.broken = TRUE]

Bound(h, v, c) == [d \in DOMAIN h |-> IF d = v THEN [h[d] EXCEPT !.link = c] ELSE h[d]]

\* Slip: the occurs check lets everything pass.
BindSlip(h, v, c) == Answer(TRUE, Bound(h, v, c))

Bind(h, v, c) == IF OccursCheckFails(h, c) THEN Breaks(h) ELSE Answer(TRUE, Bound(h, v, c))

Widens(from, to) == from = "I32" /\ to = "I64"

RECURSIVE Unify(_, _, _), UnifyParts(_, _, _)

UnifyResolved(h, x, y) ==
    LET a == h[x]
        b == h[y]
    IN CASE x = y -> Answer(TRUE, h)
         [] x # y /\ a.kind = "INFER" -> Bind(h, x, y)
         [] x # y /\ a.kind # "INFER" /\ b.kind = "INFER" -> Bind(h, y, x)
         [] OTHER ->
              IF a.kind # b.kind
              THEN IF Widens(a.kind, b.kind) THEN Answer(TRUE, h) ELSE Refuse(h)
              ELSE IF a.kind \in Composite
              THEN IF Len(a.parts) # Len(b.parts) \/ (a.id # b.id /\ NoLength \notin {a.id, b.id})
                   THEN Refuse(h)
                   ELSE UnifyParts(h, a.parts, b.parts)
              ELSE IF a.kind = "STRUCT" /\ ~Same(a.name, b.name) THEN Refuse(h)
              ELSE IF a.kind = "ENUM" /\ ~Same(a.name, b.name) THEN Silently(h)
              ELSE Answer(TRUE, h)

Unify(h, a, b) ==
    IF a = 0 \/ b = 0 THEN Answer(TRUE, h)
    ELSE IF "ERROR" \in {h[a].kind, h[b].kind} THEN Answer(TRUE, h)
    ELSE IF Unresolvable(h, a) \/ Unresolvable(h, b) THEN Breaks(h)
    ELSE UnifyResolved(Compressed(Compressed(h, a), b), Root(h, a), Root(h, b))

UnifyParts(h, s, t) ==
    IF s = <<>> THEN Answer(TRUE, h)
    ELSE LET first == Unify(h, Head(s), Head(t))
         IN IF first.ok THEN UnifyParts(first.heap, Tail(s), Tail(t)) ELSE first

-----------------------------------------------------------------------------
(* The walk *)

Init ==
    /\ suffixed \in NameKinds
    /\ heap = BuiltIns /\ numbered = FALSE
    /\ scopes = <<[kind |-> "global", names |-> <<>>, ret |-> 0, in_loop |-> FALSE, fn |-> <<>>]>>
    /\ values = <<>>
    /\ errors = 0
    /\ phase = "walking" /\ steps = 0

Walking == phase = "walking"
here == scopes[Len(scopes)]
AtTop == Len(scopes) = 1 /\ values = <<>>
StatementStart == values = <<>>

Operand(k) == values[Len(values) + 1 - k]         \* the k-th from the end
Without(n) == SubSeq(values, 1, Len(values) - n)  \* all but the last n

Report(n) == errors' = IF errors + n > MaxErrors THEN MaxErrors ELSE errors + n

Fits(h, vs) == Len(h) <= Len(BuiltIns) + MaxCells /\ Len(vs) <= MaxValues

\* The expression has the type c, in the heap h.
Yields(h, vs, c) ==
    /\ Fits(h, Append(vs, c))
    /\ heap' = h /\ values' = Append(vs, c)
    /\ UNCHANGED <<numbered, scopes, phase>>

Quietly == UNCHANGED errors
Complains == Report(1)

\* ty_fresh_var
FreshVar == [Cell("INFER", <<>>) EXCEPT !.id = IF numbered THEN 1 ELSE 0]

YieldsFresh(h, vs) ==
    /\ Fits(Append(h, FreshVar), Append(vs, 0))
    /\ heap' = Append(h, FreshVar) /\ values' = Append(vs, Len(h) + 1)
    /\ numbered' = TRUE
    /\ UNCHANGED <<scopes, phase>>

Broken == phase' = "broken" /\ UNCHANGED <<heap, numbered, scopes, values, errors>>

\* What a ty_unify reports, and `extra` errors if it failed.
Unified(answer, extra) ==
    Report((IF answer.reported THEN 1 ELSE 0) + (IF answer.ok THEN 0 ELSE extra))

-----------------------------------------------------------------------------
(* Symbols *)

\* ket_sym_insert: the first symbol of a name in a scope stays.  Names that run
\* to the end of the source never equal a later one.
Insert(scope, name, c) ==
    IF suffixed \/ name \in DOMAIN scope.names THEN scope
    ELSE [scope EXCEPT !.names = (name :> c) @@ @]

Declared(scope, name) == name \in DOMAIN scope.names   \* ket_sym_lookup_current

\* ket_sym_lookup; 0 when there is no such symbol
Lookup(name) ==
    LET found == {i \in DOMAIN scopes : Declared(scopes[i], name)}
    IN IF found = {} THEN 0
       ELSE scopes[CHOOSE i \in found : \A j \in found : j <= i].names[name]

-----------------------------------------------------------------------------
(* Expressions: ty_infer_expr *)

\* Annotations: a built-in type, or a new type around one (parse_type_path).
Bare(a) == a.wrap = ""
Written(h, a) ==
    IF Bare(a) THEN h
    ELSE Append(h, [Cell(a.wrap, IF a.wrap = "STRUCT" THEN <<>> ELSE <<a.base>>)
                       EXCEPT !.name = a.name,
                              !.id = IF a.wrap = "ARRAY" THEN NoLength ELSE 0])
WrittenCell(h, a) == IF Bare(a) THEN a.base ELSE Len(h) + 1

\* Integers; a Boolean comes from a comparison.
Literal == Yields(heap, values, IntLiteral) /\ Quietly

\* null; ranges, references, `?`, await and the other nodes without a case:
\* what is inside them is not visited.
Unwalked == YieldsFresh(heap, values) /\ Quietly

\* The operand of a cast is not visited either; only casts to built-in types
\* are looked at.
CastTo == \E a \in {b \in Annotations : Bare(b)} : Yields(heap, values, a.base) /\ Quietly

Ident ==
    \E n \in Names \cup {"self"} :
        IF Lookup(n) = 0 THEN Yields(heap, values, Error) /\ Complains
        ELSE Yields(heap, values, Lookup(n)) /\ Quietly

Arithmetic ==
    /\ Len(values) >= 2
    /\ LET u == Unify(heap, Operand(2), Operand(1))
       IN IF u.broken THEN Broken
          ELSE Yields(u.heap, Without(2), IF u.ok THEN Operand(2) ELSE Error) /\ Unified(u, 0)

Compare ==
    /\ Len(values) >= 2
    /\ LET u == Unify(heap, Operand(2), Operand(1))
       IN IF u.broken THEN Broken ELSE Yields(u.heap, Without(2), Bool) /\ Unified(u, 0)

Logic ==
    /\ Len(values) >= 2
    /\ LET l == Unify(heap, Operand(2), Bool)
           r == Unify(l.heap, Operand(1), Bool)
       IN IF l.broken \/ r.broken THEN Broken
          ELSE /\ Yields(r.heap, Without(2), Bool)
               /\ Report(IF l.ok /\ r.ok THEN 0 ELSE 2)

\* & | ^ << >> and the operators without a case
Leftmost == Len(values) >= 2 /\ Yields(heap, Without(2), Operand(2)) /\ Quietly

Not ==
    /\ values # <<>>
    /\ LET u == Unify(heap, Operand(1), Bool)
       IN IF u.broken THEN Broken ELSE Yields(u.heap, Without(1), Bool) /\ Unified(u, 1)

\* Whatever the operand is, the first word of its union is read as a type.
Deref ==
    /\ values # <<>>
    /\ LET t == heap[Operand(1)]
       IN CASE t.kind \in {"REF", "MUTREF", "ARRAY"} ->
                   Yields(heap, Without(1), t.parts[1]) /\ Quietly
            [] t.kind = "INFER" /\ t.link > 0 -> Yields(heap, Without(1), t.link) /\ Quietly
            [] t.kind \in {"FN", "TUPLE", "STRUCT", "ENUM"} \/ (t.id > 0 /\ t.link = 0) -> Broken
            [] OTHER -> YieldsFresh(heap, Without(1)) /\ Quietly

\* Functions have at most one parameter here.  The callee's type is not resolved
\* first: a variable bound to a function is called as something unknown.
CallExpr ==
    \E argc \in 0..1 :
        /\ Len(values) > argc
        /\ LET callee == heap[Operand(argc + 1)]
               ret == callee.parts[Len(callee.parts)]
               u == Unify(heap, callee.parts[1], Operand(1))
           IN IF callee.kind # "FN" THEN YieldsFresh(heap, Without(argc + 1)) /\ Quietly
              ELSE IF Len(callee.parts) # argc + 1
              THEN Yields(heap, Without(argc + 1), Error) /\ Complains
              ELSE IF argc = 0 THEN Yields(heap, Without(1), ret) /\ Quietly
              ELSE IF u.broken THEN Broken
              ELSE Yields(u.heap, Without(2), ret) /\ Unified(u, 0)

\* A struct and an enum have one field or variant, called "m", or none.
Member ==
    /\ values # <<>>
    /\ LET c == Operand(1)
           h == Compressed(heap, c)
           t == h[Root(heap, c)]
       IN IF Unresolvable(heap, c) THEN Broken
          ELSE \E known \in BOOLEAN :
            CASE t.kind \in {"STRUCT", "ENUM"} /\ known /\ t.parts # <<>> ->
                     Yields(h, Without(1), t.parts[1]) /\ Quietly
              [] t.kind = "STRUCT" /\ ~known /\ t.parts # <<>> ->
                     YieldsFresh(h, Without(1)) /\ Complains
              [] OTHER -> ~known /\ YieldsFresh(h, Without(1)) /\ Quietly

Index ==
    /\ Len(values) >= 2
    /\ LET target == heap[Operand(2)]
       IN /\ IF heap[Operand(1)].kind \in {"I64", "I32", "INFER"} THEN Quietly ELSE Complains
          /\ IF target.kind = "ARRAY" THEN Yields(heap, Without(2), target.parts[1])
             ELSE YieldsFresh(heap, Without(2))

\* No symbol is ever marked mutable, so a variable cannot be assigned to.
AssignName ==
    /\ values # <<>>
    /\ \E n \in Names :
        LET target == Lookup(n)
            u == Unify(heap, target, Operand(1))
        IN IF target = 0 THEN Yields(heap, Without(1), Operand(1)) /\ Complains
           ELSE IF u.broken THEN Broken
           ELSE /\ Yields(u.heap, Without(1), Operand(1))
                /\ Report(IF u.reported THEN 2 ELSE 1)

\* Any other target; it is visited after the value.
Assign ==
    /\ Len(values) >= 2
    /\ LET u == Unify(heap, Operand(1), Operand(2))
       IN IF u.broken THEN Broken ELSE Yields(u.heap, Without(2), Operand(2)) /\ Unified(u, 0)

TupleOf ==
    \/ Yields(heap, values, Void) /\ Quietly
    \/ /\ Len(values) >= 2
       /\ Yields(Append(heap, Cell("TUPLE", <<Operand(2), Operand(1)>>)), Without(2), Len(heap) + 1)
       /\ Quietly

EmptyArray ==
    LET h == heap \o <<FreshVar, Cell("ARRAY", <<Len(heap) + 1>>)>>
    IN /\ Fits(h, Append(values, 0))
       /\ heap' = h /\ values' = Append(values, Len(h))
       /\ numbered' = TRUE
       /\ Quietly /\ UNCHANGED <<scopes, phase>>

ArrayOf ==
    \E n \in 1..2 :
        /\ Len(values) >= n
        /\ LET u == IF n = 1 THEN Answer(TRUE, heap) ELSE Unify(heap, Operand(2), Operand(1))
           IN IF u.broken THEN Broken
              ELSE /\ Yields(Append(u.heap, [Cell("ARRAY", <<Operand(n)>>) EXCEPT !.id = n]),
                             Without(n), Len(heap) + 1)
                   /\ Unified(u, 0)

Expression ==
    /\ Walking
    /\ \/ Literal \/ Unwalked \/ CastTo \/ Ident
       \/ Arithmetic \/ Compare \/ Logic \/ Leftmost \/ Not \/ Deref
       \/ CallExpr \/ Member \/ Index \/ AssignName \/ Assign \/ TupleOf
       \/ ArrayOf \/ EmptyArray

-----------------------------------------------------------------------------
(* Statements: ty_check_stmt *)

UsesAll(n) == Len(values) = n /\ values' = <<>>

\* Expression statements and the expression of a match; the arms of a match
\* bind nothing and their bodies are statements like any other.
Discard == UsesAll(1) /\ Quietly /\ UNCHANGED <<heap, numbered, scopes, phase>>

\* let with one name; the type written and the type of the value are unified
\* before the name is looked at.
VarDecl ==
    \E n \in Names, typed \in BOOLEAN, a \in Annotations :
        /\ Len(values) <= 1 /\ (typed \/ Bare(a))
        /\ LET h == IF typed THEN Written(heap, a) ELSE heap
               written == IF typed THEN WrittenCell(heap, a) ELSE 0
               init == IF values = <<>> THEN 0 ELSE Operand(1)
               u == Unify(h, written, init)
               final == IF typed THEN written ELSE init
           IN IF u.broken THEN Broken
              ELSE /\ values' = <<>> /\ phase' = phase
                   /\ IF final = 0
                      THEN Fits(Append(h, FreshVar), <<>>) /\ heap' = Append(h, FreshVar) /\ numbered' = TRUE
                      ELSE Fits(h, <<>>) /\ heap' = u.heap /\ numbered' = numbered
                   /\ LET c == IF final = 0 THEN Len(h) + 1 ELSE final
                          again == Declared(here, n)
                      IN /\ scopes' = [scopes EXCEPT ![Len(scopes)] = Insert(@, n, c)]
                         /\ Report((IF u.reported THEN 1 ELSE 0) + (IF again THEN 1 ELSE 0))

Open(kind, in_loop, names) ==
    /\ Len(scopes) < MaxScopes
    /\ scopes' = Append(scopes, [kind |-> kind, names |-> names, ret |-> here.ret,
                                 in_loop |-> in_loop, fn |-> <<>>])

\* Slip: a block inside a loop is not in the loop.
OpenBlockSlip ==
    /\ StatementStart
    /\ Open("block", FALSE, <<>>)
    /\ Quietly /\ UNCHANGED <<heap, numbered, values, phase>>

\* A block, the block of an else branch or of a match arm.
OpenBlock ==
    /\ StatementStart
    /\ Open("block", here.in_loop, <<>>)
    /\ Quietly /\ UNCHANGED <<heap, numbered, values, phase>>

\* The condition of if and while; the scope made besides the block's own holds
\* no name.
Condition(kind, in_loop) ==
    /\ Len(values) = 1
    /\ LET u == Unify(heap, Operand(1), Bool)
       IN IF u.broken THEN Broken
          ELSE /\ heap' = u.heap /\ values' = <<>>
               /\ Open(kind, in_loop, <<>>)
               /\ Unified(u, 0)
               /\ UNCHANGED <<numbered, phase>>

OpenIf == Condition("if", here.in_loop)
OpenWhile == Condition("loop", TRUE)

OpenLoop ==
    /\ StatementStart
    /\ Open("loop", TRUE, <<>>)
    /\ Quietly /\ UNCHANGED <<heap, numbered, values, phase>>

\* A type variable is made for the element even if it is known; the name is
\* in the scope around the body's.
OpenFor ==
    \E n \in Names :
        /\ Len(values) = 1 /\ values' = <<>>
        /\ Fits(Append(heap, FreshVar), <<>>)
        /\ heap' = Append(heap, FreshVar) /\ numbered' = TRUE
        /\ LET element == IF heap[Operand(1)].kind = "ARRAY"
                          THEN heap[Operand(1)].parts[1] ELSE Len(heap) + 1
           IN Open("loop", TRUE, IF suffixed THEN <<>> ELSE n :> element)
        /\ Quietly /\ UNCHANGED phase

Return ==
    /\ Len(values) <= 1
    /\ LET u == Unify(heap, Operand(1), here.ret)
       IN IF values = <<>>
          THEN /\ Report(IF here.ret # 0 /\ heap[here.ret].kind # "VOID" THEN 1 ELSE 0)
               /\ UNCHANGED <<heap, values, phase>>
          ELSE IF u.broken THEN Broken
          ELSE heap' = u.heap /\ values' = <<>> /\ Unified(u, 0) /\ phase' = phase
    /\ UNCHANGED <<numbered, scopes>>

\* break and continue; the value of a break is not visited
Break ==
    /\ StatementStart
    /\ Report(IF here.in_loop THEN 0 ELSE 1)
    /\ UNCHANGED <<heap, numbered, scopes, values, phase>>

Statement ==
    /\ Walking
    /\ \/ Discard \/ VarDecl \/ OpenBlock \/ OpenIf \/ OpenWhile \/ OpenLoop \/ OpenFor
       \/ Return \/ Break

-----------------------------------------------------------------------------
(* Declarations: ty_check_decl, ty_check_fn; a method of an impl block is a *)
(* function of the module                                                   *)

ToGlobal(n, c) == scopes' = [scopes EXCEPT ![1] = Insert(@, n, c)]

\* A second type of the same name is passed over in silence.
StructDecl ==
    /\ AtTop
    /\ \E n \in Names, a \in {b \in Annotations : Bare(b)} :
        /\ Fits(Append(heap, 0), <<>>)
        /\ heap' = Append(heap, Named("STRUCT", n, <<a.base>>))
        /\ ToGlobal(n, Len(heap) + 1)
    /\ Quietly /\ UNCHANGED <<numbered, values, phase>>

\* The payload types are not where the parser has put them: each is a type
\* variable of its own.
EnumDecl ==
    /\ AtTop
    /\ \E n \in Names, payload \in BOOLEAN :
        LET h == IF payload THEN Append(heap, FreshVar) ELSE heap
        IN /\ Fits(Append(h, 0), <<>>)
           /\ heap' = Append(h, Named("ENUM", n, IF payload THEN <<Len(h)>> ELSE <<Void>>))
           /\ ToGlobal(n, Len(h) + 1)
           /\ numbered' = (numbered \/ payload)
    /\ Quietly /\ UNCHANGED <<values, phase>>

\* The name of a type alias is overwritten by its type; it declares nothing.
TraitDecl ==
    /\ AtTop
    /\ \E n \in Names : ToGlobal(n, Void)
    /\ Quietly /\ UNCHANGED <<heap, numbered, values, phase>>

\* The parameters and the body have a scope each; `self` is not declared.  The
\* type returned is the parameter's or what that is made of.
OpenFn ==
    /\ AtTop
    /\ Len(scopes) + 2 <= MaxScopes
    /\ \E n \in Names, p \in Names \cup {"self", ""}, a \in Annotations :
        /\ p \in {"self", ""} => Bare(a)
        /\ LET h == IF p \in Names THEN Written(heap, a) ELSE heap
               c == WrittenCell(heap, a)
               params == IF p = "" THEN <<>> ELSE IF p = "self" THEN <<0>> ELSE <<c>>
               scope == [kind |-> "fn", names |-> IF p \in Names /\ ~suffixed THEN p :> c ELSE <<>>,
                         ret |-> a.base, in_loop |-> FALSE, fn |-> <<n, params>>]
           IN /\ Fits(h, <<>>) /\ heap' = h
              /\ scopes' = scopes \o <<scope, [scope EXCEPT !.kind = "block", !.names = <<>>, !.fn = <<>>]>>
    /\ Quietly /\ UNCHANGED <<numbered, values, phase>>

Close ==
    /\ Walking /\ StatementStart
    /\ here.kind \in {"block", "if", "loop"} /\ scopes[Len(scopes) - 1].kind # "fn"
    /\ scopes' = SubSeq(scopes, 1, Len(scopes) - 1)
    /\ Quietly /\ UNCHANGED <<heap, numbered, values, phase>>

\* A function is declared after its body: neither it nor the functions after
\* it are known there.
CloseFn ==
    /\ Walking /\ StatementStart
    /\ Len(scopes) = 3 /\ scopes[2].kind = "fn"
    /\ Fits(Append(heap, 0), <<>>)
    /\ LET n == scopes[2].fn[1]
       IN /\ heap' = Append(heap, Cell("FN", scopes[2].fn[2] \o <<scopes[2].ret>>))
          /\ scopes' = <<Insert(scopes[1], n, Len(heap) + 1)>>
          /\ Report(IF Declared(scopes[1], n) THEN 1 ELSE 0)
    /\ UNCHANGED <<numbered, values, phase>>

Declaration == Walking /\ (StructDecl \/ EnumDecl \/ TraitDecl \/ OpenFn)

\* The end of ty_check_module
Verdict ==
    /\ Walking /\ AtTop
    /\ phase' = IF errors > 0 THEN "rejected" ELSE "accepted"
    /\ UNCHANGED <<heap, numbered, scopes, values, errors>>

Step == steps < MaxSteps /\ steps' = steps + 1 /\ UNCHANGED suffixed

Done == (~Walking \/ steps = MaxSteps) /\ UNCHANGED vars

Next ==
    \/ Step /\ Expression
    \/ Step /\ Statement
    \/ Step /\ Declaration
    \/ Step /\ Close
    \/ Step /\ CloseFn
    \/ Verdict /\ UNCHANGED <<suffixed, steps>>
    \/ Done

Spec == Init /\ [][Next]_vars

-----------------------------------------------------------------------------
(* Properties *)

\* The types, scopes and operands refer to types there are, and a statement is
\* taken to be in a loop exactly if a loop of the same function is open around
\* it, whatever blocks and ifs lie between (env->in_loop).
TypeOK ==
    /\ \A c \in DOMAIN heap :
          /\ heap[c].link \in 0..Len(heap)
          /\ \A k \in DOMAIN heap[c].parts : heap[c].parts[k] \in 0..Len(heap)
    /\ \A i \in DOMAIN scopes :
          /\ \A n \in DOMAIN scopes[i].names : scopes[i].names[n] \in DOMAIN heap
          /\ scopes[i].ret \in 0..Len(heap)
          /\ scopes[i].in_loop = (\E j \in 1..i : scopes[j].kind = "loop")
    /\ \A k \in DOMAIN values : values[k] \in DOMAIN heap
    /\ suffixed \in NameKinds
    /\ errors \in 0..MaxErrors /\ numbered \in BOOLEAN
    /\ phase \in {"walking", "accepted", "rejected", "broken"} /\ steps \in 0..MaxSteps

\* A type is settled when no type variable in it is left open.
Settled(h, c) == ~Cyclic(h, c) /\ \A d \in Reach(h, {c}) : ~Unbound(h, d)

RECURSIVE Meaning(_, _)
Meaning(h, c) ==
    LET t == h[Root(h, c)]
    IN <<t.kind, t.name, t.id,
         IF t.kind \in Composite
         THEN [k \in DOMAIN t.parts |-> IF t.parts[k] = 0 THEN <<>> ELSE Meaning(h, t.parts[k])]
         ELSE <<>>>>

\* What the types of declared names and of operands have come to mean they keep:
\* no later unification, in whichever scope, changes a type without open
\* variables, though types are shared and written to (ty_unify, ty_resolve).
TypesSettle ==
    [][LET written == {c \in DOMAIN heap : heap'[c] # heap[c]}
       IN written = {} \/
          \A c \in DOMAIN heap :
             Settled(heap, c) => (Settled(heap', c) /\ Meaning(heap', c) = Meaning(heap, c))]_heap

\* A type comes to contain itself only behind &mut, where the occurs check does
\* not look: anywhere else ty_resolve returns.
ResolveEnds ==
    \A c \in DOMAIN heap :
        \/ Below(heap, c) = {}
        \/ \E d \in Reach(heap, {c}) : heap[d].kind = "MUTREF"
        \/ ~Cyclic(heap, c)
=============================================================================
