------------------------------- MODULE Parser -------------------------------
(***************************************************************************)
(* The recursive descent parser with Pratt expressions of src/parser.c,    *)
(* down to the token.  Each parse function is a short list of              *)
(* instructions (consume, expect, test, loop, call), in the order of the   *)
(* calls the C function makes; `work` is the C call stack together with    *)
(* what each frame still has to do.  The tree is not built: of an          *)
(* expression only the precedence of its root is kept.  The 65536, 4096,   *)
(* 256 and 64 element arrays of the functions, the parameter limit         *)
(* MAX_FN_PARAMS and the nesting counters nobody reads are left out; so is *)
(* that parse_import reads a name nobody set, which ends the process.      *)
(***************************************************************************)
EXTENDS Naturals, Sequences, FiniteSets, Functions, TLC

CONSTANTS
    Tokens,     \* the kinds of token the lexer may produce after the script
    Scripts,    \* the sequences of tokens a source may start with
    MaxTokens,  \* how many tokens may follow the script
    MaxErrors   \* errors are counted up to this bound

ASSUME ParserAssumption ==
    /\ MaxTokens \in Nat
    /\ MaxErrors \in Nat \ {0}
    /\ Scripts \subseteq Seq(STRING)

VARIABLES
    cur,       \* p->current.type
    script,    \* tokens of the script not read yet
    left,      \* how many more tokens the source may have
    work,      \* what the functions under way still have to do
    errors,    \* p->error_count
    panic,     \* p->panic_mode
    recovery,  \* p->recovery_tokens
    root,      \* precedence of the root of the last expression parsed
    open       \* brackets consumed and not closed, or <<"error">>

vars == <<cur, script, left, work, errors, panic, recovery, root, open>>

-----------------------------------------------------------------------------
(* Instructions *)

Adv == <<"adv">>
Skip(what) == <<"skip", what>>
Expect(t) == <<"expect", t>>
Err == <<"error">>
Sync == <<"sync">>
Break == <<"break">>
Call(f) == <<"call", f>>
Switch(table, default) == <<"switch", table, default>>
If(S, then, else) == <<"if", S, then, else>>
Loop(name, body) == <<"loop", name, body>>

When(S, then) == If(S, then, <<>>)
Opt(t) == When({t}, <<Adv>>)                 \* parser_match, result unused
After(t, then) == When({t}, <<Adv>> \o then) \* if (parser_match(t)) then
While(name, stop, body) == Loop(name, <<When(stop, <<Break>>)>> \o body)
DoWhileComma(name, body) == Loop(name, body \o <<If({","}, <<Adv>>, <<Break>>)>>)
BreakUnlessComma == If({","}, <<Adv>>, <<Break>>)

-----------------------------------------------------------------------------
(* Precedence *)

PrecNone == 0
PrecAssign == 1
PrecCompare == 4
PrecBitOr == 5
PrecBitAnd == 7
PrecRange == 9
PrecTerm == 10
PrecFactor == 11
PrecPower == 12
PrecCast == 13
PrecUnary == 14
PrecCall == 15
PrecPrimary == 16

Precedence ==
    [t \in {"=", "+="} |-> PrecAssign] @@ [t \in {"<", ">", "=="} |-> PrecCompare]
    @@ [t \in {"|"} |-> PrecBitOr] @@ [t \in {"&"} |-> PrecBitAnd]
    @@ [t \in {"..", ".="} |-> PrecRange] @@ [t \in {"+", "-"} |-> PrecTerm]
    @@ [t \in {"*", "/"} |-> PrecFactor] @@ [t \in {"**"} |-> PrecPower]

Prec(t) == IF t \in DOMAIN Precedence THEN Precedence[t] ELSE PrecNone

Literals == {"LIT", "STR"}
Keywords == {"fn", "let", "const", "mut", "pub", "extern", "unsafe", "struct",
             "enum", "trait", "impl", "import", "type", "for", "in", "if",
             "else", "while", "loop", "break", "continue", "return", "match",
             "where", "as", "self", "super", "move", "await", "async", "prim"}

-----------------------------------------------------------------------------
(* Top level *)

\* diag.fatal does not end the loop: no diagnostic is ever a fatal one.
ParseProgram ==
    <<While("program", {"EOF"}, <<Sync, When({"EOF"}, <<Break>>), Call("decl")>>)>>

ParseDecl ==
    <<Sync,
      Loop("attributes", <<If({"@"}, <<Adv, Opt("IDENT")>>, <<Break>>)>>),
      Opt("pub"), Opt("extern"), Opt("unsafe"),
      Switch([t \in {"fn", "struct", "enum", "trait", "impl", "import"} |-> t]
             @@ [t \in {"const", "let"} |-> "var"]
             @@ ("type" :> "type_alias" @@ "mut" :> "var_mut"), "stmt")>>

ParseImport ==
    <<Adv,
      When({"IDENT", "self", "super"},
        <<Adv,
          Loop("path", <<If({"::"}, <<Adv>>, <<Break>>),
                         If({"IDENT", "*", "self"}, <<Adv>>, <<Err, Break>>)>>)>>),
      Expect(";")>>

FnParam ==
    If({"self"}, <<Adv>>,
       <<Expect("IDENT"), Expect(":"), Call("type"), After("=", <<Call("expr")>>)>>)

\* The generic parameters are parsed twice, once for the list and once for
\* its length.
ParseFnDecl ==
    <<Skip("fn"), Opt("async"), Expect("IDENT"),
      When({"<"}, <<Call("generic_params"), Call("generic_params")>>),
      Expect("("),
      If({")"}, <<>>, <<DoWhileComma("params", <<FnParam>>)>>),
      Expect(")"),
      After("->", <<Call("type")>>),
      When({"where"}, <<Call("where")>>),
      Call("block")>>

\* Slip: a field that no comma follows does not end the list.
ParseStructDeclSlip ==
    <<Adv, Expect("IDENT"), When({"<"}, <<Call("generic_params")>>), Expect("{"),
      While("fields", {"}", "EOF"},
        <<Opt("pub"), Opt("mut"), Expect("IDENT"), Expect(":"), Call("type"), Opt(",")>>),
      Expect("}")>>

ParseStructDecl ==
    <<Adv, Expect("IDENT"), When({"<"}, <<Call("generic_params")>>), Expect("{"),
      While("fields", {"}", "EOF"},
        <<Opt("pub"), Opt("mut"), Expect("IDENT"), Expect(":"), Call("type"),
          BreakUnlessComma>>),
      Expect("}")>>

ParseEnumDecl ==
    <<Adv, Expect("IDENT"), When({"<"}, <<Call("generic_params")>>), Expect("{"),
      While("variants", {"}", "EOF"},
        <<Opt("pub"), Expect("IDENT"),
          After("(", <<If({")"}, <<>>, <<DoWhileComma("payload", <<Call("type")>>)>>),
                       Expect(")")>>),
          After("=", <<Call("expr")>>),
          BreakUnlessComma>>),
      Expect("}")>>

\* The loop consumes `fn` and parse_fn_decl skips one token more.
ParseTraitDecl ==
    <<Adv, Expect("IDENT"), When({"<"}, <<Call("generic_params")>>),
      After(":", <<Loop("supertraits", <<If({"IDENT"}, <<Adv>>, <<Break>>),
                                         If({"+"}, <<Adv>>, <<Break>>)>>)>>),
      Expect("{"),
      While("trait", {"}", "EOF"}, <<Opt("pub"), After("fn", <<Call("fn")>>)>>),
      Expect("}")>>

ParseImplBlock ==
    <<Adv, When({"<"}, <<Call("generic_params")>>), Call("type"),
      After("for", <<Call("type")>>),
      Expect("{"),
      While("impl", {"}", "EOF"}, <<Call("fn")>>),
      Expect("}")>>

ParseTypeAlias ==
    <<Adv, Expect("IDENT"), Expect("="), Call("type"), Expect(";")>>

ParseGenericParams ==
    <<Expect("<"),
      While("generics", {">", "EOF"},
        <<If({"IDENT"}, <<Adv>>, <<Err, Break>>), After(":", <<Call("type")>>),
          BreakUnlessComma>>),
      Expect(">")>>

ParseWhereClause ==
    <<Expect("where"),
      While("where", {"{", "EOF"},
        <<Call("type"), Expect(":"), Call("type"), BreakUnlessComma>>)>>

-----------------------------------------------------------------------------
(* Types *)

ParseTypePath ==
    <<Switch("(" :> "type_tuple" @@ "[" :> "type_array" @@ "fn" :> "type_fn"
             @@ "&" :> "type_ref" @@ "*" :> "type_ref" @@ "impl" :> "type_impl"
             @@ [t \in {"IDENT", "prim"} |-> "type_name"], "type_error")>>

TypeTuple ==
    <<Adv, If({")"}, <<>>, <<DoWhileComma("types", <<Call("type")>>)>>), Expect(")")>>

TypeArray ==
    <<Adv, If({"]"}, <<Adv, Call("type")>>,
              <<Call("type"), After(";", <<Opt("LIT")>>), Expect("]")>>)>>

TypeRef == <<Adv, Opt("mut"), Call("type")>>

TypeName ==
    <<Adv,
      After("<", <<While("type_args", {">", "EOF"}, <<Call("type"), BreakUnlessComma>>),
                   Expect(">")>>)>>

ParseTypeFn ==
    <<Adv, Expect("("),
      If({")"}, <<>>,
         <<DoWhileComma("fn_types", <<After("...", <<Break>>), Call("type")>>)>>),
      Expect(")"),
      After("->", <<Call("type")>>)>>

-----------------------------------------------------------------------------
(* Statements *)

ParseBlock ==
    <<Expect("{"),
      While("block", {"}", "EOF"}, <<Sync, Call("stmt")>>),
      Expect("}")>>

StmtTable ==
    [t \in {"return", "if", "while", "for", "loop", "break", "continue",
            "match", "struct", "enum", "trait", "impl"} |-> t]
    @@ [t \in {"let", "mut", "const"} |-> "var"]
    @@ ("{" :> "block" @@ "unsafe" :> "unsafe_block")

ParseStmt ==
    <<Loop("semicolons", <<If({";"}, <<Adv>>, <<Break>>)>>),
      Switch(StmtTable, "expr_stmt")>>

\* parse_var_decl; with NF_MUT among the flags the `mut` is not consumed.
ParseVarDecl(flagged) ==
    (IF flagged THEN <<>> ELSE <<Opt("mut")>>) \o
    <<Opt("const"), Expect("let"),
      If({"("},
         <<Adv, DoWhileComma("names", <<Expect("IDENT")>>), Expect(")")>>,
         <<Expect("IDENT")>>),
      After(":", <<Call("type")>>),
      After("=", <<Call("expr")>>),
      Expect(";")>>

ParseReturn == <<Adv, If({";", "}", "EOF"}, <<>>, <<Call("expr")>>), Expect(";")>>

ParseIf ==
    <<Adv, Call("expr"), Call("block"),
      After("else", <<If({"if"}, <<Call("if")>>, <<When({"{"}, <<Call("block")>>)>>)>>)>>

ParseWhile == <<Adv, Opt(":"), Call("expr"), Call("block")>>
ParseFor == <<Adv, Expect("IDENT"), Expect("in"), Call("expr"), Call("block")>>
ParseLoop == <<Adv, Call("block")>>
ParseBreak == <<Adv, If({";"}, <<>>, <<Call("expr")>>), Expect(";")>>
ParseContinue == <<Adv, Expect(";")>>

ParseMatch ==
    <<Adv, Call("expr"), Expect("{"),
      While("match", {"}", "EOF"},
        <<Call("pattern"), After("if", <<Call("expr")>>), Expect("=>"),
          If({"{"}, <<Call("block")>>, <<Call("expr"), Opt(",")>>),
          Opt(",")>>),
      Expect("}")>>

-----------------------------------------------------------------------------
(* Patterns; the range and struct patterns further down in parse_pattern    *)
(* are never reached: literals and identifiers are taken before them.       *)

ParsePattern ==
    <<If({"_"} \cup Literals, <<Adv>>,
      <<Switch("IDENT" :> "pat_name" @@ "(" :> "pat_tuple" @@ "&" :> "pat_ref",
               "pat_error")>>)>>

\* The brace of `Variant { ... }` is not consumed.
PatName ==
    <<Adv,
      If({"("},
         <<Adv, While("pat_args", {")", "EOF"}, <<Call("pattern"), BreakUnlessComma>>),
           Expect(")")>>,
         <<If({"{"},
              <<While("pat_fields", {"}", "EOF"}, <<Call("pattern"), BreakUnlessComma>>),
                Expect("}")>>,
              <<After("@", <<Call("pattern")>>)>>)>>)>>

PatTuple == <<Adv, DoWhileComma("pats", <<Call("pattern")>>), Expect(")")>>
PatRef == <<Adv, Opt("mut"), Call("pattern")>>

-----------------------------------------------------------------------------
(* Expressions *)

Expr(min) == <<"expr", min>>      \* parse_expr_prec(min)
Infix(min) == <<"infix", min>>    \* its loop
Root(prec) == <<"root", prec>>
Node(op, l) == <<"node", op, l>>  \* an operator over a left side rooted at l

ParsePrimary ==
    <<If(Literals \cup {"IDENT", "self"}, <<Adv>>,
      <<Switch("(" :> "parens" @@ "[" :> "array" @@ "move" :> "move", "expr_error")>>),
      Root(PrecPrimary)>>

\* Slip: the closing parenthesis is optional.
ParensSlip ==
    <<Adv,
      If({")"}, <<Adv>>,
         <<Call("expr"), After(",", <<DoWhileComma("tuple", <<Call("expr")>>)>>), Opt(")")>>)>>

Parens ==
    <<Adv,
      If({")"}, <<Adv>>,
         <<Call("expr"),
           After(",", <<DoWhileComma("tuple", <<Call("expr")>>)>>),
           Expect(")")>>)>>

ArrayLit ==
    <<Adv, While("array", {"]", "EOF"}, <<Call("expr"), BreakUnlessComma>>), Expect("]")>>

ParsePrefix ==
    <<If({"-", "!", "*", "await"}, <<Adv, Expr(PrecUnary), Root(PrecUnary)>>,
      <<If({"&"}, <<Adv, Opt("mut"), Expr(PrecUnary), Root(PrecUnary)>>,
           <<Call("primary")>>)>>)>>

ParsePostfix ==
    <<Loop("postfix",
       <<If({"("},
            <<Adv, If({")"}, <<>>, <<DoWhileComma("args", <<Call("expr")>>)>>),
              Expect(")"), Root(PrecCall)>>,
         <<If({"["}, <<Adv, Call("expr"), Expect("]"), Root(PrecCall)>>,
         <<If({"."},
              <<Adv, If({"IDENT", "LIT"} \cup Keywords, <<Adv>>, <<Err, Break>>),
                Root(PrecCall)>>,
         <<If({"?"}, <<Adv, Root(PrecCall)>>, <<Break>>)>>)>>)>>)>>)>>

\* Slip: the right side takes operators of the same precedence.
InfixStepSlip(op, min) ==
    IF op \in {"as", "|>"} \/ Prec(op) < min \/ Prec(op) = PrecNone THEN <<>>
    ELSE <<Adv, Expr(Prec(op)), Node(op, root)>>

\* One turn of the loop of parse_expr_prec on the operator op, with `min` the
\* least precedence it takes; the empty sequence ends the loop.
InfixStep(op, min) ==
    CASE op = "as" ->
            IF PrecCast < min THEN <<>> ELSE <<Adv, Call("type"), Root(PrecCast)>>
      [] op = "|>" ->
            IF PrecCall < min THEN <<>> ELSE <<Adv, Call("primary"), Root(PrecCall)>>
      [] op \in {"=", "+="} ->
            IF PrecAssign < min THEN <<>>
            ELSE <<Adv, Expr(PrecAssign), Node(op, root)>>
      [] OTHER ->
            IF Prec(op) < min \/ Prec(op) = PrecNone THEN <<>>
            ELSE <<Adv, Expr(Prec(op) + 1), Node(op, root)>>

-----------------------------------------------------------------------------
Grammar ==
    [program |-> ParseProgram, decl |-> ParseDecl, import |-> ParseImport,
     fn |-> ParseFnDecl, struct |-> ParseStructDecl, enum |-> ParseEnumDecl,
     trait |-> ParseTraitDecl, impl |-> ParseImplBlock,
     type_alias |-> ParseTypeAlias, generic_params |-> ParseGenericParams,
     where |-> ParseWhereClause, type |-> ParseTypePath,
     type_tuple |-> TypeTuple, type_array |-> TypeArray, type_ref |-> TypeRef,
     type_name |-> TypeName, type_fn |-> ParseTypeFn,
     type_impl |-> <<Adv, Call("type")>>, type_error |-> <<Err>>,
     block |-> ParseBlock, unsafe_block |-> <<Adv, Call("block")>>,
     stmt |-> ParseStmt, expr_stmt |-> <<Call("expr"), Opt(";")>>,
     var |-> ParseVarDecl(FALSE), var_mut |-> ParseVarDecl(TRUE),
     return |-> ParseReturn, if |-> ParseIf, while |-> ParseWhile,
     for |-> ParseFor, loop |-> ParseLoop, break |-> ParseBreak,
     continue |-> ParseContinue, match |-> ParseMatch,
     pattern |-> ParsePattern, pat_name |-> PatName, pat_tuple |-> PatTuple,
     pat_ref |-> PatRef, pat_error |-> <<Err>>,
     expr |-> <<Expr(PrecNone)>>, primary |-> ParsePrimary,
     prefix |-> ParsePrefix, postfix |-> ParsePostfix, parens |-> Parens,
     array |-> ArrayLit, move |-> <<Adv, Call("expr")>>, expr_error |-> <<Err>>]

-----------------------------------------------------------------------------
(* The machine *)

Closer == "(" :> ")" @@ "[" :> "]" @@ "{" :> "}"

\* What consuming the token t does to the open brackets.
Brackets(t) ==
    CASE t \in DOMAIN Closer -> Append(open, t)
      [] t \in {")", "]", "}"} ->
            IF open # <<>> /\ open[Len(open)] # "error" /\ Closer[open[Len(open)]] = t
            THEN SubSeq(open, 1, Len(open) - 1)
            ELSE <<"error">>
      [] OTHER -> open

\* parser_advance: the next token of the script, then any, then the end.
ReadToken ==
    IF script # <<>>
    THEN cur' = Head(script) /\ script' = Tail(script) /\ left' = left
    ELSE /\ script' = script
         /\ \/ left > 0 /\ \E t \in Tokens : cur' = t /\ left' = left - 1
            \/ cur' = "EOF" /\ left' = 0

Advance == ReadToken /\ open' = (IF errors > 0 THEN <<"error">> ELSE Brackets(cur))
Stay == UNCHANGED <<cur, script, left, open>>

top == Head(work)
Rest == Tail(work)

\* Slip: error_count++ is forgotten.
ReportSlip == errors' = errors /\ panic' = TRUE /\ recovery' = 3

\* parser_error
Report ==
    /\ errors' = IF errors < MaxErrors THEN errors + 1 ELSE errors
    /\ panic' = TRUE
    /\ recovery' = 3

NoReport == UNCHANGED <<errors, panic, recovery>>

\* The instructions after the innermost loop under way.
AfterLoop ==
    LET loop == CHOOSE i \in 2..Len(work) :
                    /\ work[i][1] = "loop"
                    /\ \A j \in 2..(i - 1) : work[j][1] # "loop"
    IN SubSeq(work, loop + 1, Len(work))

Consume ==
    /\ top[1] \in {"adv", "skip"}
    /\ IF top[1] = "skip" /\ cur # top[2]
       THEN ReadToken /\ open' = open
       ELSE Advance
    /\ work' = Rest
    /\ NoReport /\ UNCHANGED root

ExpectToken ==
    /\ top[1] = "expect"
    /\ work' = Rest
    /\ IF cur = top[2] THEN Advance /\ NoReport ELSE Stay /\ Report
    /\ UNCHANGED root

ReportError ==
    /\ top[1] = "error"
    /\ work' = Rest
    /\ Report /\ Stay /\ UNCHANGED root

Synchronise ==
    /\ top[1] = "sync"
    /\ UNCHANGED <<errors, root>>
    /\ \/ /\ ~panic \/ cur = "EOF"
          /\ work' = Rest /\ panic' = FALSE
          /\ Stay /\ UNCHANGED recovery
       \/ /\ panic /\ cur # "EOF" /\ recovery > 0
          /\ recovery' = recovery - 1
          /\ Advance /\ UNCHANGED <<work, panic>>
       \/ /\ panic /\ cur # "EOF" /\ recovery = 0
          /\ IF cur \in {"fn", "let", "const", "struct", "enum", "trait", "impl",
                         "import", "pub", "extern", "unsafe", "if", "while", "for",
                         "loop", "return", "match", "break", "continue", ";", "}"}
             THEN work' = Rest /\ panic' = FALSE /\ Stay
             ELSE Advance /\ UNCHANGED <<work, panic>>
          /\ UNCHANGED recovery

\* Calls, tests and loops: what is left to do changes, and nothing else.
Control ==
    /\ top[1] \in {"call", "switch", "if", "loop", "break", "expr", "infix"}
    /\ work' =
        CASE top[1] = "call" -> Grammar[top[2]] \o Rest
          [] top[1] = "switch" ->
                Grammar[IF cur \in DOMAIN top[2] THEN top[2][cur] ELSE top[3]] \o Rest
          [] top[1] = "if" -> (IF cur \in top[2] THEN top[3] ELSE top[4]) \o Rest
          [] top[1] = "loop" -> top[3] \o work
          [] top[1] = "break" -> AfterLoop
          [] top[1] = "expr" -> <<Call("prefix"), Call("postfix"), Infix(top[2])>> \o Rest
          [] top[1] = "infix" ->
                LET step == InfixStep(cur, top[2])
                IN IF step = <<>> THEN Rest ELSE step \o work
    /\ Stay /\ NoReport /\ UNCHANGED root

BuildNode ==
    /\ top[1] \in {"root", "node"}
    /\ root' = IF top[1] = "root" THEN top[2] ELSE Prec(top[2])
    /\ work' = Rest
    /\ Stay /\ NoReport

Step ==
    /\ work # <<>>
    /\ \/ Consume \/ ExpectToken \/ ReportError \/ Synchronise \/ Control \/ BuildNode

Done == work = <<>> /\ UNCHANGED vars

\* parser_init primes the first token; parse_program is the entry point.
Init ==
    /\ script \in Scripts
    /\ cur = "START"
    /\ left = MaxTokens
    /\ work = <<Adv, Call("program")>>
    /\ errors = 0 /\ panic = FALSE /\ recovery = 0
    /\ root = PrecPrimary
    /\ open = <<>>

Next == Step \/ Done

Spec == Init /\ [][Next]_vars /\ WF_vars(Step)
-----------------------------------------------------------------------------
(* Properties *)

LoopUnderWay(name) == \E i \in 1..Len(work) : work[i][1] = "loop" /\ work[i][2] = name

\* The variables keep their types; the bracket record is only kept while no
\* error has been reported.
TypeOK ==
    /\ cur \in Tokens \cup Keywords \cup UNION {Range(s) : s \in Scripts} \cup {"START", "EOF"}
    /\ left \in 0..MaxTokens /\ errors \in 0..MaxErrors
    /\ panic \in BOOLEAN /\ recovery \in 0..3
    /\ root \in PrecNone..PrecPrimary
    /\ panic => errors > 0

\* Parsing any sequence of tokens ends, whatever errors it has, unless the
\* parser is caught in the body of a trait or of a match: the two loops whose
\* turns may consume no token and do not break.  Every other loop breaks, or
\* is saved by the tokens parser_sync skips.
ParsingEnds ==
    \/ <>(work = <<>>)
    \/ <>[](LoopUnderWay("trait") \/ LoopUnderWay("match"))

\* A source parsed without an error has its brackets matched and nested: no
\* path through the parse functions drops one.  The token an impl block takes
\* for `fn`, or a trait for the name, without looking at it is not counted.
CleanMeansBalanced == work = <<>> /\ errors = 0 => cur = "EOF" /\ open = <<>>

\* Operators group by their precedence, to the left, assignment to the right:
\* when an operator's node is built its left side binds at least as tightly and
\* its right side more tightly, whatever calls, casts, pipes, unary operators
\* and errors are inside them.
Grouping ==
    work # <<>> /\ top[1] = "node" =>
        LET p == Prec(top[2]) IN
        /\ p = PrecAssign => top[3] >= PrecAssign /\ root >= PrecAssign
        /\ p # PrecAssign => top[3] >= p /\ root > p
=============================================================================
