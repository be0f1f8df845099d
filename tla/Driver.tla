------------------------------- MODULE Driver -------------------------------
(***************************************************************************)
(* The driver of src/main.c: options, the phases of a compilation with     *)
(* their early exits, the bag of diagnostics (src/diagnostics.c) they      *)
(* share, and the interactive session of src/repl.c, which runs the first  *)
(* phases on what was typed.  A phase is seen as the diagnostics it        *)
(* pushes; the phases have modules of their own.                           *)
(*                                                                         *)
(* The context is kept in the arena ket_context_destroy releases before it *)
(* reads the context again (that memory is unmapped then), and a           *)
(* diagnostic's text is written over the pointer to it, which is read when *)
(* it is printed: both end the process.  Options that only change what is  *)
(* printed, or that nothing reads (-S, -c, -j, --secure, --obfuscate), are *)
(* left out.                                                               *)
(***************************************************************************)
EXTENDS Naturals

CONSTANTS
    Capacity,   \* MAX_ERRORS + MAX_WARNINGS
    MaxMade     \* bound: errors made in one compilation

ASSUME DriverAssumption == Capacity \in Nat \ {0} /\ MaxMade \in Nat

VARIABLES
    opts,       \* the options read so far
    at,         \* what main is doing
    typed,      \* the session has code that was not run (full_len > 0)
    bag,        \* ctx->diag: entries and error_count
    made,       \* errors the phases have found, kept or not
    syntax,     \* parser.error_count
    context,    \* none, live or released
    written,    \* what a compilation has produced
    status      \* how the process ended

vars == <<opts, at, typed, bag, made, syntax, context, written, status>>

Flags == {"lex", "parse", "emit_ir"}
Targets == {"file", "jit"}      \* all backends but the JIT write output_path
Phases == {"lex", "parse", "types", "borrow", "lower", "optimize", "codegen", "cleanup"}

Init ==
    /\ opts = [flags |-> {}, target |-> "file", input |-> FALSE, repl |-> FALSE]
    /\ at = "options" /\ typed = FALSE
    /\ bag = [count |-> 0, errors |-> 0]
    /\ made = 0 /\ syntax = 0
    /\ context = "none" /\ written = {}
    /\ status = "running"

-----------------------------------------------------------------------------
(* Diagnostics *)

\* ket_diag_push of an error or, with errors = 0, of a note.  (A long text in
\* the last place of the bag runs over its counters too; that is left out.)
Push(b, errors) ==
    IF b.count >= Capacity THEN b
    ELSE [count |-> b.count + 1, errors |-> b.errors + errors]

HasErrors == bag.errors > 0     \* ket_diag_has_errors; nothing fatal is ever pushed

-----------------------------------------------------------------------------
(* Ways to go on *)

Goto(place) == at' = place /\ UNCHANGED <<opts, typed, bag, made, syntax, context, written, status>>

Exit(code) ==
    /\ at' = "done" /\ status' = code
    /\ UNCHANGED <<opts, typed, bag, made, syntax, context, written>>

Crash == Exit("crash")

\* ket_context_destroy
Destroy ==
    /\ context' = "released"
    /\ at' = "done" /\ status' = "crash"
    /\ UNCHANGED <<opts, typed, bag, made, syntax, written>>

\* ket_diag_print_all, then ket_context_destroy
PrintAllAndDestroy == IF bag.count > 0 THEN Crash ELSE Destroy

-----------------------------------------------------------------------------
(* Options and source *)

Option ==
    /\ at = "options"
    /\ \/ \E f \in Flags : opts' = [opts EXCEPT !.flags = @ \cup {f}]
       \/ \E t \in Targets : opts' = [opts EXCEPT !.target = t]
       \/ opts' = [opts EXCEPT !.input = TRUE]
    /\ UNCHANGED <<at, typed, bag, made, syntax, context, written, status>>

\* --help, --version, --fmt, --doc, an unknown option or target: the rest of
\* the command line is not read.
Immediate == at = "options" /\ (Exit("0") \/ Exit("1"))

\* ket_context_create.  The mapping of the arena may fail, which is not noticed.
Create ==
    \/ /\ context' = "live" /\ at' = "lex"
       /\ UNCHANGED <<opts, typed, bag, made, syntax, written, status>>
    \/ Crash

\* No input, a file that cannot be read, and one that is too large end main.
ReadSource == at = "options" /\ (Exit("1") \/ (opts.input /\ Create))

-----------------------------------------------------------------------------
(* The interactive session; it has one option, and ends at :exit or the end *)
(* of the input                                                             *)

OpenRepl ==
    /\ at = "options" /\ at' = "repl"
    /\ opts' = [flags |-> {}, target |-> "jit", input |-> FALSE, repl |-> TRUE]
    /\ UNCHANGED <<typed, bag, made, syntax, context, written, status>>

\* A line is kept if it fits; otherwise all of the code is gone, as after :clear.
TypeLine ==
    /\ at = "repl" /\ typed' \in BOOLEAN
    /\ UNCHANGED <<opts, at, bag, made, syntax, context, written, status>>

ClearCode ==
    /\ at = "repl" /\ typed' = FALSE
    /\ UNCHANGED <<opts, at, bag, made, syntax, context, written, status>>

\* :run
RunCode == at = "repl" /\ typed /\ Create

\* A line that ends with a brace is run with the code before it, if it fits.
CloseBrace == (at = "repl" /\ Create) \/ ClearCode

QuitRepl == at = "repl" /\ Exit("0")

-----------------------------------------------------------------------------
(* Phases *)

\* A phase finds an error.
Found(newBag, newSyntax) ==
    /\ made < MaxMade /\ made' = made + 1
    /\ bag' = newBag /\ syntax' = newSyntax
    /\ UNCHANGED <<opts, at, typed, context, written, status>>

\* Tokens are read while the parser runs, except for --lex.
BadToken == at \in {"lex", "parse"} /\ (at = "lex" => "lex" \in opts.flags) /\ Found(Push(bag, 1), syntax)

SyntaxError == at = "parse" /\ Found(Push(bag, 1), syntax + 1)

\* A mismatch is an error and a note, the other errors of the checks are alone.
TypeMismatch == at = "types" /\ Found(Push(Push(bag, 1), 0), syntax)

CheckError == at \in {"types", "borrow"} /\ Found(Push(bag, 1), syntax)

\* The parser may run past its arrays, and the type checker read what is no
\* type (see Parser and TypeCheck).
PhaseFails == at \in {"parse", "types"} /\ Crash

\* Slip: main goes on after lexer_dump.
LexSlip ==
    /\ at = "lex" /\ at' = "parse"
    /\ context' = IF "lex" \in opts.flags THEN "released" ELSE context
    /\ UNCHANGED <<opts, typed, bag, made, syntax, written, status>>

\* lexer_init, and lexer_dump for --lex
Lex ==
    /\ at = "lex"
    /\ IF "lex" \in opts.flags THEN Destroy ELSE Goto("parse")

Parse ==
    /\ at = "parse"
    /\ IF syntax > 0 \/ HasErrors THEN PrintAllAndDestroy
       ELSE IF "parse" \in opts.flags THEN Destroy
       ELSE Goto("types")

\* In a session the answer of ty_check_module is not looked at, and nothing is
\* run either.
TypeCheckPhase ==
    /\ at = "types"
    /\ IF opts.repl THEN Destroy
       ELSE IF HasErrors THEN PrintAllAndDestroy
       ELSE Goto("borrow")

\* Slip: the answer of borrow_check_module is not looked at.
BorrowCheckPhaseSlip == at = "borrow" /\ Goto("lower")

BorrowCheckPhase ==
    /\ at = "borrow"
    /\ IF HasErrors THEN PrintAllAndDestroy ELSE Goto("lower")

Produces(what) ==
    /\ written' = written \cup {what}
    /\ UNCHANGED <<opts, typed, bag, made, syntax, context, status>>

\* The file of --emit-ir that cannot be opened is passed over.
Lower ==
    /\ at = "lower"
    /\ \/ Goto("optimize")
       \/ "emit_ir" \in opts.flags /\ Produces("ir") /\ at' = "optimize"

Optimize == at = "optimize" /\ Goto("codegen")

\* A backend that cannot open its file, or a JIT without memory, has result 1.
Codegen ==
    /\ at = "codegen" /\ at' = "cleanup"
    /\ \/ Produces(IF opts.target = "jit" THEN "execution" ELSE "code")
       \/ UNCHANGED <<opts, typed, bag, made, syntax, context, written, status>>

\* With result 1 the diagnostics are printed: there are none by now.
Cleanup == at = "cleanup" /\ (Destroy \/ PrintAllAndDestroy)

Done == at = "done" /\ UNCHANGED vars

Next ==
    \/ Option \/ Immediate \/ ReadSource
    \/ OpenRepl \/ TypeLine \/ ClearCode \/ RunCode \/ CloseBrace \/ QuitRepl
    \/ BadToken \/ SyntaxError \/ TypeMismatch \/ CheckError \/ PhaseFails
    \/ Lex \/ Parse \/ TypeCheckPhase \/ BorrowCheckPhase
    \/ Lower \/ Optimize \/ Codegen \/ Cleanup
    \/ Done

Spec == Init /\ [][Next]_vars

-----------------------------------------------------------------------------
(* Properties *)

\* Types; and main is in a phase exactly while there is a live context, and a
\* context that was released is only left behind by a process that ended.
TypeOK ==
    /\ opts \in [flags : SUBSET Flags, target : Targets, input : BOOLEAN, repl : BOOLEAN]
    /\ at \in Phases \cup {"options", "repl", "done"} /\ typed \in BOOLEAN
    /\ bag \in [count : Nat, errors : Nat] /\ bag.count <= Capacity
    /\ made \in Nat /\ syntax \in Nat
    /\ context \in {"none", "live", "released"}
    /\ written \subseteq {"ir", "code", "execution"}
    /\ status \in {"running", "0", "1", "crash"}
    /\ (at \in Phases) => context = "live"
    /\ (at = "done") = (status # "running")
    /\ context = "released" => at = "done"

\* No file is written and nothing is executed for a program in which a phase
\* found an error, though a full bag drops errors and each check looks at the
\* counter of the bag only (main, ty_check_module, borrow_check_module).
ErrorsStopOutput == written # {} => made = 0
=============================================================================
