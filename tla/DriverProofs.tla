---------------------------- MODULE DriverProofs ----------------------------
(***************************************************************************)
(* For every capacity of the bag of diagnostics: a program in which a      *)
(* phase found an error produces no output.                                *)
(***************************************************************************)
EXTENDS Driver, TLAPS

\* Behind the checks main goes on only with an empty list of errors.
Checked == {"lower", "optimize", "codegen", "cleanup"}

\* ErrorsStopOutput is not inductive: the checks look at the bag, which drops
\* errors when it is full.  It drops none before it holds one.
Remembered == made > 0 => bag.errors > 0
FullHoldsError == bag.count > 0 => bag.errors > 0
CheckedIsClean == (at \in Checked \/ written # {}) => made = 0
WrittenLate == written # {} => at \in {"optimize", "codegen", "cleanup", "done"}

IInv == TypeOK /\ Remembered /\ FullHoldsError /\ CheckedIsClean /\ WrittenLate

\* Pushing keeps the bag well-formed, forgets nothing, and keeps an error if
\* there was one in it or it was empty.
LEMMA PushKeeps ==
    ASSUME NEW b \in [count : Nat, errors : Nat], b.count <= Capacity, NEW e \in {0, 1},
           b.count > 0 => b.errors > 0,
           e = 0 => b.errors > 0
    PROVE  /\ Push(b, e) \in [count : Nat, errors : Nat]
           /\ Push(b, e).count <= Capacity
           /\ Push(b, e).errors > 0
<1>1. CASE b.count >= Capacity
  BY <1>1, DriverAssumption DEF Push
<1>2. CASE ~(b.count >= Capacity)
  BY <1>2, DriverAssumption DEF Push
<1>. QED
  BY <1>1, <1>2

\* An error found in a phase before the back end keeps the invariant.
LEMMA FoundKeeps ==
    ASSUME IInv, at \in {"lex", "parse", "types", "borrow"},
           NEW b \in [count : Nat, errors : Nat], b.count <= Capacity, b.errors > 0,
           NEW s \in Nat, Found(b, s)
    PROVE  IInv'
<1>1. UNCHANGED <<opts, at, typed, context, written, status>> /\ bag' = b /\ syntax' = s /\ made' = made + 1
  BY DEF Found
<1>2. TypeOK'
  BY <1>1 DEF IInv, TypeOK, Phases
<1>3. written = {} /\ at \notin Checked
  BY DEF IInv, WrittenLate, Checked
<1>. QED
  BY <1>1, <1>2, <1>3 DEF IInv, Remembered, FullHoldsError, CheckedIsClean, WrittenLate

\* Going on, ending and releasing the context change nothing the invariant
\* relates.
LEMMA EndsKeep ==
    ASSUME IInv, at # "done", (\E c \in {"0", "1", "crash"} : Exit(c)) \/ Destroy
    PROVE  IInv'
<1>1. TypeOK'
  BY DEF IInv, TypeOK, Exit, Destroy, Phases
<1>. QED
  BY <1>1 DEF IInv, Exit, Destroy, Remembered, FullHoldsError, CheckedIsClean, WrittenLate, Checked

LEMMA GotoKeeps ==
    ASSUME IInv, at \in Phases, NEW place \in Phases, Goto(place),
           place \in Checked => made = 0,
           at \in Checked => place \in {"optimize", "codegen", "cleanup"}
    PROVE  IInv'
<1>1. TypeOK'
  BY DEF IInv, TypeOK, Goto, Phases
<1>. QED
  BY <1>1 DEF IInv, Goto, Remembered, FullHoldsError, CheckedIsClean, WrittenLate, Checked, Phases

LEMMA CreateKeeps ==
    ASSUME IInv, at \in {"options", "repl"}, Create
    PROVE  IInv'
<1>1. CASE Crash
  BY <1>1, EndsKeep DEF Crash
<1>2. CASE ~Crash
  <2>1. context' = "live" /\ at' = "lex" /\ UNCHANGED <<opts, typed, bag, made, syntax, written, status>>
    BY <1>2 DEF Create
  <2>2. TypeOK'
    BY <2>1 DEF IInv, TypeOK, Phases
  <2>. QED
    BY <2>1, <2>2 DEF IInv, Remembered, FullHoldsError, CheckedIsClean, WrittenLate, Checked
<1>. QED
  BY <1>1, <1>2

-----------------------------------------------------------------------------

LEMMA DriverInit == Init => IInv
<1> SUFFICES ASSUME Init PROVE IInv
  OBVIOUS
<1>1. opts \in [flags : SUBSET Flags, target : Targets, input : BOOLEAN, repl : BOOLEAN]
  <2>1. opts = [flags |-> {}, target |-> "file", input |-> FALSE, repl |-> FALSE]
    BY DEF Init
  <2>2. {} \in SUBSET Flags /\ "file" \in Targets
    BY DEF Targets
  <2>. QED
    BY <2>1, <2>2, Zenon
<1>2. TypeOK
  <2>1. at = "options" /\ context = "none" /\ status = "running" /\ typed = FALSE
        /\ made = 0 /\ syntax = 0 /\ written = {}
    BY DEF Init
  <2>2. bag \in [count : Nat, errors : Nat] /\ bag.count <= Capacity
    BY DriverAssumption DEF Init
  <2>. QED
    BY <1>1, <2>1, <2>2 DEF TypeOK, Phases
<1>. QED
  BY <1>2 DEF Init, IInv, Remembered, FullHoldsError, CheckedIsClean, WrittenLate, Checked

LEMMA DriverStep == IInv /\ [Next]_vars => IInv'
<1> SUFFICES ASSUME IInv, [Next]_vars PROVE IInv'
  OBVIOUS
<1>1. CASE Option \/ OpenRepl \/ TypeLine \/ ClearCode
  <2>1. opts' \in [flags : SUBSET Flags, target : Targets, input : BOOLEAN, repl : BOOLEAN]
    <3>1. opts \in [flags : SUBSET Flags, target : Targets, input : BOOLEAN, repl : BOOLEAN]
      BY DEF IInv, TypeOK
    <3>2. CASE Option
      <4>1. CASE \E f \in Flags : opts' = [opts EXCEPT !.flags = @ \cup {f}]
        <5>1. PICK f \in Flags : opts' = [opts EXCEPT !.flags = @ \cup {f}]
          BY <4>1
        <5>2. opts.flags \cup {f} \in SUBSET Flags
          BY <3>1
        <5>. QED
          BY <3>1, <5>1, <5>2, Zenon
      <4>2. CASE \E t \in Targets : opts' = [opts EXCEPT !.target = t]
        BY <3>1, <4>2, Zenon
      <4>3. CASE opts' = [opts EXCEPT !.input = TRUE]
        BY <3>1, <4>3, Zenon
      <4>. QED
        BY <3>2, <4>1, <4>2, <4>3 DEF Option
    <3>3. CASE OpenRepl
      <4>1. opts' = [flags |-> {}, target |-> "jit", input |-> FALSE, repl |-> TRUE]
        BY <3>3 DEF OpenRepl
      <4>2. {} \in SUBSET Flags /\ "jit" \in Targets
        BY DEF Targets
      <4>. QED
        BY <4>1, <4>2, Zenon
    <3>4. CASE TypeLine \/ ClearCode
      BY <3>1, <3>4 DEF TypeLine, ClearCode
    <3>. QED
      BY <1>1, <3>2, <3>3, <3>4
  <2>2. at \in {"options", "repl"} /\ at' \in {"options", "repl"} /\ typed' \in BOOLEAN
        /\ UNCHANGED <<bag, made, syntax, context, written, status>>
    BY <1>1 DEF Option, OpenRepl, TypeLine, ClearCode, IInv, TypeOK
  <2>3. TypeOK'
    BY <2>1, <2>2 DEF IInv, TypeOK, Phases
  <2>. QED
    BY <2>2, <2>3 DEF IInv, Remembered, FullHoldsError, CheckedIsClean, WrittenLate, Checked
<1>2. CASE Immediate \/ QuitRepl \/ PhaseFails
  BY <1>2, EndsKeep DEF Immediate, QuitRepl, PhaseFails, Crash
<1>3. CASE ReadSource \/ RunCode \/ (at = "repl" /\ Create)
  <2>1. CASE Create
    BY <1>3, <2>1, CreateKeeps DEF ReadSource, RunCode
  <2>2. CASE Exit("1") /\ at = "options"
    BY <2>2, EndsKeep
  <2>. QED
    BY <1>3, <2>1, <2>2 DEF ReadSource, RunCode
<1>4. CASE BadToken \/ SyntaxError \/ CheckError
  <2>1. at \in {"lex", "parse", "types", "borrow"} /\ \E s \in Nat : Found(Push(bag, 1), s)
    BY <1>4 DEF BadToken, SyntaxError, CheckError, IInv, TypeOK
  <2>2. /\ Push(bag, 1) \in [count : Nat, errors : Nat]
        /\ Push(bag, 1).count <= Capacity /\ Push(bag, 1).errors > 0
    BY PushKeeps DEF IInv, TypeOK, FullHoldsError
  <2>. QED
    BY <2>1, <2>2, FoundKeeps
<1>5. CASE TypeMismatch
  <2>1. /\ Push(bag, 1) \in [count : Nat, errors : Nat]
        /\ Push(bag, 1).count <= Capacity /\ Push(bag, 1).errors > 0
    BY PushKeeps DEF IInv, TypeOK, FullHoldsError
  <2>2. /\ Push(Push(bag, 1), 0) \in [count : Nat, errors : Nat]
        /\ Push(Push(bag, 1), 0).count <= Capacity /\ Push(Push(bag, 1), 0).errors > 0
    BY <2>1, PushKeeps
  <2>3. syntax \in Nat
    BY DEF IInv, TypeOK
  <2>. QED
    BY <1>5, <2>2, <2>3, FoundKeeps DEF TypeMismatch
<1>6. CASE Lex
  BY <1>6, EndsKeep, GotoKeeps DEF Lex, Phases, Checked
<1>7. CASE Parse \/ TypeCheckPhase \/ BorrowCheckPhase
  <2>1. at \in {"parse", "types", "borrow"}
    BY <1>7 DEF Parse, TypeCheckPhase, BorrowCheckPhase
  <2>2. CASE PrintAllAndDestroy \/ Destroy
    BY <2>1, <2>2, EndsKeep DEF PrintAllAndDestroy, Crash
  <2>3. CASE Goto("types") \/ Goto("borrow")
    BY <2>1, <2>3, GotoKeeps DEF Phases, Checked
  <2>4. CASE Goto("lower") /\ ~HasErrors
    <3>1. made = 0
      BY <2>4 DEF IInv, Remembered, HasErrors, TypeOK
    <3>. QED
      BY <2>1, <2>4, <3>1, GotoKeeps DEF Phases, Checked
  <2>. QED
    BY <1>7, <2>2, <2>3, <2>4 DEF Parse, TypeCheckPhase, BorrowCheckPhase
<1>8. CASE Lower \/ Optimize \/ Codegen
  <2>1. at \in {"lower", "optimize", "codegen"} /\ at' \in {"optimize", "codegen", "cleanup"}
        /\ UNCHANGED <<opts, typed, bag, made, syntax, context, status>>
        /\ written' \subseteq written \cup {"ir", "code", "execution"}
    BY <1>8 DEF Lower, Optimize, Codegen, Goto, Produces
  <2>2. TypeOK'
    BY <2>1 DEF IInv, TypeOK, Phases
  <2>. QED
    BY <2>1, <2>2 DEF IInv, Remembered, FullHoldsError, CheckedIsClean, WrittenLate, Checked
<1>9. CASE Cleanup
  BY <1>9, EndsKeep DEF Cleanup, PrintAllAndDestroy, Crash
<1>10. CASE Done \/ UNCHANGED vars
  <2>1. UNCHANGED vars
    BY <1>10 DEF Done
  <2>. QED
    BY <2>1 DEF vars, IInv, TypeOK, Remembered, FullHoldsError, CheckedIsClean, WrittenLate
<1>. QED
  BY <1>1, <1>2, <1>3, <1>4, <1>5, <1>6, <1>7, <1>8, <1>9, <1>10 DEF Next, CloseBrace

LEMMA DriverInvariant == Spec => []IInv
<1>1. Init => IInv
  BY DriverInit
<1>2. IInv /\ [Next]_vars => IInv'
  BY DriverStep
<1>. QED
  BY <1>1, <1>2, PTL DEF Spec

\* The driver is in a phase only with a live context, for every capacity of the
\* bag (main, ket_context_destroy).
THEOREM DriverTypeCorrect == Spec => []TypeOK
<1>1. IInv => TypeOK
  BY DEF IInv
<1>. QED
  BY <1>1, DriverInvariant, PTL

\* A program in which a phase found an error yields neither a file nor an
\* execution, for every capacity of the bag: a bag that drops an error holds
\* one already, so none of the checks of its counter lets the program pass
\* (main, ket_diag_push, ket_diag_has_errors).
THEOREM DriverErrorsStopOutput == Spec => []ErrorsStopOutput
<1>1. IInv => ErrorsStopOutput
  BY DEF IInv, CheckedIsClean, ErrorsStopOutput
<1>. QED
  BY <1>1, DriverInvariant, PTL
=============================================================================
