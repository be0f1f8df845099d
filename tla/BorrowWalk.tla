----------------------------- MODULE BorrowWalk -----------------------------
(***************************************************************************)
(* borrow_check_module over a program (src/src/borrow.c from               *)
(* borrow_check_expr on), with the names the parser puts in the AST        *)
(* (src/src/parser.c).                                                     *)
(*                                                                         *)
(* The program is not fixed: each action lets the programmer write one     *)
(* more statement, and makes the calls the walk makes for it, in order, on *)
(* the table of BorrowTable.  Beside the table, the model keeps what the   *)
(* program really does under the rules of docs/language/borrowing.md: the  *)
(* bindings in scope, which of them may have been moved out on some path,  *)
(* which references are alive, and whether a rule has been broken.  The    *)
(* properties compare the table and the verdict with that.                 *)
(*                                                                         *)
(* Names are what the parser stores: a table entry is never found again by *)
(* a later occurrence (Key).  The walk would go on after a diagnostic, but *)
(* its verdict (error_count > 0) could no longer change: the model stops   *)
(* there.                                                                  *)
(***************************************************************************)
EXTENDS BorrowTable, Sequences, FiniteSets, FiniteSetsExt

CONSTANTS
    Vars,      \* the identifiers programs use
    Dialects,  \* sets of forms: each program is written in one of them
    MaxStmts,  \* bound: statements of a program
    MaxNest    \* bound: blocks open at one time

AllForms == {"ref", "assign", "assign_from", "unwalked", "block", "if", "loop",
             "return", "shadow"}

ASSUME WalkAssumption ==
    /\ Dialects \subseteq SUBSET AllForms
    /\ MaxStmts \in Nat
    /\ MaxNest \in Nat

VARIABLES
    forms,     \* the forms of statement this program uses; never changes
    entries,   \* bs->entries
    rejected,  \* error_count > 0
    len,       \* how many statements have been written
    env,       \* the bindings in scope, innermost last
    nest,      \* the blocks the walk is in, innermost last
    gone,      \* the instances that may have been moved out on some path to here
    refs,      \* the references alive on some path to here
    misused,   \* an instance that may have been moved out has been used
    aliased    \* an instance has been moved, written or lent against a loan

vars == <<forms, entries, rejected, len, env, nest, gone, refs, misused, aliased>>

\* A binding is identified by the statement that declares it.
Instance == 1 .. MaxStmts
Binding == [name : Vars, inst : Instance]
Ref == [holder : Instance, target : Instance, mut : BOOLEAN]

\* The table, the program and what is known of it have their types, and every
\* block starts within the bindings in scope (borrow_enter_scope, borrow_exit_scope).
TypeOK ==
    /\ forms \in Dialects
    /\ \A k \in DOMAIN entries : entries[k] \in Entry
    /\ rejected \in BOOLEAN
    /\ len \in 0 .. MaxStmts
    /\ env \in Seq(Binding)
    /\ Len(nest) <= MaxNest
    /\ \A f \in DOMAIN nest : nest[f].base <= Len(env)
    /\ gone \subseteq Instance
    /\ refs \subseteq Ref
    /\ misused \in BOOLEAN
    /\ aliased \in BOOLEAN
-----------------------------------------------------------------------------

\* The string of the i-th occurrence in the statement being written, which is
\* one of v.  parse_primary_expr, parse_var_decl and parse_fn_decl store the
\* start of the token: a pointer into the source that strcmp reads to the end
\* of the file, so occurrences are equal to themselves only.  (`self` is a
\* literal, but borrow_check_module declares no parameter of that kind.)
Key(v, i) == <<v, len + 1, i>>

Visible(v) == \E i \in DOMAIN env : env[i].name = v
InstOf(v) == env[Max({i \in DOMAIN env : env[i].name = v})].inst
LoansOf(i) == {r \in refs : r.target = i}
HoldsRef(i) == \E r \in refs : r.holder = i

\* What survives when the bindings above position n go out of scope.
EnvTo(n) == SubSeq(env, 1, n)
RefsTo(n) == {r \in refs : \E i \in 1 .. n : env[i].inst = r.holder}

InLoop == \E f \in DOMAIN nest : nest[f].kind = "loop"

\* The walk goes on: room for a statement, and no verdict yet.
Writing == len < MaxStmts /\ ~rejected
NextStmt == len' = len + 1 /\ UNCHANGED forms

\* A name may be declared; again in the same scope or an inner one only in
\* programs that shadow.
Declarable(v) == "shadow" \in forms \/ ~Visible(v)
Bound(v) == Append(env, [name |-> v, inst |-> len + 1])

\* A read of instance i, seen by every loop it is inside of.
NoteRead(i) ==
    nest' = [f \in DOMAIN nest |-> [nest[f] EXCEPT !.reads = @ \cup {i}]]
-----------------------------------------------------------------------------
Init ==
    /\ forms \in Dialects
    /\ entries = NoEntries
    /\ rejected = FALSE
    /\ len = 0
    /\ env = <<>>
    /\ nest = <<>>
    /\ gone = {}
    /\ refs = {}
    /\ misused = FALSE
    /\ aliased = FALSE

\* let v = <literal>;  and a parameter v of the next function.
Let(v) ==
    /\ Writing /\ NextStmt
    /\ Declarable(v)
    /\ entries' = Declared(entries, Key(v, 1))
    /\ env' = Bound(v)
    /\ UNCHANGED <<rejected, nest, gone, refs, misused, aliased>>

\* let v = w;  declares v, then uses w, then moves w.
LetFrom(v, w) ==
    LET es == Declared(entries, Key(v, 1))
        i == InstOf(w)
    IN  /\ Writing /\ NextStmt
        /\ Declarable(v) /\ Visible(w)
        /\ entries' = AfterMove(es, Key(w, 2))
        /\ rejected' = (UseFails(es, Key(w, 2)) \/ MoveFails(es, Key(w, 2)))
        /\ env' = Bound(v)
        /\ NoteRead(i)
        /\ gone' = gone \cup {i}
        /\ refs' = {[r EXCEPT !.holder = IF @ = i THEN len + 1 ELSE @] : r \in refs}
        /\ misused' = (misused \/ i \in gone)
        /\ aliased' = (aliased \/ LoansOf(i) # {})

\* let v = &w;  or  let v = &mut w;  declares v, borrows w, then uses w.
LetRef(v, w, mut) ==
    LET es == Declared(entries, Key(v, 1))
        k == Key(w, 2)
        i == InstOf(w)
    IN  /\ Writing /\ NextStmt
        /\ "ref" \in forms
        /\ Declarable(v) /\ Visible(w)
        /\ entries' = IF mut THEN AfterMut(es, k) ELSE AfterShared(es, k)
        /\ rejected' = \/ IF mut THEN MutFails(es, k) ELSE SharedFails(es, k)
                       \/ UseFails(entries', k)
        /\ env' = Bound(v)
        /\ NoteRead(i)
        /\ refs' = refs \cup {[holder |-> len + 1, target |-> i, mut |-> mut]}
        /\ misused' = (misused \/ i \in gone)
        /\ aliased' = (aliased \/ \E r \in LoansOf(i) : mut \/ r.mut)
        /\ UNCHANGED gone

\* print(w);  arguments are uses, not moves.
Use(w) ==
    /\ Writing /\ NextStmt
    /\ Visible(w)
    /\ rejected' = UseFails(entries, Key(w, 1))
    /\ NoteRead(InstOf(w))
    /\ misused' = (misused \/ InstOf(w) \in gone)
    /\ UNCHANGED <<entries, env, gone, refs, aliased>>

\* print(w as int);  *w = 1;  w.f = 1;  let (a, b) = w;  match e { _ if w ...}:
\* the walk does not look inside a cast, a range, a `?`, an await, a closure, a
\* match guard, a tuple declaration, or a target that is not a name.
UseUnwalked(w) ==
    /\ Writing /\ NextStmt
    /\ "unwalked" \in forms
    /\ Visible(w)
    /\ NoteRead(InstOf(w))
    /\ misused' = (misused \/ InstOf(w) \in gone)
    /\ UNCHANGED <<entries, rejected, env, gone, refs, aliased>>

\* w = <literal>;  gives a moved variable a value again.  Not written for a
\* variable holding a reference (the types forbid it), nor inside a loop, whose
\* second iteration the model tracks by reads only.
Assign(w) ==
    LET i == InstOf(w)
    IN  /\ Writing /\ NextStmt
        /\ "assign" \in forms
        /\ Visible(w) /\ ~HoldsRef(i) /\ ~InLoop
        /\ entries' = AfterAssign(entries, Key(w, 1))
        /\ rejected' = AssignFails(entries, Key(w, 1))
        /\ gone' = gone \ {i}
        /\ aliased' = (aliased \/ LoansOf(i) # {})
        /\ UNCHANGED <<env, nest, refs, misused>>

\* v = w;  checks the assignment to v, then uses w: w is not moved.
AssignFrom(v, w) ==
    LET es == AfterAssign(entries, Key(v, 1))
        i == InstOf(w)
        j == InstOf(v)
    IN  /\ Writing /\ NextStmt
        /\ "assign_from" \in forms
        /\ v # w /\ Visible(v) /\ Visible(w)
        /\ ~HoldsRef(i) /\ ~HoldsRef(j) /\ ~InLoop
        /\ entries' = es
        /\ rejected' = (AssignFails(entries, Key(v, 1)) \/ UseFails(es, Key(w, 2)))
        /\ gone' = (gone \cup {i}) \ {j}
        /\ misused' = (misused \/ i \in gone)
        /\ aliased' = (aliased \/ LoansOf(i) \cup LoansOf(j) # {})
        /\ UNCHANGED <<env, nest, refs>>

\* return w;  uses w, then moves it; the function is over, and what it
\* declared leaves the program but not the table.
Return(w) ==
    LET i == InstOf(w)
    IN  /\ Writing /\ NextStmt
        /\ "return" \in forms
        /\ nest = <<>> /\ Visible(w)
        /\ entries' = AfterMove(entries, Key(w, 1))
        /\ rejected' = (UseFails(entries, Key(w, 1)) \/ MoveFails(entries, Key(w, 1)))
        /\ misused' = (misused \/ i \in gone)
        /\ aliased' = (aliased \/ LoansOf(i) # {})
        /\ env' = <<>> /\ gone' = {} /\ refs' = {}
        /\ UNCHANGED nest
-----------------------------------------------------------------------------
\* A block the walk is in: where its bindings start, what held when it was
\* entered, what held at the end of the other branch, and what was read in it.
Frame(kind) ==
    [kind |-> kind, base |-> Len(env), gone0 |-> gone, refs0 |-> refs,
     gone1 |-> gone, refs1 |-> refs, reads |-> {}]

Top == nest[Len(nest)]
Popped == SubSeq(nest, 1, Len(nest) - 1)

Open(kind) ==
    /\ Writing /\ NextStmt
    /\ Len(nest) < MaxNest
    /\ nest' = Append(nest, Frame(kind))

\* {   if c {   while c {   loop {   : scopes do not touch the table.
OpenBlock(kind) ==
    /\ Open(kind)
    /\ kind \in forms
    /\ UNCHANGED <<entries, rejected, env, gone, refs, misused, aliased>>

\* for v in 0..9 {   declares the loop variable.
OpenFor(v) ==
    /\ Open("loop")
    /\ "loop" \in forms
    /\ Declarable(v)
    /\ entries' = Declared(entries, Key(v, 1))
    /\ env' = Bound(v)
    /\ UNCHANGED <<rejected, gone, refs, misused, aliased>>

\* Slip: the scope of a branch ends one binding too far out.
ElseTooFar ==
    /\ Writing /\ NextStmt
    /\ nest # <<>> /\ Top.kind = "if"
    /\ nest' = [nest EXCEPT ![Len(nest)].kind = "else",
                            ![Len(nest)].gone1 = gone,
                            ![Len(nest)].refs1 = RefsTo(Top.base)]
    /\ env' = EnvTo(Top.base - 1)
    /\ gone' = Top.gone0
    /\ refs' = Top.refs0
    /\ UNCHANGED <<entries, rejected, misused, aliased>>

\* } else {   the branches are walked one after the other on the same table.
Else ==
    /\ Writing /\ NextStmt
    /\ nest # <<>> /\ Top.kind = "if"
    /\ nest' = [nest EXCEPT ![Len(nest)].kind = "else",
                            ![Len(nest)].gone1 = gone,
                            ![Len(nest)].refs1 = RefsTo(Top.base)]
    /\ env' = EnvTo(Top.base)
    /\ gone' = Top.gone0
    /\ refs' = Top.refs0
    /\ UNCHANGED <<entries, rejected, misused, aliased>>

\* }   what may hold afterwards is what holds on either path out of the block;
\* a loop body that reads what it has moved does so in its second iteration.
CloseBlock ==
    /\ ~rejected
    /\ nest # <<>>
    /\ nest' = Popped
    /\ env' = EnvTo(Top.base)
    /\ IF Top.kind = "block"
       THEN gone' = gone /\ refs' = RefsTo(Top.base)
       ELSE /\ gone' = gone \cup Top.gone1
            /\ refs' = RefsTo(Top.base) \cup Top.refs1
    /\ misused' = \/ misused
                  \/ /\ Top.kind = "loop"
                     /\ \E i \in Top.reads \cap gone :
                          \E b \in 1 .. Top.base : env[b].inst = i
    /\ UNCHANGED <<forms, entries, rejected, len, aliased>>

Next ==
    \/ \E v \in Vars :
         Let(v) \/ Use(v) \/ UseUnwalked(v) \/ Assign(v) \/ Return(v) \/ OpenFor(v)
    \/ \E v, w \in Vars :
         \/ LetFrom(v, w)
         \/ AssignFrom(v, w)
         \/ \E mut \in BOOLEAN : LetRef(v, w, mut)
    \/ \E kind \in {"block", "if", "loop"} : OpenBlock(kind)
    \/ Else
    \/ CloseBlock

Spec == Init /\ [][Next]_vars
-----------------------------------------------------------------------------
\* What the table of a program comes to: an entry for each binding, none of
\* which shows a move or a loan, whatever the program has moved and lent; and
\* no diagnostic (find_entry, borrow_decl_var and the calls of
\* borrow_check_expr and borrow_check_stmt).
NothingRecorded ==
    /\ ~rejected
    /\ \A b \in DOMAIN env : Tracked(entries, <<env[b].name, env[b].inst, 1>>)
    /\ \A k \in DOMAIN entries : entries[k] = NewEntry

=============================================================================
