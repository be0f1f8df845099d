----------------------------- MODULE BorrowTable -----------------------------
(***************************************************************************)
(* The borrow checker's table (src/src/borrow.c): one entry per variable   *)
(* NAME, found by strcmp, whatever scope the variable is in.               *)
(*                                                                         *)
(* Every operator takes the table and returns the table or a verdict, so   *)
(* that BorrowWalk can chain several calls for one AST node.  A call that  *)
(* reports a diagnostic leaves the table as it was.                        *)
(***************************************************************************)
EXTENDS Naturals

Entry == [moved : BOOLEAN, shared : Nat, mut : BOOLEAN]
NewEntry == [moved |-> FALSE, shared |-> 0, mut |-> FALSE]

NoEntries == [v \in {} |-> NewEntry]

\* find_entry >= 0
Tracked(es, v) == v \in DOMAIN es

\* borrow_decl_var: adds the entry, or resets the one of that name.
Declared(es, v) ==
    [w \in DOMAIN es \cup {v} |-> IF w = v THEN NewEntry ELSE es[w]]

Lent(e) == e.shared > 0 \/ e.mut

\* Slips: a test of borrow_check_move or borrow_check_mut_borrow is forgotten.
MoveFailsIfMoved(es, v) == Tracked(es, v) /\ es[v].moved
MutFailsIfMutOrMoved(es, v) == Tracked(es, v) /\ (es[v].mut \/ es[v].moved)

\* Which calls report a diagnostic; a name without an entry never does.
MoveFails(es, v) == Tracked(es, v) /\ (Lent(es[v]) \/ es[v].moved)
SharedFails(es, v) == Tracked(es, v) /\ (es[v].mut \/ es[v].moved)
MutFails(es, v) == Tracked(es, v) /\ (Lent(es[v]) \/ es[v].moved)
UseFails(es, v) == Tracked(es, v) /\ es[v].moved
AssignFails(es, v) == Tracked(es, v) /\ Lent(es[v])

\* Slip: an assignment gives back a loan without asking for one.
AfterAssignReturning(es, v) ==
    IF Tracked(es, v) /\ ~AssignFails(es, v)
    THEN [es EXCEPT ![v].moved = FALSE, ![v].shared = @ - 1] ELSE es

\* Slip: a name without an entry is given one.
AfterMoveAdding(es, v) ==
    IF ~MoveFails(es, v)
    THEN [w \in DOMAIN es \cup {v} |-> IF w = v THEN [NewEntry EXCEPT !.moved = TRUE] ELSE es[w]]
    ELSE es

\* The table after each call: unchanged when the name is not tracked.
AfterMove(es, v) ==
    IF Tracked(es, v) /\ ~MoveFails(es, v)
    THEN [es EXCEPT ![v].moved = TRUE] ELSE es
AfterShared(es, v) ==
    IF Tracked(es, v) /\ ~SharedFails(es, v)
    THEN [es EXCEPT ![v].shared = @ + 1] ELSE es
AfterMut(es, v) ==
    IF Tracked(es, v) /\ ~MutFails(es, v)
    THEN [es EXCEPT ![v].mut = TRUE] ELSE es
AfterAssign(es, v) ==
    IF Tracked(es, v) /\ ~AssignFails(es, v)
    THEN [es EXCEPT ![v].moved = FALSE] ELSE es
=============================================================================
