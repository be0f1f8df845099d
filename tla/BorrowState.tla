---------------------------- MODULE BorrowState ----------------------------
(***************************************************************************)
(* The API of the borrow checker (src/src/include/borrow.h) as a state     *)
(* machine: any sequence of calls on one BorrowState.                      *)
(***************************************************************************)
EXTENDS BorrowTable

CONSTANTS
    Names,      \* the strings callers pass as variable names
    MaxShared,  \* bound: shared borrows of one variable
    MaxErrors,  \* bound: diagnostics reported
    MaxDepth    \* bound: scopes open at one time

ASSUME BorrowAssumption ==
    /\ MaxShared \in Nat
    /\ MaxErrors \in Nat
    /\ MaxDepth \in Nat

VARIABLES
    entries,      \* bs->entries: a function from the names added so far
    scope_depth,  \* bs->scope_depth
    error_count   \* ctx->diag.error_count

vars == <<entries, scope_depth, error_count>>

TypeOK ==
    /\ DOMAIN entries \subseteq Names
    /\ entries \in [DOMAIN entries -> Entry]
    /\ scope_depth \in Nat
    /\ error_count \in Nat
-----------------------------------------------------------------------------
Report(failed) ==
    /\ failed => error_count < MaxErrors
    /\ error_count' = IF failed THEN error_count + 1 ELSE error_count

\* borrow_state_new
Init ==
    /\ entries = NoEntries
    /\ scope_depth = 0
    /\ error_count = 0

EnterScope ==
    /\ scope_depth < MaxDepth
    /\ scope_depth' = scope_depth + 1
    /\ UNCHANGED <<entries, error_count>>

\* borrow_exit_scope: borrow_check_scope_end looks at the borrows that are
\* still active and changes none of them.
ExitScope ==
    /\ scope_depth > 0
    /\ scope_depth' = scope_depth - 1
    /\ UNCHANGED <<entries, error_count>>

DeclVar(v) ==
    /\ entries' = Declared(entries, v)
    /\ UNCHANGED <<scope_depth, error_count>>

CheckMove(v) ==
    /\ entries' = AfterMove(entries, v)
    /\ Report(MoveFails(entries, v))
    /\ UNCHANGED scope_depth

CheckSharedBorrow(v) ==
    /\ Tracked(entries, v) => entries[v].shared < MaxShared
    /\ entries' = AfterShared(entries, v)
    /\ Report(SharedFails(entries, v))
    /\ UNCHANGED scope_depth

CheckMutBorrow(v) ==
    /\ entries' = AfterMut(entries, v)
    /\ Report(MutFails(entries, v))
    /\ UNCHANGED scope_depth

CheckUse(v) ==
    /\ Report(UseFails(entries, v))
    /\ UNCHANGED <<entries, scope_depth>>

CheckAssign(v) ==
    /\ entries' = AfterAssign(entries, v)
    /\ Report(AssignFails(entries, v))
    /\ UNCHANGED scope_depth

Next ==
    \/ EnterScope
    \/ ExitScope
    \/ \E v \in Names :
         \/ DeclVar(v)
         \/ CheckMove(v)
         \/ CheckSharedBorrow(v)
         \/ CheckMutBorrow(v)
         \/ CheckUse(v)
         \/ CheckAssign(v)

Spec == Init /\ [][Next]_vars
-----------------------------------------------------------------------------
\* "Mutable Borrow: ERROR" in every column of the rules table, "Move: ERROR"
\* once borrowed: no sequence of calls makes an entry both moved and lent, or
\* lent to a writer and to anybody else (borrow_check_move,
\* borrow_check_shared_borrow and borrow_check_mut_borrow test different
\* flags in different orders).
Exclusive ==
    \A v \in DOMAIN entries :
        /\ entries[v].moved => ~Lent(entries[v])
        /\ entries[v].mut => entries[v].shared = 0

\* The flags of an entry as one mode of the ownership protocol.
ModeOf(v) ==
    IF ~Tracked(entries, v) THEN "unknown"
    ELSE IF entries[v].moved THEN "gone"
    ELSE IF entries[v].mut THEN "exclusive"
    ELSE IF entries[v].shared > 0 THEN "lent"
    ELSE "owned"

Protocol == INSTANCE Ownership WITH mode <- [v \in Names |-> ModeOf(v)]

\* Every call is a step of the protocol or leaves it alone: a variable lent to
\* a writer is lent to nobody else and not moved until it is declared again,
\* and a moved one is neither lent nor moved again before it has a value.
FollowsProtocol == Protocol!Spec
=============================================================================
