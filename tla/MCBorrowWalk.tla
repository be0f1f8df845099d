---------------------------- MODULE MCBorrowWalk ----------------------------
(* Programs over three interchangeable identifiers.                        *)
EXTENDS BorrowWalk, TLC

Identifiers == Permutations(Vars)

\* One function without blocks, and the function after it; branches; loops;
\* and the forms the walk does not look into.
EveryDialect ==
    {{"ref", "assign", "return"}, {"ref", "block", "if", "shadow"},
     {"ref", "block", "loop", "assign"}, {"ref", "unwalked", "assign_from", "shadow"}}
=============================================================================
