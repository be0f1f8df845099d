---------------------------- MODULE ArenaRegion ----------------------------
(***************************************************************************)
(* What src/src/arena.c promises its callers, with no block, offset or     *)
(* byte in it: objects are handed out one after the other, a mark          *)
(* remembers a moment, restoring a mark takes back exactly the objects     *)
(* handed out since, and clearing the region takes back all of them        *)
(* ("O(1) free (reset entire arena)", docs/COMPILER_INTERNALS.md).         *)
(***************************************************************************)
EXTENDS Naturals, Sequences

VARIABLES
    held,     \* the serial numbers of the objects callers may still use
    moments,  \* the marks in force, oldest first: the serial each was set at
    next      \* the serial number of the next object

vars == <<held, moments, next>>

Init ==
    /\ held = {}
    /\ moments = <<>>
    /\ next = 0

\* A new object, distinct from every object handed out before it.
Allocate ==
    /\ held' = held \cup {next}
    /\ next' = next + 1
    /\ UNCHANGED moments

SetMark ==
    /\ moments' = Append(moments, next)
    /\ UNCHANGED <<held, next>>

\* Going back to the k-th mark keeps the objects older than the mark, takes
\* back the younger ones, and the marks set after it lose their meaning.
GoBack(k) ==
    /\ held' = {n \in held : n < moments[k]}
    /\ moments' = SubSeq(moments, 1, k)
    /\ UNCHANGED next

Clear ==
    /\ held' = {}
    /\ moments' = <<>>
    /\ next' = 0

Next ==
    \/ Allocate
    \/ SetMark
    \/ \E k \in DOMAIN moments : GoBack(k)
    \/ Clear

Spec == Init /\ [][Next]_vars
=============================================================================
