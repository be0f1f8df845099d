-------------------------------- MODULE Arena --------------------------------
(***************************************************************************)
(* The bump allocator every phase of the compiler takes its memory from    *)
(* (src/src/arena.c, src/src/include/arena.h).                             *)
(*                                                                         *)
(* A block of the list is a record of its size and its bump pointer; the   *)
(* list head..current is the sequence `blocks`.  New blocks are linked     *)
(* after `current` and restore and reset cut the list after the block they *)
(* make current, so `current` is always the last one.  The bytes           *)
(* themselves, malloc against mmap and running out of memory (exit(1)) are *)
(* left out.                                                               *)
(*                                                                         *)
(* `live`, `serial` and the field n of a mark are history: the objects     *)
(* callers hold a pointer to, in the order they were handed out.  A caller *)
(* uses marks as arena.h says (save, then restore): it does not restore a  *)
(* mark set after one it has gone back to, nor one from before a reset.    *)
(***************************************************************************)
EXTENDS Naturals, Sequences

CONSTANTS
    BlockSize,   \* a->block_size: the size of an ordinary block
    HeaderSize,  \* sizeof(ArenaBlock)
    Requests,    \* the sizes callers ask for
    Aligns,      \* the alignments callers ask for
    MaxSerial,   \* bound: objects handed out since the last reset
    MaxMarks     \* bound: marks in force at one time

ASSUME ArenaAssumption ==
    /\ BlockSize \in Nat \ {0}
    /\ HeaderSize \in Nat
    /\ Requests \subseteq Nat
    /\ Aligns \subseteq Nat \ {0}
    /\ MaxSerial \in Nat
    /\ MaxMarks \in Nat

VARIABLES
    blocks,           \* head..current: <<[size, used], ...>>, <<>> once freed
    total_allocated,  \* a->total_allocated
    total_used,       \* a->total_used
    block_count,      \* a->block_count
    marks,            \* the ArenaMarks in force, oldest first
    live,             \* history: the objects callers may still use
    serial            \* history: the number of the next object

counters == <<total_allocated, total_used, block_count>>
vars == <<blocks, total_allocated, total_used, block_count, marks, live, serial>>

Object == [n : Nat, block : Nat, off : Nat, len : Nat \ {0}, align : Aligns]
Block == [size : Nat, used : Nat]
ArenaMark == [block : Nat, used : Nat, n : Nat]

-----------------------------------------------------------------------------
\* (pos + mask) & ~mask: the next multiple of a, for a power of two a.
AlignUp(pos, a) == pos + ((a - (pos % a)) % a)

\* Slip: the two tests for a request larger than a block are forgotten.
NewBlockSizeFixed(size) == BlockSize

\* The size of the block a request that does not fit makes the arena take.
NewBlockSize(size) ==
    IF size + HeaderSize > BlockSize THEN size + BlockSize ELSE BlockSize

FreshBlock(size) == [size |-> size, used |-> 0]

\* g[1] + ... + g[n]
TotalOf(g, n) ==
    LET upto[i \in 0 .. n] == IF i = 0 THEN 0 ELSE upto[i - 1] + g[i]
    IN  upto[n]

SumUsed(s) == TotalOf([i \in DOMAIN s |-> s[i].used], Len(s))
SumSize(s) == TotalOf([i \in DOMAIN s |-> s[i].size], Len(s))

\* An object survives as long as its bytes lie below a bump pointer.
Backed(o, bs) ==
    /\ o.block \in DOMAIN bs
    /\ o.off + o.len <= bs[o.block].used
-----------------------------------------------------------------------------
\* arena_new_size
Init ==
    /\ blocks = <<FreshBlock(BlockSize)>>
    /\ total_allocated = BlockSize
    /\ total_used = 0
    /\ block_count = 1
    /\ marks = <<>>
    /\ live = {}
    /\ serial = 0

HandOut(b, off, len, a) ==
    /\ live' = live \cup
         {[n |-> serial, block |-> b, off |-> off, len |-> len, align |-> a]}
    /\ serial' = serial + 1

\* Slip: the bump pointer advances by the size, not from the aligned position.
AllocInBlockUnpadded(size, a) ==
    LET c == Len(blocks)
        pos == AlignUp(blocks[c].used, a)
    IN  /\ pos + size <= blocks[c].size
        /\ blocks' = [blocks EXCEPT ![c].used = @ + size]
        /\ total_used' = total_used + size
        /\ HandOut(c, pos, size, a)
        /\ UNCHANGED <<total_allocated, block_count, marks>>

\* arena_alloc_aligned, the request fits in the current block.
AllocInBlock(size, a) ==
    LET c == Len(blocks)
        pos == AlignUp(blocks[c].used, a)
    IN  /\ pos + size <= blocks[c].size
        /\ blocks' = [blocks EXCEPT ![c].used = pos + size]
        /\ total_used' = total_used + size
        /\ HandOut(c, pos, size, a)
        /\ UNCHANGED <<total_allocated, block_count, marks>>

\* arena_alloc_aligned, the request needs a new block, which becomes current.
AllocNewBlock(size, a) ==
    LET c == Len(blocks)
        new_size == NewBlockSize(size)
    IN  /\ AlignUp(blocks[c].used, a) + size > blocks[c].size
        /\ blocks' = Append(blocks, [size |-> new_size, used |-> size])
        /\ block_count' = block_count + 1
        /\ total_allocated' = total_allocated + new_size
        /\ total_used' = total_used + size
        /\ HandOut(c + 1, 0, size, a)
        /\ UNCHANGED marks

\* A request for 0 bytes is one for 1 byte.
Alloc(req, a) ==
    LET size == IF req = 0 THEN 1 ELSE req
    IN  /\ blocks # <<>>
        /\ serial < MaxSerial
        /\ AllocInBlock(size, a) \/ AllocNewBlock(size, a)

\* Slip: the mark remembers the block and not how far it was used.
MarkBlockStart ==
    /\ blocks # <<>>
    /\ Len(marks) < MaxMarks
    /\ marks' = Append(marks, [block |-> Len(blocks), used |-> 0, n |-> serial])
    /\ UNCHANGED <<blocks, counters, live, serial>>

\* arena_mark
Mark ==
    /\ blocks # <<>>
    /\ Len(marks) < MaxMarks
    /\ marks' = Append(marks, [block |-> Len(blocks),
                               used |-> blocks[Len(blocks)].used,
                               n |-> serial])
    /\ UNCHANGED <<blocks, counters, live, serial>>

\* Slip: the younger blocks are cut off, the marked one keeps its bump pointer.
CutAfter(m) == SubSeq(blocks, 1, m.block)

\* The list as arena_restore leaves it.
CutAt(m) == [SubSeq(blocks, 1, m.block) EXCEPT ![m.block].used = m.used]

\* Slip: the totals are not recalculated.
RestoreKeepingTotals(k) ==
    LET kept == CutAt(marks[k])
    IN  /\ blocks' = kept
        /\ marks' = SubSeq(marks, 1, k)
        /\ live' = {o \in live : Backed(o, kept)}
        /\ UNCHANGED <<counters, serial>>

\* arena_restore: cuts the list after the marked block, puts the bump pointer
\* back and recomputes both totals; block_count keeps its value.
Restore(k) ==
    LET kept == CutAt(marks[k])
    IN  /\ blocks' = kept
        /\ total_used' = SumUsed(kept)
        /\ total_allocated' = SumSize(kept)
        /\ marks' = SubSeq(marks, 1, k)
        /\ live' = {o \in live : Backed(o, kept)}
        /\ UNCHANGED <<block_count, serial>>

\* arena_reset: keeps the first block only; nothing to do once freed.
Reset ==
    /\ blocks # <<>>
    /\ blocks' = <<[blocks[1] EXCEPT !.used = 0]>>
    /\ block_count' = 1
    /\ total_used' = 0
    /\ total_allocated' = blocks[1].size
    /\ marks' = <<>>
    /\ live' = {}
    /\ serial' = 0

\* arena_free
Free ==
    /\ blocks # <<>>
    /\ blocks' = <<>>
    /\ block_count' = 0
    /\ total_allocated' = 0
    /\ total_used' = 0
    /\ marks' = <<>>
    /\ live' = {}
    /\ serial' = 0

\* *arena = arena_new_size(...) on an arena that was freed.
New ==
    /\ blocks = <<>>
    /\ blocks' = <<FreshBlock(BlockSize)>>
    /\ total_allocated' = BlockSize
    /\ block_count' = 1
    /\ UNCHANGED <<total_used, marks, live, serial>>

Next ==
    \/ \E req \in Requests, a \in Aligns : Alloc(req, a)
    \/ Mark
    \/ \E k \in DOMAIN marks : Restore(k)
    \/ Reset
    \/ Free
    \/ New

Spec == Init /\ [][Next]_vars
-----------------------------------------------------------------------------
\* Every object a caller holds lies inside a block that is still in the list,
\* below its bump pointer and its end, at the alignment that was asked for.
Placed ==
    \A o \in live :
        /\ Backed(o, blocks)
        /\ blocks[o.block].used <= blocks[o.block].size
        /\ o.off % o.align = 0

\* The types of the variables, and that objects are placed like that.
TypeOK ==
    /\ blocks \in Seq(Block)
    /\ total_allocated \in Nat
    /\ total_used \in Nat
    /\ block_count \in Nat
    /\ marks \in Seq(ArenaMark)
    /\ live \subseteq Object
    /\ serial \in Nat
    /\ Placed

\* No two objects share a byte, whatever marks were restored in between: the
\* space a restore takes back is never space somebody still holds.
Disjoint ==
    \A o, p \in live :
        o.n # p.n /\ o.block = p.block =>
            o.off + o.len <= p.off \/ p.off + p.len <= o.off

\* A mark separates the objects older than it, which lie below it, from the
\* younger ones, which lie above it: what arena_restore's (block, used) pair
\* relies on to undo "speculative parsing" and nothing else.
MarksSeparate ==
    \A k \in DOMAIN marks : \A o \in live :
        LET m == marks[k]
            below == o.block < m.block \/
                     (o.block = m.block /\ o.off + o.len <= m.used)
        IN  o.n < m.n <=> below

\* The bytes callers hold of the first m objects, object by object.
LenOf(i) == IF \E o \in live : o.n + 1 = i
            THEN (CHOOSE o \in live : o.n + 1 = i).len ELSE 0
HeldOf(m) == TotalOf([i \in 1 .. serial |-> LenOf(i)], m)

\* What arena_total_used, arena_total_allocated and arena_block_count report:
\* block_count is never less than the blocks held (it is more after a restore,
\* which frees blocks without counting them off); total_allocated is
\* exactly the blocks held; total_used is at least what callers hold and at
\* most what the bump pointers passed over (it leaves out alignment padding
\* until a restore recomputes it with the padding).
Accounting ==
    /\ total_allocated = SumSize(blocks)
    /\ HeldOf(serial) <= total_used
    /\ total_used <= SumUsed(blocks)
    /\ SumUsed(blocks) <= total_allocated
    /\ block_count >= Len(blocks)

\* The allocator with its blocks and offsets does what ArenaRegion promises.
Region == INSTANCE ArenaRegion WITH
            held <- {o.n : o \in live},
            moments <- [k \in DOMAIN marks |-> marks[k].n],
            next <- serial

ImplementsRegion == Region!Spec
=============================================================================
