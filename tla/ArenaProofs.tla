----------------------------- MODULE ArenaProofs -----------------------------
(***************************************************************************)
(* For every block size, request, alignment and bound: the arena never     *)
(* hands out overlapping storage and never takes storage back from under a *)
(* caller, and it implements ArenaRegion.                                  *)
(***************************************************************************)
EXTENDS Arena, WellFoundedInduction, TLAPS

\* Induction over numbers, stated for sets: the provers do not take the library's
\* theorems about predicates.
LEMMA NumberInduction ==
    ASSUME NEW P, 0 \in P, \A n \in Nat : n \in P => n + 1 \in P
    PROVE  Nat \subseteq P
<1>. DEFINE R == OpToRel(<, Nat)
            S == {n \in Nat : n \notin P}
<1>1. SUFFICES ASSUME S # {} PROVE FALSE
  OBVIOUS
<1>2. PICK m \in S : \A n \in S : ~ (<<n, m>> \in R)
  <2>. HIDE DEF R, S
  <2>1. IsWellFoundedOn(R, Nat)
    BY NatLessThanWellFounded DEF R
  <2>2. S \subseteq Nat
    BY DEF S
  <2>. QED
    BY <1>1, <2>1, <2>2, WFMin
<1>3. m \in Nat /\ m # 0 /\ m \notin P
  OBVIOUS
<1>4. m - 1 \in Nat /\ (m - 1) + 1 = m /\ m - 1 < m
  BY <1>3
<1>5. <<m - 1, m>> \in R
  BY <1>3, <1>4 DEF OpToRel
<1>. QED
  BY <1>2, <1>3, <1>4, <1>5

\* The padded position is no lower than the bump pointer it starts from.
LEMMA AlignUpBound ==
    ASSUME NEW pos \in Nat, NEW a \in Nat \ {0}
    PROVE  AlignUp(pos, a) \in Nat /\ AlignUp(pos, a) >= pos
<1>1. pos % a \in 0 .. (a - 1)
  OBVIOUS
<1>2. (a - (pos % a)) % a \in 0 .. (a - 1)
  BY <1>1
<1>. QED
  BY <1>2 DEF AlignUp

\* The next multiple of a is a multiple of a.
LEMMA AlignUpMultiple ==
    ASSUME NEW pos \in Nat, NEW a \in Nat \ {0}
    PROVE  AlignUp(pos, a) % a = 0
<1>. DEFINE q == pos \div a
            r == pos % a
<1>1. \A k \in Nat : (a * k) % a = 0
  OBVIOUS
<1>2. q \in Nat /\ r \in 0 .. (a - 1) /\ pos = a * q + r
  OBVIOUS
<1>3. a * (q + 1) = a * q + a /\ q + 1 \in Nat
  BY <1>2
<1>0. pos % a = r
  OBVIOUS
<1>. HIDE DEF q, r
<1>4. CASE r = 0
  <2>1. (a - 0) % a = 0
    OBVIOUS
  <2>2. AlignUp(pos, a) = a * q
    BY <1>0, <1>2, <1>4, <2>1 DEF AlignUp
  <2>. QED
    BY <1>1, <1>2, <2>2
<1>5. CASE r # 0
  <2>1. (a - r) % a = a - r
    BY <1>2, <1>5
  <2>2. AlignUp(pos, a) = pos + (a - r)
    BY <1>0, <2>1 DEF AlignUp
  <2>3. AlignUp(pos, a) = a * (q + 1)
    <3>1. a * q \in Nat
      BY <1>2
    <3>. QED
      BY <1>2, <1>3, <2>2, <3>1
  <2>. QED
    BY <1>1, <1>3, <2>3
<1>. QED
  BY <1>4, <1>5

\* Overwriting one element of a sequence leaves the others alone.
LEMMA SetOne ==
    ASSUME NEW S, NEW s \in Seq(S), NEW b \in 1 .. Len(s), NEW v \in S
    PROVE  /\ [s EXCEPT ![b] = v] \in Seq(S)
           /\ Len([s EXCEPT ![b] = v]) = Len(s)
           /\ [s EXCEPT ![b] = v][b] = v
           /\ \A i \in 1 .. Len(s) : i # b => [s EXCEPT ![b] = v][i] = s[i]
  OBVIOUS

\* A function over an initial interval is a sequence of that length.
LEMMA AsSequence ==
    ASSUME NEW S, NEW n \in Nat, NEW f \in [1 .. n -> S]
    PROVE  f \in Seq(S) /\ Len(f) = n
  OBVIOUS

-----------------------------------------------------------------------------
\* The sums TotalOf builds on its way through g.
Adding(f, g, n) ==
    \A i \in 0 .. n : f[i] = IF i = 0 THEN 0 ELSE f[i - 1] + g[i]

\* There is one way to add up.
LEMMA AddingAgrees ==
    ASSUME NEW g, NEW n \in Nat, NEW f, NEW h, Adding(f, g, n), Adding(h, g, n)
    PROVE  \A i \in 0 .. n : f[i] = h[i]
<1>. DEFINE Q == {i \in Nat : i <= n => f[i] = h[i]}
<1>1. 0 \in Q
  BY DEF Adding
<1>2. ASSUME NEW i \in Nat, i \in Q PROVE i + 1 \in Q
  <2>1. SUFFICES ASSUME i + 1 <= n PROVE f[i + 1] = h[i + 1]
    OBVIOUS
  <2>2. i + 1 \in 0 .. n /\ i + 1 # 0 /\ (i + 1) - 1 = i /\ i <= n
    BY <2>1
  <2>. QED
    BY <1>2, <2>2 DEF Adding
<1>3. Nat \subseteq Q
  <2>. HIDE DEF Q
  <2>. QED
    BY <1>1, <1>2, NumberInduction
<1>. QED
  BY <1>3

\* The sums exist, however many numbers are added, and TotalOf is the last.
LEMMA TotalBuilds ==
    ASSUME NEW g, NEW n \in Nat, \A i \in 1 .. n : g[i] \in Nat
    PROVE  \E f \in [0 .. n -> Nat] : Adding(f, g, n) /\ TotalOf(g, n) = f[n]
<1>. DEFINE P == {m \in Nat : m <= n => \E f \in [0 .. m -> Nat] : Adding(f, g, m)}
            D(f) == [i \in 0 .. n |-> IF i = 0 THEN 0 ELSE f[i - 1] + g[i]]
<1>1. 0 \in P
  <2>1. [i \in 0 .. 0 |-> 0] \in [0 .. 0 -> Nat] /\ Adding([i \in 0 .. 0 |-> 0], g, 0)
    BY DEF Adding
  <2>. QED
    BY <2>1
<1>2. ASSUME NEW m \in Nat, m \in P PROVE m + 1 \in P
  <2>1. SUFFICES ASSUME m + 1 <= n
                 PROVE  \E h \in [0 .. m + 1 -> Nat] : Adding(h, g, m + 1)
    OBVIOUS
  <2>2. PICK f \in [0 .. m -> Nat] : Adding(f, g, m)
    BY <1>2, <2>1
  <2>. DEFINE e == f[m] + g[m + 1]
              h == [i \in 0 .. m + 1 |-> IF i = m + 1 THEN e ELSE f[i]]
  <2>3. e \in Nat
    <3>1. f[m] \in Nat /\ g[m + 1] \in Nat
      BY <2>1
    <3>. QED
      BY <3>1
  <2>4. \A i \in 0 .. m + 1 : i # m + 1 => i \in 0 .. m
    OBVIOUS
  <2>. HIDE DEF e
  <2>5. h \in [0 .. m + 1 -> Nat]
    BY <2>3, <2>4
  <2>6. ASSUME NEW i \in 0 .. m + 1
        PROVE  h[i] = IF i = 0 THEN 0 ELSE h[i - 1] + g[i]
    <3>1. CASE i = m + 1
      <4>1. h[m + 1] = e /\ h[m] = f[m] /\ (m + 1) - 1 = m /\ m + 1 # 0
        OBVIOUS
      <4>. QED
        BY <3>1, <4>1 DEF e
    <3>2. CASE i # m + 1
      <4>1. i \in 0 .. m /\ h[i] = f[i] /\ (i # 0 => i - 1 \in 0 .. m /\ h[i - 1] = f[i - 1])
        BY <3>2
      <4>. QED
        BY <2>2, <4>1 DEF Adding
    <3>. QED
      BY <3>1, <3>2
  <2>. QED
    BY <2>5, <2>6 DEF Adding
<1>3. n \in P
  <2>. HIDE DEF P
  <2>. QED
    BY <1>1, <1>2, NumberInduction
<1>4. PICK f \in [0 .. n -> Nat] : Adding(f, g, n)
  BY <1>3
<1>5. f = D(f)
  BY <1>4 DEF Adding
<1>. DEFINE upto == CHOOSE u : u = D(u)
<1>6. upto = D(upto)
  BY <1>5
<1>7. TotalOf(g, n) = upto[n]
  BY DEF TotalOf
<1>8. Adding(upto, g, n)
  <2>. HIDE DEF upto
  <2>1. \A i \in 0 .. n : upto[i] = D(upto)[i]
    BY <1>6
  <2>. QED
    BY <2>1 DEF Adding
<1>9. upto[n] = f[n]
  <2>. HIDE DEF upto
  <2>. QED
    BY <1>4, <1>8, AddingAgrees
<1>. QED
  BY <1>4, <1>7, <1>9

\* TotalOf adds one number at a time.
LEMMA TotalSteps ==
    ASSUME NEW g, NEW n \in Nat, \A i \in 1 .. n : g[i] \in Nat
    PROVE  /\ TotalOf(g, 0) = 0
           /\ TotalOf(g, n) \in Nat
           /\ n > 0 => TotalOf(g, n) = TotalOf(g, n - 1) + g[n]
<1>1. TotalOf(g, 0) = 0
  <2>1. \A i \in 1 .. 0 : g[i] \in Nat
    OBVIOUS
  <2>2. PICK f \in [0 .. 0 -> Nat] : Adding(f, g, 0) /\ TotalOf(g, 0) = f[0]
    BY <2>1, TotalBuilds
  <2>. QED
    BY <2>2 DEF Adding
<1>2. PICK f \in [0 .. n -> Nat] : Adding(f, g, n) /\ TotalOf(g, n) = f[n]
  BY TotalBuilds
<1>3. TotalOf(g, n) \in Nat
  BY <1>2
<1>4. ASSUME n > 0 PROVE TotalOf(g, n) = TotalOf(g, n - 1) + g[n]
  <2>1. PICK k \in Nat : k = n - 1
    BY <1>4
  <2>2. k \in 0 .. k /\ \A i \in 1 .. k : g[i] \in Nat
    BY <2>1
  <2>3. PICK h \in [0 .. k -> Nat] : Adding(h, g, k) /\ TotalOf(g, k) = h[k]
    BY <2>2, TotalBuilds
  <2>4. Adding(f, g, k)
    BY <1>2, <2>1 DEF Adding
  <2>5. f[k] = h[k]
    <3>1. \A i \in 0 .. k : f[i] = h[i]
      BY <2>1, <2>3, <2>4, AddingAgrees
    <3>. QED
      BY <3>1, <2>2
  <2>6. n \in 0 .. n /\ n # 0
    BY <1>4
  <2>7. f[n] = f[n - 1] + g[n]
    BY <1>2, <2>6 DEF Adding
  <2>. QED
    BY <1>2, <2>1, <2>3, <2>5, <2>7
<1>. QED
  BY <1>1, <1>3, <1>4

\* Totals are ordered as the numbers they add up.
LEMMA TotalOrder ==
    ASSUME NEW g, NEW h, NEW n \in Nat,
           \A i \in 1 .. n : g[i] \in Nat /\ h[i] \in Nat /\ g[i] <= h[i]
    PROVE  TotalOf(g, n) <= TotalOf(h, n)
<1>. DEFINE P == {m \in Nat : m <= n => TotalOf(g, m) <= TotalOf(h, m)}
<1>1. 0 \in P
  BY TotalSteps
<1>2. ASSUME NEW m \in Nat, m \in P PROVE m + 1 \in P
  <2>1. SUFFICES ASSUME m + 1 <= n PROVE TotalOf(g, m + 1) <= TotalOf(h, m + 1)
    OBVIOUS
  <2>2. /\ \A i \in 1 .. m + 1 : g[i] \in Nat /\ h[i] \in Nat
        /\ \A i \in 1 .. m : g[i] \in Nat /\ h[i] \in Nat
        /\ g[m + 1] \in Nat /\ h[m + 1] \in Nat /\ g[m + 1] <= h[m + 1]
        /\ m + 1 > 0 /\ (m + 1) - 1 = m /\ m <= n /\ m + 1 \in Nat
    BY <2>1
  <2>3. /\ TotalOf(g, m) \in Nat /\ TotalOf(h, m) \in Nat
        /\ TotalOf(g, m) <= TotalOf(h, m)
    BY <1>2, <2>2, TotalSteps
  <2>4. TotalOf(g, m + 1) = TotalOf(g, m) + g[m + 1]
    BY <2>2, TotalSteps
  <2>5. TotalOf(h, m + 1) = TotalOf(h, m) + h[m + 1]
    BY <2>2, TotalSteps
  <2>. QED
    BY <2>2, <2>3, <2>4, <2>5
<1>3. n \in P
  <2>. HIDE DEF P
  <2>. QED
    BY <1>1, <1>2, NumberInduction
<1>. QED
  BY <1>3

\* Equal numbers, equal totals.
LEMMA TotalSame ==
    ASSUME NEW g, NEW h, NEW n \in Nat,
           \A i \in 1 .. n : g[i] \in Nat /\ h[i] = g[i]
    PROVE  TotalOf(h, n) = TotalOf(g, n)
<1>1. TotalOf(h, n) <= TotalOf(g, n) /\ TotalOf(g, n) <= TotalOf(h, n)
  BY TotalOrder
<1>2. TotalOf(h, n) \in Nat /\ TotalOf(g, n) \in Nat
  BY TotalSteps
<1>. QED
  BY <1>1, <1>2

\* A total grows with the numbers added, and not when they are zeros.
LEMMA TotalTail ==
    ASSUME NEW g, NEW m \in Nat, NEW n \in Nat, m <= n,
           \A i \in 1 .. n : g[i] \in Nat
    PROVE  /\ TotalOf(g, m) <= TotalOf(g, n)
           /\ (\A i \in m + 1 .. n : g[i] = 0) => TotalOf(g, n) = TotalOf(g, m)
<1>. DEFINE P == {j \in Nat : m <= j /\ j <= n =>
                    /\ TotalOf(g, m) <= TotalOf(g, j)
                    /\ (\A i \in m + 1 .. n : g[i] = 0) => TotalOf(g, j) = TotalOf(g, m)}
<1>0. TotalOf(g, m) \in Nat
  <2>1. \A i \in 1 .. m : g[i] \in Nat
    OBVIOUS
  <2>. QED
    BY <2>1, TotalSteps
<1>1. 0 \in P
  <2>1. SUFFICES ASSUME m <= 0 PROVE m = 0
    BY <1>0
  <2>. QED
    BY <2>1
<1>2. ASSUME NEW j \in Nat, j \in P PROVE j + 1 \in P
  <2>1. SUFFICES ASSUME m <= j + 1, j + 1 <= n
                 PROVE  /\ TotalOf(g, m) <= TotalOf(g, j + 1)
                        /\ (\A i \in m + 1 .. n : g[i] = 0) =>
                             TotalOf(g, j + 1) = TotalOf(g, m)
    OBVIOUS
  <2>2. CASE m = j + 1
    BY <1>0, <2>2
  <2>3. CASE m <= j
    <3>1. /\ \A i \in 1 .. j : g[i] \in Nat
          /\ \A i \in 1 .. j + 1 : g[i] \in Nat
          /\ g[j + 1] \in Nat /\ j + 1 \in m + 1 .. n
          /\ j + 1 > 0 /\ (j + 1) - 1 = j /\ j + 1 \in Nat
      BY <2>1, <2>3
    <3>2. TotalOf(g, j) \in Nat
      BY <3>1, TotalSteps
    <3>3. TotalOf(g, j + 1) = TotalOf(g, j) + g[j + 1]
      BY <3>1, TotalSteps
    <3>4. /\ TotalOf(g, m) <= TotalOf(g, j)
          /\ (\A i \in m + 1 .. n : g[i] = 0) => TotalOf(g, j) = TotalOf(g, m)
      BY <1>2, <2>1, <2>3
    <3>. QED
      BY <1>0, <3>1, <3>2, <3>3, <3>4
  <2>. QED
    BY <2>1, <2>2, <2>3
<1>3. n \in P
  <2>. HIDE DEF P
  <2>. QED
    BY <1>1, <1>2, NumberInduction
<1>. QED
  BY <1>3

-----------------------------------------------------------------------------
(* The inductive invariant.  Disjoint and Placed alone are not inductive:  *)
(* a restore is harmless only because every object younger than the mark   *)
(* lies above it, and that is true only because the marks in force are     *)
(* ordered the way the objects are.                                        *)

\* m.block and m.used are a position that is still behind the bump pointers.
MarkInside(m) ==
    /\ m.block \in 1 .. Len(blocks)
    /\ m.used <= blocks[m.block].used
    /\ m.n <= serial

Shape ==
    /\ blocks \in Seq(Block)
    /\ marks \in Seq(ArenaMark)
    /\ live \subseteq Object
    /\ serial \in Nat

BlocksInside == \A i \in 1 .. Len(blocks) : blocks[i].used <= blocks[i].size

LiveBacked ==
    \A o \in live :
        /\ o.block \in 1 .. Len(blocks)
        /\ o.off + o.len <= blocks[o.block].used
        /\ o.n < serial

\* An object is below a mark entirely or above it entirely.
Below(o, m) ==
    o.block < m.block \/ (o.block = m.block /\ o.off + o.len <= m.used)
Above(o, m) ==
    o.block > m.block \/ (o.block = m.block /\ m.used <= o.off)

Separated ==
    \A k \in 1 .. Len(marks) : \A o \in live :
        IF o.n < marks[k].n THEN Below(o, marks[k]) ELSE Above(o, marks[k])

MarksInside == \A k \in 1 .. Len(marks) : MarkInside(marks[k])

\* The marks in force are ordered as the positions and moments they name.
MarksOrdered ==
    \A j, k \in 1 .. Len(marks) : j <= k =>
        /\ marks[j].n <= marks[k].n
        /\ \/ marks[j].block < marks[k].block
           \/ marks[j].block = marks[k].block /\ marks[j].used <= marks[k].used

Apart ==
    \A o, p \in live : o.n # p.n /\ o.block = p.block =>
        o.off + o.len <= p.off \/ p.off + p.len <= o.off

Empty == blocks = <<>> => live = {} /\ marks = <<>>

IInv ==
    /\ Shape
    /\ BlocksInside
    /\ LiveBacked
    /\ MarksInside
    /\ MarksOrdered
    /\ Separated
    /\ Apart
    /\ Empty
\* What a list of blocks holds at each place.
LEMMA BlockAt ==
    ASSUME NEW bs \in Seq(Block), NEW i \in 1 .. Len(bs)
    PROVE  bs[i] \in Block /\ bs[i].used \in Nat /\ bs[i].size \in Nat
<1>1. bs[i] \in Block
  OBVIOUS
<1>. QED
  BY <1>1 DEF Block

\* What a list of marks holds at each place.
LEMMA MarkAt ==
    ASSUME Shape, NEW k \in 1 .. Len(marks)
    PROVE  /\ marks[k] \in ArenaMark
           /\ marks[k].block \in Nat /\ marks[k].used \in Nat /\ marks[k].n \in Nat
<1>1. marks[k] \in ArenaMark
  BY DEF Shape
<1>. QED
  BY <1>1 DEF ArenaMark

-----------------------------------------------------------------------------
LEMMA InitEstablishes == Init => IInv
<1> SUFFICES ASSUME Init PROVE IInv
  OBVIOUS
<1> USE DEF Init, FreshBlock, Block
<1>1. Shape
  <2>1. [size |-> BlockSize, used |-> 0] \in Block
    BY ArenaAssumption
  <2>. QED
    BY <2>1 DEF Shape
<1>2. BlocksInside
  BY ArenaAssumption DEF BlocksInside
<1>3. LiveBacked /\ MarksInside /\ MarksOrdered /\ Separated /\ Apart /\ Empty
  BY DEF LiveBacked, MarksInside, MarksOrdered, Separated, Apart, Empty
<1>. QED
  BY <1>1, <1>2, <1>3 DEF IInv

\* What a step that hands out storage at the end of the list does: the list
\* grows or its last pointer rises from `from`, and the object lies above it.
HandOutStep(b, off, len, a) ==
    /\ b \in 1 .. Len(blocks')
    /\ Len(blocks) \in 1 .. b
    /\ blocks' \in Seq(Block)
    /\ \A i \in 1 .. Len(blocks) : blocks[i].used <= blocks'[i].used
    /\ \A i \in 1 .. Len(blocks') : blocks'[i].used <= blocks'[i].size
    /\ b = Len(blocks) => blocks[b].used <= off
    /\ off + len <= blocks'[b].used
    /\ Len(blocks') = b
    /\ marks' = marks
    /\ HandOut(b, off, len, a)

LEMMA HandOutKeeps ==
    ASSUME IInv, NEW b \in Nat, NEW off \in Nat, NEW len \in Nat \ {0},
           NEW a \in Aligns, HandOutStep(b, off, len, a)
    PROVE  IInv'
<1> DEFINE o == [n |-> serial, block |-> b, off |-> off, len |-> len, align |-> a]
<1>1. /\ live' = live \cup {o}
      /\ serial' = serial + 1
      /\ marks' = marks
      /\ serial \in Nat
      /\ o \in Object
      /\ o.n = serial /\ o.block = b /\ o.off = off /\ o.len = len
  <2>1. serial \in Nat /\ marks' = marks
    BY DEF HandOutStep, IInv, Shape
  <2>2. o \in Object
    BY <2>1 DEF Object
  <2>3. live' = live \cup {o} /\ serial' = serial + 1
    BY DEF HandOutStep, HandOut
  <2>. QED
    BY <2>1, <2>2, <2>3
<1> HIDE DEF o
<1>0. /\ blocks \in Seq(Block) /\ blocks' \in Seq(Block)
      /\ Len(blocks) \in 1 .. b /\ Len(blocks') = b
      /\ \A i \in 1 .. Len(blocks) : i \in 1 .. Len(blocks') /\ blocks[i].used <= blocks'[i].used
  <2>1. /\ blocks \in Seq(Block) /\ blocks' \in Seq(Block)
        /\ Len(blocks) \in 1 .. b /\ Len(blocks') = b
        /\ \A i \in 1 .. Len(blocks) : blocks[i].used <= blocks'[i].used
    BY DEF HandOutStep, IInv, Shape
  <2>2. ASSUME NEW i \in 1 .. Len(blocks) PROVE i \in 1 .. Len(blocks')
    BY <2>1
  <2>. QED
    BY <2>1, <2>2
<1>10. \A i \in 1 .. Len(blocks) :
         /\ i \in 1 .. Len(blocks') /\ blocks[i].used <= blocks'[i].used
         /\ blocks[i].used \in Nat /\ blocks'[i].used \in Nat
  <2> SUFFICES ASSUME NEW i \in 1 .. Len(blocks)
               PROVE  /\ i \in 1 .. Len(blocks') /\ blocks[i].used <= blocks'[i].used
                      /\ blocks[i].used \in Nat /\ blocks'[i].used \in Nat
    OBVIOUS
  <2>1. i \in 1 .. Len(blocks') /\ blocks[i].used <= blocks'[i].used
    BY <1>0
  <2>2. blocks[i].used \in Nat
    BY <1>0, BlockAt
  <2>3. blocks'[i].used \in Nat
    BY <1>0, <2>1, BlockAt
  <2>. QED
    BY <2>1, <2>2, <2>3
<1>2. Shape'
  BY <1>1 DEF IInv, Shape, HandOutStep
<1>3. BlocksInside'
  BY DEF BlocksInside, HandOutStep
<1>4. LiveBacked'
  <2> SUFFICES ASSUME NEW p \in live'
               PROVE  /\ p.block \in 1 .. Len(blocks')
                      /\ p.off + p.len <= blocks'[p.block].used
                      /\ p.n < serial'
    BY DEF LiveBacked
  <2>1. CASE p = o
    BY <1>1, <2>1 DEF HandOutStep
  <2>2. CASE p \in live
    <3>1. p \in Object
      BY <2>2 DEF IInv, Shape
    <3>2. /\ p.block \in 1 .. Len(blocks)
          /\ p.off + p.len <= blocks[p.block].used
          /\ p.n < serial
      BY <2>2 DEF IInv, LiveBacked
    <3>3. /\ blocks[p.block].used \in Nat /\ blocks'[p.block].used \in Nat
          /\ blocks[p.block].used <= blocks'[p.block].used
          /\ p.block \in 1 .. Len(blocks')
      BY <3>2, <1>10
    <3>4. p.off + p.len \in Nat /\ p.n \in Nat
      BY <3>1 DEF Object
    <3>5. p.off + p.len <= blocks'[p.block].used
      BY <3>2, <3>3, <3>4
    <3>6. p.n < serial'
      BY <1>1, <3>2, <3>4
    <3>. QED
      BY <3>3, <3>5, <3>6
  <2>. QED
    BY <1>1, <2>1, <2>2
<1>5. MarksInside'
  <2> SUFFICES ASSUME NEW k \in 1 .. Len(marks)
               PROVE  MarkInside(marks[k])'
    BY <1>1 DEF MarksInside
  <2>1. MarkInside(marks[k]) /\ marks[k] \in ArenaMark
    BY DEF IInv, MarksInside, Shape
  <2>2. /\ marks[k].block \in 1 .. Len(blocks)
        /\ marks[k].used <= blocks[marks[k].block].used
        /\ blocks[marks[k].block].used <= blocks'[marks[k].block].used
        /\ blocks[marks[k].block].used \in Nat
        /\ blocks'[marks[k].block].used \in Nat
        /\ marks[k].block \in 1 .. Len(blocks')
        /\ marks[k].n <= serial
    BY <2>1, <1>10 DEF MarkInside
  <2>3. marks[k].used \in Nat /\ marks[k].n \in Nat
    BY MarkAt DEF IInv
  <2>4. /\ marks[k].used <= blocks'[marks[k].block].used
        /\ marks[k].n <= serial'
    <3>1. \A x, y, z \in Nat : x <= y /\ y <= z => x <= z
      OBVIOUS
    <3>2. marks[k].used <= blocks'[marks[k].block].used
      BY <2>2, <2>3, <3>1, Zenon
    <3>3. marks[k].n <= serial'
      BY <1>1, <2>2, <2>3
    <3>. QED
      BY <3>2, <3>3
  <2>. QED
    BY <1>1, <2>2, <2>4 DEF MarkInside
<1>6. MarksOrdered'
  BY <1>1 DEF MarksOrdered, IInv
<1>7. Separated'
  <2> SUFFICES ASSUME NEW k \in 1 .. Len(marks), NEW p \in live'
               PROVE  IF p.n < marks[k].n THEN Below(p, marks[k])
                                          ELSE Above(p, marks[k])
    BY <1>1 DEF Separated, Below, Above
  <2>1. CASE p = o
    <3>1. MarkInside(marks[k]) /\ marks[k] \in ArenaMark
      BY DEF IInv, MarksInside, Shape
    <3>2. ~ (p.n < marks[k].n)
      BY <1>1, <2>1, <3>1 DEF MarkInside, ArenaMark
    <3>3. Above(p, marks[k])
      <4>1. marks[k].block <= Len(blocks) /\ marks[k].block \in 1 .. Len(blocks)
        BY <3>1 DEF MarkInside, ArenaMark
      <4>2. CASE marks[k].block < b
        BY <1>1, <2>1, <4>2 DEF Above
      <4>3. CASE marks[k].block = b
        <5>1. b = Len(blocks) /\ blocks[b].used \in Nat
          BY <4>1, <4>3, <1>0, BlockAt
        <5>2. marks[k].used <= blocks[b].used /\ blocks[b].used <= off
          BY <3>1, <4>3, <5>1 DEF MarkInside, HandOutStep
        <5>. QED
          BY <1>1, <2>1, <3>1, <4>3, <5>1, <5>2 DEF Above, ArenaMark
      <4>4. marks[k].block < b \/ marks[k].block = b
        BY <1>0, <4>1
      <4>. QED
        BY <4>2, <4>3, <4>4
    <3>. QED
      BY <3>2, <3>3
  <2>2. CASE p \in live
    BY <2>2 DEF IInv, Separated
  <2>. QED
    BY <1>1, <2>1, <2>2
<1>8. Apart'
  <2>1. ASSUME NEW p \in live, p.block = b
        PROVE  p.off + p.len <= off
    <3>1. /\ p.block \in 1 .. Len(blocks)
          /\ p.off + p.len <= blocks[p.block].used
          /\ p \in Object
      BY DEF IInv, LiveBacked, Shape
    <3>2. b = Len(blocks) /\ blocks[b].used <= off /\ blocks[b].used \in Nat
      BY <2>1, <3>1, <1>0, BlockAt DEF HandOutStep
    <3>. QED
      BY <2>1, <3>1, <3>2 DEF Object
  <2> SUFFICES ASSUME NEW p \in live', NEW q \in live',
                      p.n # q.n, p.block = q.block
               PROVE  p.off + p.len <= q.off \/ q.off + q.len <= p.off
    BY DEF Apart
  <2>2. CASE p \in live /\ q \in live
    BY <2>2 DEF IInv, Apart
  <2>3. CASE p \in live /\ q = o
    BY <1>1, <2>1, <2>3
  <2>4. CASE q \in live /\ p = o
    BY <1>1, <2>1, <2>4
  <2>. QED
    BY <1>1, <2>2, <2>3, <2>4
<1>9. Empty'
  <2>1. Len(blocks') # 0
    BY DEF HandOutStep
  <2>. QED
    BY <2>1 DEF Empty
<1>. QED
  BY <1>2, <1>3, <1>4, <1>5, <1>6, <1>7, <1>8, <1>9 DEF IInv
-----------------------------------------------------------------------------
\* Both ways arena_alloc_aligned hands out storage are HandOutSteps.
LEMMA AllocInBlockKeeps ==
    ASSUME IInv, NEW size \in Nat \ {0}, NEW a \in Aligns,
           blocks # <<>>, AllocInBlock(size, a)
    PROVE  IInv'
<1> DEFINE c == Len(blocks)
           pos == AlignUp(blocks[c].used, a)
<1>1. /\ blocks \in Seq(Block) /\ c \in 1 .. Len(blocks) /\ c \in Nat
      /\ blocks[c] \in Block
      /\ blocks[c].used \in Nat /\ blocks[c].size \in Nat
  <2>1. blocks \in Seq(Block) /\ c \in 1 .. Len(blocks) /\ c \in Nat
    BY DEF IInv, Shape
  <2>. QED
    BY <2>1, BlockAt
<1>2. pos \in Nat /\ pos >= blocks[c].used
  BY <1>1, AlignUpBound, ArenaAssumption
<1>3. /\ pos + size <= blocks[c].size
      /\ blocks' = [blocks EXCEPT ![c].used = pos + size]
      /\ HandOut(c, pos, size, a)
      /\ marks' = marks
  BY DEF AllocInBlock
<1> HIDE DEF pos
<1> DEFINE nb == [blocks[c] EXCEPT !.used = pos + size]
<1>4. nb \in Block /\ nb.used = pos + size /\ nb.size = blocks[c].size
  BY <1>1, <1>2 DEF Block
<1>5. blocks' = [blocks EXCEPT ![c] = nb]
  BY <1>3
<1> HIDE DEF nb
<1>6. /\ blocks' \in Seq(Block) /\ Len(blocks') = c
      /\ \A i \in 1 .. Len(blocks) : blocks'[i] = IF i = c THEN nb ELSE blocks[i]
  BY <1>1, <1>4, <1>5
<1>7. \A i \in 1 .. Len(blocks) : blocks[i].used \in Nat /\ blocks[i].used <= blocks'[i].used
  BY <1>1, <1>2, <1>4, <1>6, BlockAt
<1>8. \A i \in 1 .. Len(blocks') : blocks'[i].used <= blocks'[i].size
  BY <1>1, <1>3, <1>4, <1>6 DEF IInv, BlocksInside
<1>9. HandOutStep(c, pos, size, a)
  BY <1>1, <1>2, <1>3, <1>4, <1>6, <1>7, <1>8 DEF HandOutStep
<1>. QED
  BY <1>1, <1>2, <1>9, HandOutKeeps

LEMMA AllocNewBlockKeeps ==
    ASSUME IInv, NEW size \in Nat \ {0}, NEW a \in Aligns,
           blocks # <<>>, AllocNewBlock(size, a)
    PROVE  IInv'
<1> DEFINE c == Len(blocks)
           nb == [size |-> NewBlockSize(size), used |-> size]
<1>1. blocks \in Seq(Block) /\ c \in 1 .. Len(blocks) /\ c \in Nat
  BY DEF IInv, Shape
<1>2. /\ nb \in Block /\ nb.used = size /\ size <= nb.size
  <2>1. NewBlockSize(size) \in Nat /\ size <= NewBlockSize(size)
    BY ArenaAssumption DEF NewBlockSize
  <2>. QED
    BY <2>1 DEF Block
<1>3. blocks' = Append(blocks, nb) /\ HandOut(c + 1, 0, size, a) /\ marks' = marks
  BY DEF AllocNewBlock
<1> HIDE DEF nb
<1>4. /\ blocks' \in Seq(Block) /\ Len(blocks') = c + 1 /\ blocks'[c + 1] = nb
      /\ \A i \in 1 .. Len(blocks) : blocks'[i] = blocks[i]
  BY <1>1, <1>2, <1>3
<1>5. \A i \in 1 .. Len(blocks) : blocks[i].used \in Nat /\ blocks[i].used <= blocks'[i].used
  <2> TAKE i \in 1 .. Len(blocks)
  <2>1. blocks[i].used \in Nat /\ blocks'[i] = blocks[i]
    BY <1>1, <1>4, BlockAt
  <2>. QED
    BY <2>1
<1>6. \A i \in 1 .. Len(blocks') : blocks'[i].used <= blocks'[i].size
  <2> SUFFICES ASSUME NEW i \in 1 .. Len(blocks') PROVE blocks'[i].used <= blocks'[i].size
    OBVIOUS
  <2>1. CASE i = c + 1
    BY <1>2, <1>4, <2>1
  <2>2. CASE i \in 1 .. c
    BY <1>4, <2>2 DEF IInv, BlocksInside
  <2>. QED
    BY <1>1, <1>4, <2>1, <2>2
<1>7. HandOutStep(c + 1, 0, size, a)
  <2>1. c + 1 \in 1 .. Len(blocks') /\ Len(blocks) \in 1 .. (c + 1) /\ c + 1 # Len(blocks)
    BY <1>1, <1>4
  <2>2. 0 + size <= blocks'[c + 1].used
    BY <1>2, <1>4
  <2>. QED
    BY <1>3, <1>4, <1>5, <1>6, <2>1, <2>2 DEF HandOutStep
<1>. QED
  BY <1>1, <1>7, HandOutKeeps

LEMMA MarkKeeps ==
    ASSUME IInv, Mark
    PROVE  IInv'
<1> DEFINE c == Len(blocks)
           m == [block |-> c, used |-> blocks[c].used, n |-> serial]
           K == Len(marks)
<1>1. /\ blocks \in Seq(Block) /\ c \in 1 .. Len(blocks) /\ c \in Nat
      /\ marks \in Seq(ArenaMark) /\ K \in Nat
      /\ blocks[c].used \in Nat /\ serial \in Nat
  <2>1. /\ blocks \in Seq(Block) /\ c \in 1 .. Len(blocks) /\ c \in Nat
        /\ marks \in Seq(ArenaMark) /\ K \in Nat /\ serial \in Nat
    BY DEF IInv, Shape, Mark
  <2>. QED
    BY <2>1, BlockAt
<1>2. /\ marks' = Append(marks, m)
      /\ UNCHANGED <<blocks, live, serial>>
  BY DEF Mark
<1>3. m \in ArenaMark /\ m.block = c /\ m.used = blocks[c].used /\ m.n = serial
  BY <1>1 DEF ArenaMark
<1> HIDE DEF m
<1>4. /\ marks' \in Seq(ArenaMark) /\ Len(marks') = K + 1
      /\ marks'[K + 1] = m
      /\ \A k \in 1 .. K : marks'[k] = marks[k]
  BY <1>1, <1>2, <1>3
<1>5. Shape' /\ BlocksInside' /\ LiveBacked' /\ Apart' /\ Empty'
  <2>1. Shape'
    BY <1>2, <1>4 DEF IInv, Shape
  <2>2. BlocksInside' /\ LiveBacked' /\ Apart'
    BY <1>2 DEF IInv, BlocksInside, LiveBacked, Apart
  <2>3. Empty'
    BY <1>2 DEF Mark, Empty
  <2>. QED
    BY <2>1, <2>2, <2>3
<1>6. MarksInside'
  <2> SUFFICES ASSUME NEW k \in 1 .. (K + 1) PROVE MarkInside(marks'[k])
    BY <1>2, <1>4 DEF MarksInside, MarkInside
  <2>1. CASE k = K + 1
    BY <1>1, <1>3, <1>4, <2>1 DEF MarkInside
  <2>2. CASE k \in 1 .. K
    BY <1>4, <2>2 DEF IInv, MarksInside
  <2>. QED
    BY <1>1, <2>1, <2>2
<1>7. MarksOrdered'
  <2> SUFFICES ASSUME NEW j \in 1 .. (K + 1), NEW k \in 1 .. (K + 1), j <= k
               PROVE  /\ marks'[j].n <= marks'[k].n
                      /\ \/ marks'[j].block < marks'[k].block
                         \/ /\ marks'[j].block = marks'[k].block
                            /\ marks'[j].used <= marks'[k].used
    BY <1>4 DEF MarksOrdered
  <2>1. CASE k \in 1 .. K
    <3>1. j \in 1 .. K
      BY <2>1
    <3>. QED
      BY <1>4, <2>1, <3>1 DEF IInv, MarksOrdered
  <2>2. CASE k = K + 1 /\ j \in 1 .. K
    <3>1. MarkInside(marks[j])
      BY <2>2 DEF IInv, MarksInside
    <3>2. marks[j].block \in Nat /\ marks[j].used \in Nat /\ marks[j].n \in Nat
      BY <2>2, MarkAt DEF IInv
    <3>3. /\ marks[j].block \in 1 .. c /\ marks[j].n <= serial
          /\ marks[j].used <= blocks[marks[j].block].used
      BY <3>1 DEF MarkInside
    <3>4. marks'[j] = marks[j] /\ marks'[k] = m
      BY <1>4, <2>2
    <3>5. marks[j].block < c \/ (marks[j].block = c /\ marks[j].used <= blocks[c].used)
      BY <1>1, <3>2, <3>3
    <3>. QED
      BY <1>3, <3>3, <3>4, <3>5
  <2>3. CASE k = K + 1 /\ j = K + 1
    BY <1>1, <1>3, <1>4, <2>3
  <2>. QED
    BY <1>1, <2>1, <2>2, <2>3
<1>8. Separated'
  <2> SUFFICES ASSUME NEW k \in 1 .. (K + 1), NEW o \in live
               PROVE  IF o.n < marks'[k].n THEN Below(o, marks'[k])
                                           ELSE Above(o, marks'[k])
    BY <1>2, <1>4 DEF Separated, Below, Above
  <2>1. CASE k \in 1 .. K
    BY <1>4, <2>1 DEF IInv, Separated
  <2>2. CASE k = K + 1
    <3>1. /\ o.block \in 1 .. c /\ o.n < serial
          /\ o.off + o.len <= blocks[o.block].used
      BY DEF IInv, LiveBacked
    <3>2. Below(o, m)
      BY <1>1, <1>3, <3>1 DEF Below
    <3>. QED
      BY <1>3, <1>4, <2>2, <3>1, <3>2
  <2>. QED
    BY <1>1, <2>1, <2>2
<1>. QED
  BY <1>5, <1>6, <1>7, <1>8 DEF IInv

\* A list cut after block B, with that block used up to u.
Cut(bs, B, u) == [SubSeq(bs, 1, B) EXCEPT ![B].used = u]

LEMMA CutFacts ==
    ASSUME NEW bs \in Seq(Block), NEW B \in 1 .. Len(bs), NEW u \in Nat
    PROVE  /\ Cut(bs, B, u) \in Seq(Block) /\ Len(Cut(bs, B, u)) = B
           /\ Cut(bs, B, u)[B].used = u /\ Cut(bs, B, u)[B].size = bs[B].size
           /\ \A i \in 1 .. (B - 1) : Cut(bs, B, u)[i] = bs[i]
<1>. DEFINE cut == SubSeq(bs, 1, B)
            nb == [bs[B] EXCEPT !.used = u]
<1>1. B \in Nat /\ bs[B] \in Block /\ bs[B].size \in Nat
  BY BlockAt
<1>2. /\ nb \in Block /\ nb.used = u /\ nb.size = bs[B].size
  BY <1>1 DEF Block
<1>. HIDE DEF nb
<1>3. /\ cut \in Seq(Block) /\ Len(cut) = B /\ B \in 1 .. Len(cut)
      /\ \A i \in 1 .. B : cut[i] = bs[i]
  BY <1>1
<1>4. Cut(bs, B, u) = [cut EXCEPT ![B] = nb]
  <2>1. Cut(bs, B, u) = [cut EXCEPT ![B] = [cut[B] EXCEPT !.used = u]]
    BY DEF Cut
  <2>. QED
    BY <2>1, <1>3 DEF nb
<1>. HIDE DEF cut
<1>. DEFINE kept == [cut EXCEPT ![B] = nb]
<1>5. /\ kept \in Seq(Block) /\ Len(kept) = B /\ kept[B] = nb
      /\ \A i \in 1 .. B : i # B => kept[i] = cut[i]
  BY <1>2, <1>3, SetOne
<1>. HIDE DEF kept
<1>6. \A i \in 1 .. (B - 1) : i \in 1 .. B /\ i # B
  BY <1>1
<1>7. \A i \in 1 .. (B - 1) : kept[i] = bs[i]
  BY <1>3, <1>5, <1>6
<1>8. Cut(bs, B, u) = kept
  BY <1>4 DEF kept
<1>. QED
  BY <1>2, <1>5, <1>7, <1>8

\* Going back: an object survives exactly if it is older than the mark.
LEMMA RestoreFacts ==
    ASSUME IInv, NEW k \in 1 .. Len(marks)
    PROVE  LET kept == CutAt(marks[k])
               B == marks[k].block
           IN  /\ B \in 1 .. Len(blocks)
               /\ kept \in Seq(Block) /\ Len(kept) = B
               /\ kept[B].used = marks[k].used /\ kept[B].size = blocks[B].size
               /\ \A i \in 1 .. (B - 1) : kept[i] = blocks[i]
               /\ \A o \in live : Backed(o, kept) <=> o.n < marks[k].n
<1> DEFINE m == marks[k]
           B == m.block
<1>1. /\ B \in 1 .. Len(blocks) /\ B \in Nat /\ m.used \in Nat /\ m.n \in Nat
      /\ blocks \in Seq(Block)
  <2>1. MarkInside(m) /\ blocks \in Seq(Block)
    BY DEF IInv, MarksInside, Shape
  <2>2. m.used \in Nat /\ m.n \in Nat /\ B \in Nat
    BY MarkAt DEF IInv
  <2>. QED
    BY <2>1, <2>2 DEF MarkInside
<1>2. CutAt(m) = Cut(blocks, B, m.used)
  BY DEF CutAt, Cut
<1>5. /\ CutAt(m) \in Seq(Block) /\ Len(CutAt(m)) = B
      /\ CutAt(m)[B].used = m.used /\ CutAt(m)[B].size = blocks[B].size
      /\ \A i \in 1 .. (B - 1) : CutAt(m)[i] = blocks[i]
  <2>. DEFINE c == Cut(blocks, B, m.used)
  <2>1. /\ c \in Seq(Block) /\ Len(c) = B
        /\ c[B].used = m.used /\ c[B].size = blocks[B].size
        /\ \A i \in 1 .. (B - 1) : c[i] = blocks[i]
    <3>. HIDE DEF m, B
    <3>. QED
      BY <1>1, CutFacts
  <2>2. CutAt(m) = c
    BY <1>2
  <2>. HIDE DEF c
  <2>. QED
    BY <2>1, <2>2
<1>6. ASSUME NEW o \in live
      PROVE  Backed(o, CutAt(m)) <=> o.n < m.n
  <2>1. /\ o.block \in 1 .. Len(blocks) /\ o.off + o.len <= blocks[o.block].used
        /\ o.off \in Nat /\ o.len \in Nat \ {0} /\ o.block \in Nat /\ o.n \in Nat
    BY DEF IInv, LiveBacked, Shape, Object
  <2>2. DOMAIN CutAt(m) = 1 .. B
    BY <1>5
  <2>3. CASE o.n < m.n
    <3>1. Below(o, m)
      BY <2>3 DEF IInv, Separated
    <3>2. CASE o.block < B
      <4>1. o.block \in 1 .. (B - 1) /\ o.block \in 1 .. B
        BY <1>1, <2>1, <3>2
      <4>2. CutAt(m)[o.block].used = blocks[o.block].used
        BY <1>5, <4>1
      <4>. QED
        BY <2>1, <2>2, <2>3, <4>1, <4>2 DEF Backed
    <3>3. CASE o.block = B /\ o.off + o.len <= m.used
      BY <1>1, <1>5, <2>1, <2>2, <2>3, <3>3 DEF Backed
    <3>. QED
      BY <3>1, <3>2, <3>3 DEF Below
  <2>4. CASE ~ (o.n < m.n)
    <3>1. Above(o, m)
      BY <2>4 DEF IInv, Separated
    <3>2. ~ Backed(o, CutAt(m))
      <4>1. CASE o.block > B
        BY <1>1, <2>1, <2>2, <4>1 DEF Backed
      <4>2. CASE o.block = B /\ m.used <= o.off
        BY <1>1, <1>5, <2>1, <4>2 DEF Backed
      <4>. QED
        BY <3>1, <4>1, <4>2 DEF Above
    <3>. QED
      BY <2>4, <3>2
  <2>. QED
    BY <2>3, <2>4
<1>. QED
  BY <1>1, <1>5, <1>6

LEMMA RestoreKeeps ==
    ASSUME IInv, NEW k \in 1 .. Len(marks), Restore(k)
    PROVE  IInv'
<1> DEFINE m == marks[k]
           B == m.block
           kept == CutAt(m)
<1>1. /\ blocks' = kept
      /\ marks' = SubSeq(marks, 1, k)
      /\ live' = {o \in live : Backed(o, kept)}
      /\ serial' = serial
  BY DEF Restore
<1>2. /\ B \in 1 .. Len(blocks) /\ B \in Nat
      /\ kept \in Seq(Block) /\ Len(kept) = B
      /\ kept[B].used = m.used /\ kept[B].size = blocks[B].size
      /\ \A i \in 1 .. (B - 1) : kept[i] = blocks[i]
      /\ \A o \in live : Backed(o, kept) <=> o.n < m.n
  BY RestoreFacts DEF IInv, Shape
<1>3. /\ marks' \in Seq(ArenaMark) /\ Len(marks') = k /\ k \in Nat
      /\ \A j \in 1 .. k : marks'[j] = marks[j] /\ j \in 1 .. Len(marks)
  <2>1. marks \in Seq(ArenaMark)
    BY DEF IInv, Shape
  <2>. QED
    BY <1>1, <2>1
<1>4. \A o \in live' : o \in live /\ Backed(o, kept)
  BY <1>1
<1> HIDE DEF kept
<1>5. Shape'
  BY <1>1, <1>2, <1>3 DEF IInv, Shape
<1>6. BlocksInside'
  <2> SUFFICES ASSUME NEW i \in 1 .. B PROVE kept[i].used <= kept[i].size
    BY <1>1, <1>2 DEF BlocksInside
  <2>1. blocks \in Seq(Block)
    BY DEF IInv, Shape
  <2>2. CASE i = B
    <3>1. /\ m.used <= blocks[B].used /\ blocks[B].used <= blocks[B].size
      BY <1>2 DEF IInv, MarksInside, MarkInside, BlocksInside
    <3>2. m.used \in Nat /\ blocks[B].used \in Nat /\ blocks[B].size \in Nat
      BY <1>2, <2>1, BlockAt, MarkAt DEF IInv
    <3>. QED
      BY <1>2, <2>2, <3>1, <3>2
  <2>3. CASE i \in 1 .. (B - 1)
    <3>1. kept[i] = blocks[i] /\ i \in 1 .. Len(blocks)
      BY <1>2, <2>3
    <3>. QED
      BY <3>1 DEF IInv, BlocksInside
  <2>4. i = B \/ i \in 1 .. (B - 1)
    BY <1>2
  <2>. QED
    BY <2>2, <2>3, <2>4
<1>7. LiveBacked'
  <2> SUFFICES ASSUME NEW o \in live'
               PROVE  /\ o.block \in 1 .. Len(kept)
                      /\ o.off + o.len <= kept[o.block].used
                      /\ o.n < serial
    BY <1>1 DEF LiveBacked
  <2>1. o \in live /\ Backed(o, kept)
    BY <1>4
  <2>. QED
    BY <1>2, <2>1 DEF IInv, LiveBacked, Backed
<1>8. MarksInside'
  <2> SUFFICES ASSUME NEW j \in 1 .. k PROVE MarkInside(marks[j])'
    BY <1>3 DEF MarksInside, MarkInside
  <2>1. MarkInside(marks[j]) /\ marks'[j] = marks[j] /\ j \in 1 .. Len(marks)
    BY <1>3 DEF IInv, MarksInside
  <2>2. /\ marks[j].block \in Nat /\ marks[j].used \in Nat /\ m.used \in Nat
    BY <2>1, MarkAt DEF IInv
  <2>3. \/ marks[j].block < B
        \/ marks[j].block = B /\ marks[j].used <= m.used
    BY <1>3, <2>1 DEF IInv, MarksOrdered
  <2>4. marks[j].block \in 1 .. B /\ marks[j].used <= kept[marks[j].block].used
    <3>1. CASE marks[j].block < B
      BY <1>2, <2>1, <2>2, <3>1 DEF MarkInside
    <3>2. CASE marks[j].block = B /\ marks[j].used <= m.used
      BY <1>2, <3>2
    <3>. QED
      BY <2>3, <3>1, <3>2
  <2>. QED
    BY <1>1, <1>2, <2>1, <2>4 DEF MarkInside
<1>9. MarksOrdered'
  BY <1>3 DEF IInv, MarksOrdered
<1>10. Separated'
  <2> SUFFICES ASSUME NEW j \in 1 .. k, NEW o \in live'
               PROVE  IF o.n < marks[j].n THEN Below(o, marks[j])
                                          ELSE Above(o, marks[j])
    BY <1>3 DEF Separated, Below, Above
  <2>. QED
    BY <1>3, <1>4 DEF IInv, Separated
<1>11. Apart'
  BY <1>4 DEF IInv, Apart
<1>12. Empty'
  <2>1. blocks' # <<>>
    BY <1>1, <1>2
  <2>. QED
    BY <2>1 DEF Empty
<1>. QED
  BY <1>5, <1>6, <1>7, <1>8, <1>9, <1>10, <1>11, <1>12 DEF IInv

\* arena_reset, arena_free and arena_new_size leave no object and no mark.
LEMMA ClearKeeps ==
    ASSUME IInv, Reset \/ Free \/ New
    PROVE  IInv'
<1>1. live' = {} /\ marks' = <<>> /\ serial' \in Nat
  BY DEF IInv, Shape, Empty, Reset, Free, New
<1>2. blocks' \in Seq(Block) /\ \A i \in 1 .. Len(blocks') : blocks'[i].used <= blocks'[i].size
  <2>1. CASE Reset
    <3>1. blocks \in Seq(Block) /\ 1 \in 1 .. Len(blocks)
      BY <2>1 DEF IInv, Shape, Reset
    <3>2. blocks[1] \in Block /\ blocks[1].size \in Nat
      BY <3>1, BlockAt
    <3> DEFINE b == [blocks[1] EXCEPT !.used = 0]
    <3>3. b \in Block /\ b.used = 0 /\ b.size \in Nat
      BY <3>2 DEF Block
    <3>4. blocks' = <<b>>
      BY <2>1 DEF Reset
    <3> HIDE DEF b
    <3>. QED
      BY <3>3, <3>4
  <2>2. CASE Free
    BY <2>2 DEF Free
  <2>3. CASE New
    <3> DEFINE b == FreshBlock(BlockSize)
    <3>1. b \in Block /\ b.used = 0 /\ b.size \in Nat
      BY ArenaAssumption DEF FreshBlock, Block
    <3>2. blocks' = <<b>>
      BY <2>3 DEF New
    <3> HIDE DEF b
    <3>. QED
      BY <3>1, <3>2
  <2>. QED
    BY <2>1, <2>2, <2>3
<1>3. Shape'
  BY <1>1, <1>2 DEF Shape
<1>4. BlocksInside'
  BY <1>2 DEF BlocksInside
<1>5. LiveBacked' /\ MarksInside' /\ MarksOrdered' /\ Separated' /\ Apart' /\ Empty'
  BY <1>1 DEF LiveBacked, MarksInside, MarksOrdered, Separated, Apart, Empty
<1>. QED
  BY <1>3, <1>4, <1>5 DEF IInv

LEMMA StepKeeps == IInv /\ [Next]_vars => IInv'
<1> SUFFICES ASSUME IInv, [Next]_vars PROVE IInv'
  OBVIOUS
<1>1. ASSUME NEW req \in Requests, NEW a \in Aligns, Alloc(req, a)
      PROVE  IInv'
  <2> DEFINE size == IF req = 0 THEN 1 ELSE req
  <2>1. size \in Nat \ {0}
    BY ArenaAssumption
  <2>2. blocks # <<>> /\ (AllocInBlock(size, a) \/ AllocNewBlock(size, a))
    BY <1>1 DEF Alloc
  <2>. QED
    BY <2>1, <2>2, AllocInBlockKeeps, AllocNewBlockKeeps
<1>2. CASE Mark
  BY <1>2, MarkKeeps
<1>3. ASSUME NEW k \in DOMAIN marks, Restore(k)
      PROVE  IInv'
  <2>1. k \in 1 .. Len(marks)
    BY DEF IInv, Shape
  <2>. QED
    BY <1>3, <2>1, RestoreKeeps
<1>4. CASE Reset \/ Free \/ New
  BY <1>4, ClearKeeps
<1>5. CASE UNCHANGED vars
  BY <1>5 DEF vars, IInv, Shape, BlocksInside, LiveBacked, MarksInside, MarkInside,
              MarksOrdered, Separated, Below, Above, Apart, Empty
<1>. QED
  BY <1>1, <1>2, <1>3, <1>4, <1>5 DEF Next

\* The strengthening holds in every state of every behaviour.
THEOREM Inductive == Spec => []IInv
  BY InitEstablishes, StepKeeps, PTL DEF Spec

-----------------------------------------------------------------------------
\* No two objects handed out by the arena share a byte.
THEOREM StorageDisjoint == Spec => []Disjoint
<1>1. IInv => Disjoint
  BY DEF IInv, Apart, Disjoint
<1>. QED
  BY <1>1, Inductive, PTL

\* A mark tells the objects older than it from the younger ones.
THEOREM MarksSeparateObjects == Spec => []MarksSeparate
<1>1. IInv => MarksSeparate
  <2> SUFFICES ASSUME IInv, NEW k \in DOMAIN marks, NEW o \in live
               PROVE  o.n < marks[k].n <=> Below(o, marks[k])
    BY DEF MarksSeparate, Below
  <2>1. k \in 1 .. Len(marks)
    BY DEF IInv, Shape
  <2>2. /\ o.off \in Nat /\ o.len \in Nat \ {0} /\ o.block \in Nat
        /\ marks[k].block \in Nat /\ marks[k].used \in Nat
    BY <2>1, MarkAt DEF IInv, Shape, Object
  <2>3. IF o.n < marks[k].n THEN Below(o, marks[k]) ELSE Above(o, marks[k])
    BY <2>1 DEF IInv, Separated
  <2>4. ~ (Below(o, marks[k]) /\ Above(o, marks[k]))
    BY <2>2 DEF Below, Above
  <2>. QED
    BY <2>3, <2>4
<1>. QED
  BY <1>1, Inductive, PTL
-----------------------------------------------------------------------------
(* The arena implements ArenaRegion: handing out an object is Allocate,    *)
(* restoring by (block, used) takes back exactly the objects younger than  *)
(* the mark, reset and free clear the region, and renewing a freed arena   *)
(* is a step the region does not see.                                      *)
Serials == {o.n : o \in live}
Moments == [k \in DOMAIN marks |-> marks[k].n]

LEMMA AllocRefines ==
    ASSUME NEW b, NEW off, NEW len, NEW a, HandOut(b, off, len, a), marks' = marks
    PROVE  Region!Allocate
<1> DEFINE o == [n |-> serial, block |-> b, off |-> off, len |-> len, align |-> a]
<1>1. live' = live \cup {o} /\ serial' = serial + 1 /\ o.n = serial
  BY DEF HandOut
<1> HIDE DEF o
<1>2. {p.n : p \in live'} = {p.n : p \in live} \cup {serial}
  BY <1>1
<1>. QED
  BY <1>1, <1>2 DEF Region!Allocate

LEMMA RestoreRefines ==
    ASSUME IInv, NEW k \in 1 .. Len(marks), Restore(k)
    PROVE  Region!GoBack(k)
<1>1. /\ marks \in Seq(ArenaMark) /\ k \in DOMAIN marks
  BY DEF IInv, Shape
<1>2. live' = {o \in live : o.n < marks[k].n}
  BY RestoreFacts DEF Restore, IInv, Shape
<1>3. {o.n : o \in live'} = {n \in Serials : n < Moments[k]}
  BY <1>1, <1>2 DEF Serials, Moments
<1>4. [j \in DOMAIN marks' |-> marks'[j].n] = SubSeq(Moments, 1, k)
  <2>1. marks' = SubSeq(marks, 1, k)
    BY DEF Restore
  <2>2. Moments \in Seq(Nat) /\ Len(Moments) = Len(marks) /\ DOMAIN marks = 1 .. Len(marks)
    <3>1. \A j \in 1 .. Len(marks) : marks[j].n \in Nat
      BY MarkAt DEF IInv
    <3>2. DOMAIN marks = 1 .. Len(marks) /\ Len(marks) \in Nat
      BY <1>1
    <3>3. Moments \in [1 .. Len(marks) -> Nat]
      BY <3>1, <3>2 DEF Moments
    <3>. QED
      BY <3>2, <3>3, AsSequence
  <2>3. /\ DOMAIN marks' = 1 .. k /\ \A j \in 1 .. k : marks'[j] = marks[j] /\ j \in DOMAIN marks
    BY <1>1, <2>1
  <2>4. [j \in DOMAIN marks' |-> marks'[j].n] = [j \in 1 .. k |-> Moments[j]]
    BY <2>3 DEF Moments
  <2>5. SubSeq(Moments, 1, k) = [j \in 1 .. k |-> Moments[j]]
    BY <2>2
  <2>. QED
    BY <2>4, <2>5
<1>. QED
  BY <1>3, <1>4 DEF Region!GoBack, Restore, Serials, Moments

LEMMA MarkRefines ==
    ASSUME IInv, Mark
    PROVE  Region!SetMark
<1> DEFINE m == [block |-> Len(blocks), used |-> blocks[Len(blocks)].used, n |-> serial]
<1>1. /\ marks' = Append(marks, m) /\ UNCHANGED <<live, serial>> /\ m.n = serial
  BY DEF Mark
<1> HIDE DEF m
<1>2. marks \in Seq(ArenaMark) /\ serial \in Nat /\ DOMAIN marks = 1 .. Len(marks)
  BY DEF IInv, Shape
<1>3. Moments \in Seq(Nat) /\ Len(Moments) = Len(marks)
  <2>1. \A j \in 1 .. Len(marks) : marks[j].n \in Nat
    BY MarkAt DEF IInv
  <2>. QED
    BY <1>2, <2>1 DEF Moments
<1>4. /\ DOMAIN marks' = 1 .. (Len(marks) + 1)
      /\ marks'[Len(marks) + 1] = m
      /\ \A j \in 1 .. Len(marks) : marks'[j] = marks[j]
  BY <1>1, <1>2
<1>5. [j \in DOMAIN marks' |-> marks'[j].n] = Append(Moments, serial)
  <2> DEFINE f == [j \in 1 .. (Len(marks) + 1) |-> marks'[j].n]
             g == Append(Moments, serial)
  <2>1. /\ g \in Seq(Nat) /\ Len(g) = Len(marks) + 1
        /\ \A j \in 1 .. Len(marks) : g[j] = Moments[j]
        /\ g[Len(marks) + 1] = serial
    BY <1>2, <1>3
  <2>2. \A j \in 1 .. (Len(marks) + 1) : f[j] = g[j]
    <3> SUFFICES ASSUME NEW j \in 1 .. (Len(marks) + 1) PROVE f[j] = g[j]
      OBVIOUS
    <3>1. CASE j = Len(marks) + 1
      BY <1>1, <1>4, <2>1, <3>1
    <3>2. CASE j \in 1 .. Len(marks)
      BY <1>2, <1>4, <2>1, <3>2 DEF Moments
    <3>. QED
      <4>1. Len(marks) \in Nat
        BY <1>2
      <4>2. j = Len(marks) + 1 \/ j \in 1 .. Len(marks)
        BY <4>1
      <4>. QED
        BY <3>1, <3>2, <4>2
  <2> HIDE DEF g
  <2>3. f = g
    <3>1. g = [j \in 1 .. (Len(marks) + 1) |-> g[j]]
      BY <1>2, <2>1
    <3>. QED
      BY <2>2, <3>1
  <2>. QED
    BY <1>4, <2>3 DEF g
<1>. QED
  BY <1>1, <1>5 DEF Region!SetMark, Moments

THEOREM ArenaImplementsRegion == Spec => ImplementsRegion
<1>1. Init => Region!Init
  <2> SUFFICES ASSUME Init PROVE Region!Init
    OBVIOUS
  <2>1. live = {} /\ marks = <<>> /\ serial = 0
    BY DEF Init
  <2>2. [k \in DOMAIN marks |-> marks[k].n] = <<>>
    BY <2>1
  <2>. QED
    BY <2>1, <2>2 DEF Region!Init
<1>2. IInv /\ [Next]_vars => [Region!Next]_(Region!vars)
  <2> SUFFICES ASSUME IInv, [Next]_vars PROVE [Region!Next]_(Region!vars)
    OBVIOUS
  <2>1. ASSUME NEW req \in Requests, NEW a \in Aligns, Alloc(req, a)
        PROVE  Region!Allocate
    BY <2>1, AllocRefines DEF Alloc, AllocInBlock, AllocNewBlock
  <2>2. CASE Mark
    BY <2>2, MarkRefines DEF Region!Next
  <2>3. ASSUME NEW k \in DOMAIN marks, Restore(k)
        PROVE  Region!Next
    <3>1. k \in 1 .. Len(marks)
      BY DEF IInv, Shape
    <3>2. Region!GoBack(k)
      BY <2>3, <3>1, RestoreRefines
    <3>3. k \in DOMAIN [j \in DOMAIN marks |-> marks[j].n]
      OBVIOUS
    <3>. QED
      BY <3>2, <3>3 DEF Region!Next
  <2>4. CASE Reset \/ Free
    <3>1. live' = {} /\ marks' = <<>> /\ serial' = 0
      BY <2>4 DEF Reset, Free
    <3>2. [k \in DOMAIN marks' |-> marks'[k].n] = <<>>
      BY <3>1
    <3>3. Region!Clear
      BY <3>1, <3>2 DEF Region!Clear
    <3>. QED
      BY <3>3 DEF Region!Next
  <2>5. CASE New
    <3>1. UNCHANGED <<live, marks, serial>>
      BY <2>5 DEF New
    <3>. QED
      BY <3>1 DEF Region!vars
  <2>6. CASE UNCHANGED vars
    <3>1. UNCHANGED <<live, marks, serial>>
      BY <2>6 DEF vars
    <3>. QED
      BY <3>1 DEF Region!vars
  <2>. QED
    BY <2>1, <2>2, <2>3, <2>4, <2>5, <2>6 DEF Next, Region!Next
<1>. QED
  BY <1>1, <1>2, Inductive, PTL DEF Spec, ImplementsRegion, Region!Spec
-----------------------------------------------------------------------------
(* The books.  That total_used covers what callers hold survives a restore *)
(* only because the blocks up to each mark covered what was held when the  *)
(* mark was set; and the counters are right although two objects may be of *)
(* one size only because no two have one serial number.                    *)
OneEach(L) == \A o, p \in L : o.n = p.n => o = p
Unique == OneEach(live)

Aligned == \A o \in live : o.off % o.align = 0

Counts ==
    /\ total_allocated \in Nat /\ total_used \in Nat /\ block_count \in Nat
    /\ total_allocated = SumSize(blocks)
    /\ HeldOf(serial) <= total_used
    /\ total_used <= SumUsed(blocks)
    /\ block_count >= Len(blocks)

\* What is used up to a mark covers what was held when it was set.
MarksCover ==
    \A k \in 1 .. Len(marks) : HeldOf(marks[k].n) <= SumUsed(CutAt(marks[k]))

Books == Unique /\ Aligned /\ Counts /\ MarksCover

\* The sums over a list of blocks are sums of numbers.
LEMMA SumsAre ==
    ASSUME NEW bs \in Seq(Block)
    PROVE  /\ SumUsed(bs) \in Nat /\ SumSize(bs) \in Nat
           /\ SumUsed(bs) = TotalOf([i \in 1 .. Len(bs) |-> bs[i].used], Len(bs))
           /\ SumSize(bs) = TotalOf([i \in 1 .. Len(bs) |-> bs[i].size], Len(bs))
           /\ \A i \in 1 .. Len(bs) : bs[i].used \in Nat /\ bs[i].size \in Nat
<1>1. DOMAIN bs = 1 .. Len(bs) /\ Len(bs) \in Nat
  OBVIOUS
<1>2. \A i \in 1 .. Len(bs) : bs[i].used \in Nat /\ bs[i].size \in Nat
  BY BlockAt
<1>. DEFINE u == [i \in 1 .. Len(bs) |-> bs[i].used]
            z == [i \in 1 .. Len(bs) |-> bs[i].size]
<1>3. SumUsed(bs) = TotalOf(u, Len(bs)) /\ SumSize(bs) = TotalOf(z, Len(bs))
  BY <1>1 DEF SumUsed, SumSize
<1>4. \A i \in 1 .. Len(bs) : u[i] \in Nat /\ z[i] \in Nat
  BY <1>2
<1>5. TotalOf(u, Len(bs)) \in Nat /\ TotalOf(z, Len(bs)) \in Nat
  <2>. HIDE DEF u, z
  <2>. QED
    BY <1>1, <1>4, TotalSteps
<1>. QED
  BY <1>2, <1>3, <1>5

\* A list that goes as far and is used as much holds as much.
LEMMA SumsOrder ==
    ASSUME NEW bs \in Seq(Block), NEW cs \in Seq(Block), Len(bs) <= Len(cs),
           \A i \in 1 .. Len(bs) : bs[i].used <= cs[i].used
    PROVE  SumUsed(bs) <= SumUsed(cs)
<1>. DEFINE n == Len(bs)
            u == [i \in 1 .. Len(bs) |-> bs[i].used]
            v == [i \in 1 .. Len(cs) |-> cs[i].used]
<1>1. n \in Nat /\ Len(cs) \in Nat /\ \A i \in 1 .. n : i \in 1 .. Len(cs)
  OBVIOUS
<1>2. /\ \A i \in 1 .. n : u[i] \in Nat /\ v[i] \in Nat /\ u[i] <= v[i]
      /\ \A i \in 1 .. Len(cs) : v[i] \in Nat
  BY <1>1, SumsAre
<1>3. /\ SumUsed(bs) = TotalOf(u, n) /\ SumUsed(cs) = TotalOf(v, Len(cs))
      /\ SumUsed(bs) \in Nat /\ SumUsed(cs) \in Nat
  BY SumsAre
<1>. HIDE DEF u, v
<1>4. TotalOf(u, n) <= TotalOf(v, n)
  BY <1>1, <1>2, TotalOrder
<1>5. TotalOf(v, n) <= TotalOf(v, Len(cs))
  BY <1>1, <1>2, TotalTail
<1>6. TotalOf(v, n) \in Nat
  BY <1>1, <1>2, TotalSteps
<1>. QED
  BY <1>3, <1>4, <1>5, <1>6

\* The bump pointers are inside their blocks, all together.
LEMMA SumsInside ==
    ASSUME NEW bs \in Seq(Block), \A i \in 1 .. Len(bs) : bs[i].used <= bs[i].size
    PROVE  SumUsed(bs) <= SumSize(bs)
<1>. DEFINE u == [i \in 1 .. Len(bs) |-> bs[i].used]
            z == [i \in 1 .. Len(bs) |-> bs[i].size]
<1>1. Len(bs) \in Nat /\ \A i \in 1 .. Len(bs) : u[i] \in Nat /\ z[i] \in Nat /\ u[i] <= z[i]
  <2>1. \A i \in 1 .. Len(bs) : bs[i].used \in Nat /\ bs[i].size \in Nat
    BY SumsAre
  <2>. QED
    BY <2>1
<1>2. SumUsed(bs) = TotalOf(u, Len(bs)) /\ SumSize(bs) = TotalOf(z, Len(bs))
  BY SumsAre
<1>. HIDE DEF u, z
<1>. QED
  BY <1>1, <1>2, TotalOrder

\* The last block counts for what it is.
LEMMA SumsLast ==
    ASSUME NEW bs \in Seq(Block), NEW c \in Nat, Len(bs) = c + 1,
           NEW cs \in Seq(Block), Len(cs) = c,
           \A i \in 1 .. c : bs[i] = cs[i]
    PROVE  /\ SumUsed(bs) = SumUsed(cs) + bs[c + 1].used
           /\ SumSize(bs) = SumSize(cs) + bs[c + 1].size
<1>. DEFINE u == [i \in 1 .. Len(bs) |-> bs[i].used]
            z == [i \in 1 .. Len(bs) |-> bs[i].size]
            v == [i \in 1 .. Len(cs) |-> cs[i].used]
            y == [i \in 1 .. Len(cs) |-> cs[i].size]
<1>1. /\ \A i \in 1 .. c + 1 : u[i] \in Nat /\ z[i] \in Nat
      /\ u[c + 1] = bs[c + 1].used /\ z[c + 1] = bs[c + 1].size
      /\ \A i \in 1 .. c : u[i] \in Nat /\ z[i] \in Nat /\ v[i] = u[i] /\ y[i] = z[i]
  <2>1. \A i \in 1 .. c + 1 : bs[i].used \in Nat /\ bs[i].size \in Nat
    BY SumsAre
  <2>. QED
    BY <2>1
<1>2. /\ SumUsed(bs) = TotalOf(u, c + 1) /\ SumSize(bs) = TotalOf(z, c + 1)
      /\ SumUsed(cs) = TotalOf(v, c) /\ SumSize(cs) = TotalOf(y, c)
  BY SumsAre
<1>. HIDE DEF u, z, v, y
<1>3. TotalOf(v, c) = TotalOf(u, c) /\ TotalOf(y, c) = TotalOf(z, c)
  BY <1>1, TotalSame
<1>4. c + 1 \in Nat /\ c + 1 > 0 /\ (c + 1) - 1 = c
  OBVIOUS
<1>5. TotalOf(u, c + 1) = TotalOf(u, c) + u[c + 1]
  BY <1>1, <1>4, TotalSteps
<1>6. TotalOf(z, c + 1) = TotalOf(z, c) + z[c + 1]
  BY <1>1, <1>4, TotalSteps
<1>. QED
  BY <1>1, <1>2, <1>3, <1>5, <1>6

\* What the objects of L hold of the first m of n: HeldOf, for any objects.
LenIn(L, i) == IF \E o \in L : o.n + 1 = i
               THEN (CHOOSE o \in L : o.n + 1 = i).len ELSE 0
HeldIn(L, n, m) == TotalOf([i \in 1 .. n |-> LenIn(L, i)], m)

\* With one object to a serial number, LenIn finds its length.
LEMMA LenFinds ==
    ASSUME NEW L \in SUBSET Object, OneEach(L)
    PROVE  /\ \A i \in Nat : LenIn(L, i) \in Nat
           /\ \A o \in L : LenIn(L, o.n + 1) = o.len
           /\ \A i \in Nat : (\A o \in L : o.n + 1 # i) => LenIn(L, i) = 0
<1>1. \A o \in L : o.len \in Nat /\ o.n \in Nat
  BY DEF Object
<1>2. ASSUME NEW i \in Nat PROVE LenIn(L, i) \in Nat
  <2>1. CASE \E o \in L : o.n + 1 = i
    <3>1. (CHOOSE o \in L : o.n + 1 = i) \in L
      BY <2>1
    <3>. QED
      BY <1>1, <2>1, <3>1 DEF LenIn
  <2>. QED
    BY <2>1 DEF LenIn
<1>3. ASSUME NEW o \in L PROVE LenIn(L, o.n + 1) = o.len
  <2>. DEFINE c == CHOOSE p \in L : p.n + 1 = o.n + 1
  <2>1. c \in L /\ c.n + 1 = o.n + 1
    OBVIOUS
  <2>2. LenIn(L, o.n + 1) = c.len
    BY DEF LenIn
  <2>. HIDE DEF c
  <2>3. c = o
    BY <1>1, <2>1 DEF OneEach
  <2>. QED
    BY <2>2, <2>3
<1>4. ASSUME NEW i \in Nat, \A o \in L : o.n + 1 # i PROVE LenIn(L, i) = 0
  BY <1>4 DEF LenIn
<1>. QED
  BY <1>2, <1>3, <1>4

\* What is held is a number, and nothing of no objects.
LEMMA HeldIs ==
    ASSUME NEW L \in SUBSET Object, OneEach(L),
           NEW n \in Nat, NEW m \in Nat, m <= n
    PROVE  HeldIn(L, n, m) \in Nat /\ (m = 0 => HeldIn(L, n, m) = 0)
<1>. DEFINE g == [i \in 1 .. n |-> LenIn(L, i)]
<1>1. \A i \in Nat : LenIn(L, i) \in Nat
  BY LenFinds
<1>2. \A i \in 1 .. m : g[i] \in Nat
  BY <1>1
<1>3. HeldIn(L, n, m) = TotalOf(g, m)
  BY DEF HeldIn
<1>. HIDE DEF g
<1>. QED
  BY <1>2, <1>3, TotalSteps

\* Some of the objects hold no more than all of them.
LEMMA HeldFewer ==
    ASSUME NEW L \in SUBSET Object, OneEach(L), NEW K \in SUBSET L,
           NEW n \in Nat, NEW m \in Nat, m <= n
    PROVE  OneEach(K) /\ HeldIn(K, n, m) <= HeldIn(L, n, m)
<1>. DEFINE f == [i \in 1 .. n |-> LenIn(K, i)]
            g == [i \in 1 .. n |-> LenIn(L, i)]
<1>1. K \in SUBSET Object /\ OneEach(K)
  BY DEF OneEach
<1>2. \A i \in Nat : LenIn(K, i) \in Nat /\ LenIn(L, i) \in Nat
  BY <1>1, LenFinds
<1>3. ASSUME NEW i \in Nat PROVE LenIn(K, i) <= LenIn(L, i)
  <2>1. CASE \A o \in K : o.n + 1 # i
    <3>1. LenIn(K, i) = 0
      BY <1>1, <2>1, LenFinds
    <3>. QED
      BY <1>2, <3>1
  <2>2. ASSUME NEW o \in K, o.n + 1 = i PROVE LenIn(K, i) = LenIn(L, i)
    <3>1. LenIn(K, o.n + 1) = o.len
      BY <1>1, LenFinds
    <3>2. LenIn(L, o.n + 1) = o.len
      BY LenFinds
    <3>. QED
      BY <2>2, <3>1, <3>2
  <2>. QED
    BY <1>2, <2>1, <2>2
<1>4. \A i \in 1 .. m : f[i] \in Nat /\ g[i] \in Nat /\ f[i] <= g[i]
  <2>1. \A i \in 1 .. m : i \in 1 .. n /\ i \in Nat
    OBVIOUS
  <2>2. \A i \in 1 .. m : f[i] = LenIn(K, i) /\ g[i] = LenIn(L, i)
    BY <2>1
  <2>. HIDE DEF f, g
  <2>. QED
    BY <1>2, <1>3, <2>1, <2>2
<1>5. HeldIn(K, n, m) = TotalOf(f, m) /\ HeldIn(L, n, m) = TotalOf(g, m)
  BY DEF HeldIn
<1>. HIDE DEF f, g
<1>. QED
  BY <1>1, <1>4, <1>5, TotalOrder

\* K is L with the next object, number n.
IsNext(L, n, o, K) ==
    /\ L \in SUBSET Object /\ OneEach(L) /\ n \in Nat /\ o \in Object
    /\ \A p \in L : p.n < n
    /\ o.n = n
    /\ K = L \cup {o}

\* The next object adds its length.
LEMMA HeldMore ==
    ASSUME NEW L, NEW n, NEW o, NEW K, IsNext(L, n, o, K)
    PROVE  /\ OneEach(K)
           /\ HeldIn(K, n + 1, n + 1) = HeldIn(L, n, n) + o.len
           /\ \A m \in 0 .. n : HeldIn(K, n + 1, m) = HeldIn(L, n, m)
<1>. DEFINE f == [i \in 1 .. n + 1 |-> LenIn(K, i)]
            g == [i \in 1 .. n |-> LenIn(L, i)]
<1>0. L \in SUBSET Object /\ OneEach(L) /\ n \in Nat /\ o \in Object /\ o.n = n
  BY DEF IsNext
<1>1. K \in SUBSET Object /\ OneEach(K) /\ \A p \in L : p.n \in Nat /\ p.n < n
  <2>1. \A p \in L : p.n \in Nat /\ p.n < n
    BY DEF Object, IsNext
  <2>. QED
    BY <2>1 DEF OneEach, IsNext
<1>2. o \in K /\ L \subseteq K /\ \A p \in K : p \in L \/ p = o
  BY DEF IsNext
<1>3. \A i \in Nat : LenIn(K, i) \in Nat /\ LenIn(L, i) \in Nat
  BY <1>0, <1>1, LenFinds
<1>4. ASSUME NEW i \in 1 .. n PROVE LenIn(K, i) = LenIn(L, i)
  <2>1. CASE \A p \in L : p.n + 1 # i
    <3>1. \A p \in K : p.n + 1 # i
      BY <1>0, <1>2, <2>1
    <3>2. LenIn(K, i) = 0
      BY <1>0, <1>1, <3>1, LenFinds
    <3>3. LenIn(L, i) = 0
      BY <1>0, <2>1, LenFinds
    <3>. QED
      BY <3>2, <3>3
  <2>2. ASSUME NEW p \in L, p.n + 1 = i PROVE LenIn(K, i) = LenIn(L, i)
    <3>1. LenIn(K, p.n + 1) = p.len
      BY <1>0, <1>1, <1>2, LenFinds
    <3>2. LenIn(L, p.n + 1) = p.len
      BY <1>0, LenFinds
    <3>. QED
      BY <2>2, <3>1, <3>2
  <2>. QED
    BY <2>1, <2>2
<1>5. LenIn(K, n + 1) = o.len
  BY <1>0, <1>1, <1>2, LenFinds
<1>6. /\ \A i \in 1 .. n : g[i] \in Nat /\ f[i] = g[i]
      /\ \A i \in 1 .. n + 1 : f[i] \in Nat
      /\ f[n + 1] = o.len
  <2>1. /\ \A i \in 1 .. n : i \in 1 .. n + 1 /\ i \in Nat
        /\ \A i \in 1 .. n + 1 : i \in Nat
        /\ n + 1 \in 1 .. n + 1
    BY <1>0
  <2>2. /\ \A i \in 1 .. n + 1 : f[i] = LenIn(K, i)
        /\ \A i \in 1 .. n : g[i] = LenIn(L, i)
    BY <1>0
  <2>. HIDE DEF f, g
  <2>. QED
    BY <1>0, <1>3, <1>4, <1>5, <2>1, <2>2
<1>7. /\ HeldIn(K, n + 1, n + 1) = TotalOf(f, n + 1)
      /\ HeldIn(L, n, n) = TotalOf(g, n)
      /\ \A m \in 0 .. n : HeldIn(K, n + 1, m) = TotalOf(f, m) /\ HeldIn(L, n, m) = TotalOf(g, m)
  BY DEF HeldIn
<1>. HIDE DEF f, g
<1>8. ASSUME NEW m \in 0 .. n PROVE TotalOf(f, m) = TotalOf(g, m)
  <2>1. m \in Nat /\ \A i \in 1 .. m : g[i] \in Nat /\ f[i] = g[i]
    BY <1>0, <1>6
  <2>. QED
    BY <1>0, <2>1, TotalSame
<1>9. TotalOf(f, n + 1) = TotalOf(f, n) + f[n + 1]
  <2>1. n + 1 \in Nat /\ n + 1 > 0 /\ (n + 1) - 1 = n
    BY <1>0
  <2>. QED
    BY <1>0, <1>6, <2>1, TotalSteps
<1>10. n \in 0 .. n
  BY <1>0
<1>11. TotalOf(f, n) = TotalOf(g, n)
  BY <1>8, <1>10
<1>12. HeldIn(K, n + 1, n + 1) = HeldIn(L, n, n) + o.len
  BY <1>0, <1>6, <1>7, <1>9, <1>11
<1>13. \A m \in 0 .. n : HeldIn(K, n + 1, m) = HeldIn(L, n, m)
  BY <1>7, <1>8
<1>. QED
  BY <1>1, <1>12, <1>13

\* The objects older than the m-th are all that is held when only they are left.
LEMMA HeldOlder ==
    ASSUME NEW L \in SUBSET Object, OneEach(L), NEW n \in Nat, NEW m \in Nat, m <= n
    PROVE  LET K == {o \in L : o.n < m} IN HeldIn(K, n, n) = HeldIn(K, n, m)
<1>. DEFINE K == {o \in L : o.n < m}
            f == [i \in 1 .. n |-> LenIn(K, i)]
<1>1. K \in SUBSET Object /\ OneEach(K) /\ \A o \in K : o.n \in Nat /\ o.n < m
  <2>1. \A o \in L : o.n \in Nat
    BY DEF Object
  <2>. QED
    BY <2>1 DEF OneEach
<1>2. HeldIn(K, n, m) = TotalOf(f, m) /\ HeldIn(K, n, n) = TotalOf(f, n)
  BY DEF HeldIn
<1>. HIDE DEF K
<1>3. ASSUME NEW i \in m + 1 .. n PROVE LenIn(K, i) = 0
  <2>1. i \in Nat /\ \A o \in K : o.n + 1 # i
    BY <1>1
  <2>. QED
    BY <1>1, <2>1, LenFinds
<1>4. \A i \in Nat : LenIn(K, i) \in Nat
  BY <1>1, LenFinds
<1>5. (\A i \in 1 .. n : f[i] \in Nat) /\ (\A i \in m + 1 .. n : f[i] = 0)
  BY <1>3, <1>4
<1>. HIDE DEF f
<1>6. TotalOf(f, n) = TotalOf(f, m)
  BY <1>5, TotalTail
<1>. QED
  BY <1>2, <1>6 DEF K

\* No objects hold nothing.
LEMMA HeldNone ==
    ASSUME NEW n \in Nat
    PROVE  OneEach({}) /\ HeldIn({}, n, n) = 0
<1>1. {} \in SUBSET Object /\ OneEach({}) /\ {o \in {} : o.n < 0} = {}
  BY DEF OneEach
<1>2. 0 \in Nat /\ 0 <= n
  OBVIOUS
<1>3. HeldIn({o \in {} : o.n < 0}, n, n) = HeldIn({o \in {} : o.n < 0}, n, 0)
  BY <1>1, <1>2, HeldOlder
<1>4. HeldIn({}, n, 0) = 0
  BY <1>1, <1>2, HeldIs
<1>. QED
  BY <1>1, <1>3, <1>4

\* The sums of the shortest lists.
LEMMA SumsShort ==
    /\ SumUsed(<<>>) = 0 /\ SumSize(<<>>) = 0
    /\ \A b \in Block : SumUsed(<<b>>) = b.used /\ SumSize(<<b>>) = b.size
<1>1. <<>> \in Seq(Block) /\ Len(<<>>) = 0
  OBVIOUS
<1>2. SumUsed(<<>>) = 0 /\ SumSize(<<>>) = 0
  <2>1. \A g : TotalOf(g, 0) = 0
    <3>1. SUFFICES ASSUME NEW g PROVE TotalOf(g, 0) = 0
      OBVIOUS
    <3>2. \A i \in 1 .. 0 : g[i] \in Nat
      OBVIOUS
    <3>. QED
      BY <3>2, TotalSteps
  <2>. QED
    BY <1>1, <2>1 DEF SumUsed, SumSize
<1>3. ASSUME NEW b \in Block PROVE SumUsed(<<b>>) = b.used /\ SumSize(<<b>>) = b.size
  <2>. DEFINE s == <<b>>
              e == <<>>
  <2>1. /\ e \in Seq(Block) /\ Len(e) = 0 /\ 0 \in Nat
        /\ s \in Seq(Block) /\ Len(s) = 0 + 1 /\ s[0 + 1] = b
        /\ \A i \in 1 .. 0 : s[i] = e[i]
        /\ b.used \in Nat /\ b.size \in Nat
    BY DEF Block
  <2>. HIDE DEF s, e
  <2>2. SumUsed(s) = SumUsed(e) + s[0 + 1].used /\ SumSize(s) = SumSize(e) + s[0 + 1].size
    BY <2>1, SumsLast
  <2>. QED
    BY <1>2, <2>1, <2>2 DEF s, e
<1>. QED
  BY <1>2, <1>3

\* Cutting a list that is used as much leaves as much.
LEMMA CutOrder ==
    ASSUME NEW bs \in Seq(Block), NEW cs \in Seq(Block), NEW B \in Nat, NEW u \in Nat,
           B \in 1 .. Len(bs), B \in 1 .. Len(cs),
           \A i \in 1 .. (B - 1) : bs[i].used <= cs[i].used
    PROVE  SumUsed(Cut(bs, B, u)) <= SumUsed(Cut(cs, B, u))
<1>. DEFINE x == Cut(bs, B, u)
            y == Cut(cs, B, u)
<1>1. /\ x \in Seq(Block) /\ Len(x) = B /\ x[B].used = u
      /\ \A i \in 1 .. (B - 1) : x[i] = bs[i]
  BY CutFacts
<1>2. /\ y \in Seq(Block) /\ Len(y) = B /\ y[B].used = u
      /\ \A i \in 1 .. (B - 1) : y[i] = cs[i]
  BY CutFacts
<1>. HIDE DEF x, y
<1>3. \A i \in 1 .. B : i = B \/ i \in 1 .. (B - 1)
  OBVIOUS
<1>4. \A i \in 1 .. B : x[i].used <= y[i].used
  BY <1>1, <1>2, <1>3
<1>5. SumUsed(x) <= SumUsed(y)
  BY <1>1, <1>2, <1>4, SumsOrder
<1>. QED
  BY <1>5 DEF x, y

\* The books in terms of the objects and the blocks.
LEMMA HeldOfIs == \A m : HeldOf(m) = HeldIn(live, serial, m)
  BY DEF HeldOf, HeldIn, LenOf, LenIn

LEMMA BooksInit == Init => Books
<1> SUFFICES ASSUME Init PROVE Books
  OBVIOUS
<1>. DEFINE b == FreshBlock(BlockSize)
<1>1. b \in Block /\ b.used = 0 /\ b.size = BlockSize /\ BlockSize \in Nat
  BY ArenaAssumption DEF FreshBlock, Block
<1>2. blocks = <<b>> /\ Len(<<b>>) = 1
  BY DEF Init
<1>. HIDE DEF b
<1>3. SumUsed(blocks) = 0 /\ SumSize(blocks) = BlockSize
  BY <1>1, <1>2, SumsShort
<1>4. live = {} /\ serial = 0 /\ marks = <<>>
  BY DEF Init
<1>5. OneEach(live) /\ HeldOf(serial) = 0
  BY <1>4, HeldNone, HeldOfIs
<1>. QED
  BY <1>1, <1>2, <1>3, <1>4, <1>5
     DEF Init, Books, Unique, Aligned, Counts, MarksCover

\* Handing out an object keeps the books, when the counters follow.
LEMMA HandOutBooks ==
    ASSUME IInv, Books, NEW b \in Nat, NEW off \in Nat, NEW len \in Nat \ {0},
           NEW a \in Aligns, HandOutStep(b, off, len, a), off % a = 0,
           total_used' = total_used + len,
           SumUsed(blocks) + len <= SumUsed(blocks'),
           total_allocated' = SumSize(blocks'),
           block_count' \in Nat, Len(blocks') <= block_count'
    PROVE  Books'
<1>. DEFINE o == [n |-> serial, block |-> b, off |-> off, len |-> len, align |-> a]
<1>1. /\ live' = live \cup {o} /\ serial' = serial + 1 /\ marks' = marks
      /\ blocks \in Seq(Block) /\ blocks' \in Seq(Block)
      /\ live \in SUBSET Object /\ serial \in Nat
      /\ OneEach(live) /\ \A p \in live : p.n < serial
  BY DEF HandOutStep, HandOut, IInv, Shape, LiveBacked, Books, Unique
<1>2. /\ o \in Object /\ o.n = serial /\ o.len = len /\ o.off = off /\ o.align = a
  BY <1>1 DEF Object
<1>. HIDE DEF o
<1>3. /\ OneEach(live')
      /\ HeldIn(live', serial', serial') = HeldIn(live, serial, serial) + len
      /\ \A m \in 0 .. serial : HeldIn(live', serial', m) = HeldIn(live, serial, m)
  <2>1. /\ OneEach(live')
        /\ HeldIn(live', serial + 1, serial + 1) = HeldIn(live, serial, serial) + o.len
        /\ \A m \in 0 .. serial : HeldIn(live', serial + 1, m) = HeldIn(live, serial, m)
    <3>1. IsNext(live, serial, o, live')
      BY <1>1, <1>2 DEF IsNext
    <3>. QED
      BY <3>1, HeldMore
  <2>. QED
    BY <1>1, <1>2, <2>1
<1>4. HeldIn(live, serial, serial) \in Nat
  BY <1>1, HeldIs
<1>5. /\ SumUsed(blocks) \in Nat /\ SumUsed(blocks') \in Nat /\ SumSize(blocks') \in Nat
  BY <1>1, SumsAre
<1>6. Counts'
  <2>1. /\ total_used \in Nat /\ HeldIn(live, serial, serial) <= total_used
        /\ total_used <= SumUsed(blocks)
    BY HeldOfIs DEF Books, Counts
  <2>2. HeldOf(serial)' = HeldIn(live', serial', serial')
    BY DEF HeldOf, HeldIn, LenOf, LenIn
  <2>3. /\ total_used' \in Nat /\ HeldOf(serial)' <= total_used'
        /\ total_used' <= SumUsed(blocks')
    BY <1>3, <1>4, <1>5, <2>1, <2>2
  <2>4. Len(blocks') \in Nat /\ block_count' >= Len(blocks')
    BY <1>1
  <2>. QED
    BY <1>5, <2>3, <2>4 DEF Counts
<1>7. Aligned'
  BY <1>1, <1>2 DEF Aligned, Books
<1>8. MarksCover'
  <2> SUFFICES ASSUME NEW k \in 1 .. Len(marks)
               PROVE  HeldIn(live', serial', marks[k].n)
                        <= SumUsed(Cut(blocks', marks[k].block, marks[k].used))
    BY <1>1 DEF MarksCover, HeldOf, HeldIn, LenOf, LenIn, CutAt, Cut
  <2>. DEFINE m == marks[k]
  <2>1. /\ m.block \in Nat /\ m.used \in Nat /\ m.n \in Nat
        /\ m.block \in 1 .. Len(blocks) /\ m.n <= serial
    BY MarkAt DEF IInv, MarksInside, MarkInside
  <2>2. HeldOf(m.n) <= SumUsed(CutAt(m))
    BY DEF Books, MarksCover
  <2>3. HeldOf(m.n) = HeldIn(live, serial, m.n) /\ CutAt(m) = Cut(blocks, m.block, m.used)
    BY HeldOfIs DEF CutAt, Cut
  <2>. HIDE DEF m
  <2>4. HeldIn(live', serial', m.n) = HeldIn(live, serial, m.n)
    <3>1. m.n \in 0 .. serial
      BY <1>1, <2>1
    <3>. QED
      BY <1>3, <3>1
  <2>5. /\ m.block \in 1 .. Len(blocks')
        /\ \A i \in 1 .. (m.block - 1) : blocks[i].used <= blocks'[i].used
    <3>1. /\ Len(blocks) \in 1 .. b /\ Len(blocks') = b
          /\ \A i \in 1 .. Len(blocks) : blocks[i].used <= blocks'[i].used
      BY DEF HandOutStep
    <3>. QED
      BY <2>1, <3>1
  <2>6. SumUsed(Cut(blocks, m.block, m.used)) <= SumUsed(Cut(blocks', m.block, m.used))
    BY <1>1, <2>1, <2>5, CutOrder
  <2>7. /\ HeldIn(live, serial, m.n) \in Nat
        /\ SumUsed(Cut(blocks, m.block, m.used)) \in Nat
        /\ SumUsed(Cut(blocks', m.block, m.used)) \in Nat
    <3>1. /\ Cut(blocks, m.block, m.used) \in Seq(Block)
          /\ Cut(blocks', m.block, m.used) \in Seq(Block)
      BY <1>1, <2>1, <2>5, CutFacts
    <3>. QED
      BY <1>1, <2>1, <3>1, HeldIs, SumsAre
  <2>8. HeldIn(live', serial', m.n) <= SumUsed(Cut(blocks', m.block, m.used))
    BY <2>2, <2>3, <2>4, <2>6, <2>7
  <2>. QED
    BY <2>8 DEF m
<1>. QED
  BY <1>3, <1>6, <1>7, <1>8 DEF Books, Unique

LEMMA AllocInBlockBooks ==
    ASSUME IInv, Books, NEW size \in Nat \ {0}, NEW a \in Aligns,
           blocks # <<>>, AllocInBlock(size, a)
    PROVE  Books'
<1>. DEFINE n == Len(blocks)
            pos == AlignUp(blocks[n].used, a)
            nb == [blocks[n] EXCEPT !.used = pos + size]
            front == [i \in 1 .. n - 1 |-> blocks[i]]
<1>1. /\ blocks \in Seq(Block) /\ n \in 1 .. Len(blocks) /\ n \in Nat /\ n - 1 \in Nat
      /\ blocks[n] \in Block /\ blocks[n].used \in Nat /\ blocks[n].size \in Nat
  <2>1. blocks \in Seq(Block) /\ n \in 1 .. Len(blocks) /\ n \in Nat /\ n - 1 \in Nat
    BY DEF IInv, Shape
  <2>. QED
    BY <2>1, BlockAt
<1>2. pos \in Nat /\ pos >= blocks[n].used /\ pos % a = 0
  BY <1>1, AlignUpBound, AlignUpMultiple, ArenaAssumption
<1>3. /\ pos + size <= blocks[n].size
      /\ blocks' = [blocks EXCEPT ![n].used = pos + size]
      /\ total_used' = total_used + size
      /\ HandOut(n, pos, size, a)
      /\ marks' = marks /\ total_allocated' = total_allocated /\ block_count' = block_count
  BY DEF AllocInBlock
<1>. HIDE DEF pos
<1>4. nb \in Block /\ nb.used = pos + size /\ nb.size = blocks[n].size
  <2>1. pos + size \in Nat
    BY <1>2
  <2>. QED
    BY <1>1, <2>1 DEF Block
<1>5. blocks' = [blocks EXCEPT ![n] = nb]
  BY <1>3
<1>. HIDE DEF nb
<1>6. /\ blocks' \in Seq(Block) /\ Len(blocks') = n
      /\ \A i \in 1 .. Len(blocks) : blocks'[i] = IF i = n THEN nb ELSE blocks[i]
  BY <1>1, <1>4, <1>5
<1>7. \A i \in 1 .. Len(blocks) : blocks[i].used <= blocks'[i].used
  <2>1. \A i \in 1 .. Len(blocks) : blocks[i].used \in Nat
    BY <1>1, BlockAt
  <2>. QED
    BY <2>1, <1>1, <1>2, <1>4, <1>6
<1>8. \A i \in 1 .. Len(blocks') : blocks'[i].used <= blocks'[i].size
  BY <1>1, <1>3, <1>4, <1>6 DEF IInv, BlocksInside
<1>9. HandOutStep(n, pos, size, a)
  BY <1>1, <1>2, <1>3, <1>4, <1>6, <1>7, <1>8 DEF HandOutStep
<1>10. front \in Seq(Block) /\ Len(front) = n - 1 /\ \A i \in 1 .. n - 1 : front[i] = blocks[i]
  <2>1. \A i \in 1 .. n - 1 : blocks[i] \in Block
    BY <1>1
  <2>2. front \in [1 .. n - 1 -> Block]
    BY <2>1
  <2>. QED
    BY <1>1, <2>2, AsSequence
<1>. HIDE DEF front
<1>11. \A i \in 1 .. n - 1 : blocks'[i] = front[i]
  BY <1>1, <1>6, <1>10
<1>12. PICK c \in Nat : c = n - 1 /\ n = c + 1
  BY <1>1
<1>13. /\ SumUsed(blocks) = SumUsed(front) + blocks[n].used
       /\ SumSize(blocks) = SumSize(front) + blocks[n].size
  BY <1>1, <1>10, <1>12, SumsLast
<1>14. /\ SumUsed(blocks') = SumUsed(front) + blocks'[n].used
       /\ SumSize(blocks') = SumSize(front) + blocks'[n].size
  BY <1>6, <1>10, <1>11, <1>12, SumsLast
<1>15. /\ SumUsed(front) \in Nat /\ blocks'[n] = nb
  BY <1>1, <1>6, <1>10, SumsAre
<1>16. /\ SumUsed(blocks) + size <= SumUsed(blocks')
       /\ SumSize(blocks') = SumSize(blocks)
  BY <1>1, <1>2, <1>4, <1>13, <1>14, <1>15
<1>17. /\ total_allocated' = SumSize(blocks')
       /\ block_count' \in Nat /\ Len(blocks') <= block_count'
  BY <1>1, <1>3, <1>6, <1>16 DEF Books, Counts
<1>. QED
  BY <1>1, <1>2, <1>3, <1>9, <1>16, <1>17, HandOutBooks

LEMMA AllocNewBlockBooks ==
    ASSUME IInv, Books, NEW size \in Nat \ {0}, NEW a \in Aligns,
           blocks # <<>>, AllocNewBlock(size, a)
    PROVE  Books'
<1>. DEFINE n == Len(blocks)
            nb == [size |-> NewBlockSize(size), used |-> size]
<1>1. blocks \in Seq(Block) /\ n \in 1 .. Len(blocks) /\ n \in Nat
  BY DEF IInv, Shape
<1>2. /\ nb \in Block /\ nb.used = size /\ nb.size = NewBlockSize(size)
      /\ size <= nb.size /\ NewBlockSize(size) \in Nat
  <2>1. NewBlockSize(size) \in Nat /\ size <= NewBlockSize(size)
    BY ArenaAssumption DEF NewBlockSize
  <2>. QED
    BY <2>1 DEF Block
<1>3. /\ blocks' = Append(blocks, nb)
      /\ block_count' = block_count + 1
      /\ total_allocated' = total_allocated + NewBlockSize(size)
      /\ total_used' = total_used + size
      /\ HandOut(n + 1, 0, size, a) /\ marks' = marks
  BY DEF AllocNewBlock
<1>. HIDE DEF nb
<1>4. /\ blocks' \in Seq(Block) /\ Len(blocks') = n + 1 /\ blocks'[n + 1] = nb
      /\ \A i \in 1 .. Len(blocks) : blocks'[i] = blocks[i]
  BY <1>1, <1>2, <1>3
<1>5. \A i \in 1 .. Len(blocks) : blocks[i].used <= blocks'[i].used
  <2> TAKE i \in 1 .. Len(blocks)
  <2>1. blocks[i].used \in Nat /\ blocks'[i] = blocks[i]
    BY <1>1, <1>4, BlockAt
  <2>. QED
    BY <2>1
<1>6. \A i \in 1 .. Len(blocks') : blocks'[i].used <= blocks'[i].size
  <2> SUFFICES ASSUME NEW i \in 1 .. Len(blocks') PROVE blocks'[i].used <= blocks'[i].size
    OBVIOUS
  <2>1. CASE i = n + 1
    BY <1>2, <1>4, <2>1
  <2>2. CASE i \in 1 .. n
    BY <1>4, <2>2 DEF IInv, BlocksInside
  <2>. QED
    BY <1>1, <1>4, <2>1, <2>2
<1>7. HandOutStep(n + 1, 0, size, a)
  <2>1. n + 1 \in 1 .. Len(blocks') /\ Len(blocks) \in 1 .. (n + 1) /\ n + 1 # Len(blocks)
    BY <1>1, <1>4
  <2>2. 0 + size <= blocks'[n + 1].used
    BY <1>2, <1>4
  <2>. QED
    BY <1>3, <1>4, <1>5, <1>6, <2>1, <2>2 DEF HandOutStep
<1>8. /\ SumUsed(blocks') = SumUsed(blocks) + blocks'[n + 1].used
      /\ SumSize(blocks') = SumSize(blocks) + blocks'[n + 1].size
  BY <1>1, <1>4, SumsLast
<1>9. SumUsed(blocks) \in Nat /\ SumSize(blocks) \in Nat
  BY <1>1, SumsAre
<1>10. SumUsed(blocks) + size <= SumUsed(blocks')
  BY <1>2, <1>4, <1>8, <1>9
<1>11. /\ total_allocated' = SumSize(blocks')
       /\ block_count' \in Nat /\ Len(blocks') <= block_count'
  BY <1>1, <1>2, <1>3, <1>4, <1>8 DEF Books, Counts
<1>12. 0 % a = 0 /\ n + 1 \in Nat
  BY <1>1, ArenaAssumption
<1>. QED
  BY <1>1, <1>3, <1>7, <1>10, <1>11, <1>12, HandOutBooks

LEMMA MarkBooks ==
    ASSUME IInv, Books, Mark
    PROVE  Books'
<1>. DEFINE c == Len(blocks)
            m == [block |-> c, used |-> blocks[c].used, n |-> serial]
            K == Len(marks)
<1>1. /\ blocks \in Seq(Block) /\ c \in 1 .. Len(blocks) /\ c \in Nat
      /\ marks \in Seq(ArenaMark) /\ K \in Nat
      /\ blocks[c].used \in Nat /\ serial \in Nat
  <2>1. /\ blocks \in Seq(Block) /\ c \in 1 .. Len(blocks) /\ c \in Nat
        /\ marks \in Seq(ArenaMark) /\ K \in Nat /\ serial \in Nat
    BY DEF IInv, Shape, Mark
  <2>. QED
    BY <2>1, BlockAt
<1>2. /\ marks' = Append(marks, m)
      /\ UNCHANGED <<blocks, live, serial, total_allocated, total_used, block_count>>
  BY DEF Mark, counters
<1>3. m.block = c /\ m.used = blocks[c].used /\ m.n = serial
  OBVIOUS
<1>. HIDE DEF m
<1>4. /\ Len(marks') = K + 1 /\ marks'[K + 1] = m
      /\ \A k \in 1 .. K : marks'[k] = marks[k]
  BY <1>1, <1>2
<1>5. Unique' /\ Aligned' /\ Counts'
  BY <1>2 DEF Books, Unique, Aligned, Counts, HeldOf, LenOf
<1>6. SumUsed(blocks) <= SumUsed(Cut(blocks, c, blocks[c].used))
  <2>. DEFINE x == Cut(blocks, c, blocks[c].used)
  <2>1. /\ x \in Seq(Block) /\ Len(x) = c /\ x[c].used = blocks[c].used
        /\ \A i \in 1 .. (c - 1) : x[i] = blocks[i]
    BY <1>1, CutFacts
  <2>. HIDE DEF x
  <2>2. \A i \in 1 .. c : blocks[i].used \in Nat /\ (i = c \/ i \in 1 .. (c - 1))
    BY <1>1, BlockAt
  <2>3. \A i \in 1 .. c : blocks[i].used <= x[i].used
    BY <2>1, <2>2
  <2>4. Len(blocks) <= Len(x)
    BY <1>1, <2>1
  <2>5. SumUsed(blocks) <= SumUsed(x)
    BY <1>1, <2>1, <2>3, <2>4, SumsOrder
  <2>. QED
    BY <2>5 DEF x
<1>7. MarksCover'
  <2> SUFFICES ASSUME NEW k \in 1 .. K + 1
               PROVE  HeldIn(live, serial, marks'[k].n)
                        <= SumUsed(Cut(blocks, marks'[k].block, marks'[k].used))
    <3>1. \A k \in 1 .. K + 1 :
             HeldIn(live', serial', marks'[k].n)
               <= SumUsed(Cut(blocks', marks'[k].block, marks'[k].used))
      BY <1>2
    <3>. QED
      BY <1>4, <3>1 DEF MarksCover, HeldOf, HeldIn, LenOf, LenIn, CutAt, Cut
  <2>1. CASE k = K + 1
    <3>1. HeldIn(live, serial, serial) <= total_used /\ total_used <= SumUsed(blocks)
      BY HeldOfIs DEF Books, Counts
    <3>2. HeldIn(live, serial, serial) \in Nat /\ total_used \in Nat
      BY <1>1, HeldIs DEF Books, Counts, Unique, IInv, Shape
    <3>3. SumUsed(blocks) \in Nat /\ SumUsed(Cut(blocks, c, blocks[c].used)) \in Nat
      <4>1. Cut(blocks, c, blocks[c].used) \in Seq(Block)
        BY <1>1, CutFacts
      <4>. QED
        BY <1>1, <4>1, SumsAre
    <3>. QED
      BY <1>3, <1>4, <1>6, <2>1, <3>1, <3>2, <3>3
  <2>2. CASE k \in 1 .. K
    <3>1. HeldOf(marks[k].n) <= SumUsed(CutAt(marks[k]))
      BY <2>2 DEF Books, MarksCover
    <3>. QED
      BY <1>4, <2>2, <3>1, HeldOfIs DEF CutAt, Cut
  <2>. QED
    BY <1>1, <2>1, <2>2
<1>. QED
  BY <1>5, <1>7 DEF Books

LEMMA RestoreBooks ==
    ASSUME IInv, Books, NEW k \in 1 .. Len(marks), Restore(k)
    PROVE  Books'
<1>. DEFINE m == marks[k]
            B == m.block
            kept == CutAt(m)
<1>1. /\ blocks' = kept
      /\ marks' = SubSeq(marks, 1, k)
      /\ live' = {o \in live : Backed(o, kept)}
      /\ serial' = serial /\ block_count' = block_count
      /\ total_used' = SumUsed(kept) /\ total_allocated' = SumSize(kept)
  BY DEF Restore
<1>2. /\ B \in 1 .. Len(blocks) /\ B \in Nat
      /\ kept \in Seq(Block) /\ Len(kept) = B
      /\ \A i \in 1 .. (B - 1) : kept[i] = blocks[i]
      /\ \A o \in live : Backed(o, kept) <=> o.n < m.n
  BY RestoreFacts DEF IInv, Shape
<1>3. /\ Len(marks') = k /\ k \in Nat
      /\ \A j \in 1 .. k : marks'[j] = marks[j] /\ j \in 1 .. Len(marks) /\ j <= k
  <2>1. marks \in Seq(ArenaMark)
    BY DEF IInv, Shape
  <2>. QED
    BY <1>1, <2>1
<1>4. /\ blocks \in Seq(Block) /\ live \in SUBSET Object /\ serial \in Nat
      /\ OneEach(live) /\ m.n \in Nat /\ m.n <= serial
  BY MarkAt DEF IInv, Shape, Books, Unique, MarksInside, MarkInside
<1>5. live' = {o \in live : o.n < m.n} /\ live' \in SUBSET live
  BY <1>1, <1>2
<1>6. HeldIn(live, serial, m.n) <= SumUsed(kept)
  BY HeldOfIs DEF Books, MarksCover
<1>7. /\ SumUsed(kept) \in Nat /\ SumSize(kept) \in Nat
  BY <1>2, SumsAre
<1>. HIDE DEF kept
<1>8. /\ OneEach(live')
      /\ \A n \in Nat : n <= serial => HeldIn(live', serial, n) <= HeldIn(live, serial, n)
  <2>. HIDE DEF m, B
  <2>. QED
    BY <1>4, <1>5, HeldFewer
<1>9. Unique' /\ Aligned'
  BY <1>5, <1>8 DEF Unique, Aligned, Books
<1>10. HeldIn(live', serial', serial') <= SumUsed(kept)
  <2>1. HeldIn(live', serial, serial) = HeldIn(live', serial, m.n)
    BY <1>4, <1>5, HeldOlder
  <2>2. HeldIn(live', serial, m.n) <= HeldIn(live, serial, m.n)
    BY <1>4, <1>8
  <2>3. HeldIn(live, serial, m.n) \in Nat
    BY <1>4, HeldIs
  <2>4. HeldIn(live', serial, m.n) \in Nat
    <3>1. live' \in SUBSET Object
      BY <1>4, <1>5
    <3>. QED
      BY <1>4, <1>8, <3>1, HeldIs
  <2>. QED
    BY <1>1, <1>6, <1>7, <2>1, <2>2, <2>3, <2>4
<1>11. Counts'
  <2>1. HeldOf(serial)' = HeldIn(live', serial', serial')
    BY DEF HeldOf, HeldIn, LenOf, LenIn
  <2>2. block_count \in Nat /\ block_count >= Len(blocks) /\ Len(blocks) \in Nat
    BY <1>4 DEF Books, Counts
  <2>. QED
    BY <1>1, <1>2, <1>7, <1>10, <2>1, <2>2 DEF Counts
<1>12. MarksCover'
  <2> SUFFICES ASSUME NEW j \in 1 .. k
               PROVE  HeldIn(live', serial', marks[j].n)
                        <= SumUsed(Cut(kept, marks[j].block, marks[j].used))
    BY <1>1, <1>3 DEF MarksCover, HeldOf, HeldIn, LenOf, LenIn, CutAt, Cut
  <2>. DEFINE w == marks[j]
  <2>1. /\ w.block \in Nat /\ w.used \in Nat /\ w.n \in Nat
        /\ w.block \in 1 .. Len(blocks) /\ w.n <= serial
    BY <1>3, MarkAt DEF IInv, MarksInside, MarkInside
  <2>2. w.block <= B
    BY <1>2, <1>3, <2>1 DEF IInv, MarksOrdered
  <2>3. HeldIn(live, serial, w.n) <= SumUsed(Cut(blocks, w.block, w.used))
    <3>1. HeldOf(w.n) <= SumUsed(CutAt(w))
      BY <1>3 DEF Books, MarksCover
    <3>. QED
      BY <3>1, HeldOfIs DEF CutAt, Cut
  <2>. HIDE DEF w, m, B
  <2>4. /\ w.block \in 1 .. Len(kept)
        /\ \A i \in 1 .. (w.block - 1) : i \in 1 .. (B - 1) /\ i \in 1 .. Len(blocks)
    BY <1>2, <2>1, <2>2
  <2>5. \A i \in 1 .. (w.block - 1) : blocks[i].used <= kept[i].used
    <3> SUFFICES ASSUME NEW i \in 1 .. (w.block - 1) PROVE blocks[i].used <= kept[i].used
      OBVIOUS
    <3>1. blocks[i].used \in Nat /\ kept[i] = blocks[i]
      BY <1>2, <1>4, <2>4, BlockAt
    <3>. QED
      BY <3>1
  <2>6. SumUsed(Cut(blocks, w.block, w.used)) <= SumUsed(Cut(kept, w.block, w.used))
    BY <1>2, <1>4, <2>1, <2>4, <2>5, CutOrder
  <2>7. HeldIn(live', serial', w.n) <= HeldIn(live, serial, w.n)
    BY <1>1, <1>8, <2>1
  <2>8. /\ Cut(blocks, w.block, w.used) \in Seq(Block)
        /\ Cut(kept, w.block, w.used) \in Seq(Block)
    BY <1>2, <1>4, <2>1, <2>4, CutFacts
  <2>9. /\ SumUsed(Cut(blocks, w.block, w.used)) \in Nat
        /\ SumUsed(Cut(kept, w.block, w.used)) \in Nat
    BY <2>8, SumsAre
  <2>10. HeldIn(live, serial, w.n) \in Nat
    BY <1>4, <2>1, HeldIs
  <2>11. HeldIn(live', serial', w.n) \in Nat
    <3>1. live' \in SUBSET Object
      BY <1>4, <1>5
    <3>. QED
      BY <1>1, <1>4, <1>8, <2>1, <3>1, HeldIs
  <2>12. HeldIn(live', serial', w.n) <= SumUsed(Cut(kept, w.block, w.used))
    BY <2>3, <2>6, <2>7, <2>9, <2>10, <2>11
  <2>. QED
    BY <2>12 DEF w
<1>. QED
  BY <1>9, <1>11, <1>12 DEF Books

LEMMA ClearBooks ==
    ASSUME IInv, Books, Reset \/ Free \/ New
    PROVE  Books'
<1>1. live' = {} /\ marks' = <<>> /\ serial' \in Nat
  BY DEF IInv, Shape, Empty, Reset, Free, New
<1>2. /\ total_allocated' \in Nat /\ total_used' = 0 /\ block_count' \in Nat
      /\ total_allocated' = SumSize(blocks') /\ 0 <= SumUsed(blocks')
      /\ block_count' >= Len(blocks')
  <2>1. CASE Reset
    <3>. DEFINE b == [blocks[1] EXCEPT !.used = 0]
    <3>1. blocks \in Seq(Block) /\ 1 \in 1 .. Len(blocks)
      BY <2>1 DEF IInv, Shape, Reset
    <3>2. blocks[1] \in Block /\ blocks[1].size \in Nat
      BY <3>1, BlockAt
    <3>3. b \in Block /\ b.used = 0 /\ b.size = blocks[1].size
      BY <3>2 DEF Block
    <3>4. /\ blocks' = <<b>> /\ total_allocated' = blocks[1].size
          /\ total_used' = 0 /\ block_count' = 1
      BY <2>1 DEF Reset
    <3>. HIDE DEF b
    <3>5. SumUsed(<<b>>) = 0 /\ SumSize(<<b>>) = blocks[1].size /\ Len(<<b>>) = 1
      BY <3>3, SumsShort
    <3>. QED
      BY <3>2, <3>4, <3>5
  <2>2. CASE Free
    BY <2>2, SumsShort DEF Free
  <2>3. CASE New
    <3>. DEFINE b == FreshBlock(BlockSize)
    <3>1. b \in Block /\ b.used = 0 /\ b.size = BlockSize /\ BlockSize \in Nat
      BY ArenaAssumption DEF FreshBlock, Block
    <3>2. /\ blocks' = <<b>> /\ total_allocated' = BlockSize
          /\ total_used' = total_used /\ block_count' = 1 /\ blocks = <<>>
      BY <2>3 DEF New
    <3>. HIDE DEF b
    <3>3. SumUsed(<<b>>) = 0 /\ SumSize(<<b>>) = BlockSize /\ Len(<<b>>) = 1
      BY <3>1, SumsShort
    <3>4. total_used = 0
      BY <3>2, SumsShort DEF Books, Counts
    <3>. QED
      BY <3>1, <3>2, <3>3, <3>4
  <2>. QED
    BY <2>1, <2>2, <2>3
<1>3. OneEach(live') /\ HeldIn(live', serial', serial') = 0
  BY <1>1, HeldNone
<1>4. HeldOf(serial)' = HeldIn(live', serial', serial')
  BY DEF HeldOf, HeldIn, LenOf, LenIn
<1>5. Counts'
  BY <1>2, <1>3, <1>4 DEF Counts
<1>6. Unique' /\ Aligned' /\ MarksCover'
  BY <1>1, <1>3 DEF Unique, Aligned, MarksCover
<1>. QED
  BY <1>5, <1>6 DEF Books

LEMMA StepBooks == IInv /\ Books /\ [Next]_vars => Books'
<1> SUFFICES ASSUME IInv, Books, [Next]_vars PROVE Books'
  OBVIOUS
<1>1. ASSUME NEW req \in Requests, NEW a \in Aligns, Alloc(req, a)
      PROVE  Books'
  <2> DEFINE size == IF req = 0 THEN 1 ELSE req
  <2>1. size \in Nat \ {0}
    BY ArenaAssumption
  <2>2. blocks # <<>> /\ (AllocInBlock(size, a) \/ AllocNewBlock(size, a))
    BY <1>1 DEF Alloc
  <2>. QED
    BY <2>1, <2>2, AllocInBlockBooks, AllocNewBlockBooks
<1>2. CASE Mark
  BY <1>2, MarkBooks
<1>3. ASSUME NEW k \in DOMAIN marks, Restore(k)
      PROVE  Books'
  <2>1. k \in 1 .. Len(marks)
    BY DEF IInv, Shape
  <2>. QED
    BY <1>3, <2>1, RestoreBooks
<1>4. CASE Reset \/ Free \/ New
  BY <1>4, ClearBooks
<1>5. CASE UNCHANGED vars
  BY <1>5 DEF vars, counters, Books, Unique, Aligned, Counts, MarksCover,
              HeldOf, LenOf, CutAt
<1>. QED
  BY <1>1, <1>2, <1>3, <1>4, <1>5 DEF Next

LEMMA BooksAlways == Spec => []Books
  BY InitEstablishes, StepKeeps, BooksInit, StepBooks, PTL DEF Spec

\* Every object lies inside a block that is still in the list, below its bump
\* pointer and its end, at the alignment its caller asked for.
THEOREM ArenaTyped == Spec => []TypeOK
<1>1. IInv /\ Books => TypeOK
  <2> SUFFICES ASSUME IInv, Books PROVE TypeOK
    OBVIOUS
  <2>1. Placed
    <3> SUFFICES ASSUME NEW o \in live
                 PROVE  /\ Backed(o, blocks)
                        /\ blocks[o.block].used <= blocks[o.block].size
                        /\ o.off % o.align = 0
      BY DEF Placed
    <3>1. /\ o.block \in 1 .. Len(blocks)
          /\ o.off + o.len <= blocks[o.block].used
      BY DEF IInv, LiveBacked
    <3>2. DOMAIN blocks = 1 .. Len(blocks)
      BY DEF IInv, Shape
    <3>. QED
      BY <3>1, <3>2 DEF Backed, IInv, BlocksInside, Books, Aligned
  <2>. QED
    BY <2>1 DEF TypeOK, IInv, Shape, Books, Counts
<1>. QED
  BY <1>1, Inductive, BooksAlways, PTL

\* The counters the arena reports: all of what it holds is counted, and what
\* it says is used covers what callers hold and no more than was passed over.
THEOREM ArenaCounts == Spec => []Accounting
<1>1. IInv /\ Books => Accounting
  <2> SUFFICES ASSUME IInv, Books PROVE Accounting
    OBVIOUS
  <2>1. SumUsed(blocks) <= SumSize(blocks)
    BY SumsInside DEF IInv, Shape, BlocksInside
  <2>. QED
    BY <2>1 DEF Accounting, Books, Counts
<1>. QED
  BY <1>1, Inductive, BooksAlways, PTL
=============================================================================
