---------------------------- MODULE LayoutProofs ----------------------------
(***************************************************************************)
(* For every list of built-in types and every number of types and parts:   *)
(* the fields of a struct lie apart and aligned, and jit_layout.c finds    *)
(* the sizes and alignments that the type table stored.                    *)
(***************************************************************************)
EXTENDS Layout, FiniteSetTheorems, WellFoundedInduction, SequenceTheorems, TLAPS

-----------------------------------------------------------------------------
(* Numbers and loops *)

\* Induction over numbers, stated for sets: the provers do not take the library's
\* theorems about predicates.
LEMMA NumberInduction ==
    ASSUME NEW P, 0 \in P, \A n \in Nat : n \in P => n + 1 \in P
    PROVE  Nat \subseteq P
<1>. DEFINE R == OpToRel(<, Nat)
            S == {n \in Nat : n \notin P}
<1>1. SUFFICES ASSUME S # {} PROVE FALSE
  OBVIOUS
<1>2. PICK m \in S : \A n \in S : ~ (<<n, m>> \in R)
  <2>. HIDE DEF R, S
  <2>1. IsWellFoundedOn(R, Nat)
    BY NatLessThanWellFounded DEF R
  <2>2. S \subseteq Nat
    BY DEF S
  <2>. QED
    BY <1>1, <2>1, <2>2, WFMin
<1>3. m \in Nat /\ m # 0 /\ m \notin P
  OBVIOUS
<1>4. m - 1 \in Nat /\ (m - 1) + 1 = m /\ m - 1 < m
  BY <1>3
<1>5. <<m - 1, m>> \in R
  BY <1>3, <1>4 DEF OpToRel
<1>. QED
  BY <1>2, <1>3, <1>4, <1>5

\* A set of numbers that is not empty has a least member, and Min finds it.
LEMMA LeastNumber ==
    ASSUME NEW S \in SUBSET Nat, S # {}
    PROVE  Min(S) \in S /\ \A y \in S : Min(S) <= y
<1>. DEFINE R == OpToRel(<, Nat)
<1>1. PICK m \in S : \A n \in S : ~ (<<n, m>> \in R)
  <2>. HIDE DEF R
  <2>1. IsWellFoundedOn(R, Nat)
    BY NatLessThanWellFounded DEF R
  <2>. QED
    BY <2>1, WFMin
<1>2. ASSUME NEW y \in S PROVE m <= y
  <2>1. m \in Nat /\ y \in Nat /\ (y < m => <<y, m>> \in R)
    BY DEF OpToRel
  <2>. HIDE DEF R
  <2>. QED
    BY <1>1, <2>1
<1>. QED
  BY <1>2 DEF Min

\* A set of numbers that is not empty and has a bound has a greatest member,
\* and Max finds it.
LEMMA GreatestNumber ==
    ASSUME NEW S \in SUBSET Nat, S # {}, NEW b \in Nat, \A y \in S : y <= b
    PROVE  Max(S) \in S /\ \A y \in S : y <= Max(S)
<1>. DEFINE T == {n \in Nat : \A y \in S : y <= n}
<1>1. b \in T
  OBVIOUS
<1>2. Min(T) \in T /\ \A n \in T : Min(T) <= n
  BY <1>1, LeastNumber
<1>. HIDE DEF T
<1>3. PICK m \in T : \A n \in T : m <= n
  BY <1>2
<1>. USE DEF T
<1>4. m \in Nat /\ \A y \in S : y <= m
  BY <1>3
<1>5. m \in S
  <2>1. SUFFICES ASSUME m \notin S PROVE FALSE
    OBVIOUS
  <2>2. PICK s \in S : TRUE
    OBVIOUS
  <2>3. s \in Nat /\ s <= m /\ s # m
    BY <1>4, <2>1
  <2>4. m - 1 \in Nat /\ ~ (m <= m - 1)
    BY <1>4, <2>3
  <2>5. \A y \in S : y <= m - 1
    <3>1. TAKE y \in S
    <3>2. y \in Nat /\ y <= m /\ y # m
      BY <1>4, <2>1
    <3>. QED
      BY <3>2, <1>4
  <2>. QED
    BY <2>4, <2>5, <1>3
<1>. QED
  BY <1>4, <1>5 DEF Max

\* A step for each number up to n, from a value in S to the next.
Steps(step, n, S) == n \in Nat /\ step \in [(1 .. n) \X S -> S]

\* f holds the values on the way, from e on.
CountsUp(f, e, step, n, S) ==
    /\ f \in [0 .. n -> S]
    /\ f[0] = e
    /\ \A i \in 1 .. n : f[i] = step[<<i, f[i - 1]>>]

\* There are such values.
LEMMA CountingUp ==
    ASSUME NEW S, NEW e \in S, NEW n, NEW step, Steps(step, n, S)
    PROVE  \E f : CountsUp(f, e, step, n, S)
<1>0. n \in Nat /\ step \in [(1 .. n) \X S -> S]
  BY DEF Steps
<1>. DEFINE P == {m \in Nat : m <= n =>
                    \E f \in [0 .. m -> S] :
                       f[0] = e /\ \A i \in 1 .. m : f[i] = step[<<i, f[i - 1]>>]}
<1>1. 0 \in P
  <2>1. [i \in 0 .. 0 |-> e] \in [0 .. 0 -> S]
    OBVIOUS
  <2>2. [i \in 0 .. 0 |-> e][0] = e /\ \A i \in 1 .. 0 : FALSE
    OBVIOUS
  <2>. QED
    BY <2>1, <2>2
<1>2. ASSUME NEW m \in Nat, m \in P PROVE m + 1 \in P
  <2>1. SUFFICES ASSUME m + 1 <= n
                 PROVE  \E h \in [0 .. m + 1 -> S] :
                           /\ h[0] = e
                           /\ \A i \in 1 .. m + 1 : h[i] = step[<<i, h[i - 1]>>]
    OBVIOUS
  <2>2. PICK f \in [0 .. m -> S] :
           f[0] = e /\ \A i \in 1 .. m : f[i] = step[<<i, f[i - 1]>>]
    BY <1>0, <1>2, <2>1
  <2>. DEFINE v == step[<<m + 1, f[m]>>]
              h == [i \in 0 .. m + 1 |-> IF i = m + 1 THEN v ELSE f[i]]
  <2>3. v \in S
    <3>1. f[m] \in S /\ m + 1 \in 1 .. n
      BY <1>0, <2>1
    <3>2. <<m + 1, f[m]>> \in (1 .. n) \X S
      BY <3>1
    <3>. QED
      BY <1>0, <3>2
  <2>4. \A i \in 0 .. m + 1 : i # m + 1 => i \in 0 .. m
    OBVIOUS
  <2>. HIDE DEF v
  <2>5. h \in [0 .. m + 1 -> S]
    BY <2>3, <2>4
  <2>6. h[0] = f[0]
    OBVIOUS
  <2>7. ASSUME NEW i \in 1 .. m + 1 PROVE h[i] = step[<<i, h[i - 1]>>]
    <3>1. CASE i = m + 1
      <4>1. h[m + 1] = v /\ h[m] = f[m] /\ (m + 1) - 1 = m
        OBVIOUS
      <4>. QED
        BY <3>1, <4>1 DEF v
    <3>2. CASE i # m + 1
      <4>1. i \in 1 .. m /\ h[i] = f[i] /\ h[i - 1] = f[i - 1]
        BY <3>2
      <4>. QED
        BY <2>2, <4>1
    <3>. QED
      BY <3>1, <3>2
  <2>. QED
    BY <2>2, <2>5, <2>6, <2>7
<1>3. n \in P
  <2>. HIDE DEF P
  <2>. QED
    BY <1>0, <1>1, <1>2, NumberInduction
<1>. QED
  BY <1>0, <1>3 DEF CountsUp

\* u takes the same steps from the same value, as long as it is in S.
CountsToo(u, e, step, n, S) ==
    /\ u[0] = e
    /\ \A i \in 1 .. n : u[i - 1] \in S => u[i] = step[<<i, u[i - 1]>>]

\* There is one way to count up.
LEMMA CountingAgrees ==
    ASSUME NEW S, NEW e, NEW n \in Nat, NEW step, NEW f, NEW u,
           CountsUp(f, e, step, n, S), CountsToo(u, e, step, n, S)
    PROVE  \A i \in 0 .. n : u[i] = f[i]
<1>0. /\ f \in [0 .. n -> S] /\ u[0] = f[0]
      /\ \A i \in 1 .. n : f[i] = step[<<i, f[i - 1]>>]
      /\ \A i \in 1 .. n : u[i - 1] \in S => u[i] = step[<<i, u[i - 1]>>]
  BY DEF CountsUp, CountsToo
<1>. DEFINE Q == {i \in Nat : i <= n => u[i] = f[i]}
<1>1. 0 \in Q
  BY <1>0
<1>2. ASSUME NEW i \in Nat, i \in Q PROVE i + 1 \in Q
  <2>1. SUFFICES ASSUME i + 1 <= n PROVE u[i + 1] = f[i + 1]
    OBVIOUS
  <2>2. i + 1 \in 1 .. n /\ (i + 1) - 1 = i /\ i \in 0 .. n
    BY <2>1
  <2>3. u[i] = f[i] /\ f[i] \in S
    BY <1>0, <1>2, <2>2
  <2>. QED
    BY <1>0, <2>2, <2>3
<1>3. Nat \subseteq Q
  <2>. HIDE DEF Q
  <2>. QED
    BY <1>1, <1>2, NumberInduction
<1>. QED
  BY <1>3

\* Finitely many numbers have a bound.
LEMMA NumbersBounded ==
    ASSUME NEW n \in Nat, NEW g, \A i \in 1 .. n : g[i] \in Nat
    PROVE  \E b \in Nat : \A i \in 1 .. n : g[i] <= b
<1>. DEFINE P == {m \in Nat : m <= n => \E b \in Nat : \A i \in 1 .. m : g[i] <= b}
<1>1. 0 \in P
  OBVIOUS
<1>2. ASSUME NEW m \in Nat, m \in P PROVE m + 1 \in P
  <2>1. SUFFICES ASSUME m + 1 <= n
                 PROVE  \E b \in Nat : \A i \in 1 .. m + 1 : g[i] <= b
    OBVIOUS
  <2>2. PICK b \in Nat : \A i \in 1 .. m : g[i] <= b
    BY <1>2, <2>1
  <2>3. g[m + 1] \in Nat /\ \A i \in 1 .. m : g[i] \in Nat
    BY <2>1
  <2>. DEFINE c == b + g[m + 1]
  <2>4. c \in Nat /\ b <= c /\ g[m + 1] <= c
    BY <2>3
  <2>. HIDE DEF c
  <2>5. \A i \in 1 .. m + 1 : g[i] <= c
    <3> SUFFICES ASSUME NEW i \in 1 .. m + 1 PROVE g[i] <= c
      OBVIOUS
    <3>1. CASE i = m + 1
      BY <2>4, <3>1
    <3>2. CASE i \in 1 .. m
      <4>1. g[i] <= b /\ g[i] \in Nat
        BY <2>2, <2>3, <3>2
      <4>. QED
        BY <2>4, <4>1
    <3>. QED
      BY <3>1, <3>2
  <2>. QED
    BY <2>4, <2>5
<1>3. n \in P
  <2>. HIDE DEF P
  <2>. QED
    BY <1>1, <1>2, NumberInduction
<1>. QED
  BY <1>3

-----------------------------------------------------------------------------
(* Alignments and sizes *)

\* The mask rounds up, to a multiple of the alignment if there is one.
LEMMA RoundUpFacts ==
    ASSUME NEW x \in Nat, NEW a \in Alignments
    PROVE  /\ RoundUp(x, a) \in Nat
           /\ a > 0 => x <= RoundUp(x, a) /\ RoundUp(x, a) % a = 0
<1>1. CASE a = 0
  BY <1>1 DEF RoundUp
<1>2. CASE a = 1
  BY <1>2 DEF RoundUp
<1>3. CASE a = 2
  BY <1>3 DEF RoundUp
<1>4. CASE a = 4
  BY <1>4 DEF RoundUp
<1>5. CASE a = 8
  BY <1>5 DEF RoundUp
<1>6. CASE a = 16
  BY <1>6 DEF RoundUp
<1>. QED
  BY <1>1, <1>2, <1>3, <1>4, <1>5, <1>6 DEF Alignments

\* Of two alignments the larger is one and a multiple of both.
LEMMA LargerFacts ==
    ASSUME NEW a \in Alignments, NEW b \in Alignments
    PROVE  /\ Larger(a, b) \in Alignments /\ Larger(a, b) >= a /\ Larger(a, b) >= b
           /\ a > 0 /\ a <= b => b % a = 0
  BY DEF Larger, Alignments

-----------------------------------------------------------------------------
(* Laying out fields, turn by turn *)

Layouts == [size : Nat, align : Alignments, offsets : Seq(Nat)]

Typed == [kind : Kinds, parts : Seq(Nat), variants : Seq(Seq(Nat)), count : Nat,
          size : Nat, align : Alignments, offsets : Seq(Nat)]

\* Place, for a type t that may be none of `types` yet.
Turn(l, t) ==
    [size |-> RoundUp(l.size, t.align) + t.size,
     align |-> Larger(l.align, t.align),
     offsets |-> Append(l.offsets, RoundUp(l.size, t.align))]

LEMMA TurnTyped ==
    ASSUME NEW l \in Layouts, NEW t \in Typed
    PROVE  Turn(l, t) \in Layouts
<1>1. /\ l.size \in Nat /\ l.align \in Alignments /\ l.offsets \in Seq(Nat)
      /\ t.size \in Nat /\ t.align \in Alignments
  BY DEF Layouts, Typed
<1>2. RoundUp(l.size, t.align) \in Nat
  BY <1>1, RoundUpFacts
<1>3. Larger(l.align, t.align) \in Alignments
  BY <1>1, LargerFacts
<1>4. Append(l.offsets, RoundUp(l.size, t.align)) \in Seq(Nat)
  BY <1>1, <1>2, AppendProperties
<1>. QED
  BY <1>1, <1>2, <1>3, <1>4 DEF Turn, Layouts

\* h is the history of laying out the given types of ts.
LaysOut(h, ts, parts) ==
    /\ h \in [0 .. Len(parts) -> Layouts]
    /\ h[0] = Empty
    /\ \A k \in 1 .. Len(parts) : h[k] = Turn(h[k - 1], ts[parts[k]])

\* The loop of ket_type_struct has such a history, however many fields.
LEMMA LaidBuilds ==
    ASSUME types \in Seq(Typed), NEW parts \in Seq(1 .. Len(types))
    PROVE  \E h : LaysOut(h, types, parts) /\ Laid(parts, Len(parts)) = h[Len(parts)]
<1>. DEFINE n == Len(parts)
            step == [q \in (1 .. n) \X Layouts |-> Turn(q[2], types[parts[q[1]]])]
            D(f) == [k \in 0 .. n |-> IF k = 0 THEN Empty ELSE Place(f[k - 1], parts[k])]
            turn == CHOOSE f : f = D(f)
<1>1. n \in Nat /\ \A k \in 1 .. n : types[parts[k]] \in Typed
  <2>1. \A k \in 1 .. n : parts[k] \in 1 .. Len(types)
    OBVIOUS
  <2>. QED
    BY <2>1
<1>2. Empty \in Layouts
  <2>1. <<>> \in Seq(Nat)
    OBVIOUS
  <2>. QED
    BY <2>1 DEF Empty, Layouts, Alignments
<1>3. step \in [(1 .. n) \X Layouts -> Layouts]
  <2> SUFFICES ASSUME NEW q \in (1 .. n) \X Layouts
               PROVE  Turn(q[2], types[parts[q[1]]]) \in Layouts
    OBVIOUS
  <2>1. q[1] \in 1 .. n /\ q[2] \in Layouts
    OBVIOUS
  <2>. QED
    BY <1>1, <2>1, TurnTyped
<1>4. ASSUME NEW k \in 1 .. n, NEW l \in Layouts
      PROVE  step[<<k, l>>] = Turn(l, types[parts[k]]) /\ Place(l, parts[k]) = Turn(l, types[parts[k]])
  <2>1. <<k, l>> \in (1 .. n) \X Layouts
    OBVIOUS
  <2>. QED
    BY <2>1 DEF Place, Turn
<1>. HIDE DEF step, n
<1>5. Steps(step, n, Layouts)
  BY <1>1, <1>3 DEF Steps
<1>6. PICK h : CountsUp(h, Empty, step, n, Layouts)
  BY <1>5, <1>2, CountingUp
<1>7. /\ h \in [0 .. n -> Layouts] /\ h[0] = Empty
      /\ \A k \in 1 .. n : h[k] = step[<<k, h[k - 1]>>]
  BY <1>6 DEF CountsUp
<1>8. \A k \in 1 .. n : h[k - 1] \in Layouts
  <2>1. \A k \in 1 .. n : k - 1 \in 0 .. n
    BY <1>1
  <2>. QED
    BY <1>7, <2>1
<1>9. h = D(h)
  <2>1. \A k \in 0 .. n : h[k] = IF k = 0 THEN Empty ELSE Place(h[k - 1], parts[k])
    <3>1. \A k \in 0 .. n : k # 0 => k \in 1 .. n
      BY <1>1
    <3>. QED
      BY <1>4, <1>7, <1>8, <3>1
  <2>. QED
    BY <1>7, <2>1
<1>10. turn = D(turn)
  BY <1>9
<1>11. Laid(parts, n) = turn[n]
  BY DEF Laid
<1>. HIDE DEF turn
<1>12. \A k \in 0 .. n : turn[k] = IF k = 0 THEN Empty ELSE Place(turn[k - 1], parts[k])
  BY <1>10
<1>13. CountsToo(turn, Empty, step, n, Layouts)
  <2>1. 0 \in 0 .. n /\ \A k \in 1 .. n : k \in 0 .. n /\ k # 0
    BY <1>1
  <2>. QED
    BY <1>4, <1>12, <2>1 DEF CountsToo
<1>14. n \in 0 .. n /\ \A k \in 0 .. n : turn[k] = h[k]
  <2>. HIDE DEF D
  <2>1. n \in Nat
    BY <1>1
  <2>2. \A k \in 0 .. n : turn[k] = h[k]
    BY <1>6, <1>13, <2>1, CountingAgrees
  <2>. QED
    BY <2>1, <2>2
<1>15. LaysOut(h, types, parts)
  BY <1>4, <1>7, <1>8 DEF LaysOut, n
<1>. QED
  BY <1>11, <1>14, <1>15 DEF n

\* What jit_calculate_struct_layout computes on its way, of given layouts.
JitLayouts == [size : Nat, align : Alignments]

FieldsOf(g, layouts) ==
    /\ g \in [0 .. Len(layouts) -> JitLayouts]
    /\ g[0] = [size |-> 0, align |-> 1]
    /\ \A k \in 1 .. Len(layouts) : g[k] = JitField(g[k - 1], layouts[k])

LEMMA JitBuilds ==
    ASSUME NEW layouts \in Seq(JitLayouts)
    PROVE  \E g : FieldsOf(g, layouts) /\ JitFields(layouts, Len(layouts)) = g[Len(layouts)]
<1>. DEFINE n == Len(layouts)
            e == [size |-> 0, align |-> 1]
            step == [q \in (1 .. n) \X JitLayouts |-> JitField(q[2], layouts[q[1]])]
            D(f) == [k \in 0 .. n |-> IF k = 0 THEN e ELSE JitField(f[k - 1], layouts[k])]
            turn == CHOOSE f : f = D(f)
<1>1. n \in Nat /\ \A k \in 1 .. n : layouts[k] \in JitLayouts
  OBVIOUS
<1>2. e \in JitLayouts
  BY DEF JitLayouts, Alignments
<1>3. step \in [(1 .. n) \X JitLayouts -> JitLayouts]
  <2> SUFFICES ASSUME NEW q \in (1 .. n) \X JitLayouts
               PROVE  JitField(q[2], layouts[q[1]]) \in JitLayouts
    OBVIOUS
  <2>. DEFINE l == q[2]
              f == layouts[q[1]]
  <2>1. l \in JitLayouts /\ f \in JitLayouts
    BY <1>1
  <2>. HIDE DEF l, f
  <2>2. /\ l.size \in Nat /\ l.align \in Alignments
        /\ f.size \in Nat /\ f.align \in Alignments
    BY <2>1 DEF JitLayouts
  <2>3. RoundUp(l.size, f.align) \in Nat /\ Larger(l.align, f.align) \in Alignments
    BY <2>2, RoundUpFacts, LargerFacts
  <2>4. JitField(l, f) \in JitLayouts
    BY <2>2, <2>3 DEF JitField, JitLayouts
  <2>. QED
    BY <2>4 DEF l, f
<1>4. ASSUME NEW k \in 1 .. n, NEW l \in JitLayouts
      PROVE  step[<<k, l>>] = JitField(l, layouts[k])
  <2>1. <<k, l>> \in (1 .. n) \X JitLayouts
    OBVIOUS
  <2>. QED
    BY <2>1
<1>. HIDE DEF step, n, e
<1>5. Steps(step, n, JitLayouts)
  BY <1>1, <1>3 DEF Steps
<1>6. PICK g : CountsUp(g, e, step, n, JitLayouts)
  BY <1>2, <1>5, CountingUp
<1>7. /\ g \in [0 .. n -> JitLayouts] /\ g[0] = e
      /\ \A k \in 1 .. n : g[k] = step[<<k, g[k - 1]>>]
  BY <1>6 DEF CountsUp
<1>8. \A k \in 1 .. n : g[k - 1] \in JitLayouts
  <2>1. \A k \in 1 .. n : k - 1 \in 0 .. n
    BY <1>1
  <2>. QED
    BY <1>7, <2>1
<1>9. g = D(g)
  <2>1. \A k \in 0 .. n : g[k] = IF k = 0 THEN e ELSE JitField(g[k - 1], layouts[k])
    <3>1. \A k \in 0 .. n : k # 0 => k \in 1 .. n
      BY <1>1
    <3>. QED
      BY <1>4, <1>7, <1>8, <3>1
  <2>. QED
    BY <1>7, <2>1
<1>10. turn = D(turn)
  BY <1>9
<1>11. JitFields(layouts, n) = turn[n]
  BY DEF JitFields, e
<1>. HIDE DEF turn
<1>12. \A k \in 0 .. n : turn[k] = IF k = 0 THEN e ELSE JitField(turn[k - 1], layouts[k])
  BY <1>10
<1>13. CountsToo(turn, e, step, n, JitLayouts)
  <2>1. 0 \in 0 .. n /\ \A k \in 1 .. n : k \in 0 .. n /\ k # 0
    BY <1>1
  <2>. QED
    BY <1>4, <1>12, <2>1 DEF CountsToo
<1>14. n \in 0 .. n /\ \A k \in 0 .. n : turn[k] = g[k]
  <2>. HIDE DEF D
  <2>1. n \in Nat
    BY <1>1
  <2>2. \A k \in 0 .. n : turn[k] = g[k]
    BY <1>6, <1>13, <2>1, CountingAgrees
  <2>. QED
    BY <2>1, <2>2
<1>15. FieldsOf(g, layouts)
  BY <1>4, <1>7, <1>8 DEF FieldsOf, n, e
<1>. QED
  BY <1>11, <1>14, <1>15 DEF n

\* The payload of a variant is a number of bytes.
LEMMA PayloadTyped ==
    ASSUME types \in Seq(Typed), NEW parts \in Seq(1 .. Len(types))
    PROVE  Payload(parts) \in Nat
<1>. DEFINE n == Len(parts)
            step == [q \in (1 .. n) \X Nat |-> q[2] + types[parts[q[1]]].size]
            D(f) == [k \in 0 .. n |-> IF k = 0 THEN 0 ELSE f[k - 1] + types[parts[k]].size]
            sum == CHOOSE f : f = D(f)
<1>1. n \in Nat /\ \A k \in 1 .. n : types[parts[k]].size \in Nat
  <2>1. \A k \in 1 .. n : parts[k] \in 1 .. Len(types)
    OBVIOUS
  <2>2. \A k \in 1 .. n : types[parts[k]] \in Typed
    BY <2>1
  <2>3. \A t \in Typed : t.size \in Nat
    BY DEF Typed
  <2>. QED
    BY <2>2, <2>3
<1>2. step \in [(1 .. n) \X Nat -> Nat]
  <2> SUFFICES ASSUME NEW q \in (1 .. n) \X Nat
               PROVE  q[2] + types[parts[q[1]]].size \in Nat
    OBVIOUS
  <2>1. q[1] \in 1 .. n /\ q[2] \in Nat
    OBVIOUS
  <2>2. types[parts[q[1]]].size \in Nat
    BY <1>1, <2>1
  <2>. QED
    BY <2>1, <2>2
<1>3. ASSUME NEW k \in 1 .. n, NEW l \in Nat
      PROVE  step[<<k, l>>] = l + types[parts[k]].size
  <2>1. <<k, l>> \in (1 .. n) \X Nat
    OBVIOUS
  <2>. QED
    BY <2>1
<1>. HIDE DEF step, n
<1>4. Steps(step, n, Nat)
  BY <1>1, <1>2 DEF Steps
<1>5. PICK g : CountsUp(g, 0, step, n, Nat)
  BY <1>4, CountingUp
<1>6. /\ g \in [0 .. n -> Nat] /\ g[0] = 0
      /\ \A k \in 1 .. n : g[k] = step[<<k, g[k - 1]>>]
  BY <1>5 DEF CountsUp
<1>7. \A k \in 0 .. n : g[k] = IF k = 0 THEN 0 ELSE g[k - 1] + types[parts[k]].size
  <2>1. \A k \in 0 .. n : k # 0 => k \in 1 .. n /\ k - 1 \in 0 .. n
    BY <1>1
  <2>. QED
    BY <1>3, <1>6, <2>1
<1>8. g = D(g)
  BY <1>6, <1>7
<1>9. sum = D(sum)
  BY <1>8
<1>10. Payload(parts) = sum[n]
  BY DEF Payload, n
<1>. HIDE DEF sum
<1>11. \A k \in 0 .. n : sum[k] = IF k = 0 THEN 0 ELSE sum[k - 1] + types[parts[k]].size
  BY <1>9
<1>12. CountsToo(sum, 0, step, n, Nat)
  <2>1. 0 \in 0 .. n /\ \A k \in 1 .. n : k \in 0 .. n /\ k # 0
    BY <1>1
  <2>. QED
    BY <1>3, <1>11, <2>1 DEF CountsToo
<1>13. n \in 0 .. n /\ \A k \in 0 .. n : sum[k] = g[k]
  <2>. HIDE DEF D
  <2>1. n \in Nat
    BY <1>1
  <2>2. \A k \in 0 .. n : sum[k] = g[k]
    BY <1>5, <1>12, <2>1, CountingAgrees
  <2>. QED
    BY <2>1, <2>2
<1>. QED
  BY <1>6, <1>10, <1>13

-----------------------------------------------------------------------------
(* The inductive invariant: every type still has the layout its maker gave *)
(* it, computed from types that come before it and never change.           *)

\* t is laid out as ket_type_struct does, or known by name only.
StructMade(ts, t) ==
    \/ t.parts = <<>> /\ t.align = 0 /\ t.offsets = <<>>
    \/ \E h : /\ LaysOut(h, ts, t.parts)
              /\ t.size = RoundUp(h[Len(t.parts)].size, h[Len(t.parts)].align)
              /\ t.align = h[Len(t.parts)].align
              /\ t.offsets = h[Len(t.parts)].offsets

\* What the constructors make as the i-th type of ts.
TypeMade(ts, i, t) ==
    /\ t \in Typed
    /\ t.parts \in Seq(1 .. (i - 1)) /\ t.variants \in Seq(Seq(1 .. (i - 1)))
    /\ t.kind = "pointer" => t.size = 8 /\ t.align = 8
    /\ t.kind = "array" => /\ Len(t.parts) = 1
                           /\ t.size = t.count * ts[t.parts[1]].size
                           /\ t.align = ts[t.parts[1]].align
    /\ t.kind = "struct" => StructMade(ts, t)

AllMade ==
    /\ types \in Seq(Typed)
    /\ \A i \in 1 .. Len(types) : TypeMade(types, i, types[i])

\* Later types do not change what a type was made of.
LEMMA MadeStays ==
    ASSUME NEW ts, NEW us, NEW i \in Nat, NEW t, TypeMade(ts, i, t),
           \A j \in 1 .. (i - 1) : us[j] = ts[j]
    PROVE  TypeMade(us, i, t)
<1>1. \A k \in 1 .. Len(t.parts) : t.parts[k] \in 1 .. (i - 1)
  BY DEF TypeMade
<1>2. \A k \in 1 .. Len(t.parts) : us[t.parts[k]] = ts[t.parts[k]]
  BY <1>1
<1>3. StructMade(ts, t) => StructMade(us, t)
  BY <1>2 DEF StructMade, LaysOut
<1>4. Len(t.parts) = 1 => us[t.parts[1]] = ts[t.parts[1]]
  BY <1>2
<1>. QED
  BY <1>3, <1>4 DEF TypeMade

LEMMA MakeKeeps ==
    ASSUME AllMade, NEW t, TypeMade(types, Len(types) + 1, t), Make(t)
    PROVE  AllMade'
<1>1. types \in Seq(Typed) /\ Len(types) \in Nat /\ t \in Typed
  BY DEF AllMade, TypeMade
<1>2. types' = Append(types, t)
  BY DEF Make
<1>3. /\ types' \in Seq(Typed) /\ Len(types') = Len(types) + 1
      /\ types'[Len(types) + 1] = t
      /\ \A i \in 1 .. Len(types) : types'[i] = types[i]
  BY <1>1, <1>2, AppendProperties
<1>4. ASSUME NEW i \in 1 .. Len(types') PROVE TypeMade(types', i, types'[i])
  <2>1. i \in Nat /\ \A j \in 1 .. (i - 1) : j \in 1 .. Len(types)
    BY <1>1, <1>3
  <2>2. \A j \in 1 .. (i - 1) : types'[j] = types[j]
    BY <1>3, <2>1
  <2>3. TypeMade(types, i, types'[i])
    <3>1. CASE i = Len(types) + 1
      BY <1>3, <3>1
    <3>2. CASE i \in 1 .. Len(types)
      BY <1>3, <3>2 DEF AllMade
    <3>. QED
      BY <1>1, <1>3, <3>1, <3>2
  <2>. QED
    BY <2>1, <2>2, <2>3, MadeStays
<1>. QED
  BY <1>3, <1>4 DEF AllMade

\* What is taken from a type that there is.
LEMMA TypeAt ==
    ASSUME types \in Seq(Typed), NEW i \in 1 .. Len(types)
    PROVE  /\ types[i] \in Typed /\ types[i].size \in Nat /\ types[i].align \in Alignments
           /\ types[i].align \in Nat /\ types[i].kind \in Kinds /\ types[i].count \in Nat
<1>1. types[i] \in Typed
  OBVIOUS
<1>2. Alignments \subseteq Nat
  BY DEF Alignments
<1>. QED
  BY <1>1, <1>2 DEF Typed

\* The parts of a new type are a sequence of types that there are.
LEMMA SomeParts ==
    ASSUME types \in Seq(Typed), NEW parts \in Some(Indices)
    PROVE  parts \in Seq(1 .. Len(types)) /\ Len(parts) > 0
<1>1. Indices = 1 .. Len(types)
  BY DEF Indices
<1>2. PICK n \in 1 .. MaxParts : parts \in [1 .. n -> 1 .. Len(types)]
  BY <1>1 DEF Some
<1>3. n \in Nat /\ n > 0
  BY LayoutAssumption, <1>2
<1>. QED
  BY <1>2, <1>3

LEMMA InitMade == Init => AllMade
<1> SUFFICES ASSUME Init PROVE AllMade
  OBVIOUS
<1>. DEFINE T(i) == Type("scalar", <<>>, 0, Flat(Scalars[i].size, Scalars[i].align))
<1>1. Scalars \in Seq([size : Nat, align : Alignments]) /\ Len(Scalars) \in Nat
      /\ DOMAIN Scalars = 1 .. Len(Scalars)
  BY LayoutAssumption
<1>2. ASSUME NEW i \in 1 .. Len(Scalars) PROVE TypeMade(types, i, T(i))
  <2>1. Scalars[i] \in [size : Nat, align : Alignments]
    <3>. DEFINE R == [size : Nat, align : Alignments]
    <3>1. Scalars \in Seq(R)
      BY <1>1
    <3>. HIDE DEF R
    <3>2. Scalars[i] \in R
      BY <3>1
    <3>. QED
      BY <3>2 DEF R
  <2>2. Scalars[i].size \in Nat /\ Scalars[i].align \in Alignments
    BY <2>1
  <2>3. /\ <<>> \in Seq(Nat) /\ <<>> \in Seq(Seq(Nat))
        /\ <<>> \in Seq(1 .. (i - 1)) /\ <<>> \in Seq(Seq(1 .. (i - 1)))
        /\ "scalar" \in Kinds
    BY DEF Kinds
  <2>4. T(i) \in Typed
    BY <2>2, <2>3 DEF Typed, Type, Flat
  <2>5. T(i).kind = "scalar" /\ T(i).parts = <<>> /\ T(i).variants = <<>>
    BY DEF Type
  <2>. QED
    BY <2>3, <2>4, <2>5 DEF TypeMade
<1>. HIDE DEF T
<1>3. types = [i \in 1 .. Len(Scalars) |-> T(i)]
  BY <1>1 DEF Init, T
<1>4. \A i \in 1 .. Len(Scalars) : T(i) \in Typed
  BY <1>2 DEF TypeMade
<1>5. types \in Seq(Typed) /\ Len(types) = Len(Scalars)
  <2>1. types \in [1 .. Len(Scalars) -> Typed]
    BY <1>3, <1>4
  <2>. QED
    BY <1>1, <2>1
<1>. QED
  BY <1>2, <1>3, <1>5 DEF AllMade

LEMMA ArrayKeeps == AllMade /\ MakeArray => AllMade'
<1> SUFFICES ASSUME AllMade, NEW i \in Indices, NEW n \in Counts,
                    Make(Type("array", <<i>>, n, Flat(n * types[i].size, types[i].align)))
             PROVE  AllMade'
  BY DEF MakeArray
<1>. DEFINE t == Type("array", <<i>>, n, Flat(n * types[i].size, types[i].align))
<1>1. types \in Seq(Typed) /\ i \in 1 .. Len(types) /\ n \in Nat /\ Len(types) \in Nat
  BY LayoutAssumption DEF AllMade, Indices
<1>2. types[i].size \in Nat /\ types[i].align \in Alignments /\ n * types[i].size \in Nat
  BY <1>1, TypeAt
<1>3. /\ <<i>> \in Seq(Nat) /\ <<>> \in Seq(Nat) /\ <<>> \in Seq(Seq(Nat)) /\ Len(<<i>>) = 1
      /\ <<i>> \in Seq(1 .. ((Len(types) + 1) - 1)) /\ <<i>>[1] = i
      /\ <<>> \in Seq(Seq(1 .. ((Len(types) + 1) - 1)))
      /\ "array" \in Kinds
  BY <1>1 DEF Kinds
<1>4. t \in Typed
  BY <1>1, <1>2, <1>3 DEF Typed, Type, Flat
<1>5. /\ t.kind = "array" /\ t.parts = <<i>> /\ t.variants = <<>> /\ t.count = n
      /\ t.size = n * types[i].size /\ t.align = types[i].align
  BY DEF Type, Flat
<1>. HIDE DEF t
<1>6. TypeMade(types, Len(types) + 1, t)
  BY <1>3, <1>4, <1>5 DEF TypeMade
<1>. QED
  BY <1>6, MakeKeeps DEF t

LEMMA PointerKeeps == AllMade /\ MakePointer => AllMade'
<1> SUFFICES ASSUME AllMade, NEW i \in Indices, Make(Type("pointer", <<i>>, 0, Flat(8, 8)))
             PROVE  AllMade'
  BY DEF MakePointer
<1>. DEFINE t == Type("pointer", <<i>>, 0, Flat(8, 8))
<1>1. types \in Seq(Typed) /\ i \in 1 .. Len(types) /\ Len(types) \in Nat
  BY DEF AllMade, Indices
<1>3. /\ <<i>> \in Seq(Nat) /\ <<>> \in Seq(Nat) /\ <<>> \in Seq(Seq(Nat))
      /\ <<i>> \in Seq(1 .. ((Len(types) + 1) - 1))
      /\ <<>> \in Seq(Seq(1 .. ((Len(types) + 1) - 1)))
      /\ "pointer" \in Kinds
  BY <1>1 DEF Kinds
<1>4. t \in Typed
  BY <1>1, <1>3 DEF Typed, Type, Flat, Alignments
<1>5. /\ t.kind = "pointer" /\ t.parts = <<i>> /\ t.variants = <<>>
      /\ t.size = 8 /\ t.align = 8
  BY DEF Type, Flat
<1>. HIDE DEF t
<1>6. TypeMade(types, Len(types) + 1, t)
  BY <1>3, <1>4, <1>5 DEF TypeMade
<1>. QED
  BY <1>6, MakeKeeps DEF t

\* What LayoutOf returns, with the history it has.
LEMMA LayoutOfFacts ==
    ASSUME types \in Seq(Typed), NEW parts \in Seq(1 .. Len(types))
    PROVE  LET l == LayoutOf(parts) IN
           /\ l \in Layouts
           /\ \E h : /\ LaysOut(h, types, parts)
                     /\ l.size = RoundUp(h[Len(parts)].size, h[Len(parts)].align)
                     /\ l.align = h[Len(parts)].align
                     /\ l.offsets = h[Len(parts)].offsets
<1>1. PICK h : LaysOut(h, types, parts) /\ Laid(parts, Len(parts)) = h[Len(parts)]
  BY LaidBuilds
<1>. DEFINE last == Laid(parts, Len(parts))
<1>2. last = h[Len(parts)] /\ h[Len(parts)] \in Layouts
  BY <1>1 DEF LaysOut
<1>3. last.size \in Nat /\ last.align \in Alignments /\ last.offsets \in Seq(Nat)
      /\ last \in Layouts
  BY <1>2 DEF Layouts
<1>4. RoundUp(last.size, last.align) \in Nat
  BY <1>3, RoundUpFacts
<1>5. LayoutOf(parts) = [last EXCEPT !.size = RoundUp(last.size, last.align)]
  BY DEF LayoutOf, Closed
<1>. HIDE DEF last
<1>6. /\ LayoutOf(parts) \in Layouts
      /\ LayoutOf(parts).size = RoundUp(last.size, last.align)
      /\ LayoutOf(parts).align = last.align
      /\ LayoutOf(parts).offsets = last.offsets
  BY <1>3, <1>4, <1>5 DEF Layouts
<1>. QED
  BY <1>1, <1>2, <1>6

\* A sequence of types that there are may be part of the next one.
LEMMA Earlier ==
    ASSUME types \in Seq(Typed)
    PROVE  /\ (Len(types) + 1) - 1 = Len(types) /\ Len(types) \in Nat
           /\ Seq(1 .. Len(types)) \subseteq Seq(Nat)
           /\ Seq(Seq(1 .. Len(types))) \subseteq Seq(Seq(Nat))
<1>1. Len(types) \in Nat
  OBVIOUS
<1>2. Seq(1 .. Len(types)) \subseteq Seq(Nat)
  BY <1>1
<1>. DEFINE A == Seq(1 .. Len(types))
            B == Seq(Nat)
<1>3. A \subseteq B
  BY <1>2
<1>. HIDE DEF A, B
<1>4. Seq(A) \subseteq Seq(B)
  BY <1>3
<1>. QED
  BY <1>1, <1>2, <1>4 DEF A, B

LEMMA TupleKeeps == AllMade /\ MakeTuple => AllMade'
<1> SUFFICES ASSUME AllMade, NEW parts \in Some(Indices),
                    Make(Type("tuple", parts, 0, Flat(LayoutOf(parts).size, LayoutOf(parts).align)))
             PROVE  AllMade'
  BY DEF MakeTuple
<1>. DEFINE l == LayoutOf(parts)
            t == Type("tuple", parts, 0, Flat(l.size, l.align))
<1>1. types \in Seq(Typed) /\ parts \in Seq(1 .. Len(types))
  BY SomeParts DEF AllMade
<1>2. l.size \in Nat /\ l.align \in Alignments
  <2>1. l \in Layouts
    BY <1>1, LayoutOfFacts
  <2>. HIDE DEF l
  <2>. QED
    BY <2>1 DEF Layouts
<1>. HIDE DEF l
<1>3. /\ parts \in Seq(Nat) /\ <<>> \in Seq(Nat) /\ <<>> \in Seq(Seq(Nat))
      /\ parts \in Seq(1 .. ((Len(types) + 1) - 1))
      /\ <<>> \in Seq(Seq(1 .. ((Len(types) + 1) - 1)))
      /\ "tuple" \in Kinds
  BY <1>1, Earlier DEF Kinds
<1>4. t \in Typed
  BY <1>2, <1>3 DEF Typed, Type, Flat
<1>5. t.kind = "tuple" /\ t.parts = parts /\ t.variants = <<>>
  BY DEF Type, Flat
<1>. HIDE DEF t
<1>6. TypeMade(types, Len(types) + 1, t)
  BY <1>3, <1>4, <1>5 DEF TypeMade
<1>. QED
  BY <1>6, MakeKeeps DEF t, l

LEMMA StructKeeps == AllMade /\ MakeStruct => AllMade'
<1> SUFFICES ASSUME AllMade, NEW parts \in Some(Indices),
                    Make(Type("struct", parts, 0, LayoutOf(parts)))
             PROVE  AllMade'
  BY DEF MakeStruct
<1>. DEFINE l == LayoutOf(parts)
            t == Type("struct", parts, 0, l)
<1>1. types \in Seq(Typed) /\ parts \in Seq(1 .. Len(types))
  BY SomeParts DEF AllMade
<1>2. /\ l \in Layouts
      /\ \E h : /\ LaysOut(h, types, parts)
                /\ l.size = RoundUp(h[Len(parts)].size, h[Len(parts)].align)
                /\ l.align = h[Len(parts)].align
                /\ l.offsets = h[Len(parts)].offsets
  BY <1>1, LayoutOfFacts
<1>. HIDE DEF l
<1>3. /\ parts \in Seq(Nat) /\ <<>> \in Seq(Seq(Nat))
      /\ parts \in Seq(1 .. ((Len(types) + 1) - 1))
      /\ <<>> \in Seq(Seq(1 .. ((Len(types) + 1) - 1)))
      /\ "struct" \in Kinds
  BY <1>1, Earlier DEF Kinds
<1>4. t \in Typed
  <2>1. l.size \in Nat /\ l.align \in Alignments /\ l.offsets \in Seq(Nat)
    BY <1>2 DEF Layouts
  <2>. QED
    BY <1>3, <2>1 DEF Typed, Type
<1>5. /\ t.kind = "struct" /\ t.parts = parts /\ t.variants = <<>>
      /\ t.size = l.size /\ t.align = l.align /\ t.offsets = l.offsets
  BY DEF Type
<1>. HIDE DEF t
<1>6. StructMade(types, t)
  BY <1>2, <1>5 DEF StructMade
<1>7. TypeMade(types, Len(types) + 1, t)
  BY <1>3, <1>4, <1>5, <1>6 DEF TypeMade
<1>. QED
  BY <1>7, MakeKeeps DEF t, l

LEMMA NamedKeeps == AllMade /\ MakeNamed => AllMade'
<1> SUFFICES ASSUME AllMade, MakeNamed PROVE AllMade'
  OBVIOUS
<1>. DEFINE t == Type("struct", <<>>, 0, Flat(0, 0))
<1>1. /\ <<>> \in Seq(Nat) /\ <<>> \in Seq(Seq(Nat))
      /\ <<>> \in Seq(1 .. ((Len(types) + 1) - 1))
      /\ <<>> \in Seq(Seq(1 .. ((Len(types) + 1) - 1)))
      /\ "struct" \in Kinds
  BY DEF Kinds
<1>2. t \in Typed
  BY <1>1 DEF Typed, Type, Flat, Alignments
<1>3. /\ t.kind = "struct" /\ t.parts = <<>> /\ t.variants = <<>>
      /\ t.align = 0 /\ t.offsets = <<>>
  BY DEF Type, Flat
<1>4. Make(t)
  BY DEF MakeNamed
<1>. HIDE DEF t
<1>5. TypeMade(types, Len(types) + 1, t)
  BY <1>1, <1>2, <1>3 DEF TypeMade, StructMade
<1>. QED
  BY <1>4, <1>5, MakeKeeps

\* The layout of an enum is one, for any list of variants.
LEMMA EnumTyped ==
    ASSUME types \in Seq(Typed), NEW variants \in Seq(Seq(1 .. Len(types)))
    PROVE  EnumLayout(variants).size \in Nat /\ EnumLayout(variants).align \in Alignments
<1>. DEFINE n == Len(variants)
            payloads == {Payload(variants[k]) : k \in DOMAIN variants}
            parts == UNION {Range(variants[k]) : k \in DOMAIN variants}
            aligns == {types[i].align : i \in parts}
            S == {8} \cup payloads
            A == {8} \cup aligns
<1>1. DOMAIN variants = 1 .. n /\ n \in Nat
  OBVIOUS
<1>2. \A k \in 1 .. n : variants[k] \in Seq(1 .. Len(types))
  OBVIOUS
<1>3. \A k \in 1 .. n : Payload(variants[k]) \in Nat
  BY <1>2, PayloadTyped
<1>4. PICK b \in Nat : \A k \in 1 .. n : Payload(variants[k]) <= b
  <2>. DEFINE g == [k \in 1 .. n |-> Payload(variants[k])]
  <2>1. \A k \in 1 .. n : g[k] \in Nat
    BY <1>3
  <2>2. PICK b \in Nat : \A k \in 1 .. n : g[k] <= b
    <3>. HIDE DEF g
    <3>. QED
      BY <1>1, <2>1, NumbersBounded
  <2>. QED
    BY <2>2
<1>5. Max(S) \in Nat
  <2>1. S \in SUBSET Nat
    BY <1>1, <1>3
  <2>2. \A y \in S : y <= b + 8
    <3>1. \A y \in payloads : y \in Nat /\ y <= b
      BY <1>1, <1>3, <1>4
    <3>. HIDE DEF payloads
    <3>2. \A y \in payloads : y <= b + 8
      BY <1>4, <3>1
    <3>3. 8 <= b + 8
      BY <1>4
    <3>. QED
      BY <3>2, <3>3
  <2>3. S # {} /\ b + 8 \in Nat
    BY <1>4
  <2>. HIDE DEF S
  <2>4. Max(S) \in S
    BY <2>1, <2>2, <2>3, GreatestNumber
  <2>. QED
    BY <2>1, <2>4
<1>6. Max(A) \in Alignments
  <2>1. parts \subseteq 1 .. Len(types)
    <3> SUFFICES ASSUME NEW k \in 1 .. n, NEW i \in Range(variants[k])
                 PROVE  i \in 1 .. Len(types)
      BY <1>1
    <3>1. PICK j \in DOMAIN variants[k] : i = variants[k][j]
      BY DEF Range
    <3>. QED
      BY <1>2, <3>1
  <2>. HIDE DEF parts
  <2>2. A \subseteq Alignments
    <3>1. \A i \in parts : types[i].align \in Alignments
      BY <2>1, TypeAt
    <3>2. 8 \in Alignments
      BY DEF Alignments
    <3>. QED
      BY <3>1, <3>2
  <2>3. A # {}
    OBVIOUS
  <2>. HIDE DEF A
  <2>4. A \in SUBSET Nat /\ 16 \in Nat /\ \A y \in A : y <= 16
    BY <2>2 DEF Alignments
  <2>5. Max(A) \in A
    BY <2>3, <2>4, GreatestNumber
  <2>. QED
    BY <2>2, <2>5
<1>7. EnumLayout(variants) = Flat(8 + Max(S), Max(A))
  BY DEF EnumLayout
<1>. HIDE DEF S, A
<1>8. EnumLayout(variants).size = 8 + Max(S) /\ EnumLayout(variants).align = Max(A)
  BY <1>7 DEF Flat
<1>. QED
  BY <1>5, <1>6, <1>8

\* A list in two parts, one of which may be empty.
LEMMA Cut ==
    ASSUME NEW S, NEW s \in Seq(S), NEW cut \in 0 .. Len(s)
    PROVE  SubSeq(s, 1, cut) \in Seq(S) /\ SubSeq(s, cut + 1, Len(s)) \in Seq(S)
<1>1. Len(s) \in Nat /\ cut \in Nat /\ <<>> \in Seq(S)
  OBVIOUS
<1>2. SubSeq(s, 1, cut) \in Seq(S)
  <2>1. CASE cut = 0
    BY <1>1, <2>1, SubSeqEmpty
  <2>2. CASE cut > 0
    BY <1>1, <2>2, SubSeqProperties
  <2>. QED
    BY <1>1, <2>1, <2>2
<1>3. SubSeq(s, cut + 1, Len(s)) \in Seq(S)
  <2>1. CASE cut = Len(s)
    BY <1>1, <2>1, SubSeqEmpty
  <2>2. CASE cut < Len(s)
    BY <1>1, <2>2, SubSeqProperties
  <2>. QED
    BY <1>1, <2>1, <2>2
<1>. QED
  BY <1>2, <1>3

\* What MakeEnum makes.
LEMMA EnumRecord ==
    ASSUME NEW l, NEW vs
    PROVE  [Type("enum", <<>>, 0, l) EXCEPT !.variants = vs]
             = [kind |-> "enum", parts |-> <<>>, variants |-> vs, count |-> 0,
                size |-> l.size, align |-> l.align, offsets |-> l.offsets]
<1>. DEFINE flat == Type("enum", <<>>, 0, l)
<1>1. flat = [kind |-> "enum", parts |-> <<>>, variants |-> <<>>, count |-> 0,
              size |-> l.size, align |-> l.align, offsets |-> l.offsets]
  BY DEF Type
<1>. QED
  BY <1>1

LEMMA EnumKeeps == AllMade /\ MakeEnum => AllMade'
<1> SUFFICES ASSUME AllMade, NEW payloads \in Some(Indices), NEW cut \in 0 .. Len(payloads),
                    LET variants == <<SubSeq(payloads, 1, cut),
                                      SubSeq(payloads, cut + 1, Len(payloads))>>
                    IN Make([Type("enum", <<>>, 0, EnumLayout(variants))
                               EXCEPT !.variants = variants])
             PROVE  AllMade'
  BY DEF MakeEnum
<1>. DEFINE first == SubSeq(payloads, 1, cut)
            second == SubSeq(payloads, cut + 1, Len(payloads))
            variants == <<first, second>>
            l == EnumLayout(variants)
            t == [Type("enum", <<>>, 0, l) EXCEPT !.variants = variants]
<1>1. types \in Seq(Typed) /\ payloads \in Seq(1 .. Len(types)) /\ cut \in Nat
  BY SomeParts DEF AllMade
<1>2. first \in Seq(1 .. Len(types)) /\ second \in Seq(1 .. Len(types))
  BY <1>1, Cut
<1>. HIDE DEF first, second
<1>3. variants \in Seq(Seq(1 .. Len(types)))
  BY <1>2
<1>4. l.size \in Nat /\ l.align \in Alignments /\ l.offsets = <<>>
  <2>1. l.size \in Nat /\ l.align \in Alignments
    BY <1>1, <1>3, EnumTyped
  <2>2. l.offsets = <<>>
    BY DEF EnumLayout, Flat
  <2>. QED
    BY <2>1, <2>2
<1>5. Make(t)
  BY DEF first, second
<1>. HIDE DEF variants, l
<1>7. t = [kind |-> "enum", parts |-> <<>>, variants |-> variants, count |-> 0,
           size |-> l.size, align |-> l.align, offsets |-> <<>>]
  BY <1>4, EnumRecord
<1>. HIDE DEF t
<1>8. /\ <<>> \in Seq(Nat) /\ variants \in Seq(Seq(Nat))
      /\ <<>> \in Seq(1 .. ((Len(types) + 1) - 1))
      /\ variants \in Seq(Seq(1 .. ((Len(types) + 1) - 1)))
      /\ "enum" \in Kinds
  BY <1>1, <1>3, Earlier DEF Kinds
<1>9. t \in Typed
  BY <1>4, <1>7, <1>8 DEF Typed
<1>10. t.kind = "enum" /\ t.parts = <<>> /\ t.variants = variants
  BY <1>7
<1>11. TypeMade(types, Len(types) + 1, t)
  BY <1>8, <1>9, <1>10 DEF TypeMade
<1>. QED
  BY <1>5, <1>11, MakeKeeps

LEMMA MadeAlways == Spec => []AllMade
<1>1. AllMade /\ [Next]_types => AllMade'
  <2> SUFFICES ASSUME AllMade, [Next]_types PROVE AllMade'
    OBVIOUS
  <2>1. CASE UNCHANGED types
    BY <2>1 DEF AllMade, TypeMade, StructMade, LaysOut
  <2>. QED
    BY <2>1, ArrayKeeps, PointerKeeps, TupleKeeps, StructKeeps, EnumKeeps, NamedKeeps
       DEF Next, Done
<1>. QED
  BY <1>1, InitMade, PTL DEF Spec

-----------------------------------------------------------------------------
(* What the loop over the fields has reached after each turn *)

\* fs are the types of the fields, l the layout of the first k of them.
Placed(l, k, fs) ==
    /\ l \in Layouts /\ Len(l.offsets) = k
    /\ (\A j \in 1 .. k : fs[j].align > 0) =>
          \A j \in 1 .. k :
             /\ l.offsets[j] % fs[j].align = 0
             /\ fs[j].align <= l.align
             /\ l.offsets[j] + fs[j].size <= l.size
             /\ \A m \in 1 .. k : j < m => l.offsets[j] + fs[j].size <= l.offsets[m]

LEMMA PlacedNone ==
    ASSUME NEW fs
    PROVE  Placed(Empty, 0, fs)
<1>1. <<>> \in Seq(Nat) /\ Len(<<>>) = 0
  OBVIOUS
<1>. QED
  BY <1>1 DEF Placed, Empty, Layouts, Alignments

LEMMA PlacedNext ==
    ASSUME NEW fs, NEW k \in Nat, \A j \in 1 .. k + 1 : fs[j] \in Typed,
           NEW l, Placed(l, k, fs)
    PROVE  Placed(Turn(l, fs[k + 1]), k + 1, fs)
<1>. DEFINE t == fs[k + 1]
            offset == RoundUp(l.size, t.align)
            u == Turn(l, t)
<1>1. \A j \in 1 .. k + 1 : fs[j].size \in Nat /\ fs[j].align \in Alignments
  BY DEF Typed
<1>2. /\ l \in Layouts /\ l.size \in Nat /\ l.align \in Alignments /\ l.offsets \in Seq(Nat)
      /\ Len(l.offsets) = k
  BY DEF Placed, Layouts
<1>3. t \in Typed /\ t.size \in Nat /\ t.align \in Alignments
  BY <1>1
<1>4. offset \in Nat /\ (t.align > 0 => l.size <= offset /\ offset % t.align = 0)
  BY <1>2, <1>3, RoundUpFacts
<1>5. u \in Layouts
  BY <1>2, <1>3, TurnTyped
<1>6. /\ u.size = offset + t.size /\ u.align = Larger(l.align, t.align)
      /\ u.offsets = Append(l.offsets, offset)
  BY DEF Turn
<1>. HIDE DEF offset, u
<1>7. /\ Len(u.offsets) = k + 1 /\ u.offsets[k + 1] = offset
      /\ \A j \in 1 .. k : u.offsets[j] = l.offsets[j]
  BY <1>2, <1>4, <1>6, AppendProperties
<1>8. /\ l.align <= u.align /\ t.align <= u.align
      /\ u.align \in Nat /\ l.align \in Nat /\ t.align \in Nat
      /\ \A j \in 1 .. k + 1 : fs[j].align \in Nat
  <2>1. Alignments \subseteq Nat
    BY DEF Alignments
  <2>2. Larger(l.align, t.align) \in Alignments
        /\ Larger(l.align, t.align) >= l.align /\ Larger(l.align, t.align) >= t.align
    BY <1>2, <1>3, LargerFacts
  <2>. QED
    BY <1>1, <1>2, <1>3, <1>6, <2>1, <2>2
<1>9. \A j \in 1 .. k : l.offsets[j] \in Nat
  BY <1>2
<1>10. ASSUME \A j \in 1 .. k + 1 : fs[j].align > 0, NEW j \in 1 .. k + 1
       PROVE  /\ u.offsets[j] % fs[j].align = 0
              /\ fs[j].align <= u.align
              /\ u.offsets[j] + fs[j].size <= u.size
              /\ \A m \in 1 .. k + 1 : j < m => u.offsets[j] + fs[j].size <= u.offsets[m]
  <2>1. k + 1 \in 1 .. k + 1 /\ t.align > 0
    BY <1>10
  <2>2. CASE j = k + 1
    <3>1. fs[j] = t /\ u.offsets[j] = offset
      BY <1>7, <2>2
    <3>2. \A m \in 1 .. k + 1 : ~ (j < m)
      BY <2>2
    <3>. HIDE DEF t
    <3>3. offset % t.align = 0
      BY <1>4, <2>1
    <3>4. u.offsets[j] % fs[j].align = 0
      BY <3>1, <3>3
    <3>5. offset + t.size <= u.size
      BY <1>3, <1>4, <1>6
    <3>. QED
      BY <1>8, <3>1, <3>2, <3>4, <3>5
  <2>3. CASE j \in 1 .. k
    <3>1. /\ l.offsets[j] % fs[j].align = 0
          /\ fs[j].align <= l.align
          /\ l.offsets[j] + fs[j].size <= l.size
          /\ \A m \in 1 .. k : j < m => l.offsets[j] + fs[j].size <= l.offsets[m]
      <4>1. \A i \in 1 .. k : fs[i].align > 0
        BY <1>10
      <4>. QED
        BY <2>3, <4>1 DEF Placed
    <3>2. /\ u.offsets[j] = l.offsets[j] /\ l.offsets[j] \in Nat
          /\ fs[j].size \in Nat /\ fs[j].align \in Nat
      BY <1>1, <1>7, <1>8, <1>9, <2>3
    <3>. HIDE DEF t
    <3>3. l.offsets[j] + fs[j].size <= offset
      BY <1>2, <1>4, <2>1, <3>1, <3>2
    <3>4. ASSUME NEW m \in 1 .. k + 1, j < m
          PROVE  u.offsets[j] + fs[j].size <= u.offsets[m]
      <4>1. CASE m = k + 1
        BY <1>7, <3>2, <3>3, <4>1
      <4>2. CASE m \in 1 .. k
        <5>1. u.offsets[m] = l.offsets[m]
          BY <1>7, <4>2
        <5>. QED
          BY <3>1, <3>2, <3>4, <4>2, <5>1
      <4>. QED
        BY <4>1, <4>2
    <3>5. fs[j].align <= u.align
      BY <1>8, <3>1, <3>2
    <3>6. l.offsets[j] + fs[j].size <= u.size
      <4>1. u.size = offset + t.size
        BY <1>6
      <4>. QED
        BY <1>3, <1>4, <3>2, <3>3, <4>1
    <3>. QED
      BY <3>1, <3>2, <3>4, <3>5, <3>6
  <2>. QED
    BY <2>2, <2>3
<1>. QED
  BY <1>5, <1>7, <1>10 DEF Placed, u

\* It holds after every turn of the loop.
LEMMA PlacedAll ==
    ASSUME NEW ts, NEW parts, NEW h, LaysOut(h, ts, parts), Len(parts) \in Nat,
           \A k \in 1 .. Len(parts) : ts[parts[k]] \in Typed
    PROVE  Placed(h[Len(parts)], Len(parts), [k \in 1 .. Len(parts) |-> ts[parts[k]]])
<1>. DEFINE n == Len(parts)
            fs == [k \in 1 .. n |-> ts[parts[k]]]
            P == {m \in Nat : m <= n => Placed(h[m], m, fs)}
<1>1. /\ h[0] = Empty /\ n \in Nat
      /\ \A k \in 1 .. n : h[k] = Turn(h[k - 1], fs[k]) /\ fs[k] \in Typed
  BY DEF LaysOut
<1>. HIDE DEF fs, n
<1>2. 0 \in P
  BY <1>1, PlacedNone
<1>3. ASSUME NEW m \in Nat, m \in P PROVE m + 1 \in P
  <2>1. SUFFICES ASSUME m + 1 <= n PROVE Placed(h[m + 1], m + 1, fs)
    OBVIOUS
  <2>2. /\ m + 1 \in 1 .. n /\ (m + 1) - 1 = m /\ m <= n
        /\ \A j \in 1 .. m + 1 : j \in 1 .. n
    BY <1>1, <2>1
  <2>3. Placed(h[m], m, fs)
    BY <1>3, <2>2
  <2>4. h[m + 1] = Turn(h[m], fs[m + 1]) /\ \A j \in 1 .. m + 1 : fs[j] \in Typed
    BY <1>1, <2>2
  <2>. QED
    BY <2>3, <2>4, PlacedNext
<1>4. Nat \subseteq P
  <2>. HIDE DEF P
  <2>. QED
    BY <1>2, <1>3, NumberInduction
<1>5. Placed(h[n], n, fs)
  BY <1>1, <1>4
<1>. QED
  BY <1>5 DEF n, fs

\* So for the struct types there are.
LEMMA StructPlaced ==
    ASSUME AllMade, NEW i \in 1 .. Len(types), types[i].kind = "struct"
    PROVE  \/ types[i].parts = <<>> /\ types[i].align = 0 /\ types[i].offsets = <<>>
           \/ \E l : /\ Placed(l, Len(types[i].parts),
                               [k \in 1 .. Len(types[i].parts) |-> types[types[i].parts[k]]])
                     /\ types[i].size = RoundUp(l.size, l.align)
                     /\ types[i].align = l.align
                     /\ types[i].offsets = l.offsets
<1>. DEFINE t == types[i]
            parts == t.parts
            n == Len(parts)
<1>1. TypeMade(types, i, t) /\ types \in Seq(Typed) /\ Len(types) \in Nat
  BY DEF AllMade
<1>2. parts \in Seq(1 .. (i - 1)) /\ StructMade(types, t)
  BY <1>1 DEF TypeMade
<1>3. n \in Nat /\ \A k \in 1 .. n : types[parts[k]] \in Typed
  <2>1. n \in Nat /\ \A k \in 1 .. n : parts[k] \in 1 .. (i - 1)
    BY <1>2
  <2>2. \A k \in 1 .. (i - 1) : k \in 1 .. Len(types)
    BY <1>1
  <2>3. \A k \in 1 .. Len(types) : types[k] \in Typed
    BY <1>1
  <2>. QED
    BY <2>1, <2>2, <2>3
<1>4. CASE parts = <<>> /\ t.align = 0 /\ t.offsets = <<>>
  BY <1>4
<1>5. ASSUME NEW h, LaysOut(h, types, parts),
             t.size = RoundUp(h[n].size, h[n].align),
             t.align = h[n].align, t.offsets = h[n].offsets
      PROVE  \E l : /\ Placed(l, n, [k \in 1 .. n |-> types[parts[k]]])
                    /\ t.size = RoundUp(l.size, l.align)
                    /\ t.align = l.align
                    /\ t.offsets = l.offsets
  <2>1. Placed(h[n], n, [k \in 1 .. n |-> types[parts[k]]])
    BY <1>3, <1>5, PlacedAll
  <2>. QED
    BY <1>5, <2>1
<1>. QED
  BY <1>2, <1>4, <1>5 DEF StructMade

\* The type invariant holds: a type is made of types before it, and a struct
\* has one offset for each field (ket_type_struct).
THEOREM LayoutTyped == Spec => []TypeOK
<1>0. AllMade => Indices = 1 .. Len(types)
  BY DEF AllMade, Indices
<1>1. AllMade => TypeOK
  <2> SUFFICES ASSUME AllMade, NEW i \in 1 .. Len(types)
               PROVE  LET t == types[i]
                      IN /\ t.kind \in Kinds /\ t.size \in Nat /\ t.align \in Nat
                         /\ t.count \in Nat /\ t.parts \in Seq(1 .. (i - 1))
                         /\ t.variants \in Seq(Seq(1 .. (i - 1))) /\ t.offsets \in Seq(Nat)
                         /\ t.kind = "struct" => Len(t.offsets) = Len(t.parts)
    BY <1>0 DEF TypeOK
  <2>. DEFINE t == types[i]
  <2>1. TypeMade(types, i, t) /\ types \in Seq(Typed)
    BY DEF AllMade
  <2>2. t \in Typed /\ t.parts \in Seq(1 .. (i - 1)) /\ t.variants \in Seq(Seq(1 .. (i - 1)))
    BY <2>1 DEF TypeMade
  <2>3. ASSUME t.kind = "struct" PROVE Len(t.offsets) = Len(t.parts)
    <3>. DEFINE fs == [k \in 1 .. Len(t.parts) |-> types[t.parts[k]]]
    <3>1. \/ t.parts = <<>> /\ t.offsets = <<>>
          \/ \E l : Placed(l, Len(t.parts), fs) /\ t.offsets = l.offsets
      BY <2>3, StructPlaced
    <3>. HIDE DEF fs
    <3>. QED
      BY <3>1 DEF Placed
  <2>4. t.size \in Nat /\ t.align \in Nat /\ t.kind \in Kinds /\ t.count \in Nat
    BY <2>1, TypeAt
  <2>5. t.offsets \in Seq(Nat)
    BY <2>2 DEF Typed
  <2>. QED
    BY <2>2, <2>3, <2>4, <2>5
<1>. QED
  BY <1>1, MadeAlways, PTL

-----------------------------------------------------------------------------
(* The recursion over the parts of a type goes back to earlier types, so   *)
(* it has a value and may be unfolded.                                     *)

\* One unfolding of MadeWithout.
MadeIf(f, kinds, i) ==
    /\ types[i].align > 0 /\ types[i].kind \notin kinds
    /\ \A k \in DOMAIN types[i].parts : f[types[i].parts[k]]
    /\ \A v \in Range(types[i].variants) : \A k \in DOMAIN v : f[v[k]]

\* What a type is made of comes before it.
LEMMA PartsEarlier ==
    ASSUME AllMade, NEW i \in 1 .. Len(types)
    PROVE  /\ \A k \in DOMAIN types[i].parts : types[i].parts[k] \in 1 .. (i - 1)
           /\ \A v \in Range(types[i].variants) : \A k \in DOMAIN v : v[k] \in 1 .. (i - 1)
<1>. DEFINE parts == types[i].parts
            variants == types[i].variants
            T == 1 .. (i - 1)
            V == Seq(T)
<1>1. parts \in Seq(T) /\ variants \in Seq(V)
  BY DEF AllMade, TypeMade
<1>. HIDE DEF parts, variants, T
<1>2. \A k \in DOMAIN parts : parts[k] \in T
  BY <1>1
<1>3. \A v \in V : \A k \in DOMAIN v : v[k] \in T
  OBVIOUS
<1>. HIDE DEF V
<1>4. \A v \in Range(variants) : v \in V
  BY <1>1 DEF Range
<1>. QED
  BY <1>2, <1>3, <1>4 DEF parts, variants, T

LEMMA MadeAgrees ==
    ASSUME AllMade, NEW kinds, NEW i \in 1 .. Len(types), NEW f, NEW g,
           \A j \in 1 .. (i - 1) : f[j] = g[j]
    PROVE  MadeIf(f, kinds, i) = MadeIf(g, kinds, i)
<1>. DEFINE parts == types[i].parts
            variants == Range(types[i].variants)
<1>1. /\ \A k \in DOMAIN parts : f[parts[k]] = g[parts[k]]
      /\ \A v \in variants : \A k \in DOMAIN v : f[v[k]] = g[v[k]]
  BY PartsEarlier
<1>. HIDE DEF parts, variants
<1>2. (\A k \in DOMAIN parts : f[parts[k]]) <=> (\A k \in DOMAIN parts : g[parts[k]])
  BY <1>1
<1>3. (\A v \in variants : \A k \in DOMAIN v : f[v[k]])
      <=> (\A v \in variants : \A k \in DOMAIN v : g[v[k]])
  BY <1>1
<1>4. MadeIf(f, kinds, i) <=> MadeIf(g, kinds, i)
  BY <1>2, <1>3 DEF MadeIf, parts, variants
<1>5. MadeIf(f, kinds, i) \in BOOLEAN /\ MadeIf(g, kinds, i) \in BOOLEAN
  BY DEF MadeIf
<1>. QED
  BY <1>4, <1>5

LEMMA MadeUnfolds ==
    ASSUME AllMade, NEW kinds
    PROVE  \A i \in 1 .. Len(types) : MadeWithout(kinds)[i] = MadeIf(MadeWithout(kinds), kinds, i)
<1>. DEFINE n == Len(types)
            D(f) == [i \in Indices |-> MadeIf(f, kinds, i)]
            P == {m \in Nat : m <= n => \E f : f = [i \in 1 .. m |-> MadeIf(f, kinds, i)]}
            made == CHOOSE f : f = D(f)
<1>1. n \in Nat /\ Indices = 1 .. n
  BY DEF AllMade, Indices
<1>. HIDE DEF n
<1>2. 0 \in P
  <2>1. [i \in 1 .. 0 |-> TRUE] = [i \in 1 .. 0 |-> MadeIf([j \in 1 .. 0 |-> TRUE], kinds, i)]
    OBVIOUS
  <2>. QED
    BY <2>1
<1>3. ASSUME NEW m \in Nat, m \in P PROVE m + 1 \in P
  <2>1. SUFFICES ASSUME m + 1 <= n
                 PROVE  \E h : h = [i \in 1 .. m + 1 |-> MadeIf(h, kinds, i)]
    OBVIOUS
  <2>2. PICK f : f = [i \in 1 .. m |-> MadeIf(f, kinds, i)]
    BY <1>1, <1>3, <2>1
  <2>. DEFINE h == [i \in 1 .. m + 1 |-> MadeIf(f, kinds, i)]
  <2>3. \A j \in 1 .. m : j \in 1 .. m + 1
    OBVIOUS
  <2>4. \A j \in 1 .. m : h[j] = f[j]
    <3> SUFFICES ASSUME NEW j \in 1 .. m PROVE h[j] = f[j]
      OBVIOUS
    <3>1. h[j] = MadeIf(f, kinds, j)
      BY <2>3
    <3>2. f[j] = MadeIf(f, kinds, j)
      BY <2>2, Zenon
    <3>. QED
      BY <3>1, <3>2, Zenon
  <2>5. ASSUME NEW i \in 1 .. m + 1 PROVE MadeIf(f, kinds, i) = MadeIf(h, kinds, i)
    <3>1. i \in 1 .. n /\ \A j \in 1 .. (i - 1) : j \in 1 .. m
      BY <1>1, <2>1
    <3>2. \A j \in 1 .. (i - 1) : f[j] = h[j]
      BY <2>4, <3>1, Zenon
    <3>. HIDE DEF h
    <3>. QED
      BY <3>1, <3>2, MadeAgrees DEF n
  <2>6. h = [i \in 1 .. m + 1 |-> MadeIf(h, kinds, i)]
    BY <2>5, Zenon
  <2>. QED
    BY <2>6, Zenon
<1>4. n \in P
  <2>. HIDE DEF P
  <2>. QED
    BY <1>1, <1>2, <1>3, NumberInduction
<1>5. PICK f : f = D(f)
  BY <1>1, <1>4
<1>6. made = D(made)
  BY <1>5, Zenon
<1>7. MadeWithout(kinds) = made
  BY Zenon DEF MadeWithout, MadeIf
<1>. HIDE DEF made
<1>. QED
  BY <1>1, <1>6, <1>7, Zenon DEF n

\* So a type that is made without some kinds has parts that are, too.
LEMMA MadeFacts ==
    ASSUME AllMade, NEW kinds, NEW i \in 1 .. Len(types), MadeWithout(kinds)[i]
    PROVE  /\ types[i].align > 0 /\ types[i].kind \notin kinds
           /\ \A k \in 1 .. Len(types[i].parts) : MadeWithout(kinds)[types[i].parts[k]]
<1>1. MadeIf(MadeWithout(kinds), kinds, i)
  BY MadeUnfolds, Zenon
<1>2. DOMAIN types[i].parts = 1 .. Len(types[i].parts)
  <2>1. types[i].parts \in Seq(1 .. (i - 1))
    BY DEF AllMade, TypeMade
  <2>. QED
    BY <2>1
<1>. DEFINE made == MadeWithout(kinds)
<1>3. /\ types[i].align > 0 /\ types[i].kind \notin kinds
      /\ \A k \in DOMAIN types[i].parts : made[types[i].parts[k]]
  BY <1>1, Zenon DEF MadeIf
<1>. HIDE DEF made
<1>4. \A k \in 1 .. Len(types[i].parts) : made[types[i].parts[k]]
  BY <1>2, <1>3
<1>. QED
  BY <1>3, <1>4 DEF made

-----------------------------------------------------------------------------
\* The fields of a struct have bytes of their own, aligned, in every element
\* of an array of it (ket_type_struct).
THEOREM FieldsLieApart == Spec => []FieldsApart
<1>1. ASSUME AllMade, NEW i \in 1 .. Len(types),
             types[i].kind = "struct", MadeWithout({})[i]
      PROVE  LET t == types[i]
                 end(k) == t.offsets[k] + types[t.parts[k]].size
             IN /\ t.size % t.align = 0
                /\ \A k \in 1 .. Len(t.parts) :
                      /\ t.offsets[k] % types[t.parts[k]].align = 0
                      /\ t.align % types[t.parts[k]].align = 0
                      /\ end(k) <= t.size
                      /\ \A l \in 1 .. Len(t.parts) : k < l => end(k) <= t.offsets[l]
  <2>. DEFINE t == types[i]
              n == Len(t.parts)
              fs == [k \in 1 .. n |-> types[t.parts[k]]]
  <2>1. t.align > 0 /\ \A k \in 1 .. n : MadeWithout({})[t.parts[k]]
    BY <1>1, MadeFacts
  <2>2. /\ types \in Seq(Typed) /\ n \in Nat
        /\ \A k \in 1 .. n : t.parts[k] \in 1 .. Len(types)
    <3>1. t.parts \in Seq(1 .. (i - 1)) /\ types \in Seq(Typed) /\ Len(types) \in Nat
      BY <1>1 DEF AllMade, TypeMade
    <3>2. n \in Nat /\ \A k \in 1 .. n : t.parts[k] \in 1 .. (i - 1)
      BY <3>1
    <3>. QED
      BY <3>1, <3>2
  <2>3. \A k \in 1 .. n : /\ fs[k].align \in Alignments /\ fs[k].align > 0
                          /\ fs[k].size \in Nat /\ fs[k] = types[t.parts[k]]
    BY <1>1, <2>1, <2>2, MadeFacts, TypeAt
  <2>4. PICK l : Placed(l, n, fs) /\ t.size = RoundUp(l.size, l.align)
                 /\ t.align = l.align /\ t.offsets = l.offsets
    <3>. HIDE DEF fs
    <3>1. t.align # 0
      BY <1>1, <2>1, <2>2, TypeAt
    <3>. QED
      BY <1>1, <3>1, StructPlaced DEF fs
  <2>. HIDE DEF fs
  <2>5. l.size \in Nat /\ l.align \in Alignments /\ l.offsets \in Seq(Nat) /\ Len(l.offsets) = n
    BY <2>4 DEF Placed, Layouts
  <2>6. t.size % t.align = 0 /\ l.size <= t.size /\ t.size \in Nat
    BY <2>1, <2>4, <2>5, RoundUpFacts
  <2>7. \A k \in 1 .. n :
           /\ l.offsets[k] % fs[k].align = 0
           /\ fs[k].align <= l.align
           /\ l.offsets[k] + fs[k].size <= l.size
           /\ \A m \in 1 .. n : k < m => l.offsets[k] + fs[k].size <= l.offsets[m]
    BY <2>3, <2>4 DEF Placed
  <2>8. ASSUME NEW k \in 1 .. n
        PROVE  t.align % fs[k].align = 0 /\ t.offsets[k] + fs[k].size <= t.size
    <3>1. /\ fs[k].align \in Alignments /\ fs[k].align > 0 /\ fs[k].align <= l.align
          /\ l.offsets[k] + fs[k].size <= l.size
          /\ fs[k].size \in Nat /\ l.offsets[k] \in Nat
      BY <2>3, <2>5, <2>7
    <3>2. t.align % fs[k].align = 0
      BY <2>4, <2>5, <3>1, LargerFacts
    <3>3. t.size \in Nat /\ l.size \in Nat /\ l.size <= t.size
      BY <2>5, <2>6
    <3>. HIDE DEF t
    <3>4. l.offsets[k] + fs[k].size <= t.size
      BY <3>1, <3>3
    <3>5. t.offsets[k] = l.offsets[k]
      BY <2>4
    <3>. QED
      BY <3>2, <3>4, <3>5
  <2>. QED
    BY <2>3, <2>4, <2>6, <2>7, <2>8
<1>2. AllMade => FieldsApart
  <2>1. ASSUME AllMade PROVE DOMAIN types = 1 .. Len(types)
        /\ \A i \in 1 .. Len(types) : DOMAIN types[i].parts = 1 .. Len(types[i].parts)
    <3>1. \A i \in 1 .. Len(types) : types[i].parts \in Seq(1 .. (i - 1))
      BY <2>1 DEF AllMade, TypeMade
    <3>. QED
      BY <2>1, <3>1 DEF AllMade
  <2>. QED
    BY <1>1, <2>1 DEF FieldsApart, Indices
<1>. QED
  BY <1>2, MadeAlways, PTL

-----------------------------------------------------------------------------
(* The same for the recursion of jit_type_size and jit_type_align.         *)

\* The layouts, given by f, of some types.
Given(f, parts) == [k \in DOMAIN parts |-> f[parts[k]]]

\* One unfolding of Jit.
JitOf(f, i) ==
    CASE types[i].kind = "scalar" -> [size |-> types[i].size, align |-> Larger(1, types[i].align)]
      [] types[i].kind = "pointer" -> [size |-> 8, align |-> 8]
      [] types[i].kind = "array" ->
             [size |-> IF types[i].count > 0 THEN f[types[i].parts[1]].size * types[i].count ELSE 8,
              align |-> f[types[i].parts[1]].align]
      [] types[i].kind = "tuple" -> JitTuple(Given(f, types[i].parts))
      [] types[i].kind = "struct" -> JitStruct(Given(f, types[i].parts))
      [] types[i].kind = "enum" -> JitEnum([k \in DOMAIN types[i].variants |->
                                               Given(f, types[i].variants[k])])

LEMMA JitOfAgrees ==
    ASSUME AllMade, NEW i \in 1 .. Len(types), NEW f, NEW g,
           \A j \in 1 .. (i - 1) : f[j] = g[j]
    PROVE  JitOf(f, i) = JitOf(g, i)
<1>. DEFINE t == types[i]
            Of(h) == [k \in DOMAIN t.variants |-> Given(h, t.variants[k])]
<1>1. Given(f, t.parts) = Given(g, t.parts)
  <2>1. \A k \in DOMAIN t.parts : f[t.parts[k]] = g[t.parts[k]]
    BY PartsEarlier
  <2>. QED
    BY <2>1 DEF Given
<1>2. Of(f) = Of(g)
  <2>1. ASSUME NEW k \in DOMAIN t.variants
        PROVE  Given(f, t.variants[k]) = Given(g, t.variants[k])
    <3>1. t.variants[k] \in Range(t.variants)
      BY DEF Range
    <3>2. \A j \in DOMAIN t.variants[k] : t.variants[k][j] \in 1 .. (i - 1)
      BY <3>1, PartsEarlier
    <3>3. \A j \in DOMAIN t.variants[k] : f[t.variants[k][j]] = g[t.variants[k][j]]
      BY <3>2
    <3>. QED
      BY <3>3 DEF Given
  <2>. QED
    BY <2>1
<1>3. t.kind = "array" => f[t.parts[1]] = g[t.parts[1]]
  <2>1. t.kind = "array" => 1 \in DOMAIN t.parts
    <3>1. t.parts \in Seq(1 .. (i - 1)) /\ (t.kind = "array" => Len(t.parts) = 1)
      BY DEF AllMade, TypeMade
    <3>. QED
      BY <3>1
  <2>. QED
    BY <2>1, PartsEarlier
<1>4. t.kind \in Kinds
  BY TypeAt DEF AllMade
<1>. HIDE DEF t, Of
<1>5. JitOf(f, i) = JitOf(g, i)
  <2>1. CASE t.kind = "scalar"
    BY <2>1 DEF JitOf, t
  <2>2. CASE t.kind = "pointer"
    BY <2>2 DEF JitOf, t
  <2>3. CASE t.kind = "array"
    BY <1>3, <2>3 DEF JitOf, t
  <2>4. CASE t.kind = "tuple"
    BY <1>1, <2>4 DEF JitOf, t
  <2>5. CASE t.kind = "struct"
    BY <1>1, <2>5 DEF JitOf, t
  <2>6. CASE t.kind = "enum"
    BY <1>2, <2>6 DEF JitOf, t, Of
  <2>. QED
    BY <1>4, <2>1, <2>2, <2>3, <2>4, <2>5, <2>6 DEF Kinds
<1>. QED
  BY <1>5

LEMMA JitUnfolds ==
    ASSUME AllMade
    PROVE  \A i \in 1 .. Len(types) : Jit[i] = JitOf(Jit, i)
<1>. DEFINE n == Len(types)
            D(f) == [i \in Indices |-> JitOf(f, i)]
            P == {m \in Nat : m <= n => \E f : f = [i \in 1 .. m |-> JitOf(f, i)]}
            jit == CHOOSE f : f = D(f)
<1>1. n \in Nat /\ Indices = 1 .. n
  BY DEF AllMade, Indices
<1>. HIDE DEF n
<1>2. 0 \in P
  <2>1. [i \in 1 .. 0 |-> TRUE] = [i \in 1 .. 0 |-> JitOf([j \in 1 .. 0 |-> TRUE], i)]
    OBVIOUS
  <2>. QED
    BY <2>1
<1>3. ASSUME NEW m \in Nat, m \in P PROVE m + 1 \in P
  <2>1. SUFFICES ASSUME m + 1 <= n
                 PROVE  \E h : h = [i \in 1 .. m + 1 |-> JitOf(h, i)]
    OBVIOUS
  <2>2. PICK f : f = [i \in 1 .. m |-> JitOf(f, i)]
    BY <1>1, <1>3, <2>1
  <2>. DEFINE h == [i \in 1 .. m + 1 |-> JitOf(f, i)]
  <2>3. \A j \in 1 .. m : j \in 1 .. m + 1
    OBVIOUS
  <2>4. \A j \in 1 .. m : h[j] = f[j]
    <3> SUFFICES ASSUME NEW j \in 1 .. m PROVE h[j] = f[j]
      OBVIOUS
    <3>1. h[j] = JitOf(f, j)
      BY <2>3
    <3>2. f[j] = JitOf(f, j)
      BY <2>2, Zenon
    <3>. QED
      BY <3>1, <3>2, Zenon
  <2>5. ASSUME NEW i \in 1 .. m + 1 PROVE JitOf(f, i) = JitOf(h, i)
    <3>1. i \in 1 .. n /\ \A j \in 1 .. (i - 1) : j \in 1 .. m
      BY <1>1, <2>1
    <3>2. \A j \in 1 .. (i - 1) : f[j] = h[j]
      BY <2>4, <3>1, Zenon
    <3>. HIDE DEF h
    <3>. QED
      BY <3>1, <3>2, JitOfAgrees DEF n
  <2>6. h = [i \in 1 .. m + 1 |-> JitOf(h, i)]
    BY <2>5, Zenon
  <2>. QED
    BY <2>6, Zenon
<1>4. n \in P
  <2>. HIDE DEF P
  <2>. QED
    BY <1>1, <1>2, <1>3, NumberInduction
<1>5. PICK f : f = D(f)
  BY <1>1, <1>4
<1>6. jit = D(jit)
  BY <1>5, Zenon
<1>7. Jit = jit
  BY Zenon DEF Jit, JitOf, Given
<1>. HIDE DEF jit
<1>. QED
  BY <1>1, <1>6, <1>7, Zenon DEF n

-----------------------------------------------------------------------------
(* The two computations of one type *)

Both(i) == [size |-> types[i].size, align |-> types[i].align]

\* Both loops over the fields go through the same sizes and alignments.
LEMMA TurnsAgree ==
    ASSUME NEW parts, NEW h, LaysOut(h, types, parts), NEW layouts, NEW g, FieldsOf(g, layouts),
           Len(parts) \in Nat, Len(layouts) = Len(parts),
           \A k \in 1 .. Len(parts) : layouts[k] = Both(parts[k])
    PROVE  g[Len(parts)] = [size |-> h[Len(parts)].size, align |-> h[Len(parts)].align]
<1>. DEFINE n == Len(parts)
            P == {m \in Nat : m <= n => g[m] = [size |-> h[m].size, align |-> h[m].align]}
<1>1. /\ n \in Nat /\ h[0] = Empty /\ g[0] = [size |-> 0, align |-> 1]
      /\ \A k \in 1 .. n : /\ h[k] = Turn(h[k - 1], types[parts[k]])
                           /\ g[k] = JitField(g[k - 1], Both(parts[k]))
  BY DEF LaysOut, FieldsOf
<1>. HIDE DEF n
<1>2. 0 \in P
  BY <1>1 DEF Empty
<1>3. ASSUME NEW m \in Nat, m \in P PROVE m + 1 \in P
  <2>1. SUFFICES ASSUME m + 1 <= n
                 PROVE  g[m + 1] = [size |-> h[m + 1].size, align |-> h[m + 1].align]
    OBVIOUS
  <2>2. m + 1 \in 1 .. n /\ (m + 1) - 1 = m /\ m <= n
    BY <1>1, <2>1
  <2>3. g[m] = [size |-> h[m].size, align |-> h[m].align]
    BY <1>3, <2>2
  <2>4. h[m + 1] = Turn(h[m], types[parts[m + 1]]) /\ g[m + 1] = JitField(g[m], Both(parts[m + 1]))
    BY <1>1, <2>2
  <2>. QED
    BY <2>3, <2>4 DEF Turn, JitField, Both
<1>4. Nat \subseteq P
  <2>. HIDE DEF P
  <2>. QED
    BY <1>2, <1>3, NumberInduction
<1>5. g[n] = [size |-> h[n].size, align |-> h[n].align]
  BY <1>1, <1>4
<1>. QED
  BY <1>5 DEF n

\* The types LayoutsAgree speaks of, and those they are made of.
Plain(i) ==
    /\ MadeWithout({"tuple", "enum"})[i]
    /\ \A j \in 1 .. i : types[j].kind = "array" => types[j].count > 0

LEMMA PlainParts ==
    ASSUME AllMade, NEW i \in 1 .. Len(types), Plain(i)
    PROVE  /\ types[i].align > 0 /\ types[i].kind \notin {"tuple", "enum"}
           /\ types[i].parts \in Seq(1 .. (i - 1))
           /\ \A k \in 1 .. Len(types[i].parts) :
                 /\ types[i].parts[k] \in 1 .. Len(types) /\ types[i].parts[k] \in 1 .. (i - 1)
                 /\ Plain(types[i].parts[k])
<1>. DEFINE parts == types[i].parts
            kinds == {"tuple", "enum"}
<1>1. parts \in Seq(1 .. (i - 1)) /\ Len(types) \in Nat
  BY DEF AllMade, TypeMade
<1>2. MadeWithout(kinds)[i]
  BY Zenon DEF Plain
<1>. HIDE DEF kinds
<1>3. /\ types[i].align > 0 /\ types[i].kind \notin kinds
      /\ \A k \in 1 .. Len(types[i].parts) : MadeWithout(kinds)[types[i].parts[k]]
  BY <1>2, MadeFacts, Zenon
<1>4. ASSUME NEW k \in 1 .. Len(parts)
      PROVE  /\ parts[k] \in 1 .. Len(types) /\ parts[k] \in 1 .. (i - 1)
             /\ Plain(parts[k])
  <2>1. parts[k] \in 1 .. (i - 1)
    BY <1>1
  <2>2. parts[k] \in 1 .. Len(types) /\ \A j \in 1 .. parts[k] : j \in 1 .. i
    BY <1>1, <2>1
  <2>3. \A j \in 1 .. parts[k] : types[j].kind = "array" => types[j].count > 0
    <3>1. \A j \in 1 .. i : types[j].kind = "array" => types[j].count > 0
      BY Zenon DEF Plain
    <3>. QED
      BY <2>2, <3>1, Zenon
  <2>4. Plain(parts[k])
    BY <1>3, <2>3, Zenon DEF Plain, kinds
  <2>. QED
    BY <2>1, <2>2, <2>4
<1>. QED
  BY <1>1, <1>3, <1>4 DEF kinds

\* A struct whose fields agree, agrees.
LEMMA StructAgrees ==
    ASSUME AllMade, NEW i \in 1 .. Len(types), Plain(i), types[i].kind = "struct",
           \A k \in 1 .. Len(types[i].parts) : Jit[types[i].parts[k]] = Both(types[i].parts[k])
    PROVE  JitStruct(Given(Jit, types[i].parts)) = Both(i)
<1>. DEFINE t == types[i]
            parts == t.parts
            n == Len(parts)
            layouts == Given(Jit, parts)
<1>1. /\ t.align > 0 /\ parts \in Seq(1 .. (i - 1)) /\ n \in Nat /\ DOMAIN parts = 1 .. n
      /\ \A k \in 1 .. n : parts[k] \in 1 .. Len(types)
  BY PlainParts
<1>2. types \in Seq(Typed) /\ StructMade(types, t)
  BY DEF AllMade, TypeMade
<1>3. PICK h : /\ LaysOut(h, types, parts)
               /\ t.size = RoundUp(h[n].size, h[n].align)
               /\ t.align = h[n].align
  <2>1. t.align # 0
    BY <1>1, <1>2, TypeAt
  <2>. QED
    BY <1>2, <2>1 DEF StructMade
<1>4. \A k \in 1 .. n : layouts[k] = Both(parts[k])
  BY <1>1 DEF Given
<1>5. layouts \in Seq(JitLayouts) /\ Len(layouts) = n
  <2>1. \A k \in 1 .. n : Both(parts[k]) \in JitLayouts
    <3>1. \A k \in 1 .. n : types[parts[k]].size \in Nat /\ types[parts[k]].align \in Alignments
      BY <1>1, <1>2, TypeAt
    <3>. QED
      BY <3>1 DEF Both, JitLayouts
  <2>2. layouts = [k \in 1 .. n |-> Jit[parts[k]]]
    BY <1>1 DEF Given
  <2>. HIDE DEF layouts, n
  <2>3. \A k \in 1 .. n : Jit[parts[k]] \in JitLayouts
    BY <1>4, <2>1, <2>2
  <2>. QED
    BY <1>1, <2>2, <2>3
<1>6. PICK g : FieldsOf(g, layouts) /\ JitFields(layouts, Len(layouts)) = g[Len(layouts)]
  BY <1>5, JitBuilds
<1>7. g[n] = [size |-> h[n].size, align |-> h[n].align]
  <2>. HIDE DEF layouts, parts
  <2>1. /\ LaysOut(h, types, parts) /\ FieldsOf(g, layouts)
        /\ Len(parts) \in Nat /\ Len(layouts) = Len(parts)
        /\ \A k \in 1 .. Len(parts) : layouts[k] = Both(parts[k])
    BY <1>1, <1>3, <1>4, <1>5, <1>6
  <2>. QED
    BY <2>1, TurnsAgree
<1>. HIDE DEF layouts
<1>8. JitStruct(layouts) = [g[n] EXCEPT !.size = RoundUp(g[n].size, g[n].align)]
  <2>1. JitFields(layouts, Len(layouts)) = g[n]
    BY <1>5, <1>6
  <2>. QED
    BY <2>1, Zenon DEF JitStruct
<1>9. JitStruct(layouts) = Both(i)
  <2>1. JitStruct(layouts) = [size |-> RoundUp(h[n].size, h[n].align), align |-> h[n].align]
    <3>. HIDE DEF n
    <3>. QED
      BY <1>7, <1>8
  <2>2. Both(i) = [size |-> t.size, align |-> t.align]
    BY DEF Both
  <2>. QED
    BY <1>3, <2>1, <2>2
<1>. QED
  BY <1>9 DEF layouts

\* jit_layout.c computes the size and the alignment that the type table
\* stored, however deep the type (jit_type_size, jit_type_align).
THEOREM LayoutsAlwaysAgree == Spec => []LayoutsAgree
<1>1. ASSUME AllMade, NEW i \in 1 .. Len(types), Plain(i),
             \A j \in 1 .. (i - 1) : Plain(j) => Jit[j] = Both(j)
      PROVE  Jit[i] = Both(i)
  <2>. DEFINE t == types[i]
  <2>1. /\ t.align > 0 /\ t.kind \notin {"tuple", "enum"} /\ t.parts \in Seq(1 .. (i - 1))
        /\ \A k \in 1 .. Len(t.parts) : t.parts[k] \in 1 .. Len(types)
        /\ \A k \in 1 .. Len(t.parts) : Jit[t.parts[k]] = Both(t.parts[k])
    BY <1>1, PlainParts
  <2>2. Jit[i] = JitOf(Jit, i)
    BY <1>1, JitUnfolds
  <2>3. TypeMade(types, i, t) /\ types \in Seq(Typed)
    BY <1>1 DEF AllMade
  <2>4. t.size \in Nat /\ t.align \in Alignments /\ t.count \in Nat /\ t.kind \in Kinds
    BY <2>3, TypeAt
  <2>5. CASE t.kind = "scalar"
    <3>1. Larger(1, t.align) = t.align
      BY <2>1, <2>4 DEF Larger, Alignments
    <3>2. JitOf(Jit, i) = [size |-> t.size, align |-> Larger(1, t.align)]
      BY <2>5 DEF JitOf
    <3>. QED
      BY <2>2, <3>1, <3>2 DEF Both
  <2>6. CASE t.kind = "pointer"
    <3>1. JitOf(Jit, i) = [size |-> 8, align |-> 8]
      BY <2>6 DEF JitOf
    <3>2. t.size = 8 /\ t.align = 8
      BY <2>3, <2>6 DEF TypeMade
    <3>. QED
      BY <2>2, <3>1, <3>2 DEF Both
  <2>7. CASE t.kind = "array"
    <3>. DEFINE p == t.parts[1]
    <3>1. Len(t.parts) = 1 /\ t.size = t.count * types[p].size /\ t.align = types[p].align
      BY <2>3, <2>7 DEF TypeMade
    <3>2. p \in 1 .. Len(types) /\ Jit[p] = Both(p)
      BY <2>1, <3>1
    <3>3. t.count > 0
      <4>1. i \in 1 .. i
        BY <2>3
      <4>. QED
        BY <1>1, <2>7, <4>1 DEF Plain
    <3>4. types[p].size \in Nat
      BY <2>3, <3>2, TypeAt
    <3>5. JitOf(Jit, i) = [size |-> Jit[p].size * t.count, align |-> Jit[p].align]
      BY <2>7, <3>3 DEF JitOf
    <3>6. Jit[p].size = types[p].size /\ Jit[p].align = types[p].align
      BY <3>2 DEF Both
    <3>. HIDE DEF p
    <3>7. Jit[p].size * t.count = t.size
      BY <2>4, <3>1, <3>4, <3>6
    <3>. QED
      BY <2>2, <3>1, <3>5, <3>6, <3>7 DEF Both
  <2>8. CASE t.kind = "struct"
    <3>1. JitOf(Jit, i) = JitStruct(Given(Jit, t.parts))
      BY <2>8 DEF JitOf
    <3>2. JitStruct(Given(Jit, t.parts)) = Both(i)
      BY <1>1, <2>1, <2>8, StructAgrees
    <3>. QED
      BY <2>2, <3>1, <3>2
  <2>. QED
    BY <2>1, <2>4, <2>5, <2>6, <2>7, <2>8 DEF Kinds
<1>2. ASSUME AllMade PROVE \A i \in 1 .. Len(types) : Plain(i) => Jit[i] = Both(i)
  <2>. DEFINE n == Len(types)
              P == {m \in Nat : m <= n => \A i \in 1 .. m : Plain(i) => Jit[i] = Both(i)}
  <2>0. n \in Nat
    BY <1>2 DEF AllMade
  <2>. HIDE DEF n
  <2>1. 0 \in P
    OBVIOUS
  <2>2. ASSUME NEW m \in Nat, m \in P PROVE m + 1 \in P
    <3>1. SUFFICES ASSUME m + 1 <= n
                   PROVE  \A i \in 1 .. m + 1 : Plain(i) => Jit[i] = Both(i)
      OBVIOUS
    <3>2. \A i \in 1 .. m : Plain(i) => Jit[i] = Both(i)
      BY <2>0, <2>2, <3>1
    <3>3. m + 1 \in 1 .. n /\ (m + 1) - 1 = m
      BY <2>0, <3>1
    <3>4. Plain(m + 1) => Jit[m + 1] = Both(m + 1)
      BY <1>1, <1>2, <3>2, <3>3 DEF n
    <3>5. \A i \in 1 .. m + 1 : i \in 1 .. m \/ i = m + 1
      OBVIOUS
    <3>. QED
      BY <3>2, <3>4, <3>5, Zenon
  <2>3. n \in P
    <3>. HIDE DEF P
    <3>. QED
      BY <2>0, <2>1, <2>2, NumberInduction
  <2>4. \A i \in 1 .. n : Plain(i) => Jit[i] = Both(i)
    BY <2>0, <2>3
  <2>. QED
    BY <2>4 DEF n
<1>3. AllMade => LayoutsAgree
  <2>1. ASSUME AllMade PROVE Indices = 1 .. Len(types)
    BY <2>1 DEF AllMade, Indices
  <2>. QED
    BY <1>2, <2>1, Zenon DEF LayoutsAgree, Plain, Both
<1>. QED
  BY <1>3, MadeAlways, PTL
=============================================================================
