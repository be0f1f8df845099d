----------------------------- MODULE WalkProofs -----------------------------
(***************************************************************************)
(* For every set of identifiers, every dialect and programs of any length  *)
(* and nesting: the walk's state is well formed, and its table records     *)
(* nothing.                                                                *)
(***************************************************************************)
EXTENDS BorrowWalk, WellFoundedInduction, SequenceTheorems, TLAPS
-----------------------------------------------------------------------------
(* The calls on the table, entry by entry. *)

EntriesOK(es) == \A k \in DOMAIN es : es[k] \in Entry

LEMMA DeclaredEffect ==
    ASSUME NEW es, EntriesOK(es), NEW k
    PROVE  /\ EntriesOK(Declared(es, k))
           /\ DOMAIN Declared(es, k) = DOMAIN es \cup {k}
           /\ Declared(es, k)[k] = NewEntry
           /\ \A u \in DOMAIN es : u # k => Declared(es, k)[u] = es[u]
BY DEF Declared, EntriesOK, NewEntry, Entry

LEMMA MoveEffect ==
    ASSUME NEW es, EntriesOK(es), NEW k
    PROVE  LET to == AfterMove(es, k) IN
           /\ EntriesOK(to) /\ DOMAIN to = DOMAIN es
           /\ \A u \in DOMAIN es :
                 /\ to[u].shared = es[u].shared /\ to[u].mut = es[u].mut
                 /\ to[u].moved = (es[u].moved \/ (u = k /\ ~MoveFails(es, k)))
<1>1. CASE Tracked(es, k) /\ ~MoveFails(es, k)
  <2>. DEFINE e == [es[k] EXCEPT !.moved = TRUE]
  <2>1. es[k] \in Entry /\ \A u \in DOMAIN es : es[u].moved \in BOOLEAN /\ es[u].mut \in BOOLEAN
    BY <1>1 DEF Tracked, EntriesOK, Entry
  <2>2. e \in Entry /\ e.moved = TRUE /\ e.shared = es[k].shared /\ e.mut = es[k].mut
    BY <2>1 DEF Entry
  <2>. HIDE DEF e
  <2>3. AfterMove(es, k) = [es EXCEPT ![k] = e]
    BY <1>1 DEF AfterMove, e
  <2>. QED
    BY <1>1, <2>1, <2>2, <2>3 DEF EntriesOK
<1>2. CASE ~ (Tracked(es, k) /\ ~MoveFails(es, k))
  <2>1. \A u \in DOMAIN es : es[u].moved \in BOOLEAN
    BY DEF EntriesOK, Entry
  <2>2. AfterMove(es, k) = es /\ \A u \in DOMAIN es : ~ (u = k /\ ~MoveFails(es, k))
    BY <1>2 DEF AfterMove, Tracked
  <2>. QED
    BY <2>1, <2>2
<1>. QED
  BY <1>1, <1>2

LEMMA SharedEffect ==
    ASSUME NEW es, EntriesOK(es), NEW k
    PROVE  LET to == AfterShared(es, k) IN
           /\ EntriesOK(to) /\ DOMAIN to = DOMAIN es
           /\ \A u \in DOMAIN es :
                 /\ to[u].moved = es[u].moved /\ to[u].mut = es[u].mut
                 /\ to[u].shared = IF u = k /\ ~SharedFails(es, k)
                                   THEN es[u].shared + 1 ELSE es[u].shared
<1>1. CASE Tracked(es, k) /\ ~SharedFails(es, k)
  <2>. DEFINE n == es[k].shared + 1
              e == [es[k] EXCEPT !.shared = n]
  <2>1. es[k] \in Entry /\ n \in Nat
    BY <1>1 DEF Tracked, EntriesOK, Entry
  <2>. HIDE DEF n
  <2>2. e \in Entry /\ e.shared = n /\ e.moved = es[k].moved /\ e.mut = es[k].mut
    BY <2>1 DEF Entry
  <2>. HIDE DEF e
  <2>3. AfterShared(es, k) = [es EXCEPT ![k] = e]
    BY <1>1 DEF AfterShared, e, n
  <2>. QED
    BY <1>1, <2>2, <2>3 DEF EntriesOK, n
<1>2. CASE ~ (Tracked(es, k) /\ ~SharedFails(es, k))
  BY <1>2 DEF AfterShared, Tracked
<1>. QED
  BY <1>1, <1>2

LEMMA MutEffect ==
    ASSUME NEW es, EntriesOK(es), NEW k
    PROVE  LET to == AfterMut(es, k) IN
           /\ EntriesOK(to) /\ DOMAIN to = DOMAIN es
           /\ \A u \in DOMAIN es :
                 /\ to[u].shared = es[u].shared /\ to[u].moved = es[u].moved
                 /\ to[u].mut = (es[u].mut \/ (u = k /\ ~MutFails(es, k)))
<1>1. CASE Tracked(es, k) /\ ~MutFails(es, k)
  <2>. DEFINE e == [es[k] EXCEPT !.mut = TRUE]
  <2>1. es[k] \in Entry /\ \A u \in DOMAIN es : es[u].moved \in BOOLEAN /\ es[u].mut \in BOOLEAN
    BY <1>1 DEF Tracked, EntriesOK, Entry
  <2>2. e \in Entry /\ e.mut = TRUE /\ e.shared = es[k].shared /\ e.moved = es[k].moved
    BY <2>1 DEF Entry
  <2>. HIDE DEF e
  <2>3. AfterMut(es, k) = [es EXCEPT ![k] = e]
    BY <1>1 DEF AfterMut, e
  <2>. QED
    BY <1>1, <2>1, <2>2, <2>3 DEF EntriesOK
<1>2. CASE ~ (Tracked(es, k) /\ ~MutFails(es, k))
  <2>1. \A u \in DOMAIN es : es[u].mut \in BOOLEAN
    BY DEF EntriesOK, Entry
  <2>2. AfterMut(es, k) = es /\ \A u \in DOMAIN es : ~ (u = k /\ ~MutFails(es, k))
    BY <1>2 DEF AfterMut, Tracked
  <2>. QED
    BY <2>1, <2>2
<1>. QED
  BY <1>1, <1>2

LEMMA AssignEffect ==
    ASSUME NEW es, EntriesOK(es), NEW k
    PROVE  LET to == AfterAssign(es, k) IN
           /\ EntriesOK(to) /\ DOMAIN to = DOMAIN es
           /\ \A u \in DOMAIN es :
                 /\ to[u].shared = es[u].shared /\ to[u].mut = es[u].mut
                 /\ to[u].moved = (es[u].moved /\ ~ (u = k /\ ~AssignFails(es, k)))
<1>1. CASE Tracked(es, k) /\ ~AssignFails(es, k)
  <2>. DEFINE e == [es[k] EXCEPT !.moved = FALSE]
  <2>1. es[k] \in Entry /\ \A u \in DOMAIN es : es[u].moved \in BOOLEAN
    BY <1>1 DEF Tracked, EntriesOK, Entry
  <2>2. e \in Entry /\ e.moved = FALSE /\ e.shared = es[k].shared /\ e.mut = es[k].mut
    BY <2>1 DEF Entry
  <2>. HIDE DEF e
  <2>3. AfterAssign(es, k) = [es EXCEPT ![k] = e]
    BY <1>1 DEF AfterAssign, e
  <2>. QED
    BY <1>1, <2>1, <2>2, <2>3 DEF EntriesOK
<1>2. CASE ~ (Tracked(es, k) /\ ~AssignFails(es, k))
  <2>1. \A u \in DOMAIN es : es[u].moved \in BOOLEAN
    BY DEF EntriesOK, Entry
  <2>2. AfterAssign(es, k) = es /\ \A u \in DOMAIN es : ~ (u = k /\ ~AssignFails(es, k))
    BY <1>2 DEF AfterAssign, Tracked
  <2>. QED
    BY <2>1, <2>2
<1>. QED
  BY <1>1, <1>2
-----------------------------------------------------------------------------
(* The program that has been written. *)

Kinds == {"block", "if", "else", "loop"}
Frames == [kind : Kinds, base : Nat, gone0 : SUBSET Instance, refs0 : SUBSET Ref,
           gone1 : SUBSET Instance, refs1 : SUBSET Ref, reads : SUBSET Instance]

\* Every binding was made by a statement of its own.
EnvShape ==
    /\ env \in Seq(Binding)
    /\ \A b \in 1 .. Len(env) : env[b].inst <= len
    /\ \A b, c \in 1 .. Len(env) : env[b].inst = env[c].inst => b = c
    /\ "shadow" \notin forms =>
          \A b, c \in 1 .. Len(env) : env[b].name = env[c].name => b = c

\* What is said of instances is said of those that exist.
Existing(G, R, l) ==
    /\ G \subseteq Instance /\ R \subseteq Ref
    /\ \A i \in G : i <= l
    /\ \A r \in R : r.target <= l

\* A block starts where the one around it has come to.
NestShape ==
    /\ nest \in Seq(Frames) /\ Len(nest) <= MaxNest
    /\ \A f \in 1 .. Len(nest) :
          /\ nest[f].base <= Len(env)
          /\ nest[f].kind = "loop" => "loop" \in forms
          /\ nest[f].kind \in {"if", "else"} => "if" \in forms
          /\ nest[f].kind = "block" => "block" \in forms
          /\ Existing(nest[f].gone0 \cup nest[f].gone1, nest[f].refs0 \cup nest[f].refs1, len)
    /\ \A f, g \in 1 .. Len(nest) : f <= g => nest[f].base <= nest[g].base

Verdicts ==
    /\ forms \in Dialects /\ EntriesOK(entries)
    /\ rejected \in BOOLEAN /\ len \in 0 .. MaxStmts
    /\ misused \in BOOLEAN /\ aliased \in BOOLEAN

Shape == Verdicts /\ EnvShape /\ Existing(gone, refs, len) /\ NestShape

LEMMA ShapeFacts ==
    ASSUME Shape
    PROVE  /\ MaxStmts \in Nat /\ len \in Nat /\ len <= MaxStmts
           /\ env \in Seq(Binding) /\ Len(env) \in Nat
           /\ \A b \in 1 .. Len(env) :
                 env[b].name \in Vars /\ env[b].inst \in Instance /\ env[b].inst <= len
           /\ nest \in Seq(Frames) /\ Len(nest) \in Nat
           /\ \A f \in 1 .. Len(nest) :
                 nest[f] \in Frames /\ nest[f].base \in Nat /\ nest[f].base <= Len(env)
           /\ \A f, g \in 1 .. Len(nest) : f <= g => nest[f].base <= nest[g].base
           /\ Existing(gone, refs, len) /\ EntriesOK(entries)
<1>1. MaxStmts \in Nat /\ len \in Nat /\ len <= MaxStmts /\ EntriesOK(entries)
  BY WalkAssumption DEF Shape, Verdicts
<1>2. env \in Seq(Binding) /\ \A b \in 1 .. Len(env) : env[b].inst <= len
  BY DEF Shape, EnvShape
<1>3. Len(env) \in Nat /\ \A b \in 1 .. Len(env) : env[b] \in Binding
  BY <1>2
<1>4. \A b \in 1 .. Len(env) : env[b].name \in Vars /\ env[b].inst \in Instance
  BY <1>3 DEF Binding
<1>5. /\ nest \in Seq(Frames)
      /\ \A f \in 1 .. Len(nest) : nest[f].base <= Len(env)
      /\ \A f, g \in 1 .. Len(nest) : f <= g => nest[f].base <= nest[g].base
  BY DEF Shape, NestShape
<1>6. Len(nest) \in Nat /\ \A f \in 1 .. Len(nest) : nest[f] \in Frames
  BY <1>5
<1>7. \A f \in 1 .. Len(nest) : nest[f].base \in Nat
  BY <1>6 DEF Frames
<1>. QED
  BY <1>1, <1>2, <1>3, <1>4, <1>5, <1>6, <1>7 DEF Shape

\* A set of numbers that is not empty and has a bound has a greatest member,
\* and Max finds it.
LEMMA GreatestNumber ==
    ASSUME NEW S \in SUBSET Nat, S # {}, NEW b \in Nat, \A y \in S : y <= b
    PROVE  Max(S) \in S /\ \A y \in S : y <= Max(S)
<1>. DEFINE R == OpToRel(<, Nat)
            T == {n \in Nat : \A y \in S : y <= n}
<1>1. b \in T
  OBVIOUS
<1>2. PICK m \in T : \A n \in T : ~ (<<n, m>> \in R)
  <2>. HIDE DEF R, T
  <2>1. IsWellFoundedOn(R, Nat)
    BY NatLessThanWellFounded DEF R
  <2>2. T \subseteq Nat
    BY DEF T
  <2>. QED
    BY <1>1, <2>1, <2>2, WFMin
<1>3. \A n \in T : m <= n
  <2> SUFFICES ASSUME NEW n \in T PROVE m <= n
    OBVIOUS
  <2>1. m \in Nat /\ n \in Nat /\ (n < m => <<n, m>> \in R)
    BY DEF OpToRel
  <2>. HIDE DEF R, T
  <2>. QED
    BY <1>2, <2>1
<1>4. m \in Nat /\ \A y \in S : y <= m
  BY <1>2
<1>5. m \in S
  <2>1. SUFFICES ASSUME m \notin S PROVE FALSE
    OBVIOUS
  <2>2. PICK s \in S : TRUE
    OBVIOUS
  <2>3. s \in Nat /\ s <= m /\ s # m
    BY <1>4, <2>1
  <2>4. m - 1 \in Nat /\ ~ (m <= m - 1)
    BY <1>4, <2>3
  <2>5. \A y \in S : y <= m - 1
    <3>1. TAKE y \in S
    <3>2. y \in Nat /\ y <= m /\ y # m
      BY <1>4, <2>1
    <3>. QED
      BY <3>2, <1>4
  <2>. QED
    BY <2>4, <2>5, <1>3
<1>. QED
  BY <1>4, <1>5 DEF Max

\* A visible name has an innermost binding.
LEMMA InstOfVisible ==
    ASSUME env \in Seq(Binding), NEW v, Visible(v)
    PROVE  \E b \in 1 .. Len(env) : env[b].name = v /\ InstOf(v) = env[b].inst
<1>. DEFINE S == {i \in DOMAIN env : env[i].name = v}
<1>1. DOMAIN env = 1 .. Len(env) /\ Len(env) \in Nat
  OBVIOUS
<1>2. S \in SUBSET Nat /\ S # {} /\ \A y \in S : y <= Len(env)
  BY <1>1 DEF Visible
<1>3. Max(S) \in S
  BY <1>1, <1>2, GreatestNumber
<1>4. InstOf(v) = env[Max(S)].inst
  BY DEF InstOf
<1>. HIDE DEF S
<1>5. PICK b \in S : b = Max(S)
  BY <1>3
<1>. QED
  BY <1>1, <1>4, <1>5 DEF S

\* A new binding goes behind the others.
LEMMA BoundShape ==
    ASSUME Shape, len < MaxStmts, NEW v \in Vars, Declarable(v), env' = Bound(v),
           len' = len + 1, UNCHANGED forms
    PROVE  /\ EnvShape'
           /\ Len(env') = Len(env) + 1
           /\ \A b \in 1 .. Len(env) : env'[b] = env[b]
           /\ env'[Len(env) + 1] = [name |-> v, inst |-> len + 1]
           /\ Len(env) \in Nat /\ len \in Nat
           /\ len + 1 \in Instance
<1>. DEFINE n == Len(env)
            x == [name |-> v, inst |-> len + 1]
<1>1. env \in Seq(Binding) /\ n \in Nat /\ len \in 0 .. MaxStmts /\ MaxStmts \in Nat
  BY WalkAssumption DEF Shape, EnvShape, Verdicts
<1>2. len \in Nat /\ len + 1 \in Instance
  BY <1>1 DEF Instance
<1>3. x \in Binding
  BY <1>2 DEF Binding
<1>. HIDE DEF x, n
<1>4. /\ env' \in Seq(Binding) /\ Len(env') = n + 1
      /\ \A b \in 1 .. n : env'[b] = env[b]
      /\ env'[n + 1] = x
  BY <1>1, <1>3, AppendProperties DEF Bound, x, n
<1>5. \A b \in 1 .. n + 1 : b \in 1 .. n \/ b = n + 1
  BY <1>1
<1>6. x.name = v /\ x.inst = len + 1
  BY DEF x
<1>7. \A b \in 1 .. n : env[b].inst \in Nat /\ env[b].inst <= len
  <2>1. \A b \in 1 .. n : env[b] \in Binding
    BY <1>1 DEF n
  <2>. QED
    BY <1>1, <2>1 DEF Shape, EnvShape, Binding, Instance, n
<1>8. \A b \in 1 .. n + 1 : env'[b].inst <= len'
  BY <1>2, <1>4, <1>5, <1>6, <1>7
<1>9. \A b, c \in 1 .. n + 1 : env'[b].inst = env'[c].inst => b = c
  <2>1. \A b \in 1 .. n : env[b].inst # len + 1
    BY <1>2, <1>7
  <2>2. \A b, c \in 1 .. n : env[b].inst = env[c].inst => b = c
    BY DEF Shape, EnvShape, n
  <2>. QED
    BY <1>4, <1>5, <1>6, <2>1, <2>2
<1>10. ASSUME "shadow" \notin forms
       PROVE  \A b, c \in 1 .. n + 1 : env'[b].name = env'[c].name => b = c
  <2>1. \A b \in 1 .. n : env[b].name # v
    BY <1>1, <1>10 DEF Declarable, Visible, n
  <2>2. \A b, c \in 1 .. n : env[b].name = env[c].name => b = c
    BY <1>10 DEF Shape, EnvShape, n
  <2>. QED
    BY <1>4, <1>5, <1>6, <2>1, <2>2
<1>. QED
  BY <1>1, <1>2, <1>4, <1>8, <1>9, <1>10 DEF EnvShape, n, x

\* Leaving a block leaves the bindings in front of it.
LEMMA EnvToShape ==
    ASSUME Shape, NEW n \in Nat, n <= Len(env), env' = EnvTo(n), UNCHANGED forms,
           len' \in Nat, len <= len'
    PROVE  /\ EnvShape' /\ Len(env') = n
           /\ \A b \in 1 .. n : env'[b] = env[b]
<1>1. /\ env \in Seq(Binding) /\ Len(env) \in Nat /\ len \in Nat
      /\ \A b \in 1 .. Len(env) : env[b] \in Binding
  BY WalkAssumption DEF Shape, EnvShape, Verdicts
<1>2. 1 \in Int /\ n \in Int /\ \A b \in 1 .. n : env[b] \in Binding
  BY <1>1
<1>3. /\ SubSeq(env, 1, n) \in Seq(Binding)
      /\ Len(SubSeq(env, 1, n)) = IF 1 <= n THEN n - 1 + 1 ELSE 0
      /\ \A b \in 1 .. n - 1 + 1 : SubSeq(env, 1, n)[b] = env[1 + b - 1]
  BY <1>2, SubSeqProperties
<1>4. env' \in Seq(Binding) /\ Len(env') = n /\ \A b \in 1 .. n : env'[b] = env[b]
  BY <1>3 DEF EnvTo
<1>5. \A b \in 1 .. n : b \in 1 .. Len(env)
  BY <1>1
<1>6. \A b \in 1 .. n : env[b].inst \in Nat /\ env[b].inst <= len
  BY <1>1, <1>5 DEF Shape, EnvShape, Binding, Instance
<1>7. \A b \in 1 .. n : env'[b].inst <= len'
  BY <1>1, <1>4, <1>6
<1>. QED
  <2>1. \A b, c \in 1 .. n : env'[b].inst = env'[c].inst => b = c
    BY <1>4, <1>5 DEF Shape, EnvShape
  <2>2. "shadow" \notin forms =>
           \A b, c \in 1 .. n : env'[b].name = env'[c].name => b = c
    BY <1>4, <1>5 DEF Shape, EnvShape
  <2>. QED
    BY <1>4, <1>7, <2>1, <2>2 DEF EnvShape

\* The blocks the walk is in are the same, but for what was read in them.
NestSame ==
    /\ Len(nest') = Len(nest)
    /\ \A f \in 1 .. Len(nest) :
          /\ nest'[f].kind = nest[f].kind /\ nest'[f].base = nest[f].base
          /\ nest'[f].gone0 = nest[f].gone0 /\ nest'[f].gone1 = nest[f].gone1
          /\ nest'[f].refs0 = nest[f].refs0 /\ nest'[f].refs1 = nest[f].refs1

EnvKept ==
    /\ Len(env') \in Nat /\ Len(env) <= Len(env')
    /\ \A b \in 1 .. Len(env) : env'[b] = env[b]

LEMMA ExistingLater ==
    ASSUME NEW G, NEW R, NEW l \in Nat, NEW m \in Nat, l <= m, Existing(G, R, l)
    PROVE  Existing(G, R, m)
<1>1. \A i \in G : i \in Nat /\ i <= l
  BY WalkAssumption DEF Existing, Instance
<1>2. \A r \in R : r.target \in Nat /\ r.target <= l
  BY WalkAssumption DEF Existing, Ref, Instance
<1>. QED
  BY <1>1, <1>2 DEF Existing

LEMMA NoteReadFrames ==
    ASSUME nest \in Seq(Frames), NEW i \in Instance, NoteRead(i)
    PROVE  nest' \in Seq(Frames) /\ NestSame
<1>. DEFINE fr(f) == [nest[f] EXCEPT !.reads = @ \cup {i}]
<1>1. \A f \in 1 .. Len(nest) :
         /\ fr(f) \in Frames
         /\ fr(f).kind = nest[f].kind /\ fr(f).base = nest[f].base
         /\ fr(f).gone0 = nest[f].gone0 /\ fr(f).gone1 = nest[f].gone1
         /\ fr(f).refs0 = nest[f].refs0 /\ fr(f).refs1 = nest[f].refs1
  <2>1. TAKE f \in 1 .. Len(nest)
  <2>2. nest[f] \in Frames
    OBVIOUS
  <2>. DEFINE x == nest[f].reads \cup {i}
  <2>3. x \in SUBSET Instance
    BY <2>2 DEF Frames
  <2>4. fr(f) = [nest[f] EXCEPT !.reads = x]
    OBVIOUS
  <2>. HIDE DEF x, fr
  <2>. QED
    BY <2>2, <2>3, <2>4 DEF Frames
<1>2. Len(nest) \in Nat /\ DOMAIN nest = 1 .. Len(nest)
  OBVIOUS
<1>3. nest' = [f \in 1 .. Len(nest) |-> fr(f)]
  BY <1>2 DEF NoteRead
<1>. HIDE DEF fr
<1>4. nest' \in [1 .. Len(nest) -> Frames]
  BY <1>1, <1>3
<1>5. nest' \in Seq(Frames) /\ Len(nest') = Len(nest)
  <2>1. nest' \in Seq(Frames)
    BY <1>2, <1>4, SeqDef
  <2>2. DOMAIN nest' = 1 .. Len(nest) /\ DOMAIN nest' = 1 .. Len(nest') /\ Len(nest') \in Nat
    BY <1>4, <2>1, LenProperties
  <2>. QED
    BY <1>2, <2>1, <2>2
<1>. QED
  BY <1>1, <1>3, <1>5 DEF NestSame

\* A statement leaves the blocks around it as they are.
LEMMA StatementNest ==
    ASSUME Shape, NestSame, nest' \in Seq(Frames), UNCHANGED forms,
           Len(env') \in Nat, Len(env) <= Len(env'), len' \in Nat, len <= len'
    PROVE  NestShape'
<1>1. /\ Len(env) \in Nat /\ len \in Nat /\ Len(nest) \in Nat
      /\ \A f \in 1 .. Len(nest) : nest[f] \in Frames /\ nest[f].base \in Nat
  BY ShapeFacts
<1>2. Len(nest') <= MaxNest
  BY DEF Shape, NestShape, NestSame
<1>3. ASSUME NEW f \in 1 .. Len(nest')
      PROVE  /\ nest'[f].base <= Len(env')
             /\ nest'[f].kind = "loop" => "loop" \in forms'
             /\ nest'[f].kind \in {"if", "else"} => "if" \in forms'
             /\ nest'[f].kind = "block" => "block" \in forms'
             /\ Existing(nest'[f].gone0 \cup nest'[f].gone1,
                         nest'[f].refs0 \cup nest'[f].refs1, len')
  <2>1. f \in 1 .. Len(nest)
    BY DEF NestSame
  <2>2. nest[f].base <= Len(env')
    BY <1>1, <2>1, ShapeFacts
  <2>3. Existing(nest[f].gone0 \cup nest[f].gone1, nest[f].refs0 \cup nest[f].refs1, len')
    BY <1>1, <2>1, ExistingLater DEF Shape, NestShape
  <2>4. /\ nest[f].kind = "loop" => "loop" \in forms
        /\ nest[f].kind \in {"if", "else"} => "if" \in forms
        /\ nest[f].kind = "block" => "block" \in forms
    BY <2>1 DEF Shape, NestShape
  <2>. QED
    BY <2>1, <2>2, <2>3, <2>4, Zenon DEF NestSame
<1>4. \A f, g \in 1 .. Len(nest') : f <= g => nest'[f].base <= nest'[g].base
  BY DEF Shape, NestShape, NestSame
<1>. QED
  BY <1>2, <1>3, <1>4 DEF NestShape

LEMMA NestSameIfUnchanged ==
    ASSUME Shape, UNCHANGED nest PROVE NestSame /\ nest' \in Seq(Frames)
BY DEF NestSame, Shape, NestShape

LEMMA InstOfShape ==
    ASSUME Shape, NEW v, Visible(v)
    PROVE  /\ InstOf(v) \in Instance /\ InstOf(v) <= len
           /\ \E b \in 1 .. Len(env) : env[b].name = v /\ InstOf(v) = env[b].inst
BY ShapeFacts, InstOfVisible

\* A statement that is no block.
LEMMA StatementShape ==
    ASSUME Shape, len < MaxStmts, NextStmt,
           \/ UNCHANGED env
           \/ \E v \in Vars : Declarable(v) /\ env' = Bound(v),
           UNCHANGED nest \/ \E i \in Instance : NoteRead(i),
           EntriesOK(entries'), rejected' \in BOOLEAN, misused' \in BOOLEAN, aliased' \in BOOLEAN,
           Existing(gone', refs', len + 1)
    PROVE  Shape' /\ NestSame /\ EnvKept
<1>1. len' = len + 1 /\ UNCHANGED forms /\ len \in Nat /\ len' \in 0 .. MaxStmts
  BY ShapeFacts DEF NextStmt
<1>2. EnvShape' /\ EnvKept
  <2>1. CASE UNCHANGED env
    <3>1. \A b \in 1 .. Len(env) : env[b].inst \in Nat /\ env[b].inst <= len
      BY ShapeFacts DEF Instance
    <3>2. \A b \in 1 .. Len(env) : env[b].inst <= len + 1
      BY <1>1, <3>1
    <3>. QED
      BY <1>1, <2>1, <3>2, ShapeFacts DEF Shape, EnvShape, EnvKept
  <2>2. ASSUME NEW v \in Vars, Declarable(v), env' = Bound(v) PROVE EnvShape' /\ EnvKept
    <3>1. /\ EnvShape' /\ Len(env') = Len(env) + 1
          /\ \A b \in 1 .. Len(env) : env'[b] = env[b]
          /\ Len(env) \in Nat
      BY <1>1, <2>2, BoundShape
    <3>. QED
      BY <3>1 DEF EnvKept
  <2>. QED
    BY <2>1, <2>2
<1>3. NestSame /\ nest' \in Seq(Frames)
  BY NestSameIfUnchanged, NoteReadFrames, ShapeFacts
<1>4. NestShape'
  BY <1>1, <1>2, <1>3, StatementNest DEF EnvKept
<1>5. Verdicts'
  BY <1>1 DEF Shape, Verdicts
<1>6. Existing(gone', refs', len')
  BY <1>1
<1>. QED
  BY <1>2, <1>3, <1>4, <1>5, <1>6 DEF Shape

LEMMA LetShape ==
    ASSUME Shape, NEW v \in Vars, Let(v)
    PROVE  Shape' /\ NestSame /\ EnvKept
<1>1. EntriesOK(entries')
  BY DeclaredEffect, ShapeFacts DEF Let
<1>2. Existing(gone', refs', len + 1)
  BY ExistingLater, ShapeFacts DEF Let
<1>3. rejected' \in BOOLEAN /\ misused' \in BOOLEAN /\ aliased' \in BOOLEAN
  BY DEF Let, Shape, Verdicts
<1>. QED
  BY <1>1, <1>2, <1>3, StatementShape DEF Let, Writing

LEMMA UseShape ==
    ASSUME Shape, NEW w \in Vars, Use(w) \/ UseUnwalked(w)
    PROVE  Shape' /\ NestSame /\ EnvKept
<1>1. EntriesOK(entries') /\ UNCHANGED env /\ NextStmt /\ Writing
      /\ \E i \in Instance : NoteRead(i)
  BY ShapeFacts, InstOfShape DEF Use, UseUnwalked
<1>2. Existing(gone', refs', len + 1)
  BY ExistingLater, ShapeFacts DEF Use, UseUnwalked
<1>3. rejected' \in BOOLEAN /\ misused' \in BOOLEAN /\ aliased' \in BOOLEAN
  BY DEF Use, UseUnwalked, Shape, Verdicts, UseFails
<1>. QED
  BY <1>1, <1>2, <1>3, StatementShape DEF Writing

LEMMA AssignShape ==
    ASSUME Shape, NEW w \in Vars, Assign(w)
    PROVE  Shape' /\ NestSame /\ EnvKept
<1>1. EntriesOK(entries')
  BY AssignEffect, ShapeFacts DEF Assign
<1>2. Existing(gone', refs', len + 1)
  <2>1. Existing(gone, refs, len + 1)
    BY ExistingLater, ShapeFacts
  <2>2. gone' \subseteq gone /\ refs' = refs
    BY DEF Assign
  <2>. QED
    BY <2>1, <2>2 DEF Existing
<1>3. rejected' \in BOOLEAN /\ misused' \in BOOLEAN /\ aliased' \in BOOLEAN
  BY DEF Assign, Shape, Verdicts, AssignFails
<1>. QED
  BY <1>1, <1>2, <1>3, StatementShape DEF Assign, Writing

LEMMA AssignFromShape ==
    ASSUME Shape, NEW v \in Vars, NEW w \in Vars, AssignFrom(v, w)
    PROVE  Shape' /\ NestSame /\ EnvKept
<1>1. EntriesOK(entries')
  BY AssignEffect, ShapeFacts DEF AssignFrom
<1>2. Existing(gone', refs', len + 1)
  <2>1. Existing(gone, refs, len + 1)
    BY ExistingLater, ShapeFacts
  <2>2. InstOf(w) \in Instance /\ InstOf(w) <= len
    BY InstOfShape DEF AssignFrom
  <2>3. InstOf(w) <= len + 1
    BY <2>2, ShapeFacts DEF Instance
  <2>4. gone' \subseteq gone \cup {InstOf(w)} /\ refs' = refs
    BY DEF AssignFrom
  <2>. QED
    BY <2>1, <2>2, <2>3, <2>4 DEF Existing
<1>3. rejected' \in BOOLEAN /\ misused' \in BOOLEAN /\ aliased' \in BOOLEAN
  BY DEF AssignFrom, Shape, Verdicts, AssignFails, UseFails
<1>. QED
  BY <1>1, <1>2, <1>3, StatementShape DEF AssignFrom, Writing

\* The references the old variable held have the new one as their holder.
LEMMA RehandedRefs ==
    ASSUME Shape, NEW v \in Vars, NEW w \in Vars, LetFrom(v, w)
    PROVE  /\ refs' \subseteq Ref
           /\ \A s \in refs' : \E r \in refs : s.target = r.target /\ s.mut = r.mut
           /\ \A r \in refs : \E s \in refs' : s.target = r.target /\ s.mut = r.mut
<1>. DEFINE i == InstOf(w)
            j == len + 1
            to(r) == [r EXCEPT !.holder = IF @ = i THEN j ELSE @]
<1>1. j \in Instance /\ refs \subseteq Ref
  BY ShapeFacts DEF Instance, LetFrom, Writing, Existing
<1>2. ASSUME NEW r \in refs
      PROVE  to(r) \in Ref /\ to(r).target = r.target /\ to(r).mut = r.mut
  <2>1. r \in Ref
    BY <1>1
  <2>. DEFINE h == IF r.holder = i THEN j ELSE r.holder
  <2>2. h \in Instance
    BY <1>1, <2>1 DEF Ref
  <2>3. to(r) = [r EXCEPT !.holder = h]
    OBVIOUS
  <2>. HIDE DEF h, to
  <2>. QED
    BY <2>1, <2>2, <2>3 DEF Ref
<1>3. refs' = {to(r) : r \in refs}
  BY DEF LetFrom
<1>. HIDE DEF to
<1>. QED
  BY <1>2, <1>3

LEMMA LetFromShape ==
    ASSUME Shape, NEW v \in Vars, NEW w \in Vars, LetFrom(v, w)
    PROVE  Shape' /\ NestSame /\ EnvKept
<1>1. EntriesOK(entries')
  BY DeclaredEffect, MoveEffect, ShapeFacts DEF LetFrom
<1>2. InstOf(w) \in Instance /\ InstOf(w) <= len + 1 /\ len \in Nat /\ len + 1 \in Instance
  <2>1. InstOf(w) \in Instance /\ InstOf(w) <= len
    BY InstOfShape DEF LetFrom
  <2>. QED
    BY <2>1, ShapeFacts DEF Instance, LetFrom, Writing
<1>3. Existing(gone', refs', len + 1)
  <2>1. Existing(gone, refs, len + 1)
    BY <1>2, ExistingLater, ShapeFacts
  <2>2. /\ refs' \subseteq Ref
        /\ \A s \in refs' : \E r \in refs : s.target = r.target /\ s.mut = r.mut
    BY RehandedRefs
  <2>3. gone' = gone \cup {InstOf(w)}
    BY DEF LetFrom
  <2>. QED
    BY <1>2, <2>1, <2>2, <2>3 DEF Existing
<1>4. rejected' \in BOOLEAN /\ misused' \in BOOLEAN /\ aliased' \in BOOLEAN
  BY DEF LetFrom, Shape, Verdicts, MoveFails, UseFails
<1>. QED
  BY <1>1, <1>2, <1>3, <1>4, StatementShape DEF LetFrom, Writing

LEMMA LetRefShape ==
    ASSUME Shape, NEW v \in Vars, NEW w \in Vars, NEW mut \in BOOLEAN, LetRef(v, w, mut)
    PROVE  Shape' /\ NestSame /\ EnvKept
<1>1. EntriesOK(entries')
  <2>1. EntriesOK(Declared(entries, Key(v, 1)))
    BY DeclaredEffect, ShapeFacts
  <2>. QED
    BY <2>1, SharedEffect, MutEffect DEF LetRef
<1>2. InstOf(w) \in Instance /\ InstOf(w) <= len + 1 /\ len \in Nat /\ len + 1 \in Instance
  <2>1. InstOf(w) \in Instance /\ InstOf(w) <= len
    BY InstOfShape DEF LetRef
  <2>. QED
    BY <2>1, ShapeFacts DEF Instance, LetRef, Writing
<1>3. Existing(gone', refs', len + 1)
  <2>1. Existing(gone, refs, len + 1)
    BY <1>2, ExistingLater, ShapeFacts
  <2>. DEFINE r == [holder |-> len + 1, target |-> InstOf(w), mut |-> mut]
  <2>2. r \in Ref /\ r.target = InstOf(w)
    BY <1>2 DEF Ref
  <2>3. gone' = gone /\ refs' = refs \cup {r}
    BY DEF LetRef
  <2>. HIDE DEF r
  <2>. QED
    BY <1>2, <2>1, <2>2, <2>3 DEF Existing
<1>4. rejected' \in BOOLEAN /\ misused' \in BOOLEAN /\ aliased' \in BOOLEAN
  BY DEF LetRef, Shape, Verdicts, SharedFails, MutFails, UseFails
<1>. QED
  BY <1>1, <1>2, <1>3, <1>4, StatementShape DEF LetRef, Writing

\* The end of a function.
LEMMA ReturnShape ==
    ASSUME Shape, NEW w \in Vars, Return(w)
    PROVE  Shape' /\ Len(env') = 0 /\ Len(nest') = 0
<1>1. EntriesOK(entries')
  BY MoveEffect, ShapeFacts DEF Return
<1>2. env' \in Seq(Binding) /\ Len(env') = 0
  BY EmptySeq DEF Return
<1>3. nest' \in Seq(Frames) /\ Len(nest') = 0 /\ Len(nest') <= MaxNest
  BY EmptySeq, WalkAssumption DEF Return
<1>4. Existing(gone', refs', len')
  BY DEF Return, Existing
<1>5. Verdicts'
  <2>1. rejected' \in BOOLEAN /\ misused' \in BOOLEAN /\ aliased' \in BOOLEAN
    BY DEF Return, Shape, Verdicts, MoveFails, UseFails
  <2>. QED
    BY <1>1, <2>1, ShapeFacts DEF Return, Writing, NextStmt, Shape, Verdicts
<1>6. EnvShape' /\ NestShape'
  BY <1>2, <1>3 DEF EnvShape, NestShape
<1>. QED
  BY <1>2, <1>3, <1>4, <1>5, <1>6 DEF Shape
-----------------------------------------------------------------------------
(* The blocks. *)

LEMMA FrameShape ==
    ASSUME Shape, NEW kind \in Kinds
    PROVE  LET x == Frame(kind) IN
           /\ x \in Frames /\ x.kind = kind /\ x.base = Len(env)
           /\ x.gone0 = gone /\ x.gone1 = gone /\ x.refs0 = refs /\ x.refs1 = refs
<1>1. gone \in SUBSET Instance /\ refs \in SUBSET Ref /\ Len(env) \in Nat
  BY ShapeFacts DEF Existing
<1>. QED
  BY <1>1 DEF Frame, Frames

\* A block is opened inside the others.
LEMMA OpenNest ==
    ASSUME Shape, NEW kind \in {"block", "if", "loop"}, kind \in forms, Open(kind),
           Len(env') \in Nat, Len(env) <= Len(env')
    PROVE  /\ NestShape'
           /\ Len(nest) \in Nat /\ Len(nest') = Len(nest) + 1
           /\ \A f \in 1 .. Len(nest) : nest'[f] = nest[f]
           /\ nest'[Len(nest) + 1] = Frame(kind)
<1>. DEFINE n == Len(nest)
            x == Frame(kind)
<1>1. /\ x \in Frames /\ x.kind = kind /\ x.base = Len(env)
      /\ x.gone0 = gone /\ x.gone1 = gone /\ x.refs0 = refs /\ x.refs1 = refs
  BY FrameShape DEF Kinds
<1>2. /\ nest \in Seq(Frames) /\ n \in Nat /\ Len(env) \in Nat
      /\ len \in Nat /\ len + 1 \in Nat /\ len <= len + 1
      /\ len' = len + 1 /\ forms' = forms
  BY ShapeFacts DEF Open, NextStmt
<1>3. nest' = Append(nest, x)
  BY DEF Open
<1>4. n < MaxNest
  BY DEF Open
<1>. HIDE DEF x, n
<1>5. /\ nest' \in Seq(Frames) /\ Len(nest') = n + 1
      /\ \A f \in 1 .. n : nest'[f] = nest[f]
      /\ nest'[n + 1] = x
  BY <1>1, <1>2, <1>3, AppendProperties DEF n
<1>6. \A f \in 1 .. n + 1 : f \in 1 .. n \/ f = n + 1
  BY <1>2
<1>7. ASSUME NEW f \in 1 .. n + 1
      PROVE  /\ nest'[f].base \in Nat /\ nest'[f].base <= Len(env)
             /\ nest'[f].kind = "loop" => "loop" \in forms'
             /\ nest'[f].kind \in {"if", "else"} => "if" \in forms'
             /\ nest'[f].kind = "block" => "block" \in forms'
             /\ Existing(nest'[f].gone0 \cup nest'[f].gone1,
                         nest'[f].refs0 \cup nest'[f].refs1, len')
  <2>1. CASE f \in 1 .. n
    <3>1. /\ nest[f].base \in Nat /\ nest[f].base <= Len(env)
          /\ nest[f].kind = "loop" => "loop" \in forms
          /\ nest[f].kind \in {"if", "else"} => "if" \in forms
          /\ nest[f].kind = "block" => "block" \in forms
          /\ Existing(nest[f].gone0 \cup nest[f].gone1,
                      nest[f].refs0 \cup nest[f].refs1, len)
      BY <2>1, ShapeFacts DEF Shape, NestShape, n
    <3>2. Existing(nest[f].gone0 \cup nest[f].gone1,
                   nest[f].refs0 \cup nest[f].refs1, len')
      BY <1>2, <3>1, ExistingLater
    <3>3. nest'[f] = nest[f]
      BY <1>5, <2>1
    <3>. QED
      BY <1>2, <3>1, <3>2, <3>3
  <2>2. CASE f = n + 1
    <3>1. Existing(gone, refs, len')
      BY <1>2, ExistingLater, ShapeFacts
    <3>2. gone \cup gone = gone /\ refs \cup refs = refs
      OBVIOUS
    <3>3. /\ nest'[f].kind = kind /\ nest'[f].base = Len(env)
          /\ nest'[f].gone0 \cup nest'[f].gone1 = gone
          /\ nest'[f].refs0 \cup nest'[f].refs1 = refs
      BY <1>1, <1>5, <2>2, <3>2
    <3>4. /\ kind = "loop" => "loop" \in forms'
          /\ kind \in {"if", "else"} => "if" \in forms'
          /\ kind = "block" => "block" \in forms'
      BY <1>2
    <3>5. Len(env) \in Nat /\ Len(env) <= Len(env)
      BY <1>2
    <3>. QED
      BY <3>1, <3>3, <3>4, <3>5, Zenon
  <2>. QED
    BY <1>6, <2>1, <2>2
<1>8. \A f, g \in 1 .. n + 1 : f <= g => nest'[f].base <= nest'[g].base
  <2>1. \A f, g \in 1 .. n : f <= g => nest[f].base <= nest[g].base
    BY ShapeFacts DEF n
  <2>2. nest'[n + 1].base = Len(env)
    BY <1>1, <1>5
  <2>3. \A f \in 1 .. n + 1 : nest'[f].base \in Nat /\ nest'[f].base <= Len(env)
    BY <1>7
  <2>4. n + 1 \notin 1 .. n /\ \A f \in 1 .. n : ~ (n + 1 <= f)
    BY <1>2
  <2>5. \A f, g \in 1 .. n : f <= g => nest'[f].base <= nest'[g].base
    BY <1>5, <2>1
  <2>6. \A f \in 1 .. n + 1 : nest'[f].base <= nest'[n + 1].base
    BY <2>2, <2>3
  <2>. QED
    BY <1>6, <2>4, <2>5, <2>6
<1>9. n + 1 <= MaxNest
  BY <1>2, <1>4, WalkAssumption
<1>10. \A f \in 1 .. n + 1 : nest'[f].base <= Len(env')
  <2>1. \A a \in Nat : a <= Len(env) => a <= Len(env')
    BY <1>2
  <2>. QED
    BY <1>7, <2>1
<1>11. NestShape'
  BY <1>5, <1>7, <1>8, <1>9, <1>10 DEF NestShape
<1>. QED
  BY <1>2, <1>5, <1>11 DEF n, x

LEMMA OpenShape ==
    ASSUME Shape, \/ \E kind \in {"block", "if", "loop"} : OpenBlock(kind)
                  \/ \E v \in Vars : OpenFor(v)
    PROVE  Shape' /\ EnvKept
<1>1. /\ Writing /\ NextStmt /\ UNCHANGED <<rejected, gone, refs, misused, aliased>>
      /\ len \in Nat /\ len' = len + 1 /\ len' \in 0 .. MaxStmts /\ forms' = forms
  <2>1. Writing /\ NextStmt /\ UNCHANGED <<rejected, gone, refs, misused, aliased>>
    BY DEF OpenBlock, OpenFor, Open
  <2>. QED
    BY <2>1, ShapeFacts DEF Writing, NextStmt
<1>2. EntriesOK(entries')
  BY DeclaredEffect, ShapeFacts DEF OpenBlock, OpenFor
<1>3. Existing(gone', refs', len')
  BY <1>1, ExistingLater, ShapeFacts
<1>4. EnvShape' /\ EnvKept
  <2>1. CASE UNCHANGED env
    <3>1. \A b \in 1 .. Len(env) : env[b].inst \in Nat /\ env[b].inst <= len
      BY ShapeFacts DEF Instance
    <3>2. \A b \in 1 .. Len(env) : env[b].inst <= len + 1
      BY <1>1, <3>1
    <3>. QED
      BY <1>1, <2>1, <3>2, ShapeFacts DEF Shape, EnvShape, EnvKept
  <2>2. ASSUME NEW v \in Vars, Declarable(v), env' = Bound(v) PROVE EnvShape' /\ EnvKept
    <3>1. /\ EnvShape' /\ Len(env') = Len(env) + 1
          /\ \A b \in 1 .. Len(env) : env'[b] = env[b]
          /\ Len(env) \in Nat
      BY <1>1, <2>2, BoundShape DEF Writing
    <3>. QED
      BY <3>1 DEF EnvKept
  <2>. QED
    BY <2>1, <2>2 DEF OpenBlock, OpenFor
<1>5. NestShape'
  BY <1>4, OpenNest DEF OpenBlock, OpenFor, EnvKept
<1>6. Verdicts'
  BY <1>1, <1>2 DEF Shape, Verdicts
<1>. QED
  BY <1>3, <1>4, <1>5, <1>6 DEF Shape

LEMMA TopShape ==
    ASSUME Shape, nest # <<>>
    PROVE  /\ Len(nest) \in Nat \ {0} /\ Len(nest) \in 1 .. Len(nest)
           /\ Top \in Frames /\ Top = nest[Len(nest)]
           /\ Top.base \in Nat /\ Top.base <= Len(env)
           /\ \A f \in 1 .. Len(nest) : nest[f].base <= Top.base
           /\ Existing(Top.gone0, Top.refs0, len) /\ Existing(Top.gone1, Top.refs1, len)
<1>1. Len(nest) \in Nat \ {0} /\ Len(nest) \in 1 .. Len(nest)
  BY ShapeFacts
<1>2. Top = nest[Len(nest)]
  BY DEF Top
<1>3. Existing(Top.gone0 \cup Top.gone1, Top.refs0 \cup Top.refs1, len)
  BY <1>1, <1>2 DEF Shape, NestShape
<1>4. Existing(Top.gone0, Top.refs0, len) /\ Existing(Top.gone1, Top.refs1, len)
  BY <1>3 DEF Existing
<1>5. \A f \in 1 .. Len(nest) : f <= Len(nest)
  BY <1>1
<1>. QED
  BY <1>1, <1>2, <1>4, <1>5, ShapeFacts

\* } else {   starts again from what held when the block was entered.
LEMMA ElseShape ==
    ASSUME Shape, Else
    PROVE  LET k == Len(nest) IN
           /\ Shape'
           /\ Len(env') = Top.base /\ \A b \in 1 .. Top.base : env'[b] = env[b]
           /\ Len(nest') = k /\ k \in 1 .. k
           /\ \A f \in 1 .. k : f # k => nest'[f] = nest[f]
           /\ nest'[k].base = Top.base /\ nest'[k].kind = "else"
           /\ nest'[k].gone0 = Top.gone0 /\ nest'[k].gone1 = gone
           /\ nest'[k].refs0 = Top.refs0 /\ nest'[k].refs1 = RefsTo(Top.base)
<1>. DEFINE k == Len(nest)
            x == [nest[k] EXCEPT !.kind = "else", !.gone1 = gone, !.refs1 = RefsTo(Top.base)]
<1>1. /\ nest # <<>> /\ Top.kind = "if" /\ Writing /\ NextStmt
      /\ len \in Nat /\ len' = len + 1 /\ len' \in 0 .. MaxStmts /\ forms' = forms
      /\ len + 1 \in Nat /\ len <= len + 1
  <2>1. nest # <<>> /\ Top.kind = "if" /\ Writing /\ NextStmt
    BY DEF Else
  <2>. QED
    BY <2>1, ShapeFacts DEF Writing, NextStmt
<1>2. /\ k \in Nat \ {0} /\ k \in 1 .. k /\ Top = nest[k] /\ Top \in Frames
      /\ Top.base \in Nat /\ Top.base <= Len(env)
      /\ Existing(Top.gone0, Top.refs0, len) /\ Existing(gone, refs, len)
  BY <1>1, TopShape, ShapeFacts
<1>3. Existing(gone, RefsTo(Top.base), len)
  BY <1>2 DEF Existing, RefsTo
<1>4. /\ x \in Frames /\ x.kind = "else" /\ x.base = Top.base
      /\ x.gone0 = Top.gone0 /\ x.gone1 = gone
      /\ x.refs0 = Top.refs0 /\ x.refs1 = RefsTo(Top.base)
  <2>. DEFINE R == RefsTo(Top.base)
  <2>1. gone \in SUBSET Instance /\ R \in SUBSET Ref
    BY <1>2, <1>3 DEF Existing
  <2>. HIDE DEF R
  <2>2. nest[k] \in Frames /\ "else" \in Kinds
    BY <1>2 DEF Kinds
  <2>3. x = [nest[k] EXCEPT !.kind = "else", !.gone1 = gone, !.refs1 = R]
    BY DEF R
  <2>. HIDE DEF x
  <2>. QED
    BY <1>2, <2>1, <2>2, <2>3 DEF Frames, R
<1>5. nest' = [nest EXCEPT ![k] = x]
  BY DEF Else
<1>. HIDE DEF x
<1>6. nest \in Seq(Frames) /\ \A f \in 1 .. k : nest[f] \in Frames
  BY ShapeFacts
<1>7. /\ nest' \in Seq(Frames) /\ Len(nest') = k
      /\ \A f \in 1 .. k : nest'[f] = IF f = k THEN x ELSE nest[f]
  BY <1>2, <1>4, <1>5, <1>6, ExceptSeq
<1>8. /\ EnvShape' /\ Len(env') = Top.base
      /\ \A b \in 1 .. Top.base : env'[b] = env[b]
  <2>1. env' = EnvTo(Top.base)
    BY DEF Else
  <2>. QED
    BY <1>1, <1>2, <2>1, EnvToShape
<1>9. NestShape'
  <2>1. ASSUME NEW f \in 1 .. k
        PROVE  /\ nest'[f].base \in Nat /\ nest'[f].base = nest[f].base
               /\ nest'[f].base <= Top.base
               /\ nest'[f].kind = "loop" => "loop" \in forms
               /\ nest'[f].kind \in {"if", "else"} => "if" \in forms
               /\ nest'[f].kind = "block" => "block" \in forms
               /\ Existing(nest'[f].gone0 \cup nest'[f].gone1,
                           nest'[f].refs0 \cup nest'[f].refs1, len)
    <3>1. /\ nest[f].base \in Nat /\ nest[f].base <= Top.base
          /\ nest[f].kind = "loop" => "loop" \in forms
          /\ nest[f].kind \in {"if", "else"} => "if" \in forms
          /\ nest[f].kind = "block" => "block" \in forms
          /\ Existing(nest[f].gone0 \cup nest[f].gone1,
                      nest[f].refs0 \cup nest[f].refs1, len)
      BY <1>1, TopShape, ShapeFacts DEF Shape, NestShape
    <3>2. CASE f # k
      <4>1. nest'[f] = nest[f]
        BY <1>7, <3>2
      <4>. QED
        BY <3>1, <4>1
    <3>3. CASE f = k
      <4>1. nest'[f] = x /\ nest[f] = Top
        BY <1>2, <1>7, <3>3
      <4>2. Existing(Top.gone0 \cup gone, Top.refs0 \cup RefsTo(Top.base), len)
        BY <1>2, <1>3 DEF Existing
      <4>3. "if" \in forms
        BY <1>1, <3>1, <4>1
      <4>. QED
        BY <1>2, <1>4, <3>1, <4>1, <4>2, <4>3
    <3>. QED
      BY <3>2, <3>3
  <2>2. ASSUME NEW f \in 1 .. k
        PROVE  Existing(nest'[f].gone0 \cup nest'[f].gone1,
                        nest'[f].refs0 \cup nest'[f].refs1, len')
    BY <1>1, <2>1, ExistingLater
  <2>3. k <= MaxNest
    BY DEF Shape, NestShape
  <2>4. \A f, g \in 1 .. k : f <= g => nest'[f].base <= nest'[g].base
    BY <2>1, ShapeFacts
  <2>. QED
    BY <1>1, <1>7, <1>8, <2>1, <2>2, <2>3, <2>4 DEF NestShape
<1>10. Existing(gone', refs', len')
  BY <1>1, <1>2, ExistingLater DEF Else
<1>11. Verdicts'
  BY <1>1 DEF Else, Shape, Verdicts
<1>. QED
  BY <1>2, <1>4, <1>7, <1>8, <1>9, <1>10, <1>11 DEF Shape

\* }   goes back to the block around it.
LEMMA CloseShape ==
    ASSUME Shape, CloseBlock
    PROVE  /\ Shape'
           /\ Len(env') = Top.base /\ \A b \in 1 .. Top.base : env'[b] = env[b]
           /\ Len(nest') = Len(nest) - 1 /\ Len(nest) \in Nat \ {0}
           /\ \A f \in 1 .. Len(nest) - 1 : nest'[f] = nest[f]
           /\ gone' \subseteq gone \cup Top.gone1
           /\ refs' \subseteq refs \cup Top.refs1
<1>. DEFINE m == Len(nest) - 1
<1>1. /\ nest # <<>> /\ len \in Nat /\ len' = len /\ forms' = forms /\ nest \in Seq(Frames)
      /\ \A f \in 1 .. Len(nest) : nest[f] \in Frames
  BY ShapeFacts DEF CloseBlock
<1>2. /\ m \in Nat /\ m <= Len(nest) /\ Len(nest) = m + 1 /\ Len(nest) \in Nat \ {0}
      /\ Top.base \in Nat /\ Top.base <= Len(env)
      /\ Existing(Top.gone1, Top.refs1, len) /\ Existing(gone, refs, len)
  <2>1. Len(nest) \in Nat \ {0}
    BY <1>1, TopShape
  <2>. QED
    BY <1>1, <2>1, TopShape, ShapeFacts
<1>3. /\ EnvShape' /\ Len(env') = Top.base
      /\ \A b \in 1 .. Top.base : env'[b] = env[b]
  <2>1. env' = EnvTo(Top.base)
    BY DEF CloseBlock
  <2>. QED
    BY <1>1, <1>2, <2>1, EnvToShape
<1>4. /\ nest' \in Seq(Frames) /\ Len(nest') = m
      /\ \A f \in 1 .. m : nest'[f] = nest[f]
  <2>1. 1 \in Int /\ m \in Int /\ \A f \in 1 .. m : nest[f] \in Frames
    BY <1>1, <1>2
  <2>2. /\ SubSeq(nest, 1, m) \in Seq(Frames)
        /\ Len(SubSeq(nest, 1, m)) = IF 1 <= m THEN m - 1 + 1 ELSE 0
        /\ \A f \in 1 .. m - 1 + 1 : SubSeq(nest, 1, m)[f] = nest[1 + f - 1]
    BY <2>1, SubSeqProperties
  <2>3. nest' = SubSeq(nest, 1, m)
    BY DEF CloseBlock, Popped
  <2>4. \A f \in 1 .. m : f \in 1 .. m - 1 + 1 /\ 1 + f - 1 = f
    BY <1>2
  <2>. HIDE DEF m
  <2>. QED
    BY <1>2, <2>2, <2>3, <2>4
<1>5. gone' \subseteq gone \cup Top.gone1 /\ refs' \subseteq refs \cup Top.refs1
  BY DEF CloseBlock, RefsTo
<1>6. Existing(gone', refs', len')
  BY <1>1, <1>2, <1>5 DEF Existing
<1>7. NestShape'
  <2>1. m <= MaxNest
    BY <1>2, WalkAssumption DEF Shape, NestShape
  <2>2. ASSUME NEW f \in 1 .. m
        PROVE  /\ nest[f].base <= Top.base
               /\ nest[f].kind = "loop" => "loop" \in forms
               /\ nest[f].kind \in {"if", "else"} => "if" \in forms
               /\ nest[f].kind = "block" => "block" \in forms
               /\ Existing(nest[f].gone0 \cup nest[f].gone1,
                           nest[f].refs0 \cup nest[f].refs1, len)
    <3>1. f \in 1 .. Len(nest)
      BY <1>2
    <3>. QED
      BY <1>1, <3>1, TopShape DEF Shape, NestShape
  <2>3. \A f, g \in 1 .. m : f <= g => nest[f].base <= nest[g].base
    <3>1. \A f \in 1 .. m : f \in 1 .. Len(nest)
      BY <1>2
    <3>. QED
      BY <3>1, ShapeFacts
  <2>. HIDE DEF m
  <2>. QED
    BY <1>1, <1>3, <1>4, <2>1, <2>2, <2>3 DEF NestShape
<1>8. Verdicts'
  <2>1. misused' \in BOOLEAN
    BY DEF CloseBlock, Shape, Verdicts
  <2>. QED
    BY <2>1 DEF CloseBlock, Shape, Verdicts
<1>. QED
  BY <1>2, <1>3, <1>4, <1>5, <1>6, <1>7, <1>8 DEF Shape
-----------------------------------------------------------------------------
LEMMA InitShape == Init => Shape
<1>1. ASSUME Init PROVE Shape
  <2>1. env \in Seq(Binding) /\ Len(env) = 0 /\ nest \in Seq(Frames) /\ Len(nest) = 0
    BY <1>1, EmptySeq DEF Init
  <2>2. EntriesOK(entries)
    BY <1>1 DEF Init, NoEntries, EntriesOK
  <2>3. Existing(gone, refs, len)
    BY <1>1 DEF Init, Existing
  <2>4. EnvShape /\ NestShape
    BY <2>1, WalkAssumption DEF EnvShape, NestShape
  <2>5. len \in 0 .. MaxStmts
    BY <1>1, WalkAssumption DEF Init
  <2>6. rejected \in BOOLEAN /\ misused \in BOOLEAN /\ aliased \in BOOLEAN /\ forms \in Dialects
    BY <1>1, Zenon DEF Init
  <2>. QED
    BY <2>2, <2>3, <2>4, <2>5, <2>6 DEF Shape, Verdicts
<1>. QED
  BY <1>1

LEMMA ShapeKept == Shape /\ [Next]_vars => Shape'
<1>1. ASSUME Shape, UNCHANGED vars PROVE Shape'
  BY <1>1 DEF vars, Shape, Verdicts, EnvShape, NestShape
<1>2. ASSUME Shape, Next PROVE Shape'
  BY <1>2, LetShape, UseShape, AssignShape, ReturnShape, OpenShape, LetFromShape,
     AssignFromShape, LetRefShape, ElseShape, CloseShape DEF Next
<1>. QED
  BY <1>1, <1>2

(***************************************************************************)
(* The table, the program and the blocks keep their types: the instances   *)
(* and references the model speaks of are those of statements that have    *)
(* been written (the walk of borrow_check_stmt).                           *)
(***************************************************************************)
THEOREM WalkTyped == Spec => []TypeOK
<1>1. Shape => TypeOK
  BY WalkAssumption DEF Shape, Verdicts, EnvShape, NestShape, Existing, TypeOK, EntriesOK
<1>. QED
  BY <1>1, InitShape, ShapeKept, PTL DEF Spec
-----------------------------------------------------------------------------
(* The names the parser stores: nothing is found again.                    *)

KeysAreOld ==
    /\ len \in Nat
    /\ \A k \in DOMAIN entries :
          \E v \in Vars, l \in 1 .. len, i \in {1, 2} : k = <<v, l, i>>

LEMMA FreshKey ==
    ASSUME KeysAreOld, NEW v \in Vars, NEW w \in Vars
    PROVE  LET es == Declared(entries, Key(v, 1)) IN
           /\ ~Tracked(entries, Key(w, 1)) /\ ~Tracked(entries, Key(w, 2))
           /\ ~Tracked(es, Key(w, 2))
           /\ DOMAIN es = DOMAIN entries \cup {<<v, len + 1, 1>>}
<1>1. \A u \in Vars, i \in {1, 2} : <<u, len + 1, i>> \notin DOMAIN entries
  BY DEF KeysAreOld
<1>2. Key(w, 1) = <<w, len + 1, 1>> /\ Key(w, 2) = <<w, len + 1, 2>> /\ Key(v, 1) = <<v, len + 1, 1>>
  BY DEF Key
<1>3. <<w, len + 1, 2>> # <<v, len + 1, 1>>
  OBVIOUS
<1>. QED
  BY <1>1, <1>2, <1>3 DEF Declared, Tracked

LEMMA KeysStayOld ==
    ASSUME KeysAreOld, len' = len + 1,
           \/ UNCHANGED entries
           \/ \E v \in Vars : DOMAIN entries' = DOMAIN entries \cup {<<v, len + 1, 1>>}
    PROVE  KeysAreOld'
<1>1. len \in Nat /\ len' \in Nat /\ \A l \in 1 .. len : l \in 1 .. len'
  BY DEF KeysAreOld
<1>2. \A k \in DOMAIN entries :
         \E v \in Vars, l \in 1 .. len', i \in {1, 2} : k = <<v, l, i>>
  BY <1>1 DEF KeysAreOld
<1>3. len + 1 \in 1 .. len'
  BY <1>1
<1>. QED
  BY <1>1, <1>2, <1>3, Zenon DEF KeysAreOld

\* The invariant: the entries are those of earlier occurrences, one for each
\* binding in scope, and none has been changed since it was made.
Untouched == KeysAreOld /\ NothingRecorded

\* What a step does to the table: it makes the entry of a binding, or nothing.
Declares(v) ==
    /\ entries' = Declared(entries, Key(v, 1)) /\ env' = Bound(v)
    /\ len' = len + 1 /\ ~rejected'

LeavesTable ==
    /\ UNCHANGED entries /\ len' \in {len, len + 1} /\ ~rejected'
    /\ \A b \in DOMAIN env' : \E c \in DOMAIN env : env'[b] = env[c]

\* The calls find no entry, so that they refuse nothing and note nothing.
LEMMA NothingFound ==
    ASSUME KeysAreOld, ~rejected, Next
    PROVE  \/ \E v \in Vars : Declares(v)
           \/ /\ UNCHANGED entries /\ len' \in {len, len + 1} /\ ~rejected'
              /\ UNCHANGED env \/ env' = <<>> \/ Else \/ CloseBlock
<1>0. \A v, w \in Vars : LET es == Declared(entries, Key(v, 1)) IN
         /\ ~Tracked(entries, Key(w, 1)) /\ ~Tracked(entries, Key(w, 2))
         /\ ~Tracked(es, Key(w, 2))
  BY FreshKey
<1>1. ASSUME NEW v \in Vars, Let(v) \/ OpenFor(v) PROVE Declares(v)
  BY <1>1 DEF Let, OpenFor, Open, NextStmt, Declares
<1>2. ASSUME NEW v \in Vars, NEW w \in Vars, LetFrom(v, w) PROVE Declares(v)
  <2>. DEFINE es == Declared(entries, Key(v, 1))
  <2>1. ~Tracked(es, Key(w, 2))
    BY <1>0
  <2>2. entries' = AfterMove(es, Key(w, 2)) /\ len' = len + 1 /\ env' = Bound(v)
        /\ rejected' = (UseFails(es, Key(w, 2)) \/ MoveFails(es, Key(w, 2)))
    BY <1>2 DEF LetFrom, NextStmt
  <2>. HIDE DEF es
  <2>3. entries' = es /\ ~rejected'
    BY <2>1, <2>2 DEF AfterMove, UseFails, MoveFails
  <2>. QED
    BY <2>2, <2>3 DEF Declares, es
<1>3. ASSUME NEW v \in Vars, NEW w \in Vars, NEW mut \in BOOLEAN, LetRef(v, w, mut)
      PROVE  Declares(v)
  <2>. DEFINE es == Declared(entries, Key(v, 1))
  <2>1. ~Tracked(es, Key(w, 2))
    BY <1>0
  <2>2. /\ entries' = IF mut THEN AfterMut(es, Key(w, 2)) ELSE AfterShared(es, Key(w, 2))
        /\ len' = len + 1 /\ env' = Bound(v)
        /\ rejected' = \/ IF mut THEN MutFails(es, Key(w, 2)) ELSE SharedFails(es, Key(w, 2))
                       \/ UseFails(entries', Key(w, 2))
    BY <1>3 DEF LetRef, NextStmt
  <2>. HIDE DEF es
  <2>3. entries' = es
    BY <2>1, <2>2 DEF AfterMut, AfterShared
  <2>4. ~rejected'
    BY <2>1, <2>2, <2>3 DEF UseFails, MutFails, SharedFails
  <2>. QED
    BY <2>2, <2>3, <2>4 DEF Declares, es
<1>4. ASSUME NEW w \in Vars, Use(w) \/ UseUnwalked(w)
      PROVE  UNCHANGED <<entries, env>> /\ len' = len + 1 /\ ~rejected'
  <2>1. UNCHANGED <<entries, env>> /\ len' = len + 1
    BY <1>4 DEF Use, UseUnwalked, NextStmt
  <2>2. ~rejected'
    BY <1>0, <1>4 DEF Use, UseUnwalked, UseFails
  <2>. QED
    BY <2>1, <2>2
<1>5. ASSUME NEW w \in Vars, Assign(w) \/ Return(w)
      PROVE  /\ UNCHANGED entries /\ len' = len + 1 /\ ~rejected'
             /\ UNCHANGED env \/ env' = <<>>
  <2>1. ~Tracked(entries, Key(w, 1))
    BY <1>0
  <2>2. UNCHANGED entries /\ len' = len + 1 /\ (UNCHANGED env \/ env' = <<>>)
    BY <1>5, <2>1 DEF Assign, Return, NextStmt, AfterAssign, AfterMove
  <2>3. ~rejected'
    BY <1>5, <2>1 DEF Assign, Return, AssignFails, UseFails, MoveFails
  <2>. QED
    BY <2>2, <2>3
<1>6. ASSUME NEW v \in Vars, NEW w \in Vars, AssignFrom(v, w)
      PROVE  UNCHANGED <<entries, env>> /\ len' = len + 1 /\ ~rejected'
  <2>1. ~Tracked(entries, Key(v, 1)) /\ ~Tracked(entries, Key(w, 2))
    BY <1>0
  <2>2. AfterAssign(entries, Key(v, 1)) = entries
    BY <2>1 DEF AfterAssign
  <2>3. len' = len + 1 /\ UNCHANGED <<entries, env>>
    BY <1>6, <2>2 DEF AssignFrom, NextStmt
  <2>4. ~rejected'
    BY <1>6, <2>1, <2>2 DEF AssignFrom, AssignFails, UseFails
  <2>. QED
    BY <2>3, <2>4
<1>7. ASSUME NEW kind \in {"block", "if", "loop"}, OpenBlock(kind)
      PROVE  UNCHANGED <<entries, env>> /\ len' = len + 1 /\ ~rejected'
  BY <1>7 DEF OpenBlock, Open, NextStmt
<1>8. ASSUME Else \/ CloseBlock
      PROVE  UNCHANGED entries /\ len' \in {len, len + 1} /\ ~rejected'
  <2>1. CASE Else
    <3>1. UNCHANGED <<entries, rejected>> /\ NextStmt
      BY <2>1 DEF Else
    <3>. QED
      BY <3>1 DEF NextStmt
  <2>2. CASE CloseBlock
    <3>1. UNCHANGED <<entries, rejected, len>>
      BY <2>2 DEF CloseBlock
    <3>. QED
      BY <3>1
  <2>. QED
    BY <1>8, <2>1, <2>2
<1>. QED
  BY <1>1, <1>2, <1>3, <1>4, <1>5, <1>6, <1>7, <1>8 DEF Next

\* Bindings that go out of scope leave those around them as they are.
LEMMA TableStep ==
    ASSUME Shape, KeysAreOld, ~rejected, Next
    PROVE  LeavesTable \/ \E v \in Vars : Declares(v)
<1>1. CASE \E v \in Vars : Declares(v)
  BY <1>1
<1>2. CASE /\ UNCHANGED entries /\ len' \in {len, len + 1} /\ ~rejected'
           /\ UNCHANGED env \/ env' = <<>> \/ Else \/ CloseBlock
  <2>1. DOMAIN env = 1 .. Len(env) /\ Len(env) \in Nat
    BY ShapeFacts
  <2>2. ASSUME UNCHANGED env \/ env' = <<>>
        PROVE  \A b \in DOMAIN env' : \E c \in DOMAIN env : env'[b] = env[c]
    BY <2>2
  <2>3. ASSUME Else \/ CloseBlock
        PROVE  \A b \in DOMAIN env' : \E c \in DOMAIN env : env'[b] = env[c]
    <3>1. nest # <<>>
      BY <2>3 DEF Else, CloseBlock
    <3>2. Top.base \in Nat /\ Top.base <= Len(env)
      BY <3>1, TopShape
    <3>3. Shape' /\ Len(env') = Top.base /\ \A b \in 1 .. Top.base : env'[b] = env[b]
      BY <2>3, ElseShape, CloseShape
    <3>4. DOMAIN env' = 1 .. Top.base
      BY <3>3 DEF Shape, EnvShape
    <3>. QED
      BY <2>1, <3>2, <3>3, <3>4
  <2>. QED
    BY <1>2, <2>2, <2>3 DEF LeavesTable
<1>. QED
  BY <1>1, <1>2, NothingFound

LEMMA DeclaringUntouched ==
    ASSUME Shape, Untouched, NEW v \in Vars, Declares(v), Shape'
    PROVE  Untouched'
<1>. DEFINE n == Len(env)
            new == [name |-> v, inst |-> len + 1]
            k == <<v, len + 1, 1>>
<1>1. /\ n \in Nat /\ env \in Seq(Binding) /\ DOMAIN env = 1 .. n
      /\ env' = Append(env, new) /\ EntriesOK(entries)
  BY ShapeFacts DEF Declares, Bound
<1>2. DOMAIN env' = 1 .. n + 1 /\ env'[n + 1] = new /\ \A b \in 1 .. n : env'[b] = env[b]
  BY <1>1
<1>3. entries' = Declared(entries, k) /\ ~rejected' /\ len' = len + 1
  BY DEF Declares, Key
<1>4. /\ DOMAIN entries' = DOMAIN entries \cup {k}
      /\ entries'[k] = NewEntry
      /\ \A u \in DOMAIN entries : u # k => entries'[u] = entries[u]
  BY <1>1, <1>3, DeclaredEffect
<1>5. KeysAreOld'
  BY <1>3, <1>4, KeysStayOld DEF Untouched
<1>6. \A u \in DOMAIN entries' : entries'[u] = NewEntry
  BY <1>4 DEF Untouched, NothingRecorded
<1>7. \A b \in DOMAIN env' : <<env'[b].name, env'[b].inst, 1>> \in DOMAIN entries'
  <2>1. \A b \in 1 .. n : <<env[b].name, env[b].inst, 1>> \in DOMAIN entries
    BY <1>1 DEF Untouched, NothingRecorded, Tracked
  <2>2. new.name = v /\ new.inst = len + 1
    OBVIOUS
  <2>3. \A b \in 1 .. n + 1 : b \in 1 .. n \/ b = n + 1
    BY <1>1
  <2>. QED
    BY <1>2, <1>4, <2>1, <2>2, <2>3
<1>. QED
  BY <1>3, <1>5, <1>6, <1>7 DEF Untouched, NothingRecorded, Tracked

LEMMA LeavingUntouched ==
    ASSUME Untouched, LeavesTable
    PROVE  Untouched'
<1>1. KeysAreOld'
  <2>1. CASE len' = len
    BY <2>1 DEF LeavesTable, Untouched, KeysAreOld
  <2>2. CASE len' = len + 1
    BY <2>2, KeysStayOld DEF LeavesTable, Untouched
  <2>. QED
    BY <2>1, <2>2 DEF LeavesTable
<1>. QED
  BY <1>1 DEF LeavesTable, Untouched, NothingRecorded, Tracked

LEMMA UntouchedInductive ==
    /\ Init => Untouched
    /\ Shape /\ Shape' /\ Untouched /\ [Next]_vars => Untouched'
<1>1. Init => Untouched
  BY DEF Init, Untouched, NothingRecorded, KeysAreOld, NoEntries
<1>2. ASSUME Shape, Shape', Untouched, Next PROVE Untouched'
  BY <1>2, TableStep, DeclaringUntouched, LeavingUntouched DEF Untouched, NothingRecorded
<1>3. ASSUME Untouched, UNCHANGED vars PROVE Untouched'
  BY <1>3 DEF vars, Untouched, NothingRecorded, KeysAreOld, Tracked
<1>. QED
  BY <1>1, <1>2, <1>3

(***************************************************************************)
(* Names are pointers into the source that strcmp reads to its end, so     *)
(* find_entry never finds the entry of an earlier occurrence: the table    *)
(* has a fresh entry for each binding, never a move or a loan, and the     *)
(* walk reports nothing, whatever the program does.                        *)
(***************************************************************************)
THEOREM NothingNoted == Spec => []NothingRecorded
<1>1. Untouched => NothingRecorded
  BY DEF Untouched
<1>. QED
  BY <1>1, InitShape, ShapeKept, UntouchedInductive, PTL DEF Spec
=============================================================================
