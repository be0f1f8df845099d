---------------------------- MODULE BorrowProofs ----------------------------
(***************************************************************************)
(* For every set of names and every bound: the borrow checker's table is   *)
(* well typed, never grants conflicting rights to one name, and follows    *)
(* the ownership protocol.                                                 *)
(***************************************************************************)
EXTENDS BorrowState, TLAPS

\* Setting one field of an entry gives an entry.
LEMMA EntryUpdates ==
    ASSUME NEW e \in Entry
    PROVE  /\ [e EXCEPT !.moved = TRUE] \in Entry
           /\ [e EXCEPT !.moved = FALSE] \in Entry
           /\ [e EXCEPT !.mut = TRUE] \in Entry
           /\ [e EXCEPT !.shared = @ + 1] \in Entry
<1>1. e.shared + 1 \in Nat
  BY DEF Entry
<1>2. [e EXCEPT !.moved = TRUE] \in Entry
  BY Zenon DEF Entry
<1>3. [e EXCEPT !.moved = FALSE] \in Entry
  BY Zenon DEF Entry
<1>4. [e EXCEPT !.mut = TRUE] \in Entry
  BY Zenon DEF Entry
<1>5. [e EXCEPT !.shared = @ + 1] \in Entry
  BY <1>1, Zenon DEF Entry
<1>. QED
  BY <1>2, <1>3, <1>4, <1>5

\* What the table operators return, name by name.
LEMMA TableOperators ==
    ASSUME TypeOK, NEW v \in Names, NEW es,
           es \in {Declared(entries, v), AfterMove(entries, v),
                   AfterShared(entries, v), AfterMut(entries, v),
                   AfterAssign(entries, v)}
    PROVE  /\ DOMAIN es \subseteq Names
           /\ es \in [DOMAIN es -> Entry]
<1>1. Declared(entries, v) \in [DOMAIN entries \cup {v} -> Entry]
  BY DEF Declared, TypeOK, NewEntry, Entry
<1>2. ASSUME Tracked(entries, v)
      PROVE  /\ [entries EXCEPT ![v].moved = TRUE] \in [DOMAIN entries -> Entry]
             /\ [entries EXCEPT ![v].moved = FALSE] \in [DOMAIN entries -> Entry]
             /\ [entries EXCEPT ![v].mut = TRUE] \in [DOMAIN entries -> Entry]
             /\ [entries EXCEPT ![v].shared = @ + 1] \in [DOMAIN entries -> Entry]
  <2>1. entries[v] \in Entry /\ entries \in [DOMAIN entries -> Entry]
    BY <1>2 DEF TypeOK, Tracked
  <2>2. /\ [entries[v] EXCEPT !.moved = TRUE] \in Entry
        /\ [entries[v] EXCEPT !.moved = FALSE] \in Entry
        /\ [entries[v] EXCEPT !.mut = TRUE] \in Entry
        /\ [entries[v] EXCEPT !.shared = @ + 1] \in Entry
    BY <2>1, EntryUpdates
  <2>. QED
    BY <2>1, <2>2
<1>3. /\ AfterMove(entries, v) \in [DOMAIN entries -> Entry]
      /\ AfterShared(entries, v) \in [DOMAIN entries -> Entry]
      /\ AfterMut(entries, v) \in [DOMAIN entries -> Entry]
      /\ AfterAssign(entries, v) \in [DOMAIN entries -> Entry]
  BY <1>2 DEF AfterMove, AfterShared, AfterMut, AfterAssign, TypeOK
<1>. QED
  BY <1>1, <1>3 DEF TypeOK

LEMMA InitTyped == Init => TypeOK /\ Exclusive
  BY DEF Init, NoEntries, TypeOK, Exclusive

\* An API call about v other than the two that change scopes.
Call(v) ==
    \/ DeclVar(v)
    \/ CheckMove(v)
    \/ CheckSharedBorrow(v)
    \/ CheckMutBorrow(v)
    \/ CheckUse(v)
    \/ CheckAssign(v)

LEMMA CallTyped ==
    ASSUME TypeOK, NEW v \in Names, Call(v)
    PROVE  TypeOK'
<1>1. DOMAIN entries' \subseteq Names /\ entries' \in [DOMAIN entries' -> Entry]
  <2>1. CASE CheckUse(v)
    BY <2>1 DEF CheckUse, TypeOK
  <2>2. CASE ~ CheckUse(v)
    BY <2>2, TableOperators DEF Call, DeclVar, CheckMove, CheckSharedBorrow,
                                CheckMutBorrow, CheckAssign
  <2>. QED
    BY <2>1, <2>2
<1>2. error_count' \in Nat
  BY DEF Call, DeclVar, CheckMove, CheckSharedBorrow, CheckMutBorrow, CheckUse,
         CheckAssign, Report, TypeOK
<1>3. UNCHANGED scope_depth
  BY DEF Call, DeclVar, CheckMove, CheckSharedBorrow, CheckMutBorrow, CheckUse,
         CheckAssign
<1>. QED
  BY <1>1, <1>2, <1>3 DEF TypeOK

LEMMA ScopeTyped ==
    ASSUME TypeOK, EnterScope \/ ExitScope
    PROVE  TypeOK'
<1>1. scope_depth' \in Nat
  BY DEF EnterScope, ExitScope, TypeOK
<1>2. UNCHANGED <<entries, error_count>>
  BY DEF EnterScope, ExitScope
<1>. QED
  BY <1>1, <1>2 DEF TypeOK

\* The table is well typed in every reachable state.
THEOREM TableTyped == Spec => []TypeOK
<1>1. TypeOK /\ [Next]_vars => TypeOK'
  <2> SUFFICES ASSUME TypeOK, [Next]_vars PROVE TypeOK'
    OBVIOUS
  <2>1. CASE UNCHANGED vars
    BY <2>1 DEF vars, TypeOK
  <2>. QED
    BY <2>1, CallTyped, ScopeTyped DEF Next, Call
<1>. QED
  BY <1>1, InitTyped, PTL DEF Spec

-----------------------------------------------------------------------------
\* What one call does to the entry of any name, the only fact the two results
\* below need: it declares it, or takes a right nobody else holds.
EntryStep(e, f) ==
    \/ f = e
    \/ f = NewEntry
    \/ ~Lent(e) /\ ~e.moved /\ f = [e EXCEPT !.moved = TRUE]
    \/ ~e.mut /\ ~e.moved /\ f = [e EXCEPT !.shared = @ + 1]
    \/ ~Lent(e) /\ ~e.moved /\ f = [e EXCEPT !.mut = TRUE]
    \/ ~Lent(e) /\ f = [e EXCEPT !.moved = FALSE]

\* A call about v changes v's entry by an EntryStep and no other entry.
LEMMA CallStep ==
    ASSUME TypeOK, NEW v \in Names, Call(v)
    PROVE  /\ DOMAIN entries' = DOMAIN entries \/ DOMAIN entries' = DOMAIN entries \cup {v}
           /\ \A w \in DOMAIN entries' :
                \/ w \in DOMAIN entries /\ entries'[w] = entries[w]
                \/ w = v /\ w \in DOMAIN entries /\ EntryStep(entries[w], entries'[w])
                \/ w = v /\ entries'[w] = NewEntry
<1>1. CASE DeclVar(v)
  BY <1>1 DEF DeclVar, Declared
<1>2. CASE CheckMove(v)
  BY <1>2 DEF CheckMove, AfterMove, MoveFails, Tracked, TypeOK, EntryStep
<1>3. CASE CheckSharedBorrow(v)
  BY <1>3 DEF CheckSharedBorrow, AfterShared, SharedFails, Tracked, TypeOK, EntryStep
<1>4. CASE CheckMutBorrow(v)
  BY <1>4 DEF CheckMutBorrow, AfterMut, MutFails, Tracked, TypeOK, EntryStep
<1>5. CASE CheckUse(v)
  BY <1>5 DEF CheckUse, TypeOK
<1>6. CASE CheckAssign(v)
  BY <1>6 DEF CheckAssign, AfterAssign, AssignFails, Tracked, TypeOK, EntryStep
<1>. QED
  BY <1>1, <1>2, <1>3, <1>4, <1>5, <1>6 DEF Call

EntryExclusive(e) == (e.moved => ~Lent(e)) /\ (e.mut => e.shared = 0)

LEMMA EntryStepExclusive ==
    ASSUME NEW e \in Entry, NEW f, EntryStep(e, f), EntryExclusive(e)
    PROVE  EntryExclusive(f)
  BY DEF EntryStep, EntryExclusive, Lent, NewEntry, Entry

\* No name is ever both moved and lent, nor lent to a writer and to others.
THEOREM TableExclusive == Spec => []Exclusive
<1>1. TypeOK /\ Exclusive /\ [Next]_vars => Exclusive'
  <2> SUFFICES ASSUME TypeOK, Exclusive, [Next]_vars PROVE Exclusive'
    OBVIOUS
  <2>1. \A w \in DOMAIN entries : EntryExclusive(entries[w]) /\ entries[w] \in Entry
    BY DEF Exclusive, EntryExclusive, TypeOK
  <2>2. ASSUME NEW v \in Names, Call(v) PROVE Exclusive'
    <3> SUFFICES ASSUME NEW w \in DOMAIN entries' PROVE EntryExclusive(entries'[w])
      BY DEF Exclusive, EntryExclusive, Lent
    <3>1. EntryExclusive(NewEntry)
      BY DEF EntryExclusive, NewEntry, Lent
    <3>. QED
      BY <2>1, <2>2, <3>1, CallStep, EntryStepExclusive
  <2>3. CASE EnterScope \/ ExitScope \/ UNCHANGED vars
    BY <2>3 DEF EnterScope, ExitScope, vars, Exclusive, Lent
  <2>. QED
    BY <2>2, <2>3 DEF Next, Call
<1>. QED
  BY <1>1, InitTyped, TableTyped, PTL DEF Spec

-----------------------------------------------------------------------------
Mode(e) ==
    IF e.moved THEN "gone"
    ELSE IF e.mut THEN "exclusive"
    ELSE IF e.shared > 0 THEN "lent"
    ELSE "owned"

\* A change of an entry is the change of mode the protocol allows.
ModeStep(m, n) ==
    \/ n = m
    \/ n = "owned"
    \/ m = "owned" /\ n \in {"gone", "lent", "exclusive"}

LEMMA EntryStepMode ==
    ASSUME NEW e \in Entry, NEW f, EntryStep(e, f), EntryExclusive(e)
    PROVE  ModeStep(Mode(e), Mode(f))
  BY DEF EntryStep, EntryExclusive, Lent, NewEntry, Entry, Mode, ModeStep


THEOREM TableFollowsProtocol == Spec => FollowsProtocol
<1> DEFINE mode == [v \in Names |-> ModeOf(v)]
<1>1. Init => Protocol!Init
  BY DEF Init, NoEntries, Protocol!Init, ModeOf, Tracked
<1>2. TypeOK /\ Exclusive /\ [Next]_vars => [Protocol!Next]_mode
  <2> SUFFICES ASSUME TypeOK, Exclusive, [Next]_vars
               PROVE  Protocol!Next \/ mode' = mode
    OBVIOUS
  <2>1. ASSUME NEW v \in Names, Call(v) PROVE Protocol!Next \/ mode' = mode
    <3>1. \A w \in Names \ {v} : ModeOf(w)' = ModeOf(w)
      BY <2>1, CallStep DEF ModeOf, Tracked
    <3>2. \/ ModeOf(v)' = "owned"
          \/ v \in DOMAIN entries /\ ModeStep(ModeOf(v), ModeOf(v)')
          \/ ModeOf(v)' = ModeOf(v)
      <4>1. CASE v \notin DOMAIN entries'
        BY <2>1, <4>1, CallStep DEF ModeOf, Tracked
      <4>2. CASE v \in DOMAIN entries' /\ entries'[v] = NewEntry
        BY <4>2 DEF ModeOf, Tracked, NewEntry
      <4>3. CASE v \in DOMAIN entries' /\ v \in DOMAIN entries
        <5>1. entries[v] \in Entry /\ EntryExclusive(entries[v])
          BY <4>3 DEF TypeOK, Exclusive, EntryExclusive
        <5>2. ModeOf(v) = Mode(entries[v]) /\ ModeOf(v)' = Mode(entries'[v])
          BY <4>3 DEF ModeOf, Mode, Tracked
        <5>3. \/ entries'[v] = entries[v]
              \/ EntryStep(entries[v], entries'[v])
              \/ entries'[v] = NewEntry
          BY <2>1, <4>3, CallStep
        <5>4. Mode(NewEntry) = "owned"
          BY DEF Mode, NewEntry
        <5>. QED
          BY <4>3, <5>1, <5>2, <5>3, <5>4, EntryStepMode DEF ModeStep
      <4>. QED
        BY <2>1, <4>1, <4>2, <4>3, CallStep
    <3>3. mode' = [mode EXCEPT ![v] = ModeOf(v)']
      BY <3>1
    <3>4. CASE ModeOf(v)' = ModeOf(v)
      BY <3>1, <3>4
    <3>5. CASE ModeOf(v)' = "owned"
      BY <3>3, <3>5 DEF Protocol!Next, Protocol!Declare, Protocol!Become
    <3>6. CASE ModeOf(v) = "owned" /\ ModeOf(v)' \in {"gone", "lent", "exclusive"}
      BY <3>3, <3>6 DEF Protocol!Next, Protocol!Move, Protocol!Lend,
                        Protocol!LendToWriter, Protocol!Become
    <3>. QED
      BY <3>2, <3>4, <3>5, <3>6 DEF ModeStep
  <2>2. CASE EnterScope \/ ExitScope \/ UNCHANGED vars
    BY <2>2 DEF EnterScope, ExitScope, vars, ModeOf, Tracked
  <2>. QED
    BY <2>1, <2>2 DEF Next, Call
<1>. QED
  BY <1>1, <1>2, TableTyped, TableExclusive, PTL DEF Spec, FollowsProtocol, Protocol!Spec
=============================================================================
