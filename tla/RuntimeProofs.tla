--------------------------- MODULE RuntimeProofs ---------------------------
(***************************************************************************)
(* For any number of tasks and polls: the event loop loses no task, waits  *)
(* for all of them, and its ticks are fair.                                *)
(***************************************************************************)
EXTENDS Runtime, WellFoundedInduction, SequenceTheorems, TLAPS

Distinct(list) == \A i, j \in 1 .. Len(list) : list[i] = list[j] => i = j

\* The part of a list that starts at a place.
Rest(list, i) == {list[j] : j \in i .. Len(list)}

Future == [ready : BOOLEAN, left : 0 .. Never]
-----------------------------------------------------------------------------
(* The lists. *)

\* Induction over numbers, stated for sets: the provers do not take the library's
\* theorems about predicates.
LEMMA NumberInduction ==
    ASSUME NEW P, 0 \in P, \A n \in Nat : n \in P => n + 1 \in P
    PROVE  Nat \subseteq P
<1>. DEFINE R == OpToRel(<, Nat)
            S == {n \in Nat : n \notin P}
<1>1. SUFFICES ASSUME S # {} PROVE FALSE
  OBVIOUS
<1>2. PICK m \in S : \A n \in S : ~ (<<n, m>> \in R)
  <2>. HIDE DEF R, S
  <2>1. IsWellFoundedOn(R, Nat)
    BY NatLessThanWellFounded DEF R
  <2>2. S \subseteq Nat
    BY DEF S
  <2>. QED
    BY <1>1, <2>1, <2>2, WFMin
<1>3. m \in Nat /\ m # 0 /\ m \notin P
  OBVIOUS
<1>4. m - 1 \in Nat /\ (m - 1) + 1 = m /\ m - 1 < m
  BY <1>3
<1>5. <<m - 1, m>> \in R
  BY <1>3, <1>4 DEF OpToRel
<1>. QED
  BY <1>2, <1>3, <1>4, <1>5

\* A member is found at the one place where it is.
LEMMA PlaceFinds ==
    ASSUME NEW T, NEW list \in Seq(T)
    PROVE  /\ \A id \in Range(list) :
                 Place(list, id) \in 1 .. Len(list) /\ list[Place(list, id)] = id
           /\ Distinct(list) => \A i \in 1 .. Len(list) : Place(list, list[i]) = i
           /\ Range(list) = {list[i] : i \in 1 .. Len(list)}
           /\ Range(list) \subseteq T
<1>1. DOMAIN list = 1 .. Len(list) /\ \A i \in 1 .. Len(list) : list[i] \in T
  OBVIOUS
<1>2. Range(list) = {list[i] : i \in 1 .. Len(list)}
  BY <1>1 DEF Range
<1>3. ASSUME NEW id \in Range(list)
      PROVE  Place(list, id) \in 1 .. Len(list) /\ list[Place(list, id)] = id
  <2>1. \E i \in DOMAIN list : list[i] = id
    BY <1>1, <1>2
  <2>. QED
    BY <1>1, <2>1 DEF Place
<1>4. ASSUME Distinct(list), NEW i \in 1 .. Len(list)
      PROVE  Place(list, list[i]) = i
  <2>1. list[i] \in Range(list)
    BY <1>2
  <2>. QED
    BY <1>3, <1>4, <2>1 DEF Distinct
<1>. QED
  BY <1>1, <1>2, <1>3, <1>4

\* Unlinking one task closes the gap.
LEMMA RemoveAtCloses ==
    ASSUME NEW T, NEW list \in Seq(T), NEW r \in 1 .. Len(list)
    PROVE  /\ RemoveAt(list, r) \in Seq(T)
           /\ Len(RemoveAt(list, r)) = Len(list) - 1
           /\ \A k \in 1 .. Len(list) - 1 :
                 RemoveAt(list, r)[k] = IF k < r THEN list[k] ELSE list[k + 1]
<1>. DEFINE n == Len(list)
            s == SubSeq(list, 1, r - 1)
            t == SubSeq(list, r + 1, n)
<1>1. n \in Nat /\ r \in 1 .. n /\ \A i \in 1 .. n : list[i] \in T
  OBVIOUS
<1>. HIDE DEF n
<1>2. /\ s \in Seq(T) /\ Len(s) = r - 1
      /\ \A i \in 1 .. r - 1 : s[i] = list[i]
  <2>1. 1 \in Int /\ r - 1 \in Int /\ \A i \in 1 .. r - 1 : list[i] \in T
    BY <1>1
  <2>2. /\ s \in Seq(T)
        /\ Len(s) = IF 1 <= r - 1 THEN (r - 1) - 1 + 1 ELSE 0
        /\ \A i \in 1 .. (r - 1) - 1 + 1 : s[i] = list[1 + i - 1]
    BY <2>1, SubSeqProperties
  <2>. HIDE DEF s
  <2>. QED
    BY <1>1, <2>2
<1>3. /\ t \in Seq(T) /\ Len(t) = n - r
      /\ \A i \in 1 .. n - r : t[i] = list[r + i]
  <2>1. r + 1 \in Int /\ n \in Int /\ \A i \in r + 1 .. n : list[i] \in T
    BY <1>1
  <2>2. /\ t \in Seq(T)
        /\ Len(t) = IF r + 1 <= n THEN n - (r + 1) + 1 ELSE 0
        /\ \A i \in 1 .. n - (r + 1) + 1 : t[i] = list[(r + 1) + i - 1]
    BY <2>1, SubSeqProperties
  <2>. HIDE DEF t
  <2>3. \A i \in 1 .. n - r : (r + 1) + i - 1 = r + i /\ i \in 1 .. n - (r + 1) + 1
    BY <1>1
  <2>. QED
    BY <1>1, <2>2, <2>3
<1>4. RemoveAt(list, r) = s \o t
  BY DEF RemoveAt, n
<1>. HIDE DEF s, t
<1>5. /\ s \o t \in Seq(T) /\ Len(s \o t) = Len(s) + Len(t)
      /\ \A i \in 1 .. Len(s) + Len(t) :
            (s \o t)[i] = IF i <= Len(s) THEN s[i] ELSE t[i - Len(s)]
  BY <1>2, <1>3, ConcatProperties
<1>6. Len(s \o t) = n - 1
  BY <1>1, <1>2, <1>3, <1>5
<1>7. ASSUME NEW k \in 1 .. n - 1
      PROVE  (s \o t)[k] = IF k < r THEN list[k] ELSE list[k + 1]
  <2>1. k \in 1 .. Len(s) + Len(t)
    BY <1>1, <1>2, <1>3
  <2>2. CASE k < r
    BY <1>1, <1>2, <1>5, <2>1, <2>2
  <2>3. CASE ~ (k < r)
    <3>1. k - (r - 1) \in 1 .. n - r /\ r + (k - (r - 1)) = k + 1 /\ ~ (k <= r - 1)
      BY <1>1, <2>3
    <3>. QED
      BY <1>2, <1>3, <1>5, <2>1, <2>3, <3>1
  <2>. QED
    BY <2>2, <2>3
<1>. QED
  BY <1>4, <1>5, <1>6, <1>7 DEF n

\* A new task goes in front of all others.
LEMMA AddInFront ==
    ASSUME NEW T, NEW list \in Seq(T), NEW id \in T
    PROVE  /\ <<id>> \o list \in Seq(T)
           /\ Len(<<id>> \o list) = Len(list) + 1
           /\ (<<id>> \o list)[1] = id
           /\ \A k \in 1 .. Len(list) : (<<id>> \o list)[k + 1] = list[k]
<1>1. <<id>> \in Seq(T) /\ Len(<<id>>) = 1 /\ <<id>>[1] = id
  OBVIOUS
<1>2. /\ <<id>> \o list \in Seq(T)
      /\ Len(<<id>> \o list) = 1 + Len(list)
      /\ \A i \in 1 .. 1 + Len(list) :
            (<<id>> \o list)[i] = IF i <= 1 THEN <<id>>[i] ELSE list[i - 1]
  BY <1>1, ConcatProperties
<1>. QED
  BY <1>1, <1>2

\* The lists Unlinked builds on its way through a list.
Building(g, list, out, n) ==
    \A i \in 0 .. n :
        g[i] = IF i = 0 THEN <<>>
               ELSE IF list[i] \in out THEN g[i - 1] ELSE Append(g[i - 1], list[i])

\* They exist, for a list of any length.
LEMMA UnlinkedBuilds ==
    ASSUME NEW T, NEW list \in Seq(T), NEW out
    PROVE  \E g \in [0 .. Len(list) -> Seq(T)] :
              /\ Building(g, list, out, Len(list))
              /\ Unlinked(list, out) = g[Len(list)]
<1>. DEFINE L == Len(list)
            P == {n \in Nat : n <= L =>
                    \E g \in [0 .. n -> Seq(T)] : Building(g, list, out, n)}
            D(g) == [i \in 0 .. L |->
                       IF i = 0 THEN <<>>
                       ELSE IF list[i] \in out THEN g[i - 1] ELSE Append(g[i - 1], list[i])]
<1>1. L \in Nat /\ \A i \in 1 .. L : list[i] \in T
  OBVIOUS
<1>2. 0 \in P
  <2>1. [i \in 0 .. 0 |-> <<>>] \in [0 .. 0 -> Seq(T)]
    BY EmptySeq
  <2>2. Building([i \in 0 .. 0 |-> <<>>], list, out, 0)
    BY DEF Building
  <2>. QED
    BY <2>1, <2>2
<1>3. ASSUME NEW n \in Nat, n \in P PROVE n + 1 \in P
  <2>1. SUFFICES ASSUME n + 1 <= L
                 PROVE  \E h \in [0 .. n + 1 -> Seq(T)] : Building(h, list, out, n + 1)
    OBVIOUS
  <2>2. n <= L /\ n + 1 \in 1 .. L
    BY <1>1, <2>1
  <2>3. PICK g \in [0 .. n -> Seq(T)] : Building(g, list, out, n)
    BY <1>3, <2>2
  <2>. DEFINE e == IF list[n + 1] \in out THEN g[n] ELSE Append(g[n], list[n + 1])
              h == [i \in 0 .. n + 1 |-> IF i = n + 1 THEN e ELSE g[i]]
  <2>4. g[n] \in Seq(T) /\ list[n + 1] \in T
    BY <1>1, <2>2
  <2>5. e \in Seq(T)
    BY <2>4, AppendProperties
  <2>6. h \in [0 .. n + 1 -> Seq(T)]
    <3>. HIDE DEF e
    <3>1. \A i \in 0 .. n + 1 : i # n + 1 => i \in 0 .. n
      OBVIOUS
    <3>. QED
      BY <2>5, <3>1
  <2>7. Building(h, list, out, n + 1)
    <3>1. SUFFICES ASSUME NEW i \in 0 .. n + 1
                   PROVE  h[i] = IF i = 0 THEN <<>>
                                 ELSE IF list[i] \in out THEN h[i - 1]
                                 ELSE Append(h[i - 1], list[i])
      BY DEF Building
    <3>. HIDE DEF e
    <3>2. h[n] = g[n] /\ h[n + 1] = e /\ n + 1 # 0 /\ (n + 1) - 1 = n
      OBVIOUS
    <3>3. CASE i = n + 1
      BY <3>2, <3>3 DEF e
    <3>4. CASE i # n + 1
      <4>1. i \in 0 .. n /\ h[i] = g[i] /\ (i # 0 => i - 1 \in 0 .. n /\ h[i - 1] = g[i - 1])
        BY <3>4
      <4>. QED
        BY <2>3, <4>1 DEF Building
    <3>. QED
      BY <3>3, <3>4
  <2>. QED
    BY <2>6, <2>7
<1>4. L \in P
  <2>. HIDE DEF P
  <2>. QED
    BY <1>1, <1>2, <1>3, NumberInduction
<1>5. PICK g \in [0 .. L -> Seq(T)] : Building(g, list, out, L)
  BY <1>1, <1>4
<1>6. g = D(g)
  BY <1>5 DEF Building
<1>. DEFINE left == CHOOSE f : f = D(f)
<1>7. left = D(left)
  BY <1>6
<1>8. Unlinked(list, out) = left[L]
  BY DEF Unlinked
<1>9. left = g
  <2>. DEFINE Q == {n \in Nat : n <= L => left[n] = g[n]}
  <2>. HIDE DEF left
  <2>1. \A i \in 0 .. L : left[i] = D(left)[i]
    BY <1>7
  <2>2. \A i \in 0 .. L :
           /\ left[i] = IF i = 0 THEN <<>>
                        ELSE IF list[i] \in out THEN left[i - 1]
                        ELSE Append(left[i - 1], list[i])
           /\ g[i] = IF i = 0 THEN <<>>
                     ELSE IF list[i] \in out THEN g[i - 1] ELSE Append(g[i - 1], list[i])
    BY <1>5, <2>1 DEF Building
  <2>3. 0 \in Q
    BY <1>1, <2>2
  <2>4. ASSUME NEW n \in Nat, n \in Q PROVE n + 1 \in Q
    <3>1. SUFFICES ASSUME n + 1 <= L PROVE left[n + 1] = g[n + 1]
      OBVIOUS
    <3>2. n + 1 \in 0 .. L /\ n + 1 # 0 /\ (n + 1) - 1 = n /\ n <= L
      BY <1>1, <3>1
    <3>. QED
      BY <2>2, <2>4, <3>2
  <2>5. Nat \subseteq Q
    <3>. HIDE DEF Q
    <3>. QED
      BY <2>3, <2>4, NumberInduction
  <2>6. \A i \in 0 .. L : left[i] = g[i]
    BY <1>1, <2>5
  <2>7. DOMAIN left = 0 .. L /\ left = [i \in 0 .. L |-> left[i]]
    BY <1>7
  <2>8. g = [i \in 0 .. L |-> g[i]]
    OBVIOUS
  <2>. QED
    BY <2>6, <2>7, <2>8
<1>. QED
  BY <1>5, <1>8, <1>9

\* What is left is the rest of the tasks, each in one place.
LEMMA UnlinkedKeeps ==
    ASSUME NEW T, NEW list \in Seq(T), Distinct(list), NEW out
    PROVE  /\ Unlinked(list, out) \in Seq(T)
           /\ Distinct(Unlinked(list, out))
           /\ Range(Unlinked(list, out)) = Range(list) \ out
<1>. DEFINE L == Len(list)
<1>1. PICK g \in [0 .. L -> Seq(T)] :
         Building(g, list, out, L) /\ Unlinked(list, out) = g[L]
  BY UnlinkedBuilds
<1>2. L \in Nat /\ \A i \in 1 .. L : list[i] \in T
  OBVIOUS
<1>. DEFINE Good(n) ==
              /\ \A k \in 1 .. Len(g[n]) : \E j \in 1 .. n : g[n][k] = list[j] /\ list[j] \notin out
              /\ \A j \in 1 .. n : list[j] \notin out =>
                    \E k \in 1 .. Len(g[n]) : g[n][k] = list[j]
              /\ Distinct(g[n])
            P == {n \in Nat : n <= L => Good(n)}
<1>3. 0 \in P
  <2>1. g[0] = <<>>
    BY <1>1, <1>2 DEF Building
  <2>2. Len(g[0]) = 0
    BY <2>1
  <2>. QED
    BY <2>2 DEF Distinct
<1>4. ASSUME NEW n \in Nat, n \in P PROVE n + 1 \in P
  <2>1. SUFFICES ASSUME n + 1 <= L PROVE Good(n + 1)
    OBVIOUS
  <2>2. n <= L /\ n \in 0 .. L /\ n + 1 \in 0 .. L /\ n + 1 \in 1 .. L /\ n + 1 # 0
        /\ (n + 1) - 1 = n
    BY <1>2, <2>1
  <2>3. Good(n)
    BY <1>4, <2>2
  <2>4. g[n + 1] = IF list[n + 1] \in out THEN g[n] ELSE Append(g[n], list[n + 1])
    BY <1>1, <2>2 DEF Building
  <2>5. \A j \in 1 .. n + 1 : j \in 1 .. n \/ j = n + 1
    OBVIOUS
  <2>6. \A j \in 1 .. n : j \in 1 .. n + 1
    OBVIOUS
  <2>. HIDE DEF P, L
  <2>7. CASE list[n + 1] \in out
    BY <2>3, <2>4, <2>5, <2>6, <2>7
  <2>8. CASE list[n + 1] \notin out
    <3>. DEFINE s == g[n]
                m == Len(s)
                x == list[n + 1]
    <3>1. s \in Seq(T) /\ x \in T /\ m \in Nat
      BY <1>2, <2>2
    <3>2. /\ Len(g[n + 1]) = m + 1
          /\ \A k \in 1 .. m : g[n + 1][k] = s[k]
          /\ g[n + 1][m + 1] = x
      BY <2>4, <2>8, <3>1, AppendProperties
    <3>3. \A k \in 1 .. m + 1 : k \in 1 .. m \/ k = m + 1
      BY <3>1
    <3>4. m + 1 \in 1 .. m + 1 /\ \A k \in 1 .. m : k \in 1 .. m + 1
      BY <3>1
    <3>5. n + 1 \in 1 .. n + 1
      OBVIOUS
    <3>6. \A k \in 1 .. m : s[k] # x
      <4>1. TAKE k \in 1 .. m
      <4>2. PICK j \in 1 .. n : s[k] = list[j]
        BY <2>3
      <4>3. j \in 1 .. Len(list) /\ n + 1 \in 1 .. Len(list) /\ j # n + 1
        BY <2>2 DEF L
      <4>. QED
        BY <4>2, <4>3 DEF Distinct
    <3>7. \A k \in 1 .. m : \E j \in 1 .. n : s[k] = list[j] /\ list[j] \notin out
      BY <2>3
    <3>8. \A j \in 1 .. n : list[j] \notin out => \E k \in 1 .. m : s[k] = list[j]
      BY <2>3
    <3>9. \A i, j \in 1 .. m : s[i] = s[j] => i = j
      BY <2>3 DEF Distinct
    <3>. HIDE DEF s, m, x
    <3>10. \A k \in 1 .. m + 1 : \E j \in 1 .. n + 1 : g[n + 1][k] = list[j] /\ list[j] \notin out
      BY <2>6, <2>8, <3>2, <3>3, <3>5, <3>7 DEF x
    <3>11. \A j \in 1 .. n + 1 : list[j] \notin out => \E k \in 1 .. m + 1 : g[n + 1][k] = list[j]
      BY <2>5, <3>2, <3>4, <3>8 DEF x
    <3>12. \A i, j \in 1 .. m + 1 : g[n + 1][i] = g[n + 1][j] => i = j
      BY <3>2, <3>3, <3>6, <3>9
    <3>. QED
      BY <3>2, <3>10, <3>11, <3>12 DEF Distinct
  <2>. QED
    BY <2>7, <2>8
<1>5. Good(L)
  <2>1. L \in P
    <3>. HIDE DEF P
    <3>. QED
      BY <1>2, <1>3, <1>4, NumberInduction
  <2>. QED
    BY <1>2, <2>1
<1>6. g[L] \in Seq(T)
  BY <1>2
<1>7. /\ Range(g[L]) = {g[L][k] : k \in 1 .. Len(g[L])}
      /\ Range(list) = {list[j] : j \in 1 .. L}
  BY <1>6, PlaceFinds
<1>. HIDE DEF L
<1>8. Range(g[L]) = Range(list) \ out
  <2>1. ASSUME NEW x \in Range(g[L]) PROVE x \in Range(list) \ out
    <3>1. PICK k \in 1 .. Len(g[L]) : x = g[L][k]
      BY <1>7
    <3>. QED
      BY <1>5, <1>7, <3>1
  <2>2. ASSUME NEW x \in Range(list) \ out PROVE x \in Range(g[L])
    <3>1. PICK j \in 1 .. L : x = list[j]
      BY <1>7
    <3>2. PICK k \in 1 .. Len(g[L]) : g[L][k] = list[j]
      BY <1>5, <3>1
    <3>. QED
      BY <1>7, <3>1, <3>2
  <2>. QED
    BY <2>1, <2>2
<1>. QED
  BY <1>1, <1>5, <1>6, <1>8
-----------------------------------------------------------------------------
(***************************************************************************)
(* The invariant.  Beside the types: the loop of runtime_tick is at a task *)
(* of the list, and the tasks from there on are those this tick still has  *)
(* to serve, but for the ones that are completed or have been taken out.   *)
(***************************************************************************)
From == IF at = NULL THEN Len(tasks) + 1 ELSE Place(tasks, at)

Ahead ==
    pc = "tick" =>
        /\ owed \cap completed = {}
        /\ owed \subseteq removed \cup Rest(tasks, From)
        /\ Rest(tasks, From) \subseteq completed \cup owed

IInv ==
    /\ TypeOK
    /\ Listed \subseteq Spawned
    /\ at # NULL => pc = "tick" /\ at \in Listed
    /\ Ahead

\* The ids of the tasks are below the number that stands for NULL.
LEMMA SpawnedIds ==
    /\ next_task_id \in 0 .. MaxTasks => NULL \notin Spawned /\ Spawned \subseteq Ids
    /\ next_task_id' \in 0 .. MaxTasks => NULL \notin Spawned' /\ Spawned' \subseteq Ids
<1>1. MaxTasks \in Nat
  BY RuntimeAssumption
<1>2. ASSUME NEW n \in 0 .. MaxTasks, NEW i \in 0 .. n - 1
      PROVE  i # MaxTasks /\ i \in 0 .. MaxTasks - 1
  BY <1>1
<1>. QED
  BY <1>2, Zenon DEF Spawned, NULL, Ids

\* What IInv says of the list, in the words of the lemmas about lists.
LEMMA ListFacts ==
    ASSUME IInv
    PROVE  /\ tasks \in Seq(Spawned) /\ Distinct(tasks) /\ Len(tasks) \in Nat
           /\ Listed = {tasks[i] : i \in 1 .. Len(tasks)}
           /\ next_task_id \in 0 .. MaxTasks /\ NULL \notin Spawned
           /\ Spawned \subseteq Ids /\ MaxTasks \in Nat
<1>1. /\ tasks \in Seq(Ids) /\ next_task_id \in 0 .. MaxTasks
      /\ \A i, j \in DOMAIN tasks : tasks[i] = tasks[j] => i = j
      /\ Listed \subseteq Spawned
  BY DEF IInv, TypeOK
<1>2. Distinct(tasks) /\ Len(tasks) \in Nat
  BY <1>1 DEF Distinct
<1>3. Listed = {tasks[i] : i \in 1 .. Len(tasks)}
  BY <1>1, PlaceFinds DEF Listed
<1>4. tasks \in Seq(Spawned)
  <2>1. tasks \in [1 .. Len(tasks) -> Spawned]
    BY <1>1, <1>3
  <2>. QED
    BY <1>2, <2>1, SeqDef
<1>5. NULL \notin Spawned /\ Spawned \subseteq Ids /\ MaxTasks \in Nat
  BY <1>1, RuntimeAssumption DEF NULL, Spawned, Ids
<1>. QED
  BY <1>1, <1>2, <1>3, <1>4, <1>5

\* What a program or a poll may do keeps the list one, and loses no task.
EffectKept ==
    /\ tasks' \in Seq(Spawned') /\ Distinct(tasks')
    /\ task_count' = Len(tasks')
    /\ next_task_id' \in 0 .. MaxTasks
    /\ future' \in [Spawned' -> Future]
    /\ Spawned \subseteq Spawned'
    /\ removed' \subseteq Spawned'
    /\ Spawned' \subseteq Range(tasks') \cup completed \cup removed'

LEMMA SpawnKeeps ==
    ASSUME IInv, NEW f \in [Spawned -> Future], NEW n \in 0 .. Never, NEW ready \in BOOLEAN,
           Spawn(n, ready, f)
    PROVE  EffectKept
<1>. DEFINE id == next_task_id
<1>1. /\ tasks \in Seq(Spawned) /\ Distinct(tasks) /\ Len(tasks) \in Nat
      /\ Listed = {tasks[i] : i \in 1 .. Len(tasks)} /\ id \in Nat /\ MaxTasks \in Nat
  BY ListFacts
<1>2. /\ id < MaxTasks /\ id' = id + 1 /\ removed' = removed
      /\ tasks' = <<id>> \o tasks /\ task_count' = task_count + 1
      /\ future' = [x \in 0 .. id |->
                      IF x = id THEN [ready |-> ready, left |-> n] ELSE f[x]]
  BY DEF Spawn, Add
<1>. HIDE DEF id
<1>3. Spawned' = 0 .. id /\ Spawned = 0 .. id - 1 /\ Spawned' = Spawned \cup {id}
      /\ id \notin Spawned
  BY <1>1, <1>2 DEF Spawned, id
<1>4. tasks \in Seq(Spawned')
  BY <1>1, <1>3, SeqMonotonic
<1>5. /\ tasks' \in Seq(Spawned') /\ Len(tasks') = Len(tasks) + 1
      /\ tasks'[1] = id /\ \A k \in 1 .. Len(tasks) : tasks'[k + 1] = tasks[k]
  BY <1>2, <1>3, <1>4, AddInFront
<1>6. \A i \in 1 .. Len(tasks) + 1 : i = 1 \/ (i - 1 \in 1 .. Len(tasks) /\ (i - 1) + 1 = i)
  BY <1>1
<1>7. \A i \in 1 .. Len(tasks) : tasks[i] # id
  BY <1>1, <1>3
<1>8. Distinct(tasks')
  <2>1. SUFFICES ASSUME NEW i \in 1 .. Len(tasks) + 1, NEW j \in 1 .. Len(tasks) + 1,
                        tasks'[i] = tasks'[j]
                 PROVE  i = j
    BY <1>5 DEF Distinct
  <2>2. (i = 1) <=> (j = 1)
    <3>1. ASSUME NEW k \in 1 .. Len(tasks) + 1, k # 1 PROVE tasks'[k] # id
      <4>1. k - 1 \in 1 .. Len(tasks) /\ (k - 1) + 1 = k
        BY <1>6, <3>1
      <4>. QED
        BY <1>5, <1>7, <4>1
    <3>. QED
      BY <1>5, <2>1, <3>1
  <2>3. ASSUME i # 1, j # 1 PROVE i - 1 = j - 1
    <3>1. /\ i - 1 \in 1 .. Len(tasks) /\ (i - 1) + 1 = i
          /\ j - 1 \in 1 .. Len(tasks) /\ (j - 1) + 1 = j
      BY <1>6, <2>3
    <3>2. tasks[i - 1] = tasks'[i] /\ tasks[j - 1] = tasks'[j]
      BY <1>5, <3>1
    <3>. QED
      BY <1>1, <2>1, <3>1, <3>2 DEF Distinct
  <2>. QED
    BY <2>2, <2>3
<1>9. future' \in [Spawned' -> Future]
  <2>1. [ready |-> ready, left |-> n] \in Future
    BY DEF Future
  <2>2. \A x \in Spawned' : x # id => f[x] \in Future
    BY <1>3
  <2>. HIDE DEF Future
  <2>. QED
    BY <1>2, <1>3, <2>1, <2>2
<1>10. Range(tasks') = Listed \cup {id}
  <2>1. Range(tasks') = {tasks'[i] : i \in 1 .. Len(tasks) + 1}
    BY <1>5, PlaceFinds
  <2>2. 1 \in 1 .. Len(tasks) + 1 /\ \A k \in 1 .. Len(tasks) : k + 1 \in 1 .. Len(tasks) + 1
    BY <1>1
  <2>3. Range(tasks') \subseteq Listed \cup {id}
    <3>1. SUFFICES ASSUME NEW i \in 1 .. Len(tasks) + 1, i # 1
                   PROVE  tasks'[i] \in Listed
      BY <1>5, <2>1
    <3>2. i - 1 \in 1 .. Len(tasks) /\ (i - 1) + 1 = i
      BY <1>6, <3>1
    <3>3. tasks'[i] = tasks[i - 1]
      BY <1>5, <3>2
    <3>. QED
      BY <1>1, <3>2, <3>3
  <2>4. Listed \cup {id} \subseteq Range(tasks')
    BY <1>1, <1>5, <2>1, <2>2
  <2>. QED
    BY <2>3, <2>4
<1>11. removed \subseteq Spawned /\ Spawned \subseteq Listed \cup completed \cup removed
       /\ task_count = Len(tasks)
  BY DEF IInv, TypeOK
<1>. QED
  <2>1. task_count' = Len(tasks') /\ next_task_id' \in 0 .. MaxTasks
    BY <1>1, <1>2, <1>5, <1>11 DEF id
  <2>2. removed' \subseteq Spawned' /\ Spawned \subseteq Spawned'
    BY <1>2, <1>3, <1>11
  <2>3. Spawned' \subseteq Range(tasks') \cup completed \cup removed'
    BY <1>2, <1>3, <1>10, <1>11
  <2>. QED
    BY <1>5, <1>8, <1>9, <2>1, <2>2, <2>3 DEF EffectKept

LEMMA RemoveKeeps ==
    ASSUME IInv, NEW f \in [Spawned -> Future], NEW id \in Spawned, RemoveTask(id, f)
    PROVE  EffectKept
<1>. DEFINE r == Place(tasks, id)
            n == Len(tasks)
<1>1. /\ tasks \in Seq(Spawned) /\ Distinct(tasks) /\ n \in Nat
      /\ Listed = {tasks[i] : i \in 1 .. n} /\ next_task_id \in 0 .. MaxTasks
  BY ListFacts
<1>2. r \in 1 .. n /\ tasks[r] = id
  BY <1>1, PlaceFinds DEF RemoveTask, Listed
<1>3. /\ tasks' = RemoveAt(tasks, r) /\ task_count' = task_count - 1
      /\ removed' = removed \cup {id} /\ future' = f /\ next_task_id' = next_task_id
  BY DEF RemoveTask
<1>. HIDE DEF r, n
<1>4. Spawned' = Spawned
  BY <1>3 DEF Spawned
<1>5. /\ tasks' \in Seq(Spawned) /\ Len(tasks') = n - 1
      /\ \A k \in 1 .. n - 1 : tasks'[k] = IF k < r THEN tasks[k] ELSE tasks[k + 1]
  BY <1>1, <1>2, <1>3, RemoveAtCloses DEF n
<1>. DEFINE old(k) == IF k < r THEN k ELSE k + 1
<1>6. \A k \in 1 .. n - 1 : old(k) \in 1 .. n /\ old(k) # r /\ tasks'[k] = tasks[old(k)]
  BY <1>1, <1>2, <1>5
<1>7. \A i, j \in 1 .. n - 1 : old(i) = old(j) => i = j
  BY <1>1, <1>2
<1>8. \A m \in 1 .. n : m # r => \E k \in 1 .. n - 1 : old(k) = m
  <2>1. TAKE m \in 1 .. n
  <2>2. CASE m < r
    <3>1. m \in 1 .. n - 1 /\ old(m) = m
      BY <1>1, <1>2, <2>2
    <3>. QED
      BY <3>1
  <2>3. CASE m > r
    <3>1. m - 1 \in 1 .. n - 1 /\ old(m - 1) = m
      BY <1>1, <1>2, <2>3
    <3>. QED
      BY <3>1
  <2>. QED
    BY <1>1, <1>2, <2>2, <2>3
<1>. HIDE DEF old
<1>9. Distinct(tasks')
  BY <1>1, <1>5, <1>6, <1>7 DEF Distinct, n
<1>10. Range(tasks') = {tasks'[k] : k \in 1 .. n - 1}
  BY <1>5, PlaceFinds
<1>11. Listed \subseteq Range(tasks') \cup {id}
  <2>1. SUFFICES ASSUME NEW m \in 1 .. n, m # r PROVE tasks[m] \in Range(tasks')
    BY <1>1, <1>2
  <2>2. PICK k \in 1 .. n - 1 : old(k) = m
    BY <1>8, <2>1
  <2>. QED
    BY <1>6, <1>10, <2>2
<1>12. /\ removed \subseteq Spawned /\ Spawned \subseteq Listed \cup completed \cup removed
       /\ task_count = n
  BY DEF IInv, TypeOK, n
<1>. QED
  BY <1>1, <1>3, <1>4, <1>5, <1>9, <1>11, <1>12 DEF EffectKept

LEMMA EffectKeeps ==
    ASSUME IInv, NEW f \in [Spawned -> Future], NEW self, Effect(self, f)
    PROVE  EffectKept
<1>1. /\ tasks \in Seq(Spawned) /\ Distinct(tasks) /\ next_task_id \in 0 .. MaxTasks
      /\ task_count = Len(tasks) /\ removed \subseteq Spawned
      /\ Spawned \subseteq Range(tasks) \cup completed \cup removed
  BY ListFacts DEF IInv, TypeOK, Listed
<1>2. CASE future' = f /\ UNCHANGED <<tasks, task_count, next_task_id, removed>>
  BY <1>1, <1>2 DEF EffectKept, Spawned, Distinct
<1>3. ASSUME NEW id \in Spawned, Wake(id, f) PROVE EffectKept
  <2>1. [f EXCEPT ![id].ready = FALSE] \in [Spawned -> Future]
    <3>1. [f[id] EXCEPT !.ready = FALSE] \in Future
      BY Zenon DEF Future
    <3>. QED
      BY <3>1
  <2>. QED
    BY <1>1, <1>3, <2>1 DEF Wake, EffectKept, Spawned, Distinct
<1>. QED
  BY <1>2, <1>3, SpawnKeeps, RemoveKeeps DEF Effect

\* A poll changes its own future and leaves it well typed.
LEMMA PolledTyped ==
    ASSUME IInv, NEW id \in Spawned
    PROVE  Polled(id) \in [Spawned -> Future]
<1>1. future \in [Spawned -> Future] /\ future[id] \in Future
  BY DEF IInv, TypeOK, Future
<1>2. future[id].left \in 0 .. Never /\ Never \in Nat
  BY <1>1, RuntimeAssumption DEF Future, Never
<1>. DEFINE l == future[id].left
            e == [ready |-> l = 0, left |-> IF l \in {0, Never} THEN l ELSE l - 1]
<1>3. (IF l \in {0, Never} THEN l ELSE l - 1) \in 0 .. Never
  BY <1>2
<1>4. e \in Future
  BY <1>3 DEF Future
<1>5. Polled(id) = [future EXCEPT ![id] = e]
  BY DEF Polled
<1>. QED
  BY <1>1, <1>4, <1>5

\* One step along the list during a poll: the tasks behind the polled one stay
\* behind the new position, but for one the poll takes out, and no others come
\* there.
LEMMA PollAdvances ==
    ASSUME IInv, at # NULL, NEW f \in [Spawned -> Future], Effect(at, f),
           at' = NextOf(at)
    PROVE  /\ at' # NULL => at' \in Range(tasks')
           /\ Rest(tasks', From') \subseteq Rest(tasks, From + 1)
           /\ Rest(tasks, From + 1) \subseteq Rest(tasks', From') \cup removed'
<1>. DEFINE n == Len(tasks)
            p == From
<1>1. /\ tasks \in Seq(Spawned) /\ Distinct(tasks) /\ n \in Nat
      /\ Listed = {tasks[i] : i \in 1 .. n} /\ NULL \notin Spawned
  BY ListFacts
<1>2. at \in Range(tasks)
  BY DEF IInv, Listed
<1>3. p \in 1 .. n /\ tasks[p] = at
  BY <1>1, <1>2, PlaceFinds DEF From
<1>4. EffectKept
  BY EffectKeeps
<1>5. tasks' \in Seq(Spawned') /\ Distinct(tasks') /\ NULL' \notin Spawned' /\ Len(tasks') \in Nat
  <2>1. next_task_id' \in 0 .. MaxTasks /\ tasks' \in Seq(Spawned')
    BY <1>4 DEF EffectKept
  <2>2. NULL \notin Spawned'
    BY <2>1, SpawnedIds
  <2>3. Len(tasks') \in Nat
    BY <2>1, LenProperties
  <2>. QED
    BY <1>4, <2>2, <2>3 DEF EffectKept, NULL
\* Where the loop is afterwards, from where its next task is.
<1>6. ASSUME NEW q \in 1 .. Len(tasks') + 1,
             at' = IF q = Len(tasks') + 1 THEN NULL ELSE tasks'[q]
      PROVE  From' = q /\ (at' # NULL => at' \in Range(tasks'))
  <2>1. CASE q = Len(tasks') + 1
    BY <1>6, <2>1 DEF From, NULL
  <2>2. CASE q # Len(tasks') + 1
    <3>1. q \in 1 .. Len(tasks') /\ at' = tasks'[q] /\ tasks'[q] \in Spawned'
      BY <1>5, <1>6, <2>2
    <3>2. Place(tasks', tasks'[q]) = q /\ tasks'[q] \in Range(tasks')
      BY <1>5, <3>1, PlaceFinds
    <3>3. at' # NULL'
      BY <1>5, <3>1
    <3>. QED
      BY <3>1, <3>2, <3>3 DEF From
  <2>. QED
    BY <2>1, <2>2
<1>7. \A q \in 1 .. Len(tasks') :
         at \in Range(tasks') /\ tasks'[q] = at =>
            at' = IF q + 1 = Len(tasks') + 1 THEN NULL ELSE tasks'[q + 1]
  <2>1. TAKE q \in 1 .. Len(tasks')
  <2>2. HAVE at \in Range(tasks') /\ tasks'[q] = at
  <2>3. Place(tasks', at) = q
    BY <1>5, <2>2, PlaceFinds
  <2>. QED
    BY <1>5, <2>2, <2>3 DEF NextOf, After
<1>. HIDE DEF p
<1>8. CASE UNCHANGED <<tasks, removed>>
  <2>1. at' = IF p + 1 = n + 1 THEN NULL ELSE tasks[p + 1]
    BY <1>2, <1>3, <1>7, <1>8
  <2>2. p + 1 \in 1 .. n + 1
    BY <1>1, <1>3
  <2>3. From' = p + 1 /\ (at' # NULL => at' \in Range(tasks'))
    BY <1>6, <1>8, <2>1, <2>2
  <2>. QED
    BY <1>8, <2>3 DEF Rest, p
<1>9. ASSUME NEW k \in 0 .. Never, NEW ready \in BOOLEAN, Spawn(k, ready, f)
      PROVE  /\ at' # NULL => at' \in Range(tasks')
             /\ Rest(tasks', From') \subseteq Rest(tasks, p + 1)
             /\ Rest(tasks, p + 1) \subseteq Rest(tasks', From') \cup removed'
  <2>. DEFINE id == next_task_id
  <2>1. tasks' = <<id>> \o tasks /\ id \in Nat
    BY <1>9, ListFacts DEF Spawn, Add
  <2>2. tasks \in Seq(Nat)
    <3>1. Spawned \subseteq Nat
      BY <2>1 DEF Spawned
    <3>. QED
      BY <1>1, <3>1, SeqMonotonic
  <2>3. Len(tasks') = n + 1 /\ \A i \in 1 .. n : tasks'[i + 1] = tasks[i]
    BY <2>1, <2>2, AddInFront
  <2>4. p + 1 \in 1 .. Len(tasks') /\ tasks'[p + 1] = at /\ p + 2 \in 1 .. Len(tasks') + 1
    BY <1>1, <1>3, <2>3
  <2>5. at \in Range(tasks')
    BY <1>5, <2>4, PlaceFinds
  <2>6. at' = IF p + 2 = Len(tasks') + 1 THEN NULL ELSE tasks'[p + 2]
    <3>1. (p + 1) + 1 = p + 2
      BY <1>3
    <3>. QED
      BY <1>7, <2>4, <2>5, <3>1
  <2>7. From' = p + 2 /\ (at' # NULL => at' \in Range(tasks'))
    BY <1>6, <2>4, <2>6
  <2>8. Rest(tasks', p + 2) = Rest(tasks, p + 1)
    <3>1. ASSUME NEW i \in p + 2 .. n + 1 PROVE tasks'[i] \in Rest(tasks, p + 1)
      <4>1. i - 1 \in p + 1 .. n /\ i - 1 \in 1 .. n /\ (i - 1) + 1 = i
        BY <1>1, <1>3
      <4>. QED
        BY <2>3, <4>1 DEF Rest
    <3>2. ASSUME NEW i \in p + 1 .. n PROVE tasks[i] \in Rest(tasks', p + 2)
      <4>1. i + 1 \in p + 2 .. n + 1 /\ i \in 1 .. n
        BY <1>1, <1>3
      <4>. QED
        BY <2>3, <4>1 DEF Rest
    <3>. QED
      BY <2>3, <3>1, <3>2 DEF Rest
  <2>. QED
    BY <2>7, <2>8
<1>10. ASSUME NEW id \in Spawned, RemoveTask(id, f)
       PROVE  /\ at' # NULL => at' \in Range(tasks')
              /\ Rest(tasks', From') \subseteq Rest(tasks, p + 1)
              /\ Rest(tasks, p + 1) \subseteq Rest(tasks', From') \cup removed'
  <2>. DEFINE r == Place(tasks, id)
  <2>1. r \in 1 .. n /\ tasks[r] = id
    BY <1>1, <1>10, PlaceFinds DEF RemoveTask, Listed
  <2>2. tasks' = RemoveAt(tasks, r) /\ removed' = removed \cup {id}
    BY <1>10 DEF RemoveTask
  <2>. HIDE DEF r, n
  <2>3. /\ Len(tasks') = n - 1
        /\ \A k \in 1 .. n - 1 : tasks'[k] = IF k < r THEN tasks[k] ELSE tasks[k + 1]
    BY <1>1, <2>1, <2>2, RemoveAtCloses DEF n
  \* Where the task behind the polled one is afterwards.
  <2>. DEFINE q == IF r <= p THEN p ELSE p + 1
  <2>4. q \in 1 .. Len(tasks') + 1
    BY <1>1, <1>3, <2>1, <2>3
  <2>5. at' = IF q = Len(tasks') + 1 THEN NULL ELSE tasks'[q]
    <3>1. CASE r = p
      <4>1. \A i \in 1 .. Len(tasks') : tasks'[i] # at
        <5>1. TAKE i \in 1 .. Len(tasks')
        <5>2. CASE i < r
          BY <1>1, <1>3, <2>1, <2>3, <3>1, <5>2 DEF Distinct, n
        <5>3. CASE ~ (i < r)
          <6>1. i + 1 \in 1 .. n /\ i + 1 # p /\ tasks'[i] = tasks[i + 1]
            BY <1>1, <1>3, <2>1, <2>3, <3>1, <5>3
          <6>. QED
            BY <1>1, <1>3, <6>1 DEF Distinct, n
        <5>. QED
          BY <5>2, <5>3
      <4>2. at \notin Range(tasks')
        BY <1>5, <4>1, PlaceFinds
      <4>3. at' = After(tasks, at)
        BY <4>2 DEF NextOf
      <4>4. Place(tasks, at) = p
        BY <1>1, <1>3, PlaceFinds DEF n
      <4>5. at' = IF p < n THEN tasks[p + 1] ELSE NULL
        BY <4>3, <4>4 DEF After, n
      <4>6. q = p /\ (p < n => p \in 1 .. n - 1 /\ tasks'[p] = tasks[p + 1])
        BY <1>1, <1>3, <2>3, <3>1
      <4>. QED
        BY <1>1, <1>3, <2>3, <4>5, <4>6
    <3>2. CASE r # p
      <4>1. q - 1 \in 1 .. Len(tasks') /\ tasks'[q - 1] = at /\ (q - 1) + 1 = q
        <5>1. CASE r < p
          <6>1. q = p /\ p - 1 \in 1 .. n - 1 /\ ~ (p - 1 < r) /\ (p - 1) + 1 = p
            BY <1>1, <1>3, <2>1, <5>1
          <6>. QED
            BY <1>3, <2>3, <6>1
        <5>2. CASE r > p
          <6>1. q = p + 1 /\ p \in 1 .. n - 1 /\ p < r /\ (p + 1) - 1 = p
            BY <1>1, <1>3, <2>1, <5>2
          <6>. QED
            BY <1>3, <2>3, <6>1
        <5>. QED
          BY <1>3, <2>1, <3>2, <5>1, <5>2
      <4>2. at \in Range(tasks')
        BY <1>5, <4>1, PlaceFinds
      <4>. HIDE DEF q
      <4>. QED
        BY <1>7, <4>1, <4>2
    <3>. QED
      BY <3>1, <3>2
  <2>6. From' = q /\ (at' # NULL => at' \in Range(tasks'))
    BY <1>6, <2>4, <2>5
  <2>7. Rest(tasks', q) \subseteq Rest(tasks, p + 1)
    <3>1. SUFFICES ASSUME NEW i \in q .. n - 1 PROVE tasks'[i] \in Rest(tasks, p + 1)
      BY <2>3 DEF Rest
    <3>2. i \in 1 .. n - 1
      BY <1>1, <1>3
    <3>3. CASE i < r
      <4>1. i \in p + 1 .. n /\ tasks'[i] = tasks[i]
        BY <1>1, <1>3, <2>1, <2>3, <3>2, <3>3
      <4>. QED
        BY <4>1 DEF Rest, n
    <3>4. CASE ~ (i < r)
      <4>1. i + 1 \in p + 1 .. n /\ tasks'[i] = tasks[i + 1]
        BY <1>1, <1>3, <2>1, <2>3, <3>2, <3>4
      <4>. QED
        BY <4>1 DEF Rest, n
    <3>. QED
      BY <3>3, <3>4
  <2>8. Rest(tasks, p + 1) \subseteq Rest(tasks', q) \cup removed'
    <3>1. SUFFICES ASSUME NEW i \in p + 1 .. n, i # r PROVE tasks[i] \in Rest(tasks', q)
      BY <2>1, <2>2 DEF Rest, n
    <3>2. CASE i < r
      <4>1. i \in q .. n - 1 /\ i \in 1 .. n - 1
        BY <1>1, <1>3, <2>1, <3>1, <3>2
      <4>2. tasks'[i] = tasks[i]
        BY <2>3, <3>2, <4>1
      <4>. QED
        BY <2>3, <4>1, <4>2 DEF Rest
    <3>3. CASE i > r
      <4>1. i - 1 \in q .. n - 1 /\ i - 1 \in 1 .. n - 1 /\ ~ (i - 1 < r) /\ (i - 1) + 1 = i
        BY <1>1, <1>3, <2>1, <3>1, <3>3
      <4>2. tasks'[i - 1] = tasks[i]
        BY <2>3, <4>1
      <4>. QED
        BY <2>3, <4>1, <4>2 DEF Rest
    <3>. QED
      BY <1>3, <2>1, <3>1, <3>2, <3>3
  <2>. QED
    BY <2>6, <2>7, <2>8
<1>. QED
  BY <1>8, <1>9, <1>10 DEF Effect, Wake, p
-----------------------------------------------------------------------------
LEMMA InitInv == Init => IInv
<1>. SUFFICES ASSUME Init PROVE IInv
  OBVIOUS
<1>1. tasks \in Seq(Ids) /\ Len(tasks) = 0 /\ task_count = 0
  BY EmptySeq DEF Init
<1>2. Spawned = {} /\ next_task_id \in 0 .. MaxTasks
  BY RuntimeAssumption DEF Init, Spawned
<1>3. future \in [Spawned -> [ready : BOOLEAN, left : 0 .. Never]]
  <2>1. future = <<>> /\ DOMAIN <<>> = {}
    BY DEF Init
  <2>2. future = [i \in {} |-> {}]
    BY <2>1
  <2>. QED
    BY <1>2, <2>2
<1>4. Listed = {}
  <2>1. Listed = {tasks[i] : i \in 1 .. 0}
    BY <1>1, PlaceFinds DEF Listed
  <2>2. 1 .. 0 = {}
    OBVIOUS
  <2>. QED
    BY <2>1, <2>2
<1>5. call \in [op : {"none", "tick", "run", "block"}, target : Ids \cup {NULL}]
  BY DEF Init
<1>6. TypeOK
  BY <1>1, <1>2, <1>3, <1>5 DEF Init, TypeOK
<1>. QED
  BY <1>4, <1>6 DEF Init, IInv, Ahead

\* The parts of TypeOK an action about the loops leaves alone.
LEMMA SharedTyped ==
    ASSUME IInv, UNCHANGED shared, completed' \subseteq Spawned, owed' \subseteq Spawned,
           completed \subseteq completed',
           call' \in [op : {"none", "tick", "run", "block"}, target : Ids \cup {NULL}],
           pc' \in {"idle", "tick", "sweep", "again", "rest"},
           at' \in Spawned \cup {NULL}
    PROVE  TypeOK' /\ Listed' = Listed /\ Spawned' = Spawned /\ removed' = removed
           /\ tasks' = tasks /\ NULL' = NULL
BY DEF IInv, TypeOK, shared, Spawned, Listed, NULL

\* A program or a poll that does something to the tasks.
LEMMA EffectTyped ==
    ASSUME IInv, EffectKept, completed' \subseteq Spawned', owed' \subseteq Spawned',
           completed \subseteq completed',
           call' \in [op : {"none", "tick", "run", "block"}, target : Ids \cup {NULL}],
           pc' \in {"idle", "tick", "sweep", "again", "rest"},
           at' \in Spawned' \cup {NULL}
    PROVE  TypeOK' /\ Listed' \subseteq Spawned'
<1>1. Spawned' \subseteq Ids
  BY SpawnedIds DEF EffectKept
<1>2. tasks' \in Seq(Ids) /\ DOMAIN tasks' = 1 .. Len(tasks')
  BY <1>1, SeqMonotonic, LenProperties DEF EffectKept
<1>3. Listed' \subseteq Spawned'
  BY PlaceFinds DEF EffectKept, Listed
<1>4. /\ Ids' = Ids /\ NULL' = NULL /\ Never' = Never
  BY DEF Ids, NULL, Never
<1>. QED
  BY <1>2, <1>3, <1>4 DEF EffectKept, TypeOK, Distinct, Listed, Future

LEMMA BeginTickKeeps ==
    ASSUME IInv, BeginTick, UNCHANGED <<shared, completed>>,
           call' \in [op : {"none", "tick", "run", "block"}, target : Ids \cup {NULL}]
    PROVE  IInv'
<1>1. /\ tasks \in Seq(Spawned) /\ Distinct(tasks) /\ Len(tasks) \in Nat
      /\ Listed = {tasks[i] : i \in 1 .. Len(tasks)} /\ NULL \notin Spawned
  BY ListFacts
<1>2. at' = IF Len(tasks) = 0 THEN NULL ELSE tasks[1]
  BY <1>1, EmptySeq DEF BeginTick
<1>3. at' # NULL => at' \in Listed
  BY <1>1, <1>2
<1>4. Listed \subseteq Spawned /\ completed \subseteq Spawned
  BY DEF IInv, TypeOK
<1>5. owed' = Listed \ completed /\ pc' = "tick"
  BY DEF BeginTick
<1>6. /\ TypeOK' /\ Listed' = Listed /\ Spawned' = Spawned /\ removed' = removed
      /\ tasks' = tasks /\ NULL' = NULL /\ completed' = completed
  BY <1>3, <1>4, <1>5, SharedTyped
<1>7. Rest(tasks', From') = Listed
  <2>1. CASE Len(tasks) = 0
    BY <1>1, <1>2, <1>6, <2>1 DEF Rest, From
  <2>2. CASE Len(tasks) # 0
    <3>1. 1 \in 1 .. Len(tasks) /\ at' = tasks[1] /\ at' # NULL
      BY <1>1, <1>2, <2>2
    <3>2. From' = 1
      BY <1>1, <1>6, <3>1, PlaceFinds DEF From
    <3>. QED
      BY <1>1, <1>6, <3>2 DEF Rest
  <2>. QED
    BY <2>1, <2>2
<1>. QED
  BY <1>3, <1>4, <1>5, <1>6, <1>7 DEF IInv, Ahead

\* The loop of runtime_tick goes on to the next task without a poll.
LEMMA StepKeeps ==
    ASSUME IInv, pc = "tick", at # NULL, at' = After(tasks, at),
           UNCHANGED <<shared, call, pc>>,
           completed' = completed \cup {at}, owed' = owed \ {at}
    PROVE  IInv'
<1>. DEFINE n == Len(tasks)
            p == From
<1>1. /\ tasks \in Seq(Spawned) /\ Distinct(tasks) /\ n \in Nat
      /\ Listed = {tasks[i] : i \in 1 .. n} /\ NULL \notin Spawned
  BY ListFacts
<1>2. at \in Range(tasks)
  BY DEF IInv, Listed
<1>3. p \in 1 .. n /\ tasks[p] = at /\ p = Place(tasks, at)
  BY <1>1, <1>2, PlaceFinds DEF From
<1>. HIDE DEF p
<1>4. at' = IF p < n THEN tasks[p + 1] ELSE NULL
  BY <1>3 DEF After
<1>5. at' # NULL => at' \in Listed
  BY <1>1, <1>3, <1>4
<1>6. at \in Spawned /\ completed' \subseteq Spawned /\ owed' \subseteq Spawned /\ Listed \subseteq Spawned
  BY <1>1, <1>3 DEF IInv, TypeOK
<1>7. /\ call' \in [op : {"none", "tick", "run", "block"}, target : Ids \cup {NULL}]
      /\ pc' = "tick"
  BY DEF IInv, TypeOK
<1>8. /\ TypeOK' /\ Listed' = Listed /\ Spawned' = Spawned /\ removed' = removed
      /\ tasks' = tasks /\ NULL' = NULL
  BY <1>5, <1>6, <1>7, SharedTyped
<1>9. From' = p + 1
  <2>1. CASE p < n
    <3>1. p + 1 \in 1 .. n /\ at' = tasks[p + 1] /\ tasks[p + 1] # NULL
      BY <1>1, <1>3, <1>4, <2>1
    <3>. QED
      BY <1>1, <1>8, <3>1, PlaceFinds DEF From
  <2>2. CASE ~ (p < n)
    BY <1>1, <1>3, <1>4, <1>8, <2>2 DEF From
  <2>. QED
    BY <2>1, <2>2
<1>10. Rest(tasks, p) = {at} \cup Rest(tasks, p + 1)
  <2>1. \A j \in p .. n : j = p \/ j \in p + 1 .. n
    BY <1>1, <1>3
  <2>2. p \in p .. n /\ \A j \in p + 1 .. n : j \in p .. n
    BY <1>1, <1>3
  <2>. QED
    BY <1>3, <2>1, <2>2 DEF Rest
<1>11. at \notin Rest(tasks, p + 1)
  <2>1. \A j \in p + 1 .. n : j \in 1 .. n /\ j # p
    BY <1>1, <1>3
  <2>. QED
    BY <1>1, <1>3, <2>1 DEF Rest, Distinct
<1>12. /\ owed \subseteq removed \cup Rest(tasks, p) /\ Rest(tasks, p) \subseteq completed \cup owed
       /\ owed \cap completed = {}
  BY DEF IInv, Ahead, p
<1>13. Ahead'
  BY <1>8, <1>9, <1>10, <1>11, <1>12 DEF Ahead
<1>. QED
  BY <1>5, <1>6, <1>8, <1>13 DEF IInv

LEMMA TickPollKeeps == ASSUME IInv, TickPoll PROVE IInv'
<1>. DEFINE p == From
<1>1. /\ at \in Spawned \ completed /\ pc = "tick" /\ pc' = "tick" /\ at # NULL
      /\ Effect(at, Polled(at)) /\ at' = NextOf(at) /\ owed' = owed \ {at} /\ call' = call
      /\ completed \subseteq completed' /\ completed' \subseteq completed \cup {at}
  BY ListFacts DEF TickPoll
<1>2. Polled(at) \in [Spawned -> Future]
  BY <1>1, PolledTyped
<1>3. EffectKept
  BY <1>1, <1>2, EffectKeeps
<1>4. /\ at' # NULL => at' \in Range(tasks')
      /\ Rest(tasks', From') \subseteq Rest(tasks, p + 1)
      /\ Rest(tasks, p + 1) \subseteq Rest(tasks', From') \cup removed'
  BY <1>1, <1>2, PollAdvances
<1>5. completed' \subseteq Spawned' /\ owed' \subseteq Spawned' /\ owed \subseteq Spawned
  BY <1>1, <1>3 DEF EffectKept, IInv, TypeOK
<1>6. at' \in Spawned' \cup {NULL}
  BY <1>3, <1>4, PlaceFinds DEF EffectKept
<1>7. TypeOK' /\ Listed' \subseteq Spawned' /\ NULL' = NULL
  BY <1>1, <1>3, <1>5, <1>6, EffectTyped DEF IInv, TypeOK, NULL
<1>8. Rest(tasks, p) \subseteq {at} \cup Rest(tasks, p + 1) /\ Rest(tasks, p + 1) \subseteq Rest(tasks, p)
  <2>1. /\ tasks \in Seq(Spawned) /\ Len(tasks) \in Nat /\ at \in Range(tasks)
    BY <1>1, ListFacts DEF IInv, Listed
  <2>2. p \in 1 .. Len(tasks) /\ tasks[p] = at
    BY <1>1, <2>1, PlaceFinds DEF From
  <2>. HIDE DEF p
  <2>3. \A j \in p .. Len(tasks) : j = p \/ j \in p + 1 .. Len(tasks)
    BY <2>1, <2>2
  <2>4. \A j \in p + 1 .. Len(tasks) : j \in p .. Len(tasks)
    BY <2>1, <2>2
  <2>. QED
    BY <2>2, <2>3, <2>4 DEF Rest
<1>9. /\ owed \subseteq removed \cup Rest(tasks, p) /\ Rest(tasks, p) \subseteq completed \cup owed
      /\ owed \cap completed = {}
  BY <1>1 DEF IInv, Ahead
<1>10. at \notin Rest(tasks, p + 1)
  <2>1. /\ tasks \in Seq(Spawned) /\ Len(tasks) \in Nat /\ at \in Range(tasks) /\ Distinct(tasks)
    BY <1>1, ListFacts DEF IInv, Listed
  <2>2. p \in 1 .. Len(tasks) /\ tasks[p] = at
    BY <1>1, <2>1, PlaceFinds DEF From
  <2>. HIDE DEF p
  <2>3. \A j \in p + 1 .. Len(tasks) : j \in 1 .. Len(tasks) /\ j # p
    BY <2>1, <2>2
  <2>. QED
    BY <2>1, <2>2, <2>3 DEF Rest, Distinct
<1>11. removed \subseteq removed'
  BY <1>1, Zenon DEF Effect, Spawn, RemoveTask, Wake
<1>. HIDE DEF p
<1>12. /\ owed' \cap completed' = {}
       /\ owed' \subseteq removed' \cup Rest(tasks', From')
       /\ Rest(tasks', From') \subseteq completed' \cup owed'
  BY <1>1, <1>4, <1>8, <1>9, <1>10, <1>11
<1>. QED
  BY <1>1, <1>4, <1>7, <1>12 DEF IInv, Ahead, Listed

\* The completed tasks leave the list, and only they.
LEMMA SweepKeeps == ASSUME IInv, Sweep PROVE IInv'
<1>1. /\ tasks \in Seq(Spawned) /\ Distinct(tasks) /\ Len(tasks) \in Nat
      /\ tasks \in Seq(Ids)
  BY ListFacts DEF IInv, TypeOK
<1>2. /\ tasks' = Unlinked(tasks, completed) /\ pc' = "again" /\ at' = NULL
      /\ task_count' = task_count - (Len(tasks) - Len(tasks'))
      /\ UNCHANGED <<next_task_id, future, completed, removed, call, at, owed>>
  BY DEF Sweep, IInv
<1>3. /\ tasks' \in Seq(Ids) /\ Distinct(tasks') /\ Listed' = Listed \ completed
  BY <1>1, <1>2, UnlinkedKeeps DEF Listed
<1>4. Len(tasks') \in Nat /\ DOMAIN tasks' = 1 .. Len(tasks')
  BY <1>3, LenProperties
<1>5. task_count' = Len(tasks')
  BY <1>1, <1>2, <1>4 DEF IInv, TypeOK
<1>6. Spawned' = Spawned /\ NULL' = NULL /\ Ids' = Ids /\ Never' = Never
  BY <1>2 DEF Spawned, NULL, Ids, Never
<1>7. TypeOK'
  BY <1>2, <1>3, <1>4, <1>5, <1>6 DEF IInv, TypeOK, Distinct
<1>. QED
  BY <1>2, <1>3, <1>6, <1>7 DEF IInv, Ahead

\* A poll by runtime_block_on, and what the program does between operations.
LEMMA OutsideTickKeeps ==
    ASSUME IInv, at = NULL, UNCHANGED <<at, owed>>, NEW self, NEW f \in [Spawned -> Future],
           Effect(self, f) \/ UNCHANGED shared,
           completed \subseteq completed', completed' \subseteq Spawned,
           call' \in [op : {"none", "tick", "run", "block"}, target : Ids \cup {NULL}],
           pc' \in {"idle", "sweep", "again", "rest"}
    PROVE  IInv'
<1>1. NULL' = NULL /\ owed \subseteq Spawned /\ Listed \subseteq Spawned
  BY DEF NULL, IInv, TypeOK
<1>2. CASE UNCHANGED shared
  <2>1. TypeOK' /\ Listed' = Listed /\ Spawned' = Spawned
    BY <1>1, <1>2, SharedTyped
  <2>. QED
    BY <1>1, <2>1 DEF IInv, Ahead
<1>3. CASE Effect(self, f)
  <2>1. EffectKept
    BY <1>3, EffectKeeps
  <2>2. TypeOK' /\ Listed' \subseteq Spawned'
    BY <1>1, <2>1, EffectTyped DEF EffectKept
  <2>. QED
    BY <1>1, <2>2 DEF IInv, Ahead
<1>. QED
  BY <1>2, <1>3

LEMMA NextInv == IInv /\ [Next]_vars => IInv'
<1>. SUFFICES ASSUME IInv, [Next]_vars PROVE IInv'
  OBVIOUS
<1>. DEFINE Call == [op : {"none", "tick", "run", "block"}, target : Ids \cup {NULL}]
<1>1. /\ future \in [Spawned -> Future] /\ call \in Call
      /\ completed \subseteq Spawned /\ Listed \subseteq Spawned
      /\ at # NULL => pc = "tick" /\ at \in Spawned
      /\ pc \in {"idle", "tick", "sweep", "again", "rest"}
      /\ Spawned \subseteq Ids
  BY ListFacts DEF IInv, TypeOK, Future
<1>2. \A o \in {"none", "tick", "run", "block"}, x \in Ids \cup {NULL} :
         [op |-> o, target |-> x] \in Call
  OBVIOUS
<1>. HIDE DEF Call
<1>3. CASE Program
  BY <1>1, <1>3, OutsideTickKeeps DEF Program, Call
<1>4. CASE CallTick
  <2>1. call' \in Call
    BY <1>2, <1>4 DEF CallTick
  <2>. QED
    BY <1>4, <2>1, BeginTickKeeps DEF CallTick, Call
<1>5. CASE CallRun \/ \E id \in Spawned : CallBlockOn(id)
  <2>1. call' \in Call
    BY <1>1, <1>2, <1>5 DEF CallRun, CallBlockOn
  <2>. QED
    BY <1>1, <1>5, <2>1, OutsideTickKeeps DEF CallRun, CallBlockOn, Call
<1>6. CASE TickDone
  <2>1. call' \in Call
    BY <1>1, <1>2, <1>6 DEF TickDone, Return
  <2>. QED
    BY <1>1, <1>6, <2>1, OutsideTickKeeps DEF TickDone, Return, Call
<1>7. CASE TickSkip
  <2>1. at \notin owed /\ at # NULL
    BY <1>1, <1>7, ListFacts DEF TickSkip, IInv, Ahead
  <2>2. completed' = completed \cup {at} /\ owed' = owed \ {at}
    BY <1>7, <2>1 DEF TickSkip
  <2>. QED
    BY <1>7, <2>1, <2>2, StepKeeps DEF TickSkip
<1>8. CASE TickReady
  <2>1. at # NULL
    BY <1>8, ListFacts DEF TickReady
  <2>. QED
    BY <1>8, <2>1, StepKeeps DEF TickReady
<1>9. CASE TickPoll
  BY <1>9, TickPollKeeps
<1>10. CASE RunAgain
  <2>1. call' \in Call
    BY <1>1, <1>2, <1>10 DEF RunAgain, Return
  <2>2. CASE task_count > 0
    BY <1>10, <2>1, <2>2, BeginTickKeeps DEF RunAgain, Call
  <2>3. CASE ~ (task_count > 0)
    BY <1>1, <1>10, <2>1, <2>3, OutsideTickKeeps DEF RunAgain, Return, Call
  <2>. QED
    BY <2>2, <2>3
<1>11. CASE Sweep
  BY <1>11, SweepKeeps
<1>12. CASE BlockNoTask
  <2>1. call' \in Call
    BY <1>2, <1>12 DEF BlockNoTask, Return
  <2>. QED
    BY <1>1, <1>12, <2>1, OutsideTickKeeps DEF BlockNoTask, Return, Call
<1>13. CASE BlockPoll
  <2>. DEFINE id == call.target
  <2>1. id \in Spawned
    BY <1>1, <1>13 DEF BlockPoll
  <2>2. Polled(id) \in [Spawned -> Future]
    BY <2>1, PolledTyped
  <2>3. call' \in Call
    BY <1>1, <1>2, <1>13 DEF BlockPoll, Return
  <2>4. /\ at = NULL /\ UNCHANGED <<at, owed>> /\ pc' \in {"idle", "rest"}
        /\ completed \subseteq completed' /\ completed' \subseteq Spawned
        /\ Effect(id, Polled(id)) \/ UNCHANGED shared
    BY <1>1, <1>13, <2>1, Zenon DEF BlockPoll, Return
  <2>. HIDE DEF id
  <2>. QED
    BY <2>2, <2>3, <2>4, OutsideTickKeeps DEF Call
<1>14. CASE BlockTick
  BY <1>1, <1>14, BeginTickKeeps DEF BlockTick, Call
<1>15. CASE UNCHANGED vars
  BY <1>15 DEF vars, shared, IInv, TypeOK, Ahead, From, Rest, Listed, Spawned
<1>. QED
  BY <1>3, <1>4, <1>5, <1>6, <1>7, <1>8, <1>9, <1>10, <1>11, <1>12, <1>13, <1>14, <1>15
     DEF Next, Step
-----------------------------------------------------------------------------
\* No task falls out of the list and none is in it twice, whatever polls spawn,
\* wake and remove.
THEOREM RuntimeTyped == Spec => []TypeOK
<1>1. IInv => TypeOK
  BY DEF IInv
<1>. QED
  BY InitInv, NextInv, <1>1, PTL DEF Spec

\* runtime_run returns with every task completed or taken out.
THEOREM RuntimeRunWaits == Spec => RunWaitsForAll
<1>1. ASSUME IInv, [Next]_vars
      PROVE  call.op = "run" /\ call'.op = "none" => Spawned \subseteq completed \cup removed
  <2>. SUFFICES ASSUME call.op = "run", call'.op = "none"
                PROVE  Spawned \subseteq completed \cup removed
    OBVIOUS
  <2>1. RunAgain /\ ~ (task_count > 0)
    BY <1>1 DEF Next, Step, Program, CallTick, CallRun, CallBlockOn, TickDone, TickSkip,
                TickReady, TickPoll, RunAgain, Sweep, BlockNoTask, BlockPoll, BlockTick,
                BeginTick, vars
  <2>2. Len(tasks) = 0
    BY <1>1, <2>1, ListFacts DEF IInv, TypeOK
  <2>3. Listed = {}
    BY <1>1, <2>2, ListFacts
  <2>. QED
    BY <1>1, <2>3 DEF IInv, TypeOK
<1>. QED
  BY <1>1, InitInv, NextInv, PTL DEF Spec, RunWaitsForAll

\* A tick polls the tasks that were open when it began, each once, and no others.
THEOREM RuntimeTickIsFair == Spec => TickIsFair
<1>1. ASSUME IInv, [Next]_vars
      PROVE  /\ pc = "tick" /\ owed' # owed => at \in owed
             /\ pc = "tick" /\ at \notin owed => future' = future
             /\ pc = "tick" /\ pc' # "tick" => owed \subseteq removed
  <2>. SUFFICES ASSUME pc = "tick"
                PROVE  /\ owed' # owed => at \in owed
                       /\ at \notin owed => future' = future
                       /\ pc' # "tick" => owed \subseteq removed
    OBVIOUS
  <2>1. TickDone \/ TickSkip \/ TickReady \/ TickPoll \/ UNCHANGED vars
    BY <1>1 DEF Next, Step, Program, CallTick, CallRun, CallBlockOn, RunAgain, Sweep,
                BlockNoTask, BlockPoll, BlockTick
  <2>2. CASE TickDone
    <3>1. Rest(tasks, From) = {}
      BY <1>1, <2>2, ListFacts DEF TickDone, From, Rest
    <3>. QED
      BY <1>1, <2>2, <3>1 DEF TickDone, Return, shared, IInv, Ahead
  <2>3. CASE TickSkip \/ TickReady \/ UNCHANGED vars
    BY <2>3 DEF TickSkip, TickReady, vars, shared
  <2>4. CASE TickPoll
    <3>1. at \in Spawned \ completed /\ pc' = "tick" /\ owed' = owed \ {at}
      BY <2>4 DEF TickPoll
    <3>2. /\ tasks \in Seq(Spawned) /\ Len(tasks) \in Nat /\ at \in Range(tasks) /\ at # NULL
      BY <1>1, <3>1, ListFacts DEF IInv, Listed
    <3>3. From \in 1 .. Len(tasks) /\ tasks[From] = at
      BY <3>2, PlaceFinds DEF From
    <3>4. at \in Rest(tasks, From)
      BY <3>2, <3>3 DEF Rest
    <3>5. at \in owed
      BY <1>1, <3>1, <3>4 DEF IInv, Ahead
    <3>. QED
      BY <3>1, <3>5
  <2>. QED
    BY <2>1, <2>2, <2>3, <2>4
<1>. QED
  BY <1>1, InitInv, NextInv, PTL DEF Spec, TickIsFair
=============================================================================
