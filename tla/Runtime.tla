------------------------------ MODULE Runtime ------------------------------
(***************************************************************************)
(* The asynchronous runtime of src/src/runtime.c: an event loop that polls *)
(* the futures of its tasks, on one thread.  A program spawns tasks, wakes *)
(* and removes them, and calls runtime_tick, runtime_run and               *)
(* runtime_block_on; the code of a future does such things too while it is *)
(* polled.                                                                 *)
(*                                                                         *)
(* A step is one turn of a loop of the code: at most one poll.  A future   *)
(* is how many more polls leave it pending; it belongs to one task.  What  *)
(* a future computes, and a poll that itself calls the tick, the run or    *)
(* block_on, are left out.                                                 *)
(***************************************************************************)
EXTENDS Integers, Sequences, SequencesExt

CONSTANTS
    MaxTasks,  \* bound: tasks ever spawned
    MaxPolls   \* bound: polls that leave a future pending

ASSUME RuntimeAssumption == MaxTasks \in Nat /\ MaxPolls \in Nat

VARIABLES
    tasks,         \* loop->tasks, the ids of the list from its head
    task_count,    \* loop->task_count
    next_task_id,  \* rt->next_task_id
    future,        \* future->state of each task, and how many polls it is from ready
    completed,     \* the tasks with is_completed
    removed,       \* history: the tasks event_loop_remove_task took out
    call,          \* the operation the program is in
    pc,            \* where in its loops
    at,            \* t of runtime_tick
    owed           \* history: what this tick has still to look at

shared == <<tasks, task_count, next_task_id, future, removed>>
vars == <<shared, completed, call, pc, at, owed>>

Never == MaxPolls + 1   \* the future_pending future
Ids == 0 .. MaxTasks - 1
NULL == MaxTasks
Spawned == 0 .. next_task_id - 1
Listed == Range(tasks)

\* The types, and that no spawned task falls out of the list (event_loop_add_task,
\* the removals of runtime_run): it is listed, once, until it completes or is
\* taken out.
TypeOK ==
    /\ tasks \in Seq(Ids)
    /\ task_count = Len(tasks)
    /\ next_task_id \in 0 .. MaxTasks
    /\ future \in [Spawned -> [ready : BOOLEAN, left : 0 .. Never]]
    /\ completed \subseteq Spawned /\ removed \subseteq Spawned /\ owed \subseteq Spawned
    /\ call \in [op : {"none", "tick", "run", "block"}, target : Ids \cup {NULL}]
    /\ pc \in {"idle", "tick", "sweep", "again", "rest"}
    /\ at \in Spawned \cup {NULL}
    /\ \A i, j \in DOMAIN tasks : tasks[i] = tasks[j] => i = j
    /\ Spawned \subseteq Listed \cup completed \cup removed

Init ==
    /\ tasks = <<>>
    /\ task_count = 0
    /\ next_task_id = 0
    /\ future = <<>>
    /\ completed = {}
    /\ removed = {}
    /\ call = [op |-> "none", target |-> NULL]
    /\ pc = "idle"
    /\ at = NULL
    /\ owed = {}
-----------------------------------------------------------------------------
\* What a program, or a poll, does to the tasks.  `futures` is the futures as
\* they are left by the poll.

\* Slips: the task is not counted; the task goes to the end of the list.
AddUncounted(id) == tasks' = <<id>> \o tasks /\ UNCHANGED task_count
AddLast(id) == tasks' = Append(tasks, id) /\ task_count' = task_count + 1

\* event_loop_add_task: at the head of the list.
Add(id) == tasks' = <<id>> \o tasks /\ task_count' = task_count + 1

\* runtime_spawn of a future that is ready after n polls; future_ready is ready
\* before any.
Spawn(n, ready, futures) ==
    /\ next_task_id < MaxTasks
    /\ ready => n = 0
    /\ next_task_id' = next_task_id + 1
    /\ future' = [id \in 0 .. next_task_id |->
                    IF id = next_task_id THEN [ready |-> ready, left |-> n] ELSE futures[id]]
    /\ Add(next_task_id)
    /\ UNCHANGED removed

\* Where a task is in the list; every walk of the list starts at its head.
Place(list, id) == CHOOSE i \in DOMAIN list : list[i] = id

\* event_loop_remove_task.
RemoveTask(id, futures) ==
    /\ id \in Listed
    /\ tasks' = RemoveAt(tasks, Place(tasks, id))
    /\ task_count' = task_count - 1
    /\ removed' = removed \cup {id}
    /\ future' = futures
    /\ UNCHANGED next_task_id

\* task_waker_wake: the future is pending again, whatever it was.
Wake(id, futures) ==
    /\ future' = [futures EXCEPT ![id].ready = FALSE]
    /\ UNCHANGED <<tasks, task_count, next_task_id, removed>>

Effect(self, futures) ==
    \/ future' = futures /\ UNCHANGED <<tasks, task_count, next_task_id, removed>>
    \/ \E n \in 0 .. Never, ready \in BOOLEAN : Spawn(n, ready, futures)
    \/ \E id \in Spawned : RemoveTask(id, futures)
    \/ \E id \in Spawned \ {self} : Wake(id, futures)

\* future->poll(future, waker): one such effect at most, and last its own state,
\* which a wake of its own task has no influence on.
Polled(id) ==
    [future EXCEPT ![id] = [ready |-> @.left = 0,
                            left |-> IF @.left \in {0, Never} THEN @.left ELSE @.left - 1]]

Program ==
    /\ pc = "idle"
    /\ Effect(NULL, future) /\ <<tasks, future>>' # <<tasks, future>>
    /\ UNCHANGED <<completed, call, pc, at, owed>>
-----------------------------------------------------------------------------
\* runtime_tick starts at the head of the list.
BeginTick ==
    /\ pc' = "tick"
    /\ at' = IF tasks = <<>> THEN NULL ELSE Head(tasks)
    /\ owed' = Listed \ completed

CallTick ==
    /\ pc = "idle" /\ BeginTick
    /\ call' = [op |-> "tick", target |-> NULL]
    /\ UNCHANGED <<shared, completed>>

CallRun ==
    /\ pc = "idle" /\ pc' = "again"
    /\ call' = [op |-> "run", target |-> NULL]
    /\ UNCHANGED <<shared, completed, at, owed>>

CallBlockOn(id) ==
    /\ pc = "idle" /\ pc' = "again"
    /\ call' = [op |-> "block", target |-> id]
    /\ UNCHANGED <<shared, completed, at, owed>>

Return ==
    /\ pc' = "idle" /\ call' = [op |-> "none", target |-> NULL]
    /\ UNCHANGED <<at, owed>>

\* t->next: a task that takes itself out of the list keeps its link.
After(list, id) ==
    LET i == Place(list, id)
    IN  IF i < Len(list) THEN list[i + 1] ELSE NULL
NextOf(id) == IF id \in Range(tasks') THEN After(tasks', id) ELSE After(tasks, id)

TickDone ==
    /\ pc = "tick" /\ at = NULL
    /\ IF call.op = "tick" THEN Return
       ELSE /\ pc' = IF call.op = "run" THEN "sweep" ELSE "again"
            /\ UNCHANGED <<call, at, owed>>
    /\ UNCHANGED <<shared, completed>>

\* A task that is completed already is passed over.
TickSkip ==
    /\ pc = "tick" /\ at \in completed
    /\ at' = After(tasks, at)
    /\ UNCHANGED <<shared, completed, call, pc, owed>>

\* Slip: a future that is ready is passed over and not marked.
TickReadySlip ==
    /\ pc = "tick" /\ at \in Spawned \ completed /\ future[at].ready
    /\ at' = After(tasks, at)
    /\ owed' = owed \ {at}
    /\ UNCHANGED <<shared, completed, call, pc>>

\* A future that is ready already completes its task without a poll.
TickReady ==
    /\ pc = "tick" /\ at \in Spawned \ completed /\ future[at].ready
    /\ completed' = completed \cup {at}
    /\ at' = After(tasks, at)
    /\ owed' = owed \ {at}
    /\ UNCHANGED <<shared, call, pc>>

TickPoll ==
    /\ pc = "tick" /\ at \in Spawned \ completed /\ ~future[at].ready
    /\ Effect(at, Polled(at))
    /\ completed' = IF future'[at].ready THEN completed \cup {at} ELSE completed
    /\ at' = NextOf(at)
    /\ owed' = owed \ {at}
    /\ UNCHANGED <<call, pc>>
-----------------------------------------------------------------------------
\* while (rt->loop->task_count > 0) runtime_tick(rt) ...
RunAgain ==
    /\ pc = "again" /\ call.op = "run"
    /\ IF task_count > 0 THEN BeginTick /\ UNCHANGED call ELSE Return
    /\ UNCHANGED <<shared, completed>>

\* What is left of the list without the tasks of a set, from its head on.
Unlinked(list, out) ==
    LET left[n \in 0 .. Len(list)] ==
          IF n = 0 THEN <<>>
          ELSE IF list[n] \in out THEN left[n - 1] ELSE Append(left[n - 1], list[n])
    IN  left[Len(list)]

\* Slip: removals are not counted.
SweepUncounted ==
    /\ pc = "sweep" /\ pc' = "again"
    /\ tasks' = Unlinked(tasks, completed)
    /\ UNCHANGED <<task_count, next_task_id, future, completed, removed, call, at, owed>>

\* ... and the completed tasks leave the list.
Sweep ==
    /\ pc = "sweep" /\ pc' = "again"
    /\ tasks' = Unlinked(tasks, completed)
    /\ task_count' = task_count - (Len(tasks) - Len(tasks'))
    /\ UNCHANGED <<next_task_id, future, completed, removed, call, at, owed>>

\* runtime_block_on on a task that is not in the list returns NULL.
BlockNoTask ==
    /\ pc = "again" /\ call.op = "block" /\ call.target \notin Listed
    /\ Return
    /\ UNCHANGED <<shared, completed>>

\* Slip: a task that completed before is not polled again.
BlockPollSlip ==
    /\ pc = "again" /\ call.op = "block" /\ call.target \in Listed
    /\ IF future[call.target].ready \/ call.target \in completed
       THEN UNCHANGED shared ELSE Effect(call.target, Polled(call.target))
    /\ IF future'[call.target].ready
       THEN Return /\ completed' = completed \cup {call.target}
       ELSE pc' = "rest" /\ UNCHANGED <<completed, call, at, owed>>

\* The target is polled unless it is ready; if it is then, its output is
\* returned, and otherwise all tasks get a tick.
BlockPoll ==
    /\ pc = "again" /\ call.op = "block" /\ call.target \in Listed
    /\ IF future[call.target].ready THEN UNCHANGED shared
       ELSE Effect(call.target, Polled(call.target))
    /\ IF future'[call.target].ready
       THEN Return /\ completed' = completed \cup {call.target}
       ELSE pc' = "rest" /\ UNCHANGED <<completed, call, at, owed>>

BlockTick ==
    /\ pc = "rest" /\ BeginTick
    /\ UNCHANGED <<shared, completed, call>>

Step ==
    \/ TickDone
    \/ TickSkip
    \/ TickReady
    \/ TickPoll
    \/ RunAgain
    \/ Sweep
    \/ BlockNoTask
    \/ BlockPoll
    \/ BlockTick

Next ==
    \/ Program
    \/ CallTick
    \/ CallRun
    \/ \E id \in Spawned : CallBlockOn(id)
    \/ Step

\* Fairness: the thread goes on inside an operation; what the program calls is
\* its own business.
Spec == Init /\ [][Next]_vars /\ WF_vars(Step)
-----------------------------------------------------------------------------
\* "Run the event loop until all tasks complete" (runtime.h): when runtime_run
\* returns, every task, those spawned by polls meanwhile too, has completed or
\* was taken out.
RunWaitsForAll ==
    [][call.op = "run" /\ call'.op = "none" => Spawned \subseteq completed \cup removed]_vars

\* A tick serves each task that is open at its start, none twice, and none
\* spawned during the tick.
TickIsFair ==
    [][/\ pc = "tick" /\ owed' # owed => at \in owed
       /\ pc = "tick" /\ at \notin owed => future' = future
       /\ pc = "tick" /\ pc' # "tick" => owed \subseteq removed]_vars

NeverReady(id) == id \in Spawned /\ future[id].left = Never

\* runtime_run comes back unless a task it waits for is never ready.
RunEnds ==
    call.op = "run" ~> \/ call.op # "run"
                       \/ \E id \in Listed : NeverReady(id)

\* "Block the current thread until a specific task completes" (runtime.h):
\* runtime_block_on comes back for a task that gets ready, whatever wakes it and
\* however many others never do.
BlockEnds ==
    \A id \in Ids :
        call = [op |-> "block", target |-> id] ~>
            call.op # "block" \/ NeverReady(id)

=============================================================================
