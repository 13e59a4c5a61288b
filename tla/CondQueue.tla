----------------------------- MODULE CondQueue -----------------------------
(***************************************************************************)
(* The message queue of 11.threads/06_condition_variables.c: main starts   *)
(* THREAD_NUM workers, pushes TASK_COUNT messages on the list tasks (the   *)
(* newest first), and joins the workers, which never return.               *)
(* pthread_cond_wait may wake up spuriously; the broadcast comes after the *)
(* unlock.  Nobody looks at the result of pthread_create.                  *)
(***************************************************************************)
EXTENDS Naturals, Sequences

CONSTANTS THREAD_NUM, TASK_COUNT   \* 4 and 10 in the code

ASSUME CountsAssumption == THREAD_NUM \in Nat /\ TASK_COUNT \in Nat

Worker == 1..THREAD_NUM
Message == 1..TASK_COUNT   \* a message is the value of task_count it was made at
NoMessage == 0
Main == 0                  \* main() as an owner of the mutex
Nobody == THREAD_NUM + 1

VARIABLES
  main,        \* where main() is
  started,     \* pthread_create calls made
  joined,      \* pthread_join calls that returned
  task_count,
  mutex,       \* owner of mutex
  tasks,       \* the list, head first
  pc,          \* where each worker is
  current,     \* the message a worker has taken off the list
  freed        \* messages given to free()

mainVars == <<main, started, joined, task_count>>
vars == <<mainVars, mutex, tasks, pc, current, freed>>

TypeOK ==
  /\ main \in {"create", "enqueue", "push", "broadcast", "join", "exit"}
  /\ started \in 0..THREAD_NUM
  /\ joined \in 0..THREAD_NUM
  /\ task_count \in 0..TASK_COUNT
  /\ mutex \in Worker \cup {Main, Nobody}
  /\ tasks \in Seq(Message)
  /\ pc \in [Worker -> {"unborn", "absent", "lock", "check", "wait", "wake", "take", "work"}]
  /\ current \in [Worker -> Message \cup {NoMessage}]
  /\ freed \in SUBSET Message

Init ==
  /\ main = "create" /\ started = 0 /\ joined = 0
  /\ task_count = TASK_COUNT
  /\ mutex = Nobody
  /\ tasks = <<>>
  /\ pc = [w \in Worker |-> "unborn"]
  /\ current = [w \in Worker |-> NoMessage]
  /\ freed = {}

Goto(w, to) == pc' = [pc EXCEPT ![w] = to]

-----------------------------------------------------------------------------
(* main() *)

\* A failed pthread_create goes unnoticed: the worker is just not there.
Create ==
  /\ main = "create" /\ started < THREAD_NUM
  /\ started' = started + 1
  /\ \E to \in {"lock", "absent"} : Goto(started + 1, to)
  /\ UNCHANGED <<main, joined, task_count, mutex, tasks, current, freed>>

AllCreated ==
  /\ main = "create" /\ started = THREAD_NUM
  /\ main' = "enqueue"
  /\ UNCHANGED <<started, joined, task_count, mutex, tasks, pc, current, freed>>

\* The next entry is made and enqueue_message waits for the mutex.
LockMain ==
  /\ main = "enqueue" /\ task_count > 0
  /\ mutex = Nobody
  /\ mutex' = Main
  /\ main' = "push"
  /\ UNCHANGED <<started, joined, task_count, tasks, pc, current, freed>>

\* Mutant: the new entry is not linked to the list it replaces.
Push_Unlinked ==
  /\ main = "push"
  /\ tasks' = <<task_count>>
  /\ task_count' = task_count - 1
  /\ mutex' = Nobody
  /\ main' = "broadcast"
  /\ UNCHANGED <<started, joined, pc, current, freed>>

Push ==
  /\ main = "push"
  /\ tasks' = <<task_count>> \o tasks
  /\ task_count' = task_count - 1
  /\ mutex' = Nobody
  /\ main' = "broadcast"
  /\ UNCHANGED <<started, joined, pc, current, freed>>

\* Mutant: no pthread_cond_broadcast.
Broadcast_Missing ==
  /\ main = "broadcast"
  /\ main' = "enqueue"
  /\ UNCHANGED <<started, joined, task_count, mutex, tasks, pc, current, freed>>

\* Every thread in pthread_cond_wait wakes up and competes for the mutex.
Broadcast ==
  /\ main = "broadcast"
  /\ pc' = [w \in Worker |-> IF pc[w] = "wait" THEN "wake" ELSE pc[w]]
  /\ main' = "enqueue"
  /\ UNCHANGED <<started, joined, task_count, mutex, tasks, current, freed>>

AllEnqueued ==
  /\ main = "enqueue" /\ task_count = 0
  /\ main' = "join"
  /\ UNCHANGED <<started, joined, task_count, mutex, tasks, pc, current, freed>>

\* pthread_join returns only for a thread id no thread has.
Join ==
  /\ main = "join" /\ joined < THREAD_NUM
  /\ pc[joined + 1] = "absent"
  /\ joined' = joined + 1
  /\ UNCHANGED <<main, started, task_count, mutex, tasks, pc, current, freed>>

Exit ==
  /\ main = "join" /\ joined = THREAD_NUM
  /\ main' = "exit"
  /\ UNCHANGED <<started, joined, task_count, mutex, tasks, pc, current, freed>>

-----------------------------------------------------------------------------
(* thread_function and process_message *)

\* pthread_mutex_lock at the start of process_message.
Lock(w) ==
  /\ pc[w] = "lock" /\ mutex = Nobody
  /\ mutex' = w
  /\ Goto(w, "check")
  /\ UNCHANGED <<mainVars, tasks, current, freed>>

\* Mutant: `if' instead of `while' around pthread_cond_wait.
Rewake_NoRecheck(w) ==
  /\ pc[w] = "wake" /\ mutex = Nobody
  /\ mutex' = w
  /\ Goto(w, "take")
  /\ UNCHANGED <<mainVars, tasks, current, freed>>

\* pthread_cond_wait returns with the mutex and the loop tests tasks again.
Rewake(w) ==
  /\ pc[w] = "wake" /\ mutex = Nobody
  /\ mutex' = w
  /\ Goto(w, "check")
  /\ UNCHANGED <<mainVars, tasks, current, freed>>

Spurious(w) ==
  /\ pc[w] = "wait"
  /\ Goto(w, "wake")
  /\ UNCHANGED <<mainVars, mutex, tasks, current, freed>>

\* The test of the while loop: wait, giving the mutex up, or leave the loop.
Check(w) ==
  /\ pc[w] = "check"
  /\ \/ tasks = <<>> /\ Goto(w, "wait") /\ mutex' = Nobody
     \/ tasks # <<>> /\ Goto(w, "take") /\ UNCHANGED mutex
  /\ UNCHANGED <<mainVars, tasks, current, freed>>

\* Mutant: the mutex is released between reading tasks and replacing it, here
\* seen as a list that keeps its head.
Take_KeepsHead(w) ==
  /\ pc[w] = "take"
  /\ current' = [current EXCEPT ![w] = Head(tasks)]
  /\ mutex' = Nobody
  /\ Goto(w, "work")
  /\ UNCHANGED <<mainVars, tasks, freed>>

Take(w) ==
  /\ pc[w] = "take"
  /\ current' = [current EXCEPT ![w] = Head(tasks)]
  /\ tasks' = Tail(tasks)
  /\ mutex' = Nobody
  /\ Goto(w, "work")
  /\ UNCHANGED <<mainVars, freed>>

\* The message is processed and freed, and the worker comes back for another one.
Work(w) ==
  /\ pc[w] = "work"
  /\ freed' = freed \cup {current[w]}
  /\ current' = [current EXCEPT ![w] = NoMessage]
  /\ Goto(w, "lock")
  /\ UNCHANGED <<mainVars, mutex, tasks>>

-----------------------------------------------------------------------------
MainStep == Create \/ AllCreated \/ LockMain \/ Push \/ Broadcast \/ AllEnqueued \/ Join \/ Exit
WorkerStep(w) == Lock(w) \/ Rewake(w) \/ Check(w) \/ Take(w) \/ Work(w)

Next == MainStep \/ \E w \in Worker : WorkerStep(w) \/ Spurious(w)

\* Threads run, and the mutex starves no thread that keeps asking for it; a
\* spurious wakeup is never owed to anybody.
Fairness == SF_vars(MainStep) /\ \A w \in Worker : SF_vars(WorkerStep(w))

Spec == Init /\ [][Next]_vars /\ Fairness

-----------------------------------------------------------------------------
Queued == {tasks[i] : i \in 1..Len(tasks)}

\* The list tasks is popped by the worker that reads it, under the mutex: a
\* message is still to come, or in the list once, or with one worker, or freed;
\* never in two places.
ExactlyOnce ==
  /\ \A i, j \in 1..Len(tasks) : tasks[i] = tasks[j] => i = j
  /\ \A v, w \in Worker : current[v] = current[w] /\ current[v] # NoMessage => v = w
  /\ \A w \in Worker : current[w] \notin Queued \cup freed
  /\ Queued \cap freed = {}
  /\ \A m \in 1..task_count : m \notin Queued \cup freed \cup {current[w] : w \in Worker}

\* The head of an empty list is never read (lines 20-21), although any number of
\* workers wake up for one message.
TakesFromNonEmpty == \A w \in Worker : pc[w] = "take" => tasks # <<>>

\* A worker is never left waiting beside a message, except in the moment between
\* the unlock (line 36) and the broadcast (line 37) of enqueue_message.
NoLostWakeup ==
  tasks # <<>> /\ (\E w \in Worker : pc[w] = "wait") => main = "broadcast"

\* main() returns, which ends the process, only if no worker was ever started: it
\* never cuts off a worker in the middle of a message.
ExitOnlyAlone == main = "exit" => \A w \in Worker : pc[w] = "absent"

Pool == INSTANCE TaskPool WITH
  crew <- {w \in Worker : pc[w] \notin {"unborn", "absent"}},
  pool <- Queued, doing <- current, done <- freed

\* Mutex, condition variable and list together implement the task pool.
ImplementsPool == Pool!PoolSpec
=============================================================================
