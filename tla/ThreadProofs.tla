---------------------------- MODULE ThreadProofs ----------------------------
(***************************************************************************)
(* Two programs of 11.threads, for any number of threads.  The message     *)
(* queue of 06_condition_variables.c: no lost wakeup, no message lost or   *)
(* taken twice, and every step of it is a step of the task pool or none.   *)
(* The parallel sort of 09_barrier.c: its output is its input in order.    *)
(***************************************************************************)
EXTENDS CondQueue, BarrierSort, FiniteSetTheorems, SequenceTheorems, TLAPS

(* The queue of 06_condition_variables.c *)

\* The mutex is with the thread that is between its lock and its unlock.
MutexOwner ==
  /\ \A w \in Worker : mutex = w <=> pc[w] \in {"check", "take"}
  /\ mutex = Main <=> main = "push"

\* A worker has a message exactly while it processes it.
Holding == \A w \in Worker : current[w] # NoMessage <=> pc[w] = "work"

\* How far main() has come.
Progress ==
  /\ \A w \in Worker : pc[w] = "unborn" <=> w > started
  /\ main # "create" => started = THREAD_NUM
  /\ main = "push" => task_count > 0
  /\ \A w \in Worker : w <= joined => pc[w] = "absent"
  /\ main = "exit" => joined = THREAD_NUM

IInv ==
  /\ TypeOK /\ MutexOwner /\ Holding /\ Progress
  /\ ExactlyOnce /\ TakesFromNonEmpty /\ NoLostWakeup

-----------------------------------------------------------------------------
\* What putting a message in front of a list does to its elements.
LEMMA PushFacts ==
  ASSUME NEW S, NEW s \in Seq(S), NEW m \in S
  PROVE  LET r == <<m>> \o s IN
         /\ r \in Seq(S) /\ r # <<>>
         /\ Len(r) = Len(s) + 1
         /\ r[1] = m /\ \A h \in 2..Len(r) : r[h] = s[h - 1]
         /\ {r[h] : h \in 1..Len(r)} = {m} \cup {s[h] : h \in 1..Len(s)}
<1> DEFINE r == <<m>> \o s
<1>1. <<m>> \in Seq(S) /\ Len(<<m>>) = 1 /\ <<m>>[1] = m OBVIOUS
<1>2. r \in Seq(S) /\ Len(r) = Len(s) + 1 /\ Len(s) \in Nat
  BY <1>1, ConcatProperties
<1>3. r[1] = m /\ \A h \in 2..Len(r) : r[h] = s[h - 1]
  BY <1>1, <1>2, ConcatProperties
<1>4. r # <<>> BY <1>2, EmptySeq
<1>5. \A h \in 1..Len(s) : h + 1 \in 2..Len(r) /\ r[h + 1] = s[h]
  <2> TAKE h \in 1..Len(s)
  <2>1. h + 1 \in 2..Len(r) /\ (h + 1) - 1 = h BY <1>2
  <2> QED BY <2>1, <1>3
<1>6. \A h \in 2..Len(r) : h - 1 \in 1..Len(s) BY <1>2
<1>7. {r[h] : h \in 1..Len(r)} = {m} \cup {s[h] : h \in 1..Len(s)}
  <2>1. \A h \in 1..Len(r) : r[h] \in {m} \cup {s[j] : j \in 1..Len(s)}
    <3> TAKE h \in 1..Len(r)
    <3>1. CASE h = 1 BY <3>1, <1>3
    <3>2. CASE h \in 2..Len(r) BY <3>2, <1>3, <1>6
    <3> QED BY <3>1, <3>2, <1>2
  <2>2. m \in {r[h] : h \in 1..Len(r)} BY <1>2, <1>3
  <2>3. \A j \in 1..Len(s) : s[j] \in {r[h] : h \in 1..Len(r)}
    <3> TAKE j \in 1..Len(s)
    <3>1. j + 1 \in 1..Len(r) BY <1>2
    <3> QED BY <3>1, <1>5
  <2> QED BY <2>1, <2>2, <2>3
<1> QED BY <1>2, <1>3, <1>4, <1>7

\* What taking the head off a list without repetitions does to its elements.
LEMMA PopFacts ==
  ASSUME NEW S, NEW s \in Seq(S), s # <<>>,
         \A h, j \in 1..Len(s) : s[h] = s[j] => h = j
  PROVE  /\ Tail(s) \in Seq(S) /\ Head(s) \in S
         /\ Head(s) \in {s[h] : h \in 1..Len(s)}
         /\ \A h, j \in 1..Len(Tail(s)) : Tail(s)[h] = Tail(s)[j] => h = j
         /\ {Tail(s)[h] : h \in 1..Len(Tail(s))} = {s[h] : h \in 1..Len(s)} \ {Head(s)}
<1> DEFINE r == Tail(s)
<1>1. /\ r \in Seq(S) /\ Head(s) \in S /\ Len(s) \in Nat \ {0}
      /\ Len(r) = Len(s) - 1 /\ Head(s) = s[1]
      /\ \A h \in 1..Len(r) : r[h] = s[h + 1]
  BY HeadTailProperties, EmptySeq
<1>2. \A h \in 1..Len(r) : h + 1 \in 1..Len(s) /\ h + 1 # 1 BY <1>1
<1>3. \A h, j \in 1..Len(r) : r[h] = r[j] => h = j
  <2> TAKE h, j \in 1..Len(r)
  <2>1. r[h] = r[j] => h + 1 = j + 1 BY <1>1, <1>2
  <2> QED BY <2>1, <1>1
<1>4. {r[h] : h \in 1..Len(r)} = {s[h] : h \in 1..Len(s)} \ {Head(s)}
  <2>1. \A h \in 1..Len(r) : r[h] \in {s[k] : k \in 1..Len(s)} \ {Head(s)}
    <3> TAKE h \in 1..Len(r)
    <3>1. 1 \in 1..Len(s) BY <1>1
    <3> QED BY <3>1, <1>1, <1>2
  <2>2. ASSUME NEW k \in 1..Len(s), s[k] # Head(s)
        PROVE  s[k] \in {r[h] : h \in 1..Len(r)}
    <3>1. k # 1 BY <1>1, <2>2
    <3>2. k - 1 \in 1..Len(r) /\ (k - 1) + 1 = k BY <1>1, <3>1
    <3> QED BY <3>2, <1>1
  <2> QED BY <2>1, <2>2
<1>5. 1 \in 1..Len(s) BY <1>1
<1> QED BY <1>1, <1>3, <1>4, <1>5

\* The values that stand for nothing are different from those that stand for something.
LEMMA Distinct ==
  /\ Main \notin Worker /\ Nobody \notin Worker /\ Main # Nobody
  /\ NoMessage \notin Message
  BY CountsAssumption DEF Main, Nobody, Worker, Message, NoMessage

\* At the start there is nothing.
LEMMA InitIInv == Init => IInv
<1> SUFFICES ASSUME Init PROVE IInv OBVIOUS
<1>1. TypeOK BY CountsAssumption, EmptySeq DEF Init, TypeOK, NoMessage
<1>2. MutexOwner /\ Holding BY Distinct DEF Init, MutexOwner, Holding
<1>3. Progress BY CountsAssumption DEF Init, Progress, Worker
<1>4. Queued = {} /\ Len(tasks) = 0 BY DEF Init, Queued
<1>5. ExactlyOnce BY <1>4 DEF Init, ExactlyOnce, NoMessage
<1>6. TakesFromNonEmpty /\ NoLostWakeup BY DEF Init, TakesFromNonEmpty, NoLostWakeup
<1> QED BY <1>1, <1>2, <1>3, <1>5, <1>6 DEF IInv

\* Steps that move no message keep every message in its one place.
LEMMA OnceSame ==
  ASSUME ExactlyOnce, UNCHANGED <<tasks, current, freed, task_count>>
  PROVE  ExactlyOnce' /\ Queued' = Queued
  BY DEF ExactlyOnce, Queued

\* The steps of main().
LEMMA MainIInv == IInv /\ MainStep => IInv'
<1> SUFFICES ASSUME IInv, MainStep PROVE IInv' OBVIOUS
<1> USE DEF Goto
<1>1. CASE Create
  <2> USE <1>1 DEF Create
  <2>1. started + 1 \in Worker /\ pc[started + 1] = "unborn"
    BY CountsAssumption DEF IInv, TypeOK, Progress, Worker
  <2>2. TypeOK' BY <2>1, CountsAssumption DEF IInv, TypeOK
  <2>3. MutexOwner' /\ Holding' BY <2>1 DEF IInv, TypeOK, MutexOwner, Holding
  <2>4. Progress' BY <2>1, CountsAssumption DEF IInv, TypeOK, Progress, Worker
  <2>5. TakesFromNonEmpty' /\ NoLostWakeup'
    BY <2>1 DEF IInv, TypeOK, TakesFromNonEmpty, NoLostWakeup
  <2> QED BY <2>2, <2>3, <2>4, <2>5, OnceSame DEF IInv
<1>2. CASE AllCreated
  <2> USE <1>2 DEF AllCreated
  <2>1. TypeOK' BY DEF IInv, TypeOK
  <2>2. MutexOwner' /\ Holding' BY DEF IInv, TypeOK, MutexOwner, Holding
  <2>3. Progress' BY DEF IInv, TypeOK, Progress
  <2>4. TakesFromNonEmpty' /\ NoLostWakeup'
    BY DEF IInv, TypeOK, TakesFromNonEmpty, NoLostWakeup
  <2> QED BY <2>1, <2>2, <2>3, <2>4, OnceSame DEF IInv
<1>3. CASE LockMain
  <2> USE <1>3 DEF LockMain
  <2>1. TypeOK' BY DEF IInv, TypeOK
  <2>2. MutexOwner' /\ Holding' BY Distinct DEF IInv, TypeOK, MutexOwner, Holding
  <2>3. Progress' BY DEF IInv, TypeOK, Progress
  <2>4. TakesFromNonEmpty' /\ NoLostWakeup'
    BY DEF IInv, TypeOK, TakesFromNonEmpty, NoLostWakeup
  <2> QED BY <2>1, <2>2, <2>3, <2>4, OnceSame DEF IInv
<1>4. CASE Push
  <2> USE <1>4 DEF Push
  <2>0. /\ task_count \in Message /\ task_count > 0 /\ tasks \in Seq(Message)
        /\ task_count \in Nat
    BY CountsAssumption DEF IInv, TypeOK, Progress, Message
  <2>1. /\ tasks' \in Seq(Message) /\ tasks' # <<>>
        /\ Len(tasks') = Len(tasks) + 1
        /\ tasks'[1] = task_count /\ \A h \in 2..Len(tasks') : tasks'[h] = tasks[h - 1]
        /\ Queued' = {task_count} \cup Queued
    <3>1. tasks' = <<task_count>> \o tasks OBVIOUS
    <3> HIDE <1>4
    <3> QED BY <2>0, <3>1, PushFacts DEF Queued
  <2>2. TypeOK' BY <2>0, <2>1, CountsAssumption DEF IInv, TypeOK
  <2>3. MutexOwner' /\ Holding' BY Distinct DEF IInv, TypeOK, MutexOwner, Holding
  <2>4. Progress' BY DEF IInv, TypeOK, Progress
  <2>5. TakesFromNonEmpty' /\ NoLostWakeup'
    BY <2>1 DEF TakesFromNonEmpty, NoLostWakeup
  <2>6. task_count \notin Queued \cup freed
    BY <2>0 DEF IInv, ExactlyOnce
  <2>7. ExactlyOnce'
    <3>1. \A h, j \in 1..Len(tasks') : tasks'[h] = tasks'[j] => h = j
      <4>0. Len(tasks) \in Nat BY <2>0, LenProperties
      <4> SUFFICES ASSUME NEW h \in 1..Len(tasks'), NEW j \in 1..Len(tasks'),
                          tasks'[h] = tasks'[j], h < j
                   PROVE  FALSE
        BY <4>0, <2>1
      <4>1. j \in 2..Len(tasks') /\ j - 1 \in 1..Len(tasks) BY <4>0, <2>1
      <4>2. tasks'[j] = tasks[j - 1] /\ tasks'[j] \in Queued BY <4>1, <2>1 DEF Queued
      <4>3. CASE h = 1 BY <4>2, <4>3, <2>1, <2>6
      <4>4. CASE h # 1
        <5>1. h \in 2..Len(tasks') /\ h - 1 \in 1..Len(tasks) /\ h - 1 # j - 1
          BY <4>4, <4>0, <2>1
        <5> QED BY <5>1, <4>1, <4>2, <2>1 DEF IInv, ExactlyOnce
      <4> QED BY <4>3, <4>4
    <3>2. \A w \in Worker : current[w] # task_count
      BY <2>0 DEF IInv, ExactlyOnce
    <3> QED BY <3>1, <3>2, <2>0, <2>1, <2>6 DEF IInv, ExactlyOnce, Message
  <2> QED BY <2>2, <2>3, <2>4, <2>5, <2>7 DEF IInv
<1>5. CASE Broadcast
  <2> USE <1>5 DEF Broadcast
  <2>1. TypeOK' BY DEF IInv, TypeOK
  <2>2. MutexOwner' /\ Holding' BY DEF IInv, TypeOK, MutexOwner, Holding
  <2>3. Progress' BY DEF IInv, TypeOK, Progress
  <2>4. TakesFromNonEmpty' /\ NoLostWakeup'
    BY DEF IInv, TypeOK, TakesFromNonEmpty, NoLostWakeup
  <2> QED BY <2>1, <2>2, <2>3, <2>4, OnceSame DEF IInv
<1>6. CASE AllEnqueued
  <2> USE <1>6 DEF AllEnqueued
  <2>1. TypeOK' BY DEF IInv, TypeOK
  <2>2. MutexOwner' /\ Holding' BY DEF IInv, TypeOK, MutexOwner, Holding
  <2>3. Progress' BY DEF IInv, TypeOK, Progress
  <2>4. TakesFromNonEmpty' /\ NoLostWakeup'
    BY DEF IInv, TypeOK, TakesFromNonEmpty, NoLostWakeup
  <2> QED BY <2>1, <2>2, <2>3, <2>4, OnceSame DEF IInv
<1>7. CASE Join
  <2> USE <1>7 DEF Join
  <2>1. TypeOK' BY CountsAssumption DEF IInv, TypeOK
  <2>2. MutexOwner' /\ Holding' BY DEF IInv, TypeOK, MutexOwner, Holding
  <2>3. Progress' BY CountsAssumption DEF IInv, TypeOK, Progress, Worker
  <2>4. TakesFromNonEmpty' /\ NoLostWakeup'
    BY DEF IInv, TypeOK, TakesFromNonEmpty, NoLostWakeup
  <2> QED BY <2>1, <2>2, <2>3, <2>4, OnceSame DEF IInv
<1>8. CASE Exit
  <2> USE <1>8 DEF Exit
  <2>1. TypeOK' BY DEF IInv, TypeOK
  <2>2. MutexOwner' /\ Holding' BY DEF IInv, TypeOK, MutexOwner, Holding
  <2>3. Progress' BY DEF IInv, TypeOK, Progress
  <2>4. TakesFromNonEmpty' /\ NoLostWakeup'
    BY DEF IInv, TypeOK, TakesFromNonEmpty, NoLostWakeup
  <2> QED BY <2>1, <2>2, <2>3, <2>4, OnceSame DEF IInv
<1> QED BY <1>1, <1>2, <1>3, <1>4, <1>5, <1>6, <1>7, <1>8 DEF MainStep

\* The steps of a worker.
LEMMA WorkerIInv ==
  ASSUME IInv, NEW w \in Worker, WorkerStep(w) \/ Spurious(w)
  PROVE  IInv'
<1> USE DEF Goto, mainVars
<1>1. CASE Lock(w) \/ Rewake(w) \/ Spurious(w)
  <2> USE <1>1 DEF Lock, Rewake, Spurious
  <2>1. TypeOK' BY DEF IInv, TypeOK
  <2>2. MutexOwner' /\ Holding' BY Distinct DEF IInv, TypeOK, MutexOwner, Holding
  <2>3. Progress' BY DEF IInv, TypeOK, Progress
  <2>4. TakesFromNonEmpty' /\ NoLostWakeup'
    BY DEF IInv, TypeOK, TakesFromNonEmpty, NoLostWakeup
  <2> QED BY <2>1, <2>2, <2>3, <2>4, OnceSame DEF IInv
<1>2. CASE Check(w)
  <2> USE <1>2 DEF Check
  <2>1. TypeOK' BY DEF IInv, TypeOK
  <2>2. MutexOwner' /\ Holding' BY Distinct DEF IInv, TypeOK, MutexOwner, Holding
  <2>3. Progress' BY DEF IInv, TypeOK, Progress
  <2>4. TakesFromNonEmpty' /\ NoLostWakeup'
    BY DEF IInv, TypeOK, TakesFromNonEmpty, NoLostWakeup
  <2> QED BY <2>1, <2>2, <2>3, <2>4, OnceSame DEF IInv
<1>3. CASE Take(w)
  <2> USE <1>3 DEF Take
  <2>0. tasks \in Seq(Message) /\ tasks # <<>>
        /\ \A h, j \in 1..Len(tasks) : tasks[h] = tasks[j] => h = j
    BY DEF IInv, TypeOK, TakesFromNonEmpty, ExactlyOnce
  <2>1. /\ tasks' \in Seq(Message) /\ Head(tasks) \in Message
        /\ Head(tasks) \in Queued
        /\ \A h, j \in 1..Len(tasks') : tasks'[h] = tasks'[j] => h = j
        /\ Queued' = Queued \ {Head(tasks)}
    <3>1. /\ Tail(tasks) \in Seq(Message) /\ Head(tasks) \in Message
          /\ Head(tasks) \in {tasks[h] : h \in 1..Len(tasks)}
          /\ \A h, j \in 1..Len(Tail(tasks)) : Tail(tasks)[h] = Tail(tasks)[j] => h = j
          /\ {Tail(tasks)[h] : h \in 1..Len(Tail(tasks))}
               = {tasks[h] : h \in 1..Len(tasks)} \ {Head(tasks)}
      BY <2>0, PopFacts
    <3>2. tasks' = Tail(tasks) OBVIOUS
    <3>3. /\ Queued = {tasks[h] : h \in 1..Len(tasks)}
          /\ Queued' = {Tail(tasks)[h] : h \in 1..Len(Tail(tasks))}
      BY <3>2 DEF Queued
    <3>4. tasks' \in Seq(Message) /\ \A h, j \in 1..Len(tasks') : tasks'[h] = tasks'[j] => h = j
      BY <3>1, <3>2
    <3> QED BY <3>1, <3>3, <3>4, Zenon
  <2>2. TypeOK'
    <3>1. TypeOK /\ tasks' \in Seq(Message) /\ Head(tasks) \in Message BY <2>1 DEF IInv
    <3> QED BY <3>1 DEF TypeOK
  <2>3. MutexOwner' /\ Holding'
    BY <2>1, Distinct DEF IInv, TypeOK, MutexOwner, Holding
  <2>4. Progress' BY DEF IInv, TypeOK, Progress
  <2>5. TakesFromNonEmpty'
    <3>1. \A v \in Worker : pc'[v] # "take"
      BY DEF IInv, TypeOK, MutexOwner
    <3> QED BY <3>1 DEF TakesFromNonEmpty
  <2>6. NoLostWakeup' BY <2>0 DEF IInv, TypeOK, NoLostWakeup
  <2>7. ExactlyOnce'
    <3>1. current'[w] = Head(tasks) /\ \A v \in Worker \ {w} : current'[v] = current[v]
      BY DEF IInv, TypeOK
    <3> QED BY <2>1, <3>1 DEF IInv, ExactlyOnce
  <2> QED BY <2>2, <2>3, <2>4, <2>5, <2>6, <2>7 DEF IInv
<1>4. CASE Work(w)
  <2> USE <1>4 DEF Work
  <2>0. current[w] \in Message /\ current[w] # NoMessage
    BY Distinct DEF IInv, TypeOK, Holding
  <2>1. TypeOK' BY <2>0 DEF IInv, TypeOK
  <2>2. MutexOwner' /\ Holding' BY DEF IInv, TypeOK, MutexOwner, Holding
  <2>3. Progress' BY DEF IInv, TypeOK, Progress
  <2>4. TakesFromNonEmpty' /\ NoLostWakeup'
    BY DEF IInv, TypeOK, TakesFromNonEmpty, NoLostWakeup
  <2>5. ExactlyOnce'
    <3>1. current'[w] = NoMessage /\ \A v \in Worker \ {w} : current'[v] = current[v]
      BY DEF IInv, TypeOK
    <3>2. Queued' = Queued BY DEF Queued
    <3>3. NoMessage \notin Queued \cup freed'
      BY <2>0, Distinct DEF IInv, TypeOK, Queued
    <3>4. /\ tasks' = tasks /\ task_count' = task_count
          /\ freed' = freed \cup {current[w]}
      OBVIOUS
    <3>5. \A m \in 1..task_count : m # NoMessage
      BY DEF NoMessage
    <3>6. \A u, v \in Worker : current'[u] = current'[v] /\ current'[u] # NoMessage => u = v
      BY <3>1 DEF IInv, ExactlyOnce
    <3>7. \A v \in Worker : current'[v] \notin Queued' \cup freed'
      BY <2>0, <3>1, <3>2, <3>3, <3>4 DEF IInv, ExactlyOnce
    <3>8. Queued' \cap freed' = {} BY <3>2, <3>4 DEF IInv, ExactlyOnce
    <3>9. \A m \in 1..task_count : m \notin Queued' \cup freed' \cup {current'[v] : v \in Worker}
      BY <3>1, <3>2, <3>4, <3>5 DEF IInv, ExactlyOnce
    <3> QED BY <3>4, <3>6, <3>7, <3>8, <3>9 DEF IInv, ExactlyOnce
  <2> QED BY <2>1, <2>2, <2>3, <2>4, <2>5 DEF IInv
<1> QED BY <1>1, <1>2, <1>3, <1>4 DEF WorkerStep

\* Every step preserves the invariant.
LEMMA NextIInv == IInv /\ [Next]_vars => IInv'
<1> SUFFICES ASSUME IInv, [Next]_vars PROVE IInv' OBVIOUS
<1>1. CASE UNCHANGED vars
  <2>1. ExactlyOnce' BY <1>1, OnceSame DEF vars, mainVars, IInv
  <2> QED
    BY <1>1, <2>1 DEF vars, mainVars, IInv, TypeOK, MutexOwner, Holding, Progress,
       TakesFromNonEmpty, NoLostWakeup
<1> QED BY <1>1, MainIInv, WorkerIInv DEF Next

\* The inductive invariant holds in every reachable state.
THEOREM Invariance == Spec => []IInv
  BY InitIInv, NextIInv, PTL DEF Spec

\* The variables of the queue keep their types.
THEOREM TypeCorrect == Spec => []TypeOK
<1>1. IInv => TypeOK BY DEF IInv
<1> QED BY <1>1, Invariance, PTL

\* A message is in one place at a time, from enqueue_message to free().
THEOREM MessagesOnce == Spec => []ExactlyOnce
<1>1. IInv => ExactlyOnce BY DEF IInv
<1> QED BY <1>1, Invariance, PTL

\* process_message never takes the head of an empty list.
THEOREM TakesSafely == Spec => []TakesFromNonEmpty
<1>1. IInv => TakesFromNonEmpty BY DEF IInv
<1> QED BY <1>1, Invariance, PTL

\* The broadcast after the unlock loses no wakeup.
THEOREM WakeupsKept == Spec => []NoLostWakeup
<1>1. IInv => NoLostWakeup BY DEF IInv
<1> QED BY <1>1, Invariance, PTL

\* main() only returns when there is no worker to cut off.
THEOREM ExitsAlone == Spec => []ExitOnlyAlone
<1>1. IInv => ExitOnlyAlone
  BY CountsAssumption DEF IInv, TypeOK, Progress, ExitOnlyAlone, Worker
<1> QED BY <1>1, Invariance, PTL

-----------------------------------------------------------------------------
\* The queue starts as an empty pool.
LEMMA InitPool == Init => Pool!PoolInit
<1> SUFFICES ASSUME Init PROVE Pool!PoolInit OBVIOUS
<1>1. Queued = {} BY DEF Init, Queued
<1> QED BY <1>1 DEF Init, Pool!PoolInit

\* Each step is a step of the pool, or invisible there.
LEMMA NextPool == IInv /\ [Next]_vars => [Pool!PoolNext]_(Pool!poolVars)
<1> SUFFICES ASSUME IInv, [Next]_vars
             PROVE  Pool!PoolNext \/ UNCHANGED Pool!poolVars
  OBVIOUS
<1> DEFINE Crew == {w \in Worker : pc[w] \notin {"unborn", "absent"}}
<1> USE DEF Goto, mainVars
<1>1. CASE Create
  <2>1. started + 1 \in Worker /\ pc[started + 1] = "unborn"
    BY <1>1, CountsAssumption DEF Create, IInv, TypeOK, Progress, Worker
  <2>2. UNCHANGED <<Queued, current, freed>> BY <1>1 DEF Create, Queued
  <2>3. PICK to \in {"lock", "absent"} : pc' = [pc EXCEPT ![started + 1] = to]
    BY <1>1 DEF Create
  <2>4. CASE to = "lock"
    <3>1. Crew' = Crew \cup {started + 1}
      BY <2>1, <2>3, <2>4 DEF IInv, TypeOK
    <3>2. PICK n \in Worker : n = started + 1 BY <2>1
    <3>3. Pool!Hire(n) BY <3>1, <3>2, <2>2 DEF Pool!Hire
    <3> QED BY <3>3 DEF Pool!PoolNext
  <2>5. CASE to = "absent"
    <3>1. Crew' = Crew BY <2>1, <2>3, <2>5 DEF IInv, TypeOK
    <3> QED BY <3>1, <2>2 DEF Pool!poolVars
  <2> QED BY <2>3, <2>4, <2>5
<1>2. CASE Push
  <2>0. /\ task_count \in Message /\ task_count \in 1..task_count
        /\ tasks \in Seq(Message)
    BY <1>2, CountsAssumption DEF Push, IInv, TypeOK, Progress, Message
  <2>1. tasks' = <<task_count>> \o tasks BY <1>2 DEF Push
  <2>2. Queued' = Queued \cup {task_count} BY <2>0, <2>1, PushFacts DEF Queued
  <2>3. UNCHANGED <<Crew, current, freed>> BY <1>2 DEF Push
  <2>4. Pool!Submit(task_count)
    BY <2>0, <2>2, <2>3 DEF IInv, ExactlyOnce, Pool!Submit
  <2> QED BY <2>0, <2>4 DEF Pool!PoolNext
<1>3. ASSUME NEW w \in Worker, Take(w) PROVE Pool!PoolNext
  <2>0. /\ tasks \in Seq(Message) /\ tasks # <<>>
        /\ \A h, j \in 1..Len(tasks) : tasks[h] = tasks[j] => h = j
    BY <1>3 DEF Take, IInv, TypeOK, TakesFromNonEmpty, ExactlyOnce
  <2>1. tasks' = Tail(tasks) BY <1>3 DEF Take
  <2>2. Head(tasks) \in Message /\ Head(tasks) \in Queued /\ Queued' = Queued \ {Head(tasks)}
    BY <2>0, <2>1, PopFacts DEF Queued
  <2>3. Crew' = Crew /\ w \in Crew BY <1>3 DEF Take, IInv, TypeOK
  <2>4. current[w] = NoMessage BY <1>3 DEF Take, IInv, Holding
  <2>5. Pool!Take(w, Head(tasks))
    BY <1>3, <2>2, <2>3, <2>4 DEF Take, Pool!Take
  <2> QED BY <2>2, <2>5 DEF Pool!PoolNext
<1>4. ASSUME NEW w \in Worker, Work(w) PROVE Pool!PoolNext
  <2>1. Crew' = Crew BY <1>4 DEF Work, IInv, TypeOK
  <2>2. current[w] # NoMessage BY <1>4 DEF Work, IInv, Holding
  <2>3. Queued' = Queued BY <1>4 DEF Work, Queued
  <2>4. Pool!Finish(w) BY <1>4, <2>1, <2>2, <2>3 DEF Work, Pool!Finish
  <2> QED BY <2>4 DEF Pool!PoolNext
<1>5. ASSUME \/ UNCHANGED vars \/ AllCreated \/ LockMain \/ Broadcast \/ AllEnqueued
             \/ Join \/ Exit
             \/ \E w \in Worker : Lock(w) \/ Rewake(w) \/ Check(w) \/ Spurious(w)
      PROVE  UNCHANGED Pool!poolVars
  <2>1. UNCHANGED <<tasks, current, freed>>
    BY <1>5 DEF vars, AllCreated, LockMain, Broadcast, AllEnqueued, Join, Exit,
       Lock, Rewake, Check, Spurious
  <2>2. Crew' = Crew
    BY <1>5 DEF vars, AllCreated, LockMain, Broadcast, AllEnqueued, Join, Exit,
       Lock, Rewake, Check, Spurious, IInv, TypeOK
  <2>3. Queued' = Queued BY <2>1 DEF Queued
  <2> QED BY <2>1, <2>2, <2>3 DEF Pool!poolVars
<1> QED BY <1>1, <1>2, <1>3, <1>4, <1>5 DEF Next, MainStep, WorkerStep

\* The queue implements the task pool (its safety part; the fairness is left to TLC).
THEOREM QueueImplementsPool == Spec => Pool!PoolSafety
  BY InitPool, NextPool, Invariance, PTL DEF Spec, Pool!PoolSafety

-----------------------------------------------------------------------------
(* The sort of 09_barrier.c *)

\* The positions within a part, and those of the children of a node of its heap.
Part == 0..(THREAD_NUMBER_COUNT - 1)
Children(k) == {2 * k + 1, 2 * k + 2}

\* Each number is drawn and stays in the array as often.
Occurs(a, n) == {p \in Position : a[p] = n}
SameNumbers ==
  \A n \in Numbers : Cardinality(Occurs(random_numbers, n)) = Cardinality(Occurs(input, n))

\* The part of a thread, as a function of its own.
Section(t) == [k \in Part |-> At(t, k)]

\* Among the first h numbers no child is larger than its parent, from position lo on.
Heap(f, lo, h) == \A k \in lo..(h - 1) : \A c \in Children(k) : c < h => f[c] <= f[k]

\* The same with the exception of the element that sinks, at position x, whose children
\* are not larger than its own parent, though.
HeapBut(f, lo, h, x) ==
  \A k \in lo..(h - 1) :
    /\ \A c \in Children(k) : c < h /\ k # x => f[c] <= f[k]
    /\ x \in Children(k) => \A c \in Children(x) : c < h => f[c] <= f[k]

\* From position h on the part is in order, and nothing before h is larger.
InOrder(f, h) == \A k \in Part, l \in Part : h <= l /\ k <= l => f[k] <= f[l]

\* The thread is in heap_sort(); the first position from which its part is a heap.
Heaping(t) == phase[t] \in {"build", "extract"}
First(t) == IF phase[t] = "build" THEN i[t] ELSE 0

\* The thread has returned from heap_sort().
Past(t) == phase[t] \in {"sorted", "wait", "done"}

\* All is well with the part of a thread.
PartGood(t) ==
  /\ Heaping(t) =>
       /\ THREAD_NUMBER_COUNT > 1 /\ i[t] \in Part /\ (phase[t] = "extract" => i[t] > 0)
       /\ index[t] \in First(t)..(Size(t) - 1)
       /\ HeapBut(Section(t), First(t), Size(t), index[t])
       /\ InOrder(Section(t), Size(t))
  /\ Past(t) => InOrder(Section(t), 0)

\* Who waits at the barrier: as many as it has counted, and nobody passes it alone.
Waiting == {t \in Thread : phase[t] = "wait"}
BarrierInv ==
  /\ arrived = Cardinality(Waiting) + (IF place = "wait" THEN 1 ELSE 0)
  /\ \A t \in Thread : (phase[t] = "unborn") <=> t >= created
  /\ place # "create" => created = THREAD_COUNT
  /\ \A t \in Thread : (phase[t] = "done") <=> place \in {"merge", "done"}

\* The positions merge() has taken the number of.
Taken == {p \in Position : \E t \in Thread : Base(t) <= p /\ p < thread_initial_index[t]}
\* What merge() has put out is in order, is not larger than what is left of the parts, and
\* is what stood at the positions taken.
MergeInv ==
  /\ \A t \in Thread : thread_initial_index[t] \in Base(t)..(Base(t) + THREAD_NUMBER_COUNT)
  /\ place \notin {"merge", "done"} => sorted_numbers = <<>> /\ Taken = {}
  /\ \A k \in 1..Len(sorted_numbers), l \in 1..Len(sorted_numbers) :
       k <= l => sorted_numbers[k] <= sorted_numbers[l]
  /\ \A k \in 1..Len(sorted_numbers), t \in Thread :
       \A p \in thread_initial_index[t]..(Base(t) + THREAD_NUMBER_COUNT - 1) :
         sorted_numbers[k] <= random_numbers[p]
  /\ Len(sorted_numbers) = Cardinality(Taken)
  /\ \A n \in Numbers : Cardinality({k \in 1..Len(sorted_numbers) : sorted_numbers[k] = n})
                          = Cardinality({p \in Taken : random_numbers[p] = n})
  /\ place = "done" => Len(sorted_numbers) = NUMBER_COUNT
SortIInv ==
  /\ SortTypeOK /\ SameNumbers /\ BarrierInv /\ MergeInv
  /\ \A t \in Thread : PartGood(t)

\* The parts are equal.
LEMMA Parts ==
  /\ THREAD_NUMBER_COUNT \in Nat /\ THREAD_COUNT \in Nat \ {0}
  /\ THREAD_COUNT * THREAD_NUMBER_COUNT = NUMBER_COUNT
<1>1. THREAD_COUNT \in Nat \ {0} /\ NUMBER_COUNT \in Nat /\ NUMBER_COUNT % THREAD_COUNT = 0
  BY PartsAssumption
<1> QED BY <1>1, SMTT(30) DEF THREAD_NUMBER_COUNT

\* A product grows with its factor.
LEMMA Products ==
  ASSUME NEW t \in Nat, NEW u \in Nat, NEW n \in Nat, t < u
  PROVE  /\ t * n \in Nat /\ u * n \in Nat /\ (t + 1) * n = t * n + n
         /\ t * n + n <= u * n
  OBVIOUS

\* Where the parts are: within the array, and apart from each other.
LEMMA PartFacts ==
  /\ \A t \in Thread : /\ Base(t) \in Nat /\ Base(t) + THREAD_NUMBER_COUNT <= NUMBER_COUNT
                       /\ (t + 1) * THREAD_NUMBER_COUNT = Base(t) + THREAD_NUMBER_COUNT
  /\ \A t \in Thread, u \in Thread : t < u => Base(t) + THREAD_NUMBER_COUNT <= Base(u)
  /\ \A t \in Thread, k \in Part : Base(t) + k \in Position
<1>1. THREAD_NUMBER_COUNT \in Nat /\ THREAD_COUNT \in Nat \ {0} BY Parts
<1>2. ASSUME NEW t \in Thread
      PROVE  /\ Base(t) \in Nat /\ Base(t) + THREAD_NUMBER_COUNT <= NUMBER_COUNT
             /\ (t + 1) * THREAD_NUMBER_COUNT = Base(t) + THREAD_NUMBER_COUNT
  <2>1. t \in Nat /\ t < THREAD_COUNT BY <1>1 DEF Thread
  <2>2. t * THREAD_NUMBER_COUNT + THREAD_NUMBER_COUNT <= THREAD_COUNT * THREAD_NUMBER_COUNT
        /\ t * THREAD_NUMBER_COUNT \in Nat
        /\ (t + 1) * THREAD_NUMBER_COUNT = t * THREAD_NUMBER_COUNT + THREAD_NUMBER_COUNT
    BY <1>1, <2>1, Products
  <2> QED BY <2>2, Parts DEF Base
<1>3. ASSUME NEW t \in Thread, NEW u \in Thread, t < u
      PROVE  Base(t) + THREAD_NUMBER_COUNT <= Base(u)
  <2>1. t \in Nat /\ u \in Nat BY <1>1 DEF Thread
  <2> QED BY <1>1, <1>3, <2>1, Products DEF Base
<1>4. ASSUME NEW t \in Thread, NEW k \in Part PROVE Base(t) + k \in Position
  <2>1. k \in Nat /\ k < THREAD_NUMBER_COUNT BY <1>1 DEF Part
  <2>2. NUMBER_COUNT \in Nat BY PartsAssumption
  <2> QED BY <1>1, <1>2, <2>1, <2>2 DEF Position
<1> QED BY <1>2, <1>3, <1>4

\* Positions of different threads are different.
LEMMA PartsApart ==
  ASSUME NEW t \in Thread, NEW u \in Thread, NEW k \in Part, NEW l \in Part,
         t # u \/ k # l
  PROVE  Base(t) + k # Base(u) + l
<1>1. /\ Base(t) \in Nat /\ Base(u) \in Nat /\ THREAD_NUMBER_COUNT \in Nat
      /\ k \in 0..(THREAD_NUMBER_COUNT - 1) /\ l \in 0..(THREAD_NUMBER_COUNT - 1)
      /\ t \in Int /\ u \in Int
  BY PartFacts, Parts DEF Part, Thread
<1>2. CASE t = u BY <1>1, <1>2
<1>3. CASE t < u
  <2>1. Base(t) + THREAD_NUMBER_COUNT <= Base(u) BY <1>3, PartFacts
  <2> QED BY <1>1, <2>1
<1>4. CASE u < t
  <2>1. Base(u) + THREAD_NUMBER_COUNT <= Base(t) BY <1>4, PartFacts
  <2> QED BY <1>1, <2>1
<1> QED BY <1>1, <1>2, <1>3, <1>4

\* One element of a set for another.
LEMMA Exchange ==
  ASSUME NEW S, IsFiniteSet(S), NEW p \in S, NEW q, q \notin S
  PROVE  Cardinality((S \ {p}) \cup {q}) = Cardinality(S)
<1>1. IsFiniteSet(S \ {p}) /\ Cardinality(S \ {p}) = Cardinality(S) - 1
  BY FS_RemoveElement
<1>2. Cardinality((S \ {p}) \cup {q}) = Cardinality(S \ {p}) + 1 BY <1>1, FS_AddElement
<1>3. Cardinality(S) \in Nat BY FS_CardinalityType
<1> QED BY <1>1, <1>2, <1>3

\* Positions are finitely many.
LEMMA FinitePositions ==
  IsFiniteSet(Position) /\ Cardinality(Position) = NUMBER_COUNT
<1>1. NUMBER_COUNT \in Nat BY PartsAssumption
<1> QED BY <1>1, FS_Interval DEF Position

\* A swap leaves every number in the array as often as it was.
LEMMA SwapKeeps ==
  ASSUME NEW a \in [Position -> Numbers], NEW p \in Position, NEW q \in Position
  PROVE  /\ Swap(a, p, q) \in [Position -> Numbers]
         /\ Swap(a, p, q)[p] = a[q] /\ Swap(a, p, q)[q] = a[p]
         /\ \A r \in Position \ {p, q} : Swap(a, p, q)[r] = a[r]
         /\ \A n : Cardinality(Occurs(Swap(a, p, q), n)) = Cardinality(Occurs(a, n))
<1> DEFINE b == Swap(a, p, q)
<1>1. /\ b \in [Position -> Numbers] /\ b[p] = a[q] /\ b[q] = a[p]
      /\ \A r \in Position \ {p, q} : b[r] = a[r]
  BY DEF Swap
<1> HIDE DEF b
<1>2. ASSUME NEW n PROVE Cardinality(Occurs(b, n)) = Cardinality(Occurs(a, n))
  <2> DEFINE S == Occurs(a, n)
  <2>1. IsFiniteSet(S) BY FinitePositions, FS_Subset DEF Occurs
  <2>2. CASE a[p] = n /\ a[q] # n
    <3>1. Occurs(b, n) = (S \ {p}) \cup {q} /\ p \in S /\ q \notin S
      BY <1>1, <2>2 DEF Occurs
    <3> QED BY <2>1, <3>1, Exchange
  <2>3. CASE a[q] = n /\ a[p] # n
    <3>1. Occurs(b, n) = (S \ {q}) \cup {p} /\ q \in S /\ p \notin S
      BY <1>1, <2>3 DEF Occurs
    <3> QED BY <2>1, <3>1, Exchange
  <2>4. CASE a[p] = n <=> a[q] = n
    <3>1. Occurs(b, n) = S BY <1>1, <2>4 DEF Occurs
    <3> QED BY <3>1
  <2> QED BY <2>2, <2>3, <2>4
<1> QED BY <1>1, <1>2 DEF b

\* What a swap within the part of a thread does.
LEMMA Swapped ==
  ASSUME random_numbers \in [Position -> Numbers], NEW t \in Thread,
         NEW x \in Part, NEW y \in Part,
         random_numbers' = Swap(random_numbers, Base(t) + x, Base(t) + y)
  PROVE  /\ random_numbers' \in [Position -> Numbers]
         /\ Section(t)' = Swap(Section(t), x, y)
         /\ \A u \in Thread \ {t} : Section(u)' = Section(u)
         /\ SameNumbers /\ input' = input => SameNumbers'
<1> DEFINE p == Base(t) + x
           q == Base(t) + y
<1>1. p \in Position /\ q \in Position BY PartFacts
<1>2. /\ random_numbers' \in [Position -> Numbers]
      /\ random_numbers'[p] = random_numbers[q] /\ random_numbers'[q] = random_numbers[p]
      /\ \A r \in Position \ {p, q} : random_numbers'[r] = random_numbers[r]
      /\ \A n : Cardinality(Occurs(random_numbers', n)) = Cardinality(Occurs(random_numbers, n))
  BY <1>1, SwapKeeps
<1>3. ASSUME NEW k \in Part
      PROVE  At(t, k)' = IF k = x THEN At(t, y) ELSE IF k = y THEN At(t, x) ELSE At(t, k)
  <2>1. Base(t) + k \in Position BY PartFacts
  <2>2. k # x /\ k # y => Base(t) + k \notin {p, q} BY PartsApart
  <2> QED BY <1>2, <2>1, <2>2 DEF At
<1>4. ASSUME NEW u \in Thread \ {t}, NEW k \in Part PROVE At(u, k)' = At(u, k)
  <2>1. Base(u) + k \in Position BY PartFacts
  <2>2. Base(u) + k \notin {p, q} BY PartsApart
  <2> QED BY <1>2, <2>1, <2>2 DEF At
<1>5. SameNumbers /\ input' = input => SameNumbers' BY <1>2 DEF SameNumbers
<1>6. Section(t)' = Swap(Section(t), x, y) BY <1>3 DEF Section, Swap
<1>7. \A u \in Thread \ {t} : Section(u)' = Section(u) BY <1>4 DEF Section
<1> QED BY <1>2, <1>5, <1>6, <1>7

\* The positions of a part.
LEMMA PartType == \A k : k \in Part <=> k \in Nat /\ k < THREAD_NUMBER_COUNT
  BY Parts DEF Part

\* What a swap does to a part.
LEMMA SwapIs ==
  ASSUME NEW f \in [Part -> Nat], NEW x \in Part, NEW y \in Part
  PROVE  /\ Swap(f, x, y) \in [Part -> Nat]
         /\ Swap(f, x, y)[x] = f[y] /\ Swap(f, x, y)[y] = f[x]
         /\ \A k \in Part \ {x, y} : Swap(f, x, y)[k] = f[k]
  BY DEF Swap

\* Sinking by one level: the hole in the heap moves down.
LEMMA SinkKeeps ==
  ASSUME NEW f \in [Part -> Nat], NEW h \in Nat, h <= THREAD_NUMBER_COUNT, NEW lo \in Nat,
         NEW x \in lo..(h - 1), NEW m \in Children(x), m < h, f[m] > f[x],
         \A c \in Children(x) : c < h => f[c] <= f[m],
         HeapBut(f, lo, h, x), InOrder(f, h)
  PROVE  HeapBut(Swap(f, x, m), lo, h, m) /\ InOrder(Swap(f, x, m), h)
<1> DEFINE g == Swap(f, x, m)
<1>1. /\ x \in Nat /\ m \in Nat /\ x < h /\ lo <= x /\ x < m /\ THREAD_NUMBER_COUNT \in Nat
      /\ x \in Part /\ m \in Part
      /\ \A k \in 0..(h - 1) : k \in Part
  BY Parts, PartType DEF Children
<1>2. /\ g[x] = f[m] /\ g[m] = f[x] /\ \A k \in Part \ {x, m} : g[k] = f[k]
      /\ \A k \in Part : f[k] \in Nat /\ g[k] \in Nat
  BY <1>1, SwapIs
<1> HIDE DEF g
<1>3. ASSUME NEW k \in lo..(h - 1), NEW c \in Children(k), c < h, k # m PROVE g[c] <= g[k]
  <2>1. k \in Nat /\ c \in Nat /\ k < h /\ k < c /\ k \in Part /\ c \in Part
    BY <1>1, <1>3, PartType DEF Children
  <2>2. CASE k = x
    <3>1. c # x BY <2>1, <2>2
    <3>2. f[c] <= f[m] BY <1>3, <2>2
    <3> QED BY <1>1, <1>2, <2>1, <2>2, <3>1, <3>2
  <2>3. CASE k # x /\ c = x
    <3>1. f[m] <= f[k] BY <1>3, <2>3 DEF HeapBut
    <3> QED BY <1>1, <1>2, <1>3, <2>1, <2>3, <3>1
  <2>4. CASE k # x /\ c # x
    <3>1. c # m BY <1>1, <2>1, <2>4 DEF Children
    <3>2. f[c] <= f[k] BY <1>3, <2>4 DEF HeapBut
    <3> QED BY <1>2, <1>3, <2>1, <2>4, <3>1, <3>2
  <2> QED BY <2>2, <2>3, <2>4
<1>4. ASSUME NEW k \in lo..(h - 1), m \in Children(k), NEW c \in Children(m), c < h
      PROVE  g[c] <= g[k]
  <2>1. k = x BY <1>1, <1>4 DEF Children
  <2>2. m \in lo..(h - 1) /\ m # x BY <1>1
  <2>3. f[c] <= f[m] BY <1>4, <2>2 DEF HeapBut
  <2>4. c \in Nat /\ c > m BY <1>1 DEF Children
  <2>5. c \in Part /\ c # x /\ c # m BY <1>1, <1>4, <2>4, PartType
  <2> QED BY <1>2, <2>1, <2>3, <2>5
<1>5. ASSUME NEW k \in Part, NEW l \in Part, h <= l, k <= l PROVE g[k] <= g[l]
  <2>1. l \in Nat /\ l # x /\ l # m /\ g[l] = f[l] BY <1>1, <1>2, <1>5, PartType
  <2>2. f[k] <= f[l] /\ f[x] <= f[l] /\ f[m] <= f[l]
    BY <1>1, <1>5, <2>1 DEF InOrder
  <2> QED BY <1>2, <2>1, <2>2
<1> QED BY <1>3, <1>4, <1>5 DEF g, HeapBut, InOrder

\* An element that is not smaller than its children has sunk far enough.
LEMMA SunkIsHeap ==
  ASSUME NEW f, NEW h, NEW lo, NEW x, HeapBut(f, lo, h, x),
         \A c \in Children(x) : c < h => f[c] <= f[x]
  PROVE  Heap(f, lo, h)
  BY DEF HeapBut, Heap

\* A set of natural numbers up to n that is not empty has a smallest element.
LEMMA Smallest ==
  ASSUME NEW n \in Nat, NEW S \in SUBSET (0..n), S # {}
  PROVE  \E m \in S : \A k \in S : m <= k
<1> DEFINE Below(m) == {k \in 0..n : k < m}
           T == {Below(m) : m \in S}
           R == StrictSubsetOrdering(0..n)
<1>1. IsFiniteSet(0..n) BY FS_Interval
<1>2. IsWellFoundedOn(R, SUBSET (0..n))
  BY <1>1, FS_FiniteSubsetsOfFinite, FS_StrictSubsetOrderingWellFounded
<1>3. T \subseteq SUBSET (0..n) /\ T # {} OBVIOUS
<1> HIDE DEF R, T
<1>4. \E x \in T : \A y \in T : ~ (<<y, x>> \in R) BY <1>2, <1>3, WFMin
<1> USE DEF T
<1>5. PICK m \in S : \A k \in S : <<Below(k), Below(m)>> \notin R BY <1>4
<1>6. ASSUME NEW k \in S, k < m PROVE FALSE
  <2>1. k \in 0..n /\ m \in 0..n OBVIOUS
  <2>2. k \in Below(m) /\ k \notin Below(k) BY <1>6, <2>1
  <2>3. Below(k) \subseteq Below(m) /\ Below(k) \in SUBSET (0..n) /\ Below(m) \in SUBSET (0..n)
    BY <1>6, <2>1
  <2>4. <<Below(k), Below(m)>> \in R BY <2>2, <2>3 DEF R, StrictSubsetOrdering
  <2> QED BY <1>5, <2>4
<1>7. \A k \in S : k \in 0..n /\ m \in 0..n OBVIOUS
<1> QED BY <1>6, <1>7

\* No number in a heap is larger than its root: the first that was would have a parent
\* that is not smaller.
LEMMA RootIsLargest ==
  ASSUME NEW f \in [Part -> Nat], NEW h \in Nat, h <= THREAD_NUMBER_COUNT, Heap(f, 0, h),
         NEW k \in 0..(h - 1)
  PROVE  f[k] <= f[0]
<1> DEFINE S == {l \in 0..(h - 1) : f[l] > f[0]}
<1>1. \A l \in 0..(h - 1) : l \in Part /\ f[l] \in Nat BY Parts, PartType
<1>2. 0 \in 0..(h - 1) /\ h - 1 \in Nat OBVIOUS
<1>3. ASSUME S # {} PROVE FALSE
  <2>1. PICK l \in S : \A j \in S : l <= j
    <3>1. S \in SUBSET (0..(h - 1)) OBVIOUS
    <3> HIDE DEF S
    <3> QED BY <1>2, <1>3, <3>1, Smallest
  <2>2. l # 0 BY <1>1, <1>2
  <2>3. PICK j \in 0..(h - 1) : l \in Children(j) /\ j < l
    <3>1. (l - 1) \div 2 \in 0..(h - 1) /\ (l - 1) \div 2 < l
          /\ (l = 2 * ((l - 1) \div 2) + 1 \/ l = 2 * ((l - 1) \div 2) + 2)
      BY <2>2
    <3> QED BY <3>1 DEF Children
  <2>4. f[l] <= f[j] BY <2>3 DEF Heap
  <2>5. j \in S BY <1>1, <1>2, <2>4
  <2> QED BY <2>1, <2>3, <2>5
<1> QED BY <1>1, <1>2, <1>3

\* The root goes behind the heap, where it belongs; what sinks from the root is the only
\* exception from the heap.
LEMMA RemoveKeeps ==
  ASSUME NEW f \in [Part -> Nat], NEW h \in Nat, h <= THREAD_NUMBER_COUNT, h > 1,
         Heap(f, 0, h), InOrder(f, h)
  PROVE  HeapBut(Swap(f, 0, h - 1), 0, h - 1, 0) /\ InOrder(Swap(f, 0, h - 1), h - 1)
<1> DEFINE g == Swap(f, 0, h - 1)
<1>1. /\ h - 1 \in Part /\ 0 \in Part /\ h - 1 \in Nat /\ h - 1 # 0 BY Parts, PartType
<1>2. /\ g[0] = f[h - 1] /\ g[h - 1] = f[0] /\ \A k \in Part \ {0, h - 1} : g[k] = f[k]
      /\ \A k \in Part : f[k] \in Nat /\ g[k] \in Nat
  BY <1>1, SwapIs
<1> HIDE DEF g
<1>3. ASSUME NEW k \in 0..(h - 1 - 1)
      PROVE  /\ \A c \in Children(k) : c < h - 1 /\ k # 0 => g[c] <= g[k]
             /\ 0 \notin Children(k)
  <2>1. k \in Nat /\ k < h - 1 BY <1>1
  <2>2. 0 \notin Children(k) BY <2>1 DEF Children
  <2>3. ASSUME NEW c \in Children(k), c < h - 1, k # 0 PROVE g[c] <= g[k]
    <3>1. c \in Nat /\ c > k BY <2>1 DEF Children
    <3>2. c \in Part \ {0, h - 1} /\ k \in Part \ {0, h - 1}
      BY <2>1, <2>3, <3>1, Parts, PartType
    <3>3. k \in 0..(h - 1) /\ c < h BY <2>1, <2>3, <3>1
    <3>4. f[c] <= f[k] BY <3>3 DEF Heap
    <3> QED BY <1>2, <3>2, <3>4
  <2> QED BY <2>2, <2>3
<1>4. ASSUME NEW k \in Part, NEW l \in Part, h - 1 <= l, k <= l PROVE g[k] <= g[l]
  <2>1. k \in Nat /\ l \in Nat BY PartType
  <2>2. \A j \in 0..(h - 1) : f[j] <= f[0] BY RootIsLargest
  <2>3. CASE l = h - 1
    <3>1. k = h - 1 \/ k = 0 \/ (k \in 0..(h - 1) /\ k \notin {0, h - 1}) BY <1>4, <2>1, <2>3
    <3>2. h - 1 \in 0..(h - 1) /\ f[0] \in Nat BY <1>1, <1>2
    <3> QED BY <1>1, <1>2, <2>2, <2>3, <3>1, <3>2
  <2>4. CASE l # h - 1
    <3>1. h <= l /\ l \notin {0, h - 1} BY <1>4, <2>1, <2>4
    <3>2. f[k] <= f[l] /\ f[0] <= f[l] /\ f[h - 1] <= f[l] BY <1>1, <1>4, <2>1, <3>1 DEF InOrder
    <3> QED BY <1>1, <1>2, <3>1, <3>2
  <2> QED BY <2>3, <2>4
<1> QED BY <1>3, <1>4 DEF g, HeapBut, InOrder

\* The inner node before a heap is the only exception from the heap it makes larger.
LEMMA NodeBefore ==
  ASSUME NEW f, NEW h \in Nat, NEW lo \in Nat \ {0}, Heap(f, lo, h)
  PROVE  HeapBut(f, lo - 1, h, lo - 1)
<1>1. ASSUME NEW k \in (lo - 1)..(h - 1)
      PROVE  /\ \A c \in Children(k) : c < h /\ k # lo - 1 => f[c] <= f[k]
             /\ lo - 1 \notin Children(k)
  <2>1. k # lo - 1 => k \in lo..(h - 1) OBVIOUS
  <2> QED BY <2>1 DEF Heap, Children
<1> QED BY <1>1 DEF HeapBut

\* From the last inner node on there is nothing but leaves.
LEMMA LastNode ==
  ASSUME NEW f, THREAD_NUMBER_COUNT > 1
  PROVE  /\ HeapBut(f, THREAD_NUMBER_COUNT \div 2 - 1, THREAD_NUMBER_COUNT,
                    THREAD_NUMBER_COUNT \div 2 - 1)
         /\ InOrder(f, THREAD_NUMBER_COUNT) /\ THREAD_NUMBER_COUNT \div 2 - 1 \in Part
<1> DEFINE lo == THREAD_NUMBER_COUNT \div 2 - 1
<1>1. /\ THREAD_NUMBER_COUNT \in Nat /\ lo \in Nat /\ lo < THREAD_NUMBER_COUNT
      /\ 2 * lo + 3 >= THREAD_NUMBER_COUNT
  BY Parts
<1> HIDE DEF lo
<1>2. ASSUME NEW k \in lo..(THREAD_NUMBER_COUNT - 1)
      PROVE  /\ \A c \in Children(k) : ~(c < THREAD_NUMBER_COUNT /\ k # lo)
             /\ lo \notin Children(k)
  BY <1>1 DEF Children
<1>3. HeapBut(f, lo, THREAD_NUMBER_COUNT, lo) BY <1>2 DEF HeapBut
<1>4. InOrder(f, THREAD_NUMBER_COUNT) BY <1>1, PartType DEF InOrder
<1>5. lo \in Part BY <1>1, PartType
<1> QED BY <1>3, <1>4, <1>5 DEF lo

\* What the step of another thread leaves as it is.
Same(t) == phase'[t] = phase[t] /\ i'[t] = i[t] /\ index'[t] = index[t]

\* A part that no step has touched is as good as it was.
LEMMA SamePart ==
  ASSUME NEW t \in Thread, PartGood(t), Same(t), Section(t)' = Section(t)
  PROVE  PartGood(t)'
  BY DEF PartGood, Same, Heaping, Past, First, Size

\* The numbers of a part.
LEMMA SectionType ==
  ASSUME random_numbers \in [Position -> Numbers], NEW t \in Thread
  PROVE  Section(t) \in [Part -> Nat] /\ \A k \in Part : Section(t)[k] = At(t, k)
<1>1. \A k \in Part : At(t, k) \in Nat BY PartFacts, NumbersAssumption DEF At
<1> QED BY <1>1 DEF Section

\* max_index is the position of the largest of an element and its children in the heap.
LEMMA MaxIndex ==
  ASSUME random_numbers \in [Position -> Numbers], NEW t \in Thread, Heaping(t), PartGood(t)
  PROVE  /\ Size(t) \in Nat /\ Size(t) <= THREAD_NUMBER_COUNT
         /\ max_index(t) = index[t] \/ max_index(t) \in Children(index[t])
         /\ max_index(t) < Size(t) /\ max_index(t) \in Part
         /\ max_index(t) # index[t] => Section(t)[max_index(t)] > Section(t)[index[t]]
         /\ \A c \in Children(index[t]) : c < Size(t) => Section(t)[c] <= Section(t)[max_index(t)]
<1> DEFINE f == Section(t)
           x == index[t]
           l == 2 * x + 1
           r == 2 * x + 2
           m == Larger(t, x, l)
<1>1. /\ Size(t) \in Nat /\ Size(t) <= THREAD_NUMBER_COUNT /\ x \in Nat /\ x < Size(t)
      /\ THREAD_NUMBER_COUNT \in Nat
  BY Parts, PartType DEF PartGood, Size, First, Heaping
<1>2. \A k \in Part : f[k] = At(t, k) /\ f[k] \in Nat BY SectionType
<1>3. \A k \in Nat : k < Size(t) => k \in Part BY <1>1, PartType
<1>4. l \in Nat /\ r \in Nat /\ Children(x) = {l, r} BY <1>1 DEF Children
<1> HIDE DEF f, x, l, r
<1>5. m = IF l < Size(t) /\ At(t, l) > At(t, x) THEN l ELSE x BY DEF Larger, m
<1>6. max_index(t) = IF r < Size(t) /\ At(t, r) > At(t, m) THEN r ELSE m
  BY DEF Larger, m, max_index, l, r, x
<1> HIDE DEF m
<1>7. /\ m \in {x, l} /\ m < Size(t) /\ m \in Part
      /\ m # x => f[m] > f[x]
      /\ f[x] <= f[m] /\ (l < Size(t) => f[l] <= f[m])
  BY <1>1, <1>2, <1>3, <1>4, <1>5
<1>8. /\ max_index(t) \in {m, r} /\ max_index(t) < Size(t) /\ max_index(t) \in Part
      /\ max_index(t) # m => f[max_index(t)] > f[m]
      /\ f[m] <= f[max_index(t)] /\ (r < Size(t) => f[r] <= f[max_index(t)])
  BY <1>1, <1>2, <1>3, <1>4, <1>6, <1>7
<1>9. /\ max_index(t) # x => f[max_index(t)] > f[x]
      /\ l < Size(t) => f[l] <= f[max_index(t)]
  BY <1>1, <1>2, <1>3, <1>4, <1>7, <1>8
<1> QED BY <1>1, <1>4, <1>7, <1>8, <1>9 DEF f, x

\* node_adjust_down() sinks by one level.
LEMMA SinkNext ==
  ASSUME SortTypeOK, NEW t \in Thread, PartGood(t), Sink(t)
  PROVE  /\ PartGood(t)' /\ \A u \in Thread \ {t} : Section(u)' = Section(u) /\ Same(u)
         /\ random_numbers' \in [Position -> Numbers]
         /\ index' \in [Thread -> 0..THREAD_NUMBER_COUNT]
         /\ SameNumbers => SameNumbers'
<1> DEFINE x == index[t]
           m == max_index(t)
           f == Section(t)
           h == Size(t)
<1>1. /\ phase[t] \in {"build", "extract"} /\ m # x
      /\ random_numbers' = Swap(random_numbers, Base(t) + x, Base(t) + m)
      /\ index' = [index EXCEPT ![t] = m] /\ phase' = phase /\ i' = i /\ input' = input
      /\ random_numbers \in [Position -> Numbers] /\ index \in [Thread -> 0..THREAD_NUMBER_COUNT]
  BY DEF Sink, SortTypeOK
<1>2. Heaping(t) BY <1>1 DEF Heaping
<1>3. /\ h \in Nat /\ h <= THREAD_NUMBER_COUNT /\ m \in Children(x) /\ m < h /\ m \in Part
      /\ f[m] > f[x] /\ \A c \in Children(x) : c < h => f[c] <= f[m]
  BY <1>1, <1>2, MaxIndex
<1>4. /\ THREAD_NUMBER_COUNT > 1 /\ i[t] \in Part /\ (phase[t] = "extract" => i[t] > 0)
      /\ x \in First(t)..(h - 1) /\ HeapBut(f, First(t), h, x) /\ InOrder(f, h)
  BY <1>2 DEF PartGood
<1>5. First(t) \in Nat BY <1>4, PartType DEF First
<1>6. x \in Part BY <1>3, <1>4, <1>5, Parts, PartType
<1>7. f \in [Part -> Nat] BY <1>1, SectionType
<1> HIDE DEF x, m, f, h
<1>8. HeapBut(Swap(f, x, m), First(t), h, m) /\ InOrder(Swap(f, x, m), h)
  BY <1>3, <1>4, <1>5, <1>7, SinkKeeps
<1>9. /\ random_numbers' \in [Position -> Numbers] /\ Section(t)' = Swap(f, x, m)
      /\ \A u \in Thread \ {t} : Section(u)' = Section(u)
      /\ SameNumbers => SameNumbers'
  BY <1>1, <1>3, <1>6, Swapped DEF f
<1>10. /\ index'[t] = m /\ \A u \in Thread \ {t} : index'[u] = index[u]
       /\ index' \in [Thread -> 0..THREAD_NUMBER_COUNT]
  <2>1. m \in 0..THREAD_NUMBER_COUNT BY <1>3, Parts, PartType
  <2> QED BY <1>1, <2>1
<1>11. m \in First(t)..(h - 1) BY <1>3, <1>4, <1>5 DEF Children
<1>12. First(t)' = First(t) /\ Size(t)' = h /\ Heaping(t)' /\ ~Past(t)'
  BY <1>1 DEF First, Size, Heaping, Past, h
<1>13. PartGood(t)' BY <1>1, <1>4, <1>8, <1>9, <1>10, <1>11, <1>12 DEF PartGood
<1> QED BY <1>1, <1>9, <1>10, <1>13 DEF Same

\* The largest number of a heap is removed.
LEMMA RemoveNext ==
  ASSUME SortTypeOK, NEW t \in Thread, NEW h \in Nat, h > 1, h <= THREAD_NUMBER_COUNT,
         Heap(Section(t), 0, h), InOrder(Section(t), h), Remove(t, h - 1), input' = input
  PROVE  /\ PartGood(t)' /\ \A u \in Thread \ {t} : Section(u)' = Section(u) /\ Same(u)
         /\ SortTypeOK /\ UNCHANGED <<sorted_numbers, thread_initial_index, place, created, arrived>>
              => SortTypeOK'
         /\ SameNumbers => SameNumbers'
         /\ phase'[t] = "extract"
<1> DEFINE f == Section(t)
<1>1. /\ random_numbers' = Swap(random_numbers, Base(t), Base(t) + (h - 1))
      /\ phase' = [phase EXCEPT ![t] = "extract"]
      /\ i' = [i EXCEPT ![t] = h - 1] /\ index' = [index EXCEPT ![t] = 0]
  BY DEF Remove
<1>2. h - 1 \in Part /\ 0 \in Part /\ h - 1 \in Nat /\ h - 1 > 0 /\ h - 1 \in 0..THREAD_NUMBER_COUNT
      /\ 0 \in 0..THREAD_NUMBER_COUNT /\ THREAD_NUMBER_COUNT > 1 /\ Base(t) + 0 = Base(t)
  BY Parts, PartType, PartFacts
<1>3. random_numbers \in [Position -> Numbers] BY DEF SortTypeOK
<1>4. f \in [Part -> Nat] BY <1>3, SectionType
<1>5. HeapBut(Swap(f, 0, h - 1), 0, h - 1, 0) /\ InOrder(Swap(f, 0, h - 1), h - 1)
  BY <1>4, RemoveKeeps
<1>6. random_numbers' = Swap(random_numbers, Base(t) + 0, Base(t) + (h - 1)) BY <1>1, <1>2
<1>7. /\ random_numbers' \in [Position -> Numbers] /\ Section(t)' = Swap(f, 0, h - 1)
      /\ \A u \in Thread \ {t} : Section(u)' = Section(u)
      /\ SameNumbers => SameNumbers'
  BY <1>2, <1>3, <1>6, Swapped
<1>8. /\ phase'[t] = "extract" /\ i'[t] = h - 1 /\ index'[t] = 0
      /\ \A u \in Thread \ {t} : Same(u)
  BY <1>1 DEF SortTypeOK, Same
<1>9. First(t)' = 0 /\ Size(t)' = h - 1 /\ Heaping(t)' /\ ~Past(t)'
  BY <1>8 DEF First, Size, Heaping, Past
<1> HIDE DEF f
<1>10. 0 \in 0..(h - 1 - 1) BY <1>2
<1>11. PartGood(t)' BY <1>2, <1>5, <1>7, <1>8, <1>9, <1>10 DEF PartGood
<1>12. SortTypeOK /\ UNCHANGED <<sorted_numbers, thread_initial_index, place, created, arrived>>
         => SortTypeOK'
  BY <1>1, <1>2, <1>7 DEF SortTypeOK
<1> QED BY <1>7, <1>8, <1>11, <1>12

\* A barrier that nobody has passed leaves nothing for merge() to have done.
LEMMA NotMerged ==
  ASSUME MergeInv, place \notin {"merge", "done"}, place' # "done",
         UNCHANGED <<sorted_numbers, thread_initial_index>>
  PROVE  MergeInv'
<1>1. sorted_numbers = <<>> /\ Taken = {} /\ Taken' = Taken BY DEF MergeInv, Taken
<1>2. Len(sorted_numbers) = 0 /\ 1..Len(sorted_numbers) = {} BY <1>1
<1>3. \A n : {k \in 1..Len(sorted_numbers) : sorted_numbers[k] = n} = {} BY <1>2
<1>4. \A n : {p \in Taken' : random_numbers'[p] = n} = {} BY <1>1
<1>5. \A t \in Thread : thread_initial_index'[t] \in Base(t)..(Base(t) + THREAD_NUMBER_COUNT)
  BY DEF MergeInv
<1> QED BY <1>1, <1>2, <1>3, <1>4, <1>5, FS_EmptySet DEF MergeInv

\* What a step of heap_sort() of a thread leaves alone: the barrier and the merge.
LEMMA LocalNext ==
  ASSUME SortIInv, NEW t \in Thread, Heaping(t),
         phase'[t] \in {"build", "extract", "sorted"}, \A u \in Thread \ {t} : Same(u),
         UNCHANGED <<input, sorted_numbers, thread_initial_index, place, created, arrived>>
  PROVE  BarrierInv' /\ MergeInv'
<1>1. place \notin {"merge", "done"} BY DEF SortIInv, BarrierInv, Heaping
<1>2. \A u \in Thread : /\ phase'[u] = "wait" <=> phase[u] = "wait"
                        /\ phase'[u] = "unborn" <=> phase[u] = "unborn"
                        /\ phase'[u] = "done" <=> phase[u] = "done"
  BY DEF Heaping, Same
<1>3. Waiting' = Waiting BY <1>2 DEF Waiting
<1>4. BarrierInv' BY <1>2, <1>3 DEF SortIInv, BarrierInv
<1>5. MergeInv' BY <1>1, NotMerged DEF SortIInv
<1> QED BY <1>4, <1>5

\* Each step of heap_sort() of a thread.
LEMMA HeapSortNext ==
  ASSUME SortIInv, NEW t \in Thread, Sink(t) \/ BuildHeap(t) \/ Extract(t)
  PROVE  SortIInv'
<1> DEFINE f == Section(t)
           h == Size(t)
           x == index[t]
           Good == /\ PartGood(t)' /\ \A u \in Thread \ {t} : Section(u)' = Section(u) /\ Same(u)
                   /\ SortTypeOK' /\ SameNumbers'
                   /\ phase'[t] \in {"build", "extract", "sorted"}
<1>1. /\ SortTypeOK /\ SameNumbers /\ \A u \in Thread : PartGood(u)
      /\ random_numbers \in [Position -> Numbers] /\ phase[t] \in {"build", "extract"}
      /\ UNCHANGED <<input, sorted_numbers, thread_initial_index, place, created, arrived>>
      /\ Heaping(t)
  BY DEF SortIInv, SortTypeOK, Sink, BuildHeap, Extract, Heaping
<1>2. /\ h \in Nat /\ h <= THREAD_NUMBER_COUNT /\ f \in [Part -> Nat]
      /\ \A c \in Children(x) : c < h => f[c] <= f[max_index(t)]
  BY <1>1, MaxIndex, SectionType
<1>3. /\ THREAD_NUMBER_COUNT > 1 /\ i[t] \in Part /\ (phase[t] = "extract" => i[t] > 0)
      /\ HeapBut(f, First(t), h, x) /\ InOrder(f, h) /\ x \in First(t)..(h - 1)
  BY <1>1 DEF PartGood
<1>4. ASSUME Sink(t) PROVE Good
  <2>1. /\ PartGood(t)' /\ \A u \in Thread \ {t} : Section(u)' = Section(u) /\ Same(u)
        /\ random_numbers' \in [Position -> Numbers]
        /\ index' \in [Thread -> 0..THREAD_NUMBER_COUNT]
        /\ SameNumbers'
    BY <1>1, <1>4, SinkNext
  <2>2. phase' = phase /\ i' = i BY <1>4 DEF Sink
  <2> QED BY <1>1, <2>1, <2>2 DEF SortTypeOK
<1>5. ASSUME ~Sink(t) PROVE Good
  <2>1. (BuildHeap(t) \/ Extract(t)) /\ max_index(t) = x BY <1>5 DEF BuildHeap, Extract
  <2>2. Heap(f, First(t), h) BY <1>2, <1>3, <2>1, SunkIsHeap
  <2>3. CASE BuildHeap(t) /\ i[t] > 0
    <3>1. /\ phase[t] = "build" /\ i' = [i EXCEPT ![t] = i[t] - 1]
          /\ index' = [index EXCEPT ![t] = i[t] - 1]
          /\ random_numbers' = random_numbers /\ phase' = phase
      BY <2>3 DEF BuildHeap
    <3>2. i[t] \in Nat \ {0} /\ i[t] - 1 \in Part /\ i[t] - 1 \in 0..THREAD_NUMBER_COUNT
          /\ i[t] - 1 \in (i[t] - 1)..(h - 1)
      <4>1. i[t] \in Nat /\ i[t] < THREAD_NUMBER_COUNT BY <1>3, PartType
      <4>2. h = THREAD_NUMBER_COUNT BY <3>1 DEF Size
      <4> QED BY <2>3, <4>1, <4>2, Parts, PartType
    <3>3. HeapBut(f, i[t] - 1, h, i[t] - 1)
      <4>1. Heap(f, i[t], h) BY <2>2, <3>1 DEF First
      <4> QED BY <1>2, <3>2, <4>1, NodeBefore
    <3>4. /\ i'[t] = i[t] - 1 /\ index'[t] = i[t] - 1 /\ \A u \in Thread \ {t} : Same(u)
          /\ \A u \in Thread : Section(u)' = Section(u)
      BY <1>1, <3>1 DEF SortTypeOK, Same, Section, At
    <3>5. First(t)' = i[t] - 1 /\ Size(t)' = h /\ Heaping(t)' /\ ~Past(t)'
      BY <3>1, <3>4 DEF First, Size, Heaping, Past
    <3> HIDE DEF f, h, x
    <3>6. PartGood(t)'
      BY <1>3, <3>1, <3>2, <3>3, <3>4, <3>5 DEF PartGood, f
    <3>7. SortTypeOK' BY <1>1, <3>1, <3>2 DEF SortTypeOK
    <3>8. SameNumbers' BY <1>1, <3>1 DEF SameNumbers
    <3> QED BY <1>1, <3>1, <3>4, <3>6, <3>7, <3>8
  <2>4. CASE BuildHeap(t) /\ i[t] = 0
    <3>1. phase[t] = "build" /\ Remove(t, THREAD_NUMBER_COUNT - 1) BY <2>4 DEF BuildHeap
    <3>2. First(t) = 0 /\ h = THREAD_NUMBER_COUNT BY <2>4, <3>1 DEF First, Size
    <3> HIDE DEF f, h, x
    <3>3. Heap(f, 0, THREAD_NUMBER_COUNT) /\ InOrder(f, THREAD_NUMBER_COUNT)
      BY <1>3, <2>2, <3>2
    <3> QED BY <1>1, <1>3, <3>1, <3>3, Parts, RemoveNext DEF f
  <2>5. CASE Extract(t) /\ i[t] > 1
    <3>1. phase[t] = "extract" /\ Remove(t, i[t] - 1) BY <2>5 DEF Extract
    <3>2. First(t) = 0 /\ h = i[t] BY <3>1 DEF First, Size
    <3>3. i[t] \in Nat /\ i[t] <= THREAD_NUMBER_COUNT BY <1>2, <3>2
    <3> HIDE DEF f, h, x
    <3>4. Heap(f, 0, i[t]) /\ InOrder(f, i[t]) BY <1>3, <2>2, <3>2
    <3> QED BY <1>1, <2>5, <3>1, <3>3, <3>4, RemoveNext DEF f
  <2>6. CASE Extract(t) /\ i[t] = 1
    <3>1. /\ phase[t] = "extract" /\ phase' = [phase EXCEPT ![t] = "sorted"]
          /\ UNCHANGED <<random_numbers, i, index>>
      BY <2>6 DEF Extract
    <3>2. InOrder(f, 1) BY <1>3, <2>6, <3>1 DEF Size
    <3>3. InOrder(f, 0)
      <4>1. \A k \in Part, l \in Part : k <= l => f[k] <= f[l]
        <5> TAKE k \in Part, l \in Part
        <5>1. k \in Nat /\ l \in Nat /\ f[k] \in Nat /\ f[l] \in Nat BY <1>2, PartType
        <5>2. CASE 1 <= l BY <3>2, <5>1, <5>2 DEF InOrder
        <5>3. CASE ~(1 <= l) BY <5>1, <5>3
        <5> QED BY <5>2, <5>3
      <4> QED BY <4>1 DEF InOrder
    <3>4. /\ phase'[t] = "sorted" /\ \A u \in Thread \ {t} : Same(u)
          /\ \A u \in Thread : Section(u)' = Section(u)
      BY <1>1, <3>1 DEF SortTypeOK, Same, Section, At
    <3> HIDE DEF f, h, x
    <3>5. PartGood(t)' BY <3>3, <3>4 DEF PartGood, Heaping, f
    <3>6. SortTypeOK' BY <1>1, <3>1 DEF SortTypeOK
    <3>7. SameNumbers' BY <1>1, <3>1 DEF SameNumbers
    <3> QED BY <3>4, <3>5, <3>6, <3>7
  <2>7. i[t] \in Nat /\ (phase[t] = "extract" => i[t] > 0) BY <1>3, PartType
  <2> QED BY <2>1, <2>3, <2>4, <2>5, <2>6, <2>7 DEF Extract
<1>6. Good BY <1>4, <1>5
<1>7. \A u \in Thread \ {t} : PartGood(u)' BY <1>1, <1>6, SamePart
<1>8. BarrierInv' /\ MergeInv' BY <1>1, <1>6, LocalNext
<1> QED BY <1>6, <1>7, <1>8 DEF SortIInv

\* The threads are finitely many.
LEMMA FiniteThreads ==
  /\ IsFiniteSet(Thread) /\ Cardinality(Thread) = THREAD_COUNT
  /\ IsFiniteSet(Waiting) /\ Cardinality(Waiting) \in Nat /\ Cardinality(Waiting) <= THREAD_COUNT
<1>1. IsFiniteSet(Thread) /\ Cardinality(Thread) = THREAD_COUNT
  BY Parts, FS_Interval DEF Thread
<1>2. Waiting \subseteq Thread BY DEF Waiting
<1> QED BY <1>1, <1>2, FS_Subset, FS_CardinalityType

\* A step that moves no number.
LEMMA NothingMoves ==
  ASSUME random_numbers' = random_numbers, input' = input
  PROVE  (\A t \in Thread : Section(t)' = Section(t)) /\ (SameNumbers => SameNumbers')
  BY DEF Section, At, SameNumbers

\* main() tries to create a thread.
LEMMA CreateThreadNext ==
  ASSUME SortIInv, CreateThread
  PROVE  SortIInv'
<1>1. /\ place = "create" /\ created < THREAD_COUNT /\ created' = created + 1
      /\ UNCHANGED <<input, random_numbers, sorted_numbers, thread_initial_index, place, arrived>>
  BY DEF CreateThread
<1>2. SortTypeOK /\ BarrierInv /\ MergeInv /\ SameNumbers /\ \A u \in Thread : PartGood(u)
  BY DEF SortIInv
<1>3. /\ created \in Nat /\ created \in Thread /\ THREAD_COUNT \in Nat
      /\ created + 1 \in 0..THREAD_COUNT /\ SortTypeOK
  <2>1. created \in 0..THREAD_COUNT BY <1>2 DEF SortTypeOK
  <2> QED BY <1>1, <1>2, <2>1, Parts DEF Thread
<1>4. PICK t \in Thread : t = created BY <1>3
<1>5. phase[t] = "unborn" BY <1>2, <1>3, <1>4 DEF BarrierInv
<1>6. (\A u \in Thread : Section(u)' = Section(u)) /\ SameNumbers' BY <1>1, <1>2, NothingMoves
<1>7. /\ \A u \in Thread \ {t} : Same(u)
      /\ phase'[t] \in {"absent", "build", "sorted"} /\ PartGood(t)' /\ SortTypeOK'
  <2>1. CASE phase' = [phase EXCEPT ![t] = "absent"] /\ UNCHANGED <<i, index>>
    <3>1. phase'[t] = "absent" /\ \A u \in Thread \ {t} : Same(u)
      BY <1>3, <2>1 DEF SortTypeOK, Same
    <3>2. SortTypeOK' BY <1>1, <1>3, <2>1 DEF SortTypeOK
    <3> QED BY <3>1, <3>2 DEF PartGood, Heaping, Past
  <2>2. CASE Start(t) /\ THREAD_NUMBER_COUNT <= 1
    <3>1. phase' = [phase EXCEPT ![t] = "sorted"] /\ UNCHANGED <<i, index>> BY <2>2 DEF Start
    <3>2. phase'[t] = "sorted" /\ \A u \in Thread \ {t} : Same(u)
      BY <1>3, <3>1 DEF SortTypeOK, Same
    <3>3. SortTypeOK' BY <1>1, <1>3, <3>1 DEF SortTypeOK
    <3>4. InOrder(Section(t), 0)
      <4>1. random_numbers \in [Position -> Numbers] BY <1>2 DEF SortTypeOK
      <4>2. Section(t) \in [Part -> Nat] BY <4>1, SectionType
      <4>3. \A k \in Part : k = 0 BY <2>2, Parts DEF Part
      <4>4. \A k \in Part : Section(t)[k] \in Nat BY <4>2
      <4> QED BY <4>3, <4>4 DEF InOrder
    <3> QED BY <1>3, <1>6, <3>2, <3>3, <3>4 DEF PartGood, Heaping
  <2>3. CASE Start(t) /\ ~(THREAD_NUMBER_COUNT <= 1)
    <3> DEFINE lo == THREAD_NUMBER_COUNT \div 2 - 1
    <3>1. /\ phase' = [phase EXCEPT ![t] = "build"]
          /\ i' = [i EXCEPT ![t] = lo] /\ index' = [index EXCEPT ![t] = lo]
      BY <2>3 DEF Start
    <3>2. THREAD_NUMBER_COUNT \in Nat /\ THREAD_NUMBER_COUNT > 1 BY <2>3, Parts
    <3>3. /\ HeapBut(Section(t), lo, THREAD_NUMBER_COUNT, lo)
          /\ InOrder(Section(t), THREAD_NUMBER_COUNT) /\ lo \in Part
      BY <3>2, LastNode
    <3> HIDE DEF lo
    <3>4. lo \in 0..THREAD_NUMBER_COUNT /\ lo \in lo..(THREAD_NUMBER_COUNT - 1)
      BY <3>2, <3>3, PartType
    <3>5. /\ phase'[t] = "build" /\ i'[t] = lo /\ index'[t] = lo /\ \A u \in Thread \ {t} : Same(u)
      BY <1>3, <3>1 DEF SortTypeOK, Same
    <3>6. First(t)' = lo /\ Size(t)' = THREAD_NUMBER_COUNT /\ ~Past(t)'
      BY <3>5 DEF First, Size, Past
    <3>7. PartGood(t)' BY <1>3, <1>6, <3>2, <3>3, <3>4, <3>5, <3>6 DEF PartGood
    <3>8. SortTypeOK' BY <1>1, <1>3, <3>1, <3>4 DEF SortTypeOK
    <3> QED BY <3>5, <3>7, <3>8
  <2> QED BY <1>4, <2>1, <2>2, <2>3 DEF CreateThread
<1>8. \A u \in Thread : PartGood(u)' BY <1>2, <1>6, <1>7, SamePart
<1>9. BarrierInv'
  <2>1. \A u \in Thread : (phase'[u] = "wait" <=> phase[u] = "wait")
                          /\ (phase'[u] = "done" <=> phase[u] = "done")
    BY <1>5, <1>7 DEF Same
  <2>2. Waiting' = Waiting BY <2>1 DEF Waiting
  <2>3. ASSUME NEW u \in Thread PROVE (phase'[u] = "unborn") <=> u >= created'
    <3>1. u \in Nat BY <1>3 DEF Thread
    <3>2. CASE u = t BY <1>1, <1>3, <1>4, <1>7, <3>1, <3>2
    <3>3. CASE u # t
      <4>1. phase'[u] = phase[u] /\ (phase[u] = "unborn" <=> u >= created)
        BY <1>2, <1>7, <3>3 DEF Same, BarrierInv
      <4> QED BY <1>1, <1>3, <1>4, <3>1, <3>3, <4>1
    <3> QED BY <3>2, <3>3
  <2> QED BY <1>1, <1>2, <2>1, <2>2, <2>3 DEF BarrierInv
<1>10. MergeInv' BY <1>1, <1>2, NotMerged
<1> QED BY <1>6, <1>7, <1>8, <1>9, <1>10 DEF SortIInv

\* All of the threads and main() have come to the barrier: it opens.
LEMMA Opens ==
  ASSUME SortIInv, \A t \in Thread : Past(t), created = THREAD_COUNT, place \notin {"merge", "done"},
         arrived' = 0, phase' = [t \in Thread |-> "done"], place' = "merge",
         UNCHANGED <<input, random_numbers, sorted_numbers, thread_initial_index, i, index, created>>
  PROVE  SortIInv'
<1>1. SortTypeOK /\ BarrierInv /\ MergeInv /\ SameNumbers /\ \A t \in Thread : PartGood(t)
  BY DEF SortIInv
<1>2. SortTypeOK'
  <2>1. 0 \in 0..(THREAD_COUNT + 1) BY Parts
  <2> QED BY <1>1, <2>1 DEF SortTypeOK
<1>3. (\A t \in Thread : Section(t)' = Section(t)) /\ SameNumbers' BY <1>1, NothingMoves
<1>4. \A t \in Thread : PartGood(t)' BY <1>1, <1>3 DEF PartGood, Heaping
<1>5. BarrierInv'
  <2>1. Waiting' = {} BY DEF Waiting
  <2>2. Cardinality(Waiting') = 0 BY <2>1, FS_EmptySet
  <2>3. \A t \in Thread : ~(t >= THREAD_COUNT) BY Parts DEF Thread
  <2> QED BY <2>2, <2>3 DEF BarrierInv
<1>6. MergeInv' BY <1>1, NotMerged
<1> QED BY <1>2, <1>3, <1>4, <1>5, <1>6 DEF SortIInv

\* Somebody has come to the barrier, and not everybody is there.
LEMMA StaysShut ==
  ASSUME SortIInv, NEW threads \in SUBSET Thread,
         \A t \in threads : phase[t] = "sorted",
         place \notin {"merge", "done"}, place' \in {"create", "wait"},
         place' = "wait" => created = THREAD_COUNT,
         phase' = [t \in Thread |-> IF t \in threads THEN "wait" ELSE phase[t]],
         arrived' \in 0..(THREAD_COUNT + 1),
         arrived' = Cardinality(Waiting \cup threads) + (IF place' = "wait" THEN 1 ELSE 0),
         UNCHANGED <<input, random_numbers, sorted_numbers, thread_initial_index, i, index, created>>
  PROVE  SortIInv'
<1>1. SortTypeOK /\ BarrierInv /\ MergeInv /\ SameNumbers /\ \A t \in Thread : PartGood(t)
  BY DEF SortIInv
<1>2. SortTypeOK' BY <1>1 DEF SortTypeOK
<1>3. (\A t \in Thread : Section(t)' = Section(t)) /\ SameNumbers' BY <1>1, NothingMoves
<1>4. ASSUME NEW t \in Thread PROVE PartGood(t)'
  <2>1. CASE t \in threads
    <3>1. phase'[t] = "wait" /\ Past(t) BY <2>1 DEF Past
    <3> QED BY <1>1, <1>3, <3>1 DEF PartGood, Heaping
  <2>2. CASE t \notin threads BY <1>1, <1>3, <2>2, SamePart DEF Same
  <2> QED BY <2>1, <2>2
<1>5. BarrierInv'
  <2>1. Waiting' = Waiting \cup threads BY DEF Waiting
  <2>2. \A t \in Thread : /\ (phase'[t] = "unborn") <=> (phase[t] = "unborn")
                          /\ (phase'[t] = "done") <=> (phase[t] = "done")
    OBVIOUS
  <2>3. place' # "create" => created' = THREAD_COUNT OBVIOUS
  <2>4. arrived' = Cardinality(Waiting') + (IF place' = "wait" THEN 1 ELSE 0) BY <2>1
  <2>5. \A t \in Thread : (phase'[t] = "done") <=> place' \in {"merge", "done"}
    BY <1>1, <2>2 DEF BarrierInv
  <2>6. \A t \in Thread : (phase'[t] = "unborn") <=> t >= created' BY <1>1, <2>2 DEF BarrierInv
  <2> QED BY <2>3, <2>4, <2>5, <2>6 DEF BarrierInv
<1>6. MergeInv' BY <1>1, NotMerged
<1> QED BY <1>2, <1>3, <1>4, <1>5, <1>6 DEF SortIInv

\* A thread comes to the barrier: if it opens, main() and all others have been there.
LEMMA ThreadArrivesNext ==
  ASSUME SortIInv, NEW t \in Thread, ThreadArrives(t)
  PROVE  SortIInv'
<1>1. /\ phase[t] = "sorted" /\ Arrive({t}, FALSE)
      /\ UNCHANGED <<input, random_numbers, sorted_numbers, thread_initial_index, i, index, created>>
  BY DEF ThreadArrives
<1>2. SortTypeOK /\ BarrierInv BY DEF SortIInv
<1>3. place \notin {"merge", "done"} /\ place \in {"create", "wait"}
  BY <1>1, <1>2 DEF BarrierInv, SortTypeOK
<1>4. /\ t \notin Waiting /\ Cardinality(Waiting \cup {t}) = Cardinality(Waiting) + 1
      /\ Waiting \cup {t} \subseteq Thread
      /\ Cardinality(Waiting) \in Nat /\ Cardinality(Waiting \cup {t}) <= THREAD_COUNT
      /\ Cardinality(Waiting \cup {t}) = THREAD_COUNT => Waiting \cup {t} = Thread
  <2>1. t \notin Waiting /\ Waiting \cup {t} \subseteq Thread BY <1>1 DEF Waiting
  <2>2. Cardinality(Waiting \cup {t}) = Cardinality(Waiting) + 1 BY <2>1, FiniteThreads, FS_AddElement
  <2>3. /\ Cardinality(Waiting \cup {t}) <= THREAD_COUNT
        /\ Cardinality(Waiting \cup {t}) = THREAD_COUNT => Waiting \cup {t} = Thread
    BY <2>1, FiniteThreads, FS_Subset
  <2> QED BY <2>1, <2>2, <2>3, FiniteThreads
<1>5. arrived = Cardinality(Waiting) + (IF place = "wait" THEN 1 ELSE 0) /\ THREAD_COUNT \in Nat
  BY <1>2, Parts DEF BarrierInv
<1>6. CASE arrived + 1 = BarrierCount
  <2>1. place = "wait" /\ Waiting \cup {t} = Thread
    BY <1>3, <1>4, <1>5, <1>6 DEF BarrierCount
  <2>2. \A u \in Thread : phase[u] = "wait" \/ u \in {t} BY <2>1 DEF Waiting
  <2>3. /\ arrived' = 0 /\ place' = "merge"
        /\ phase' = [u \in Thread |-> IF phase[u] = "wait" \/ u \in {t} THEN "done" ELSE phase[u]]
    BY <1>1, <1>6, <2>1 DEF Arrive
  <2>4. phase' = [u \in Thread |-> "done"] BY <2>2, <2>3
  <2>5. \A u \in Thread : Past(u) BY <1>1, <2>2 DEF Past
  <2>6. created = THREAD_COUNT BY <1>2, <2>1 DEF BarrierInv
  <2> QED BY <1>1, <1>3, <2>3, <2>4, <2>5, <2>6, Opens
<1>7. CASE ~(arrived + 1 = BarrierCount)
  <2>1. /\ arrived' = arrived + 1 /\ place' = place
        /\ phase' = [u \in Thread |-> IF u \in {t} THEN "wait" ELSE phase[u]]
    BY <1>1, <1>7 DEF Arrive
  <2>2. arrived' \in 0..(THREAD_COUNT + 1) BY <1>4, <1>5, <1>7, <2>1 DEF BarrierCount
  <2>3. arrived' = Cardinality(Waiting \cup {t}) + (IF place' = "wait" THEN 1 ELSE 0)
    BY <1>4, <1>5, <2>1
  <2>4. place' = "wait" => created = THREAD_COUNT BY <1>2, <2>1 DEF BarrierInv
  <2>5. {t} \in SUBSET Thread /\ \A u \in {t} : phase[u] = "sorted" BY <1>1
  <2> QED BY <1>1, <1>3, <2>1, <2>2, <2>3, <2>4, <2>5, StaysShut
<1> QED BY <1>6, <1>7

\* main() comes to the barrier.
LEMMA MainArrivesNext ==
  ASSUME SortIInv, MainArrives
  PROVE  SortIInv'
<1>1. /\ place = "create" /\ created = THREAD_COUNT /\ Arrive({}, TRUE)
      /\ UNCHANGED <<input, random_numbers, sorted_numbers, thread_initial_index, i, index, created>>
  BY DEF MainArrives
<1>2. SortTypeOK /\ BarrierInv BY DEF SortIInv
<1>3. /\ arrived = Cardinality(Waiting) /\ THREAD_COUNT \in Nat
      /\ arrived \in Nat /\ arrived <= THREAD_COUNT
  BY <1>1, <1>2, Parts, FiniteThreads DEF BarrierInv
<1>4. CASE arrived + 1 = BarrierCount
  <2>1. Waiting \in SUBSET Thread BY DEF Waiting
  <2>2. Cardinality(Waiting) = Cardinality(Thread) BY <1>3, <1>4, FiniteThreads DEF BarrierCount
  <2>3. Waiting = Thread BY <2>1, <2>2, FiniteThreads, FS_Subset
  <2>4. \A u \in Thread : phase[u] = "wait" BY <2>3 DEF Waiting
  <2>5. /\ arrived' = 0 /\ place' = "merge"
        /\ phase' = [u \in Thread |-> IF phase[u] = "wait" \/ u \in {} THEN "done" ELSE phase[u]]
    BY <1>1, <1>4 DEF Arrive
  <2>6. phase' = [u \in Thread |-> "done"] BY <2>4, <2>5
  <2>7. \A u \in Thread : Past(u) BY <2>4 DEF Past
  <2> QED BY <1>1, <2>5, <2>6, <2>7, Opens
<1>5. CASE ~(arrived + 1 = BarrierCount)
  <2>1. /\ arrived' = arrived + 1 /\ place' = "wait"
        /\ phase' = [u \in Thread |-> IF u \in {} THEN "wait" ELSE phase[u]]
    BY <1>1, <1>5 DEF Arrive
  <2>2. arrived' \in 0..(THREAD_COUNT + 1) BY <1>3, <2>1
  <2>3. arrived' = Cardinality(Waiting \cup {}) + (IF place' = "wait" THEN 1 ELSE 0)
    <3>1. Waiting \cup {} = Waiting OBVIOUS
    <3> QED BY <1>3, <2>1, <3>1
  <2>4. {} \in SUBSET Thread /\ \A u \in {} : phase[u] = "sorted" OBVIOUS
  <2> QED BY <1>1, <2>1, <2>2, <2>3, <2>4, StaysShut
<1> QED BY <1>4, <1>5

\* The part of a thread that is done is in order.
LEMMA DonePart ==
  ASSUME SortIInv, place \in {"merge", "done"}, NEW t \in Thread,
         NEW p \in Base(t)..(Base(t) + THREAD_NUMBER_COUNT - 1),
         NEW q \in Base(t)..(Base(t) + THREAD_NUMBER_COUNT - 1), p <= q
  PROVE  /\ p \in Position /\ q \in Position
         /\ random_numbers[p] <= random_numbers[q]
<1> DEFINE k == p - Base(t)
           l == q - Base(t)
<1>1. Base(t) \in Nat /\ THREAD_NUMBER_COUNT \in Nat BY Parts, PartFacts
<1>2. k \in Part /\ l \in Part /\ 0 <= l /\ k <= l /\ Base(t) + k = p /\ Base(t) + l = q
  BY <1>1, PartType
<1> HIDE DEF k, l
<1>3. p \in Position /\ q \in Position BY <1>2, PartFacts
<1>4. InOrder(Section(t), 0) BY DEF SortIInv, BarrierInv, PartGood, Past
<1>5. Section(t)[k] <= Section(t)[l] BY <1>2, <1>4 DEF InOrder
<1>6. Section(t)[k] = random_numbers[p] /\ Section(t)[l] = random_numbers[q]
  BY <1>2 DEF Section, At
<1> QED BY <1>3, <1>5, <1>6

\* One number more on both sides of an equation.
LEMMA OneMore ==
  ASSUME NEW S, NEW T, IsFiniteSet(S), IsFiniteSet(T), Cardinality(S) = Cardinality(T),
         NEW x, x \notin S, NEW y, y \notin T
  PROVE  Cardinality(S \cup {x}) = Cardinality(T \cup {y})
  BY FS_AddElement

\* merge() takes a number.
LEMMA MergeStepNext ==
  ASSUME SortIInv, MergeStep
  PROVE  SortIInv'
<1>1. /\ place = "merge" /\ Len(sorted_numbers) < NUMBER_COUNT
      /\ UNCHANGED <<input, random_numbers, phase, i, index, place, created, arrived>>
  BY DEF MergeStep
<1>2. /\ SortTypeOK /\ BarrierInv /\ MergeInv /\ SameNumbers /\ \A u \in Thread : PartGood(u)
      /\ NUMBER_COUNT \in Nat
  BY PartsAssumption DEF SortIInv
<1>18. PICK behind \in 0..RAND_MAX : \E t \in Offers(behind) :
         /\ \A u \in Offers(behind) :
              Offer(t, behind) < Offer(u, behind) \/ (Offer(t, behind) = Offer(u, behind) /\ t <= u)
         /\ thread_initial_index' = [thread_initial_index EXCEPT ![t] = @ + 1]
         /\ sorted_numbers' = Append(sorted_numbers, Offer(t, behind))
  BY DEF MergeStep
<1>3. PICK t \in Offers(behind) :
        /\ \A u \in Offers(behind) :
             Offer(t, behind) < Offer(u, behind) \/ (Offer(t, behind) = Offer(u, behind) /\ t <= u)
        /\ thread_initial_index' = [thread_initial_index EXCEPT ![t] = @ + 1]
        /\ sorted_numbers' = Append(sorted_numbers, Offer(t, behind))
  BY <1>18
<1> DEFINE L == Len(sorted_numbers)
<1>4. PICK p : p = thread_initial_index[t] OBVIOUS
<1>5. PICK n : n = random_numbers[p] OBVIOUS
<1>6. /\ t \in Thread /\ Base(t) \in Nat /\ THREAD_NUMBER_COUNT \in Nat
      /\ p \in Base(t)..(Base(t) + THREAD_NUMBER_COUNT - 1)
      /\ Base(t) + THREAD_NUMBER_COUNT <= NUMBER_COUNT
  <2>1. t \in Thread /\ p < (t + 1) * THREAD_NUMBER_COUNT BY <1>4 DEF Offers
  <2>2. p \in Base(t)..(Base(t) + THREAD_NUMBER_COUNT) BY <1>2, <1>4, <2>1 DEF MergeInv
  <2> QED BY <2>1, <2>2, Parts, PartFacts
<1>7. p \in Position /\ n \in Numbers /\ n \in Nat
  BY <1>1, <1>2, <1>5, <1>6, DonePart, NumbersAssumption DEF SortTypeOK
<1>8. /\ thread_initial_index' = [thread_initial_index EXCEPT ![t] = p + 1]
      /\ sorted_numbers' = Append(sorted_numbers, n) /\ sorted_numbers \in Seq(Numbers) /\ L \in Nat
      /\ sorted_numbers' \in Seq(Numbers) /\ Len(sorted_numbers') = L + 1
      /\ \A k \in 1..L : sorted_numbers'[k] = sorted_numbers[k] /\ sorted_numbers[k] \in Nat
      /\ sorted_numbers'[L + 1] = n
  <2>1. sorted_numbers \in Seq(Numbers) BY <1>2 DEF SortTypeOK
  <2>2. sorted_numbers' = Append(sorted_numbers, n) BY <1>3, <1>4, <1>5, <1>7 DEF Offer
  <2>3. \A k \in 1..L : sorted_numbers[k] \in Nat BY <2>1, ElementOfSeq, NumbersAssumption
  <2> QED BY <1>3, <1>4, <1>7, <2>1, <2>2, <2>3, AppendProperties, LenProperties
<1> HIDE DEF L
<1>9. /\ thread_initial_index'[t] = p + 1
      /\ \A u \in Thread \ {t} : thread_initial_index'[u] = thread_initial_index[u]
      /\ \A u \in Thread : thread_initial_index[u] \in Nat
      /\ thread_initial_index' \in [Thread -> 0..NUMBER_COUNT]
  <2>1. p + 1 \in 0..NUMBER_COUNT BY <1>6, <1>2
  <2> QED BY <1>2, <1>6, <1>8, <2>1 DEF SortTypeOK
<1>10. SortTypeOK'
  <2>1. Len(sorted_numbers') <= NUMBER_COUNT BY <1>1, <1>2, <1>8 DEF L
  <2> QED BY <1>1, <1>2, <1>8, <1>9, <2>1 DEF SortTypeOK
<1>11. (\A u \in Thread : Section(u)' = Section(u)) /\ SameNumbers' BY <1>1, <1>2, NothingMoves
<1>12. \A u \in Thread : PartGood(u)' BY <1>1, <1>2, <1>11, SamePart DEF Same
<1>13. BarrierInv'
  <2>1. Waiting' = Waiting BY <1>1 DEF Waiting
  <2> QED BY <1>1, <1>2, <2>1 DEF BarrierInv
<1>14. p \notin Taken /\ Taken' = Taken \cup {p}
  <2>1. ASSUME NEW u \in Thread, u # t PROVE ~(Base(u) <= p /\ p < thread_initial_index[u])
    <3>1. thread_initial_index[u] \in Base(u)..(Base(u) + THREAD_NUMBER_COUNT) /\ Base(u) \in Nat
      BY <1>2, PartFacts DEF MergeInv
    <3>2. u \in Int /\ t \in Int BY <1>6 DEF Thread
    <3>3. CASE t < u
      <4>1. Base(t) + THREAD_NUMBER_COUNT <= Base(u) BY <1>6, <3>3, PartFacts
      <4> QED BY <1>6, <3>1, <4>1
    <3>4. CASE u < t
      <4>1. Base(u) + THREAD_NUMBER_COUNT <= Base(t) BY <1>6, <3>4, PartFacts
      <4> QED BY <1>6, <3>1, <4>1
    <3> QED BY <2>1, <3>2, <3>3, <3>4
  <2>2. p \notin Taken
    <3>1. ~(p < thread_initial_index[t]) BY <1>4, <1>6
    <3> QED BY <2>1, <3>1 DEF Taken
  <2>3. ASSUME NEW q \in Position
        PROVE  (\E u \in Thread : Base(u) <= q /\ q < thread_initial_index'[u])
                 <=> (\E u \in Thread : Base(u) <= q /\ q < thread_initial_index[u]) \/ q = p
    <3>1. q \in Nat /\ Base(t) <= p BY <1>2, <1>6 DEF Position
    <3>2. q < thread_initial_index'[t] <=> q < thread_initial_index[t] \/ q = p
      BY <1>4, <1>6, <1>9, <3>1
    <3> QED BY <1>6, <1>9, <3>1, <3>2
  <2>4. Taken' = Taken \cup {p} BY <1>7, <2>3 DEF Taken
  <2> QED BY <2>2, <2>4
<1>15. ASSUME NEW u \in Thread,
              NEW q \in thread_initial_index'[u]..(Base(u) + THREAD_NUMBER_COUNT - 1)
       PROVE  n <= random_numbers[q]
              /\ q \in thread_initial_index[u]..(Base(u) + THREAD_NUMBER_COUNT - 1)
  <2>1. thread_initial_index[u] \in Base(u)..(Base(u) + THREAD_NUMBER_COUNT) /\ Base(u) \in Nat
    BY <1>2, PartFacts DEF MergeInv
  <2>2. q \in thread_initial_index[u]..(Base(u) + THREAD_NUMBER_COUNT - 1)
    BY <1>4, <1>6, <1>9, <2>1
  <2>3. /\ thread_initial_index[u] \in Position /\ q \in Position
        /\ random_numbers[thread_initial_index[u]] <= random_numbers[q]
    <3>1. /\ thread_initial_index[u] \in Base(u)..(Base(u) + THREAD_NUMBER_COUNT - 1)
          /\ q \in Base(u)..(Base(u) + THREAD_NUMBER_COUNT - 1)
          /\ thread_initial_index[u] <= q
      BY <1>6, <2>1, <2>2
    <3> QED BY <1>1, <3>1, DonePart
  <2>4. /\ Offer(u, behind) = random_numbers[thread_initial_index[u]] /\ Offer(u, behind) \in Nat
        /\ u \in Offers(behind)
    <3>1. thread_initial_index[u] < Base(u) + THREAD_NUMBER_COUNT BY <1>6, <2>1, <2>2
    <3>2. Offer(u, behind) = random_numbers[thread_initial_index[u]] BY <2>3 DEF Offer
    <3>3. Offer(u, behind) \in Nat /\ Offer(u, behind) < RAND_MAX
      BY <1>2, <2>3, <3>2, NumbersAssumption DEF SortTypeOK
    <3> QED BY <3>1, <3>2, <3>3, PartFacts DEF Offers
  <2>5. n <= random_numbers[thread_initial_index[u]]
    <3>1. Offer(t, behind) = n BY <1>4, <1>5, <1>7 DEF Offer
    <3>2. n < Offer(u, behind) \/ n = Offer(u, behind) BY <1>3, <2>4, <3>1
    <3> QED BY <1>7, <2>4, <3>2
  <2>6. random_numbers[thread_initial_index[u]] \in Nat /\ random_numbers[q] \in Nat
    BY <1>2, <2>3, NumbersAssumption DEF SortTypeOK
  <2> QED BY <1>7, <2>2, <2>3, <2>5, <2>6
<1>16. \A k \in 1..L : sorted_numbers[k] <= n
  <2>1. p \in thread_initial_index[t]..(Base(t) + THREAD_NUMBER_COUNT - 1) BY <1>4, <1>6
  <2> QED BY <1>2, <1>5, <1>6, <2>1 DEF MergeInv, L
<1>17. MergeInv'
  <2>1. \A u \in Thread : thread_initial_index'[u] \in Base(u)..(Base(u) + THREAD_NUMBER_COUNT)
    BY <1>2, <1>6, <1>9 DEF MergeInv
  <2>2. ASSUME NEW k \in 1..(L + 1), NEW l \in 1..(L + 1), k <= l
        PROVE  sorted_numbers'[k] <= sorted_numbers'[l]
    <3>1. CASE l \in 1..L
      <4>1. k \in 1..L BY <1>8, <2>2, <3>1
      <4>2. sorted_numbers[k] <= sorted_numbers[l] BY <1>2, <2>2, <3>1, <4>1 DEF MergeInv, L
      <4> QED BY <1>8, <3>1, <4>1, <4>2
    <3>2. CASE l = L + 1
      <4>1. k \in 1..L \/ k = L + 1 BY <1>8
      <4> QED BY <1>7, <1>8, <1>16, <3>2, <4>1
    <3> QED BY <1>8, <3>1, <3>2
  <2>3. ASSUME NEW k \in 1..(L + 1), NEW u \in Thread,
               NEW q \in thread_initial_index'[u]..(Base(u) + THREAD_NUMBER_COUNT - 1)
        PROVE  sorted_numbers'[k] <= random_numbers[q]
    <3>1. CASE k \in 1..L
      <4>1. sorted_numbers[k] <= random_numbers[q] BY <1>2, <1>15, <3>1 DEF MergeInv, L
      <4> QED BY <1>8, <3>1, <4>1
    <3>2. CASE k = L + 1 BY <1>8, <1>15, <3>2
    <3> QED BY <1>8, <3>1, <3>2
  <2>4. IsFiniteSet(Taken) /\ Taken \subseteq Position
    <3>1. Taken \in SUBSET Position BY DEF Taken
    <3> QED BY <3>1, FinitePositions, FS_Subset
  <2>5. L + 1 = Cardinality(Taken')
    <3>1. L = Cardinality(Taken) BY <1>2 DEF MergeInv, L
    <3> QED BY <1>14, <2>4, <3>1, FS_AddElement
  <2>6. ASSUME NEW m \in Numbers
        PROVE  Cardinality({k \in 1..(L + 1) : sorted_numbers'[k] = m})
                 = Cardinality({q \in Taken' : random_numbers[q] = m})
    <3> DEFINE S == {k \in 1..L : sorted_numbers[k] = m}
               T == {q \in Taken : random_numbers[q] = m}
    <3>1. Cardinality(S) = Cardinality(T) BY <1>2 DEF MergeInv, L
    <3>2. IsFiniteSet(S) /\ IsFiniteSet(T)
      <4>1. IsFiniteSet(1..L) BY <1>8, FS_Interval
      <4>2. S \in SUBSET (1..L) /\ T \in SUBSET Taken OBVIOUS
      <4> QED BY <2>4, <4>1, <4>2, FS_Subset
    <3>3. \A k \in 1..(L + 1) : k \in 1..L \/ k = L + 1 BY <1>8
    <3>4. L + 1 \in 1..(L + 1) /\ L + 1 \notin 1..L /\ 1..L \subseteq 1..(L + 1) BY <1>8
    <3>5. CASE m = n
      <4>1. {k \in 1..(L + 1) : sorted_numbers'[k] = m} = S \cup {L + 1} BY <1>8, <3>3, <3>4, <3>5
      <4>2. {q \in Taken' : random_numbers[q] = m} = T \cup {p} BY <1>5, <1>14, <3>5
      <4>3. L + 1 \notin S /\ p \notin T BY <1>14, <3>4
      <4> HIDE DEF S, T
      <4> QED BY <3>1, <3>2, <4>1, <4>2, <4>3, OneMore
    <3>6. CASE m # n
      <4>1. {k \in 1..(L + 1) : sorted_numbers'[k] = m} = S BY <1>8, <3>3, <3>4, <3>6
      <4>2. {q \in Taken' : random_numbers[q] = m} = T BY <1>5, <1>14, <3>6
      <4> QED BY <3>1, <4>1, <4>2
    <3> QED BY <3>5, <3>6
  <2>7. place' = "merge" /\ random_numbers' = random_numbers BY <1>1
  <2> QED BY <1>8, <2>1, <2>2, <2>3, <2>5, <2>6, <2>7 DEF MergeInv
<1> QED BY <1>10, <1>11, <1>12, <1>13, <1>17 DEF SortIInv

\* merge() has taken all numbers.
LEMMA AllMergedNext ==
  ASSUME SortIInv, AllMerged
  PROVE  SortIInv'
<1>1. /\ place = "merge" /\ place' = "done" /\ Len(sorted_numbers) = NUMBER_COUNT
      /\ UNCHANGED <<input, random_numbers, sorted_numbers, thread_initial_index, phase, i, index,
                     created, arrived>>
  BY DEF AllMerged
<1>2. SortTypeOK /\ BarrierInv /\ MergeInv /\ SameNumbers /\ \A t \in Thread : PartGood(t)
  BY DEF SortIInv
<1>3. SortTypeOK' BY <1>1, <1>2 DEF SortTypeOK
<1>4. (\A t \in Thread : Section(t)' = Section(t)) /\ SameNumbers' BY <1>1, <1>2, NothingMoves
<1>5. \A t \in Thread : PartGood(t)' BY <1>1, <1>2, <1>4, SamePart DEF Same
<1>6. BarrierInv'
  <2>1. Waiting' = Waiting BY <1>1 DEF Waiting
  <2> QED BY <1>1, <1>2, <2>1 DEF BarrierInv
<1>7. MergeInv'
  <2>1. Taken' = Taken BY <1>1 DEF Taken
  <2> QED BY <1>1, <1>2, <2>1 DEF MergeInv
<1> QED BY <1>3, <1>4, <1>5, <1>6, <1>7 DEF SortIInv

\* Nothing is sorted yet, and nobody waits.
LEMMA SortInitially == SortInit => SortIInv
<1> SUFFICES ASSUME SortInit PROVE SortIInv OBVIOUS
<1>1. /\ input \in [Position -> Numbers] /\ random_numbers = input /\ sorted_numbers = <<>>
      /\ thread_initial_index = [t \in Thread |-> THREAD_NUMBER_COUNT * t]
      /\ phase = [t \in Thread |-> "unborn"]
      /\ i = [t \in Thread |-> 0] /\ index = [t \in Thread |-> 0]
      /\ place = "create" /\ created = 0 /\ arrived = 0
  BY InputsAssumption DEF SortInit, Position
<1>2. /\ THREAD_NUMBER_COUNT \in Nat /\ THREAD_COUNT \in Nat /\ NUMBER_COUNT \in Nat
      /\ \A t \in Thread : t \in Nat
  BY Parts, PartsAssumption DEF Thread
<1>3. \A t \in Thread : thread_initial_index[t] = Base(t) /\ Base(t) \in 0..NUMBER_COUNT
  <2>1. \A t \in Thread : THREAD_NUMBER_COUNT * t = Base(t) BY <1>2 DEF Base
  <2> QED BY <1>1, <1>2, <2>1, PartFacts
<1>4. SortTypeOK
  <2>1. thread_initial_index \in [Thread -> 0..NUMBER_COUNT] BY <1>1, <1>3
  <2>2. 0 \in 0..THREAD_NUMBER_COUNT /\ 0 \in 0..THREAD_COUNT /\ 0 \in 0..(THREAD_COUNT + 1)
    BY <1>2
  <2>3. sorted_numbers \in Seq(Numbers) /\ Len(sorted_numbers) <= NUMBER_COUNT
    BY <1>1, <1>2, EmptySeq
  <2> QED BY <1>1, <2>1, <2>2, <2>3 DEF SortTypeOK
<1>5. \A t \in Thread : PartGood(t) BY <1>1 DEF PartGood, Heaping, Past
<1>6. SameNumbers BY <1>1 DEF SameNumbers
<1>7. BarrierInv
  <2>1. Waiting = {} BY <1>1 DEF Waiting
  <2>2. \A t \in Thread : t >= created BY <1>1, <1>2
  <2> QED BY <1>1, <2>1, <2>2, FS_EmptySet DEF BarrierInv
<1>8. MergeInv
  <2>1. Taken = {}
    <3>1. \A t \in Thread, p \in Position : ~(Base(t) <= p /\ p < thread_initial_index[t])
      BY <1>2, <1>3 DEF Position
    <3> QED BY <3>1 DEF Taken
  <2>2. Len(sorted_numbers) = 0 /\ 1..Len(sorted_numbers) = {} BY <1>1
  <2>3. \A t \in Thread : thread_initial_index[t] \in Base(t)..(Base(t) + THREAD_NUMBER_COUNT)
    BY <1>2, <1>3
  <2>4. \A n : /\ {k \in 1..Len(sorted_numbers) : sorted_numbers[k] = n} = {}
               /\ {p \in Taken : random_numbers[p] = n} = {}
    BY <2>1, <2>2
  <2> QED BY <1>1, <2>1, <2>2, <2>3, <2>4, FS_EmptySet DEF MergeInv
<1> QED BY <1>4, <1>5, <1>6, <1>7, <1>8 DEF SortIInv

\* All steps together.
LEMMA SortStep == SortIInv /\ [SortNext]_sortVars => SortIInv'
<1> SUFFICES ASSUME SortIInv, [SortNext]_sortVars PROVE SortIInv' OBVIOUS
<1>1. CASE CreateThread BY <1>1, CreateThreadNext
<1>2. CASE MainArrives BY <1>2, MainArrivesNext
<1>3. CASE MergeStep BY <1>3, MergeStepNext
<1>4. CASE AllMerged BY <1>4, AllMergedNext
<1>5. ASSUME NEW t \in Thread, ThreadStep(t) PROVE SortIInv'
  <2>1. CASE Sink(t) \/ BuildHeap(t) \/ Extract(t) BY <2>1, HeapSortNext
  <2>2. CASE ThreadArrives(t) BY <2>2, ThreadArrivesNext
  <2> QED BY <1>5, <2>1, <2>2 DEF ThreadStep
<1>6. CASE UNCHANGED sortVars
  <2>1. UNCHANGED <<input, random_numbers, sorted_numbers, thread_initial_index, phase, i, index,
                    place, created, arrived>>
    BY <1>6 DEF sortVars
  <2>2. (\A t \in Thread : Section(t)' = Section(t)) /\ (SameNumbers => SameNumbers')
    BY <2>1, NothingMoves
  <2>3. SortTypeOK' BY <2>1 DEF SortIInv, SortTypeOK
  <2>4. \A t \in Thread : PartGood(t)' BY <2>1, <2>2, SamePart DEF SortIInv, Same
  <2>5. Waiting' = Waiting /\ Taken' = Taken BY <2>1 DEF Waiting, Taken
  <2>6. BarrierInv' BY <2>1, <2>5 DEF SortIInv, BarrierInv
  <2>7. MergeInv' BY <2>1, <2>5 DEF SortIInv, MergeInv
  <2> QED BY <2>2, <2>3, <2>4, <2>6, <2>7 DEF SortIInv
<1> QED BY <1>1, <1>2, <1>3, <1>4, <1>5, <1>6 DEF SortNext, MergerStep

\* When merge() has taken as many numbers as there are, it has taken all of them.
LEMMA AllTaken == SortIInv => SortedOutput
<1> SUFFICES ASSUME SortIInv, place = "done" PROVE SortedOutput BY DEF SortedOutput
<1>1. MergeInv /\ SameNumbers /\ NUMBER_COUNT \in Nat BY PartsAssumption DEF SortIInv
<1>2. Len(sorted_numbers) = NUMBER_COUNT /\ Cardinality(Taken) = NUMBER_COUNT
  BY <1>1 DEF MergeInv
<1>3. Taken = Position
  <2>1. Taken \in SUBSET Position BY DEF Taken
  <2> QED BY <1>2, <2>1, FinitePositions, FS_Subset
<1>4. ASSUME NEW k \in 1..(NUMBER_COUNT - 1) PROVE sorted_numbers[k] <= sorted_numbers[k + 1]
  <2>1. k \in 1..NUMBER_COUNT /\ k + 1 \in 1..NUMBER_COUNT /\ k <= k + 1 BY <1>1
  <2> QED BY <1>1, <1>2, <2>1 DEF MergeInv
<1>5. ASSUME NEW n \in Numbers
      PROVE  Cardinality({p \in Position : input[p] = n})
               = Cardinality({k \in 1..NUMBER_COUNT : sorted_numbers[k] = n})
  <2>1. Cardinality({k \in 1..NUMBER_COUNT : sorted_numbers[k] = n})
          = Cardinality({p \in Position : random_numbers[p] = n})
    BY <1>1, <1>2, <1>3 DEF MergeInv
  <2> QED BY <1>1, <2>1 DEF SameNumbers, Occurs
<1> QED BY <1>4, <1>5 DEF SortedOutput

\* Every variable of the sort of 09_barrier.c keeps its type: no loop variable leaves the
\* part of its thread, and merge() takes no more numbers than there are.
THEOREM SortTypeCorrect == SortSpec => []SortTypeOK
<1>1. SortInit => SortIInv BY SortInitially
<1>2. SortIInv /\ [SortNext]_sortVars => SortIInv' BY SortStep
<1>3. SortIInv => SortTypeOK BY DEF SortIInv
<1> QED BY <1>1, <1>2, <1>3, PTL DEF SortSpec

\* The output of the parallel sort of 09_barrier.c is in order, and holds each number as
\* often as it was drawn, for any number of threads and of numbers.
THEOREM OutputIsSorted == SortSpec => []SortedOutput
<1>1. SortInit => SortIInv BY SortInitially
<1>2. SortIInv /\ [SortNext]_sortVars => SortIInv' BY SortStep
<1>3. SortIInv => SortedOutput BY AllTaken
<1> QED BY <1>1, <1>2, <1>3, PTL DEF SortSpec
=============================================================================
