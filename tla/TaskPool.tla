------------------------------ MODULE TaskPool ------------------------------
(***************************************************************************)
(* What the message queue of 11.threads/06_condition_variables.c promises, *)
(* without its mutex, its condition variable and its list: every submitted *)
(* message is taken by exactly one worker and finished by that worker.     *)
(***************************************************************************)
CONSTANTS Worker, Message, NoMessage

VARIABLES
  crew,   \* the workers that were started
  pool,   \* the messages submitted and not yet taken
  doing,  \* the message each worker processes
  done    \* the messages finished

poolVars == <<crew, pool, doing, done>>

PoolInit ==
  /\ crew = {}
  /\ pool = {}
  /\ doing = [w \in Worker |-> NoMessage]
  /\ done = {}

Hire(w) ==
  /\ crew' = crew \cup {w}
  /\ UNCHANGED <<pool, doing, done>>

\* A message is submitted once.
Submit(m) ==
  /\ m \notin pool \cup done
  /\ \A w \in Worker : doing[w] # m
  /\ pool' = pool \cup {m}
  /\ UNCHANGED <<crew, doing, done>>

Take(w, m) ==
  /\ w \in crew /\ doing[w] = NoMessage
  /\ m \in pool
  /\ pool' = pool \ {m}
  /\ doing' = [doing EXCEPT ![w] = m]
  /\ UNCHANGED <<crew, done>>

Finish(w) ==
  /\ doing[w] # NoMessage
  /\ done' = done \cup {doing[w]}
  /\ doing' = [doing EXCEPT ![w] = NoMessage]
  /\ UNCHANGED <<crew, pool>>

PoolNext ==
  \/ \E w \in Worker : Hire(w) \/ Finish(w) \/ \E m \in Message : Take(w, m)
  \/ \E m \in Message : Submit(m)

\* Somebody takes what is in the pool if anybody was hired, and finishes it.
PoolFairness ==
  /\ WF_poolVars(\E w \in Worker, m \in Message : Take(w, m))
  /\ \A w \in Worker : WF_poolVars(Finish(w))

PoolSafety == PoolInit /\ [][PoolNext]_poolVars
PoolSpec == PoolSafety /\ PoolFairness
=============================================================================
