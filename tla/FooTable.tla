------------------------------ MODULE FooTable ------------------------------
(***************************************************************************)
(* The reference-counted hash table of 11.threads/05_mutex.c, used by any  *)
(* number of threads.  foo_hash_lock protects the chains and every         *)
(* f_reference; each foo has a lock of its own.  A thread calls foo_alloc  *)
(* or foo_find_and_hold, keeps the foo it got, and calls foo_release; a    *)
(* thread that keeps two foos behaves as two threads that keep one each.   *)
(* Freed memory is handed out again by malloc(), so that a stale pointer   *)
(* may meet a new foo at the same address.                                 *)
(***************************************************************************)
EXTENDS Naturals, FiniteSets

CONSTANTS
  Thread,       \* the threads that use the table
  Foo,          \* the addresses malloc() can return
  Ids,          \* the ids asked for
  HASH_NUMBER,  \* 29 in the code
  NULL          \* no foo, no thread

ASSUME SetsAssumption == IsFiniteSet(Thread) /\ NULL \notin Foo \cup Thread
ASSUME HashAssumption == Ids \subseteq Nat /\ HASH_NUMBER \in Nat \ {0}

VARIABLES
  foo_hash,       \* the first foo of each chain
  f_id, f_reference, f_next, f_lock,  \* the members of struct foo
  heap,           \* "free", "private" (not yet published), "linked", "unlinked"
  foo_hash_lock,  \* the thread that holds it, or NULL
  below,          \* history: the foos that come after a linked foo in its chain
  pc,             \* where a thread is; "idle" and "hold" are outside the table
  fp,             \* the foo a thread has got or releases
  cur,            \* current_foo of the loop a thread is in
  want            \* the id a thread looks for

fields == <<f_id, f_reference, f_next, f_lock>>
vars == <<foo_hash, fields, heap, foo_hash_lock, below, pc, fp, cur, want>>

Index == 0..(HASH_NUMBER - 1)
HASH(id) == id % HASH_NUMBER

\* The places where the thread owns one of the references counted in f_reference.
Owning == {"alloc", "init", "initialized", "hold", "release"}

TypeOK ==
  /\ foo_hash \in [Index -> Foo \cup {NULL}]
  /\ f_id \in [Foo -> Ids]
  /\ f_reference \in [Foo -> Nat]
  /\ f_next \in [Foo -> Foo \cup {NULL}]
  /\ f_lock \in [Foo -> Thread \cup {NULL}]
  /\ heap \in [Foo -> {"free", "private", "linked", "unlinked"}]
  /\ foo_hash_lock \in Thread \cup {NULL}
  /\ below \in [Foo -> SUBSET Foo]
  /\ pc \in [Thread -> Owning \cup {"idle", "find", "find_walk", "unlink", "destroy"}]
  /\ fp \in [Thread -> Foo \cup {NULL}]
  /\ cur \in [Thread -> Foo \cup {NULL}]
  /\ want \in [Thread -> Ids]

Init ==
  /\ foo_hash = [i \in Index |-> NULL]
  /\ f_id \in [Foo -> Ids] /\ \A f, g \in Foo : f_id[f] = f_id[g]
  /\ f_reference = [f \in Foo |-> 0]
  /\ f_next = [f \in Foo |-> NULL]
  /\ f_lock = [f \in Foo |-> NULL]
  /\ heap = [f \in Foo |-> "free"]
  /\ foo_hash_lock = NULL
  /\ below = [f \in Foo |-> {}]
  /\ pc = [t \in Thread |-> "idle"]
  /\ fp = [t \in Thread |-> NULL]
  /\ cur = [t \in Thread |-> NULL]
  /\ want \in [Thread -> Ids] /\ \A t, u \in Thread : want[t] = want[u]

Goto(t, to) == pc' = [pc EXCEPT ![t] = to]

\* The foos from f on to the end of its chain.
Chain(f) == IF f = NULL THEN {} ELSE {f} \cup below[f]

-----------------------------------------------------------------------------
(* foo_alloc(id) *)

\* malloc() and pthread_mutex_init() succeed; when one fails foo_alloc returns
\* NULL and nothing has changed.
Alloc(t, id) ==
  /\ pc[t] = "idle"
  /\ \E f \in Foo :
       /\ heap[f] = "free"
       /\ heap' = [heap EXCEPT ![f] = "private"]
       /\ f_id' = [f_id EXCEPT ![f] = id]
       /\ f_reference' = [f_reference EXCEPT ![f] = 1]
       /\ f_lock' = [f_lock EXCEPT ![f] = NULL]
       /\ fp' = [fp EXCEPT ![t] = f]
  /\ Goto(t, "alloc")
  /\ UNCHANGED <<foo_hash, f_next, foo_hash_lock, below, cur, want>>

\* Lines 31-34, one step under foo_hash_lock: the new foo becomes the head of its
\* chain and can be found from here on.
Link(t) ==
  /\ pc[t] = "alloc" /\ foo_hash_lock = NULL
  /\ LET f == fp[t]  i == HASH(f_id[f]) IN
       /\ f_next' = [f_next EXCEPT ![f] = foo_hash[i]]
       /\ foo_hash' = [foo_hash EXCEPT ![i] = f]
       /\ below' = [below EXCEPT ![f] = Chain(foo_hash[i])]
       /\ heap' = [heap EXCEPT ![f] = "linked"]
  /\ Goto(t, "init")
  /\ UNCHANGED <<f_id, f_reference, f_lock, foo_hash_lock, fp, cur, want>>

\* Lines 35 and 37: the other members are initialised under f_lock.
LockFoo(t) ==
  /\ pc[t] = "init" /\ f_lock[fp[t]] = NULL
  /\ f_lock' = [f_lock EXCEPT ![fp[t]] = t]
  /\ Goto(t, "initialized")
  /\ UNCHANGED <<foo_hash, f_id, f_reference, f_next, heap, foo_hash_lock, below, fp, cur, want>>

UnlockFoo(t) ==
  /\ pc[t] = "initialized"
  /\ f_lock' = [f_lock EXCEPT ![fp[t]] = NULL]
  /\ Goto(t, "hold")
  /\ UNCHANGED <<foo_hash, f_id, f_reference, f_next, heap, foo_hash_lock, below, fp, cur, want>>

-----------------------------------------------------------------------------
(* foo_find_and_hold(id) *)

CallFind(t, id) ==
  /\ pc[t] = "idle"
  /\ want' = [want EXCEPT ![t] = id]
  /\ Goto(t, "find")
  /\ UNCHANGED <<foo_hash, fields, heap, foo_hash_lock, below, fp, cur>>

\* Mutant: foo_find_and_hold walks the chain without foo_hash_lock.
FindLock_Unlocked(t) ==
  /\ pc[t] = "find"
  /\ cur' = [cur EXCEPT ![t] = foo_hash[HASH(want[t])]]
  /\ Goto(t, "find_walk")
  /\ UNCHANGED <<foo_hash, fields, heap, foo_hash_lock, below, fp, want>>

FindLock(t) ==
  /\ pc[t] = "find" /\ foo_hash_lock = NULL
  /\ foo_hash_lock' = t
  /\ cur' = [cur EXCEPT ![t] = foo_hash[HASH(want[t])]]
  /\ Goto(t, "find_walk")
  /\ UNCHANGED <<foo_hash, fields, heap, below, fp, want>>

FindNext(t) ==
  /\ pc[t] = "find_walk" /\ cur[t] # NULL /\ f_id[cur[t]] # want[t]
  /\ cur' = [cur EXCEPT ![t] = f_next[cur[t]]]
  /\ UNCHANGED <<foo_hash, fields, heap, foo_hash_lock, below, pc, fp, want>>

\* Mutant: the foo is returned without counting the new reference.
FindHit_NoHold(t) ==
  /\ pc[t] = "find_walk" /\ cur[t] # NULL /\ f_id[cur[t]] = want[t]
  /\ fp' = [fp EXCEPT ![t] = cur[t]]
  /\ cur' = [cur EXCEPT ![t] = NULL]
  /\ foo_hash_lock' = NULL
  /\ Goto(t, "hold")
  /\ UNCHANGED <<foo_hash, fields, heap, below, want>>

FindHit(t) ==
  /\ pc[t] = "find_walk" /\ cur[t] # NULL /\ f_id[cur[t]] = want[t]
  /\ f_reference' = [f_reference EXCEPT ![cur[t]] = @ + 1]
  /\ fp' = [fp EXCEPT ![t] = cur[t]]
  /\ cur' = [cur EXCEPT ![t] = NULL]
  /\ foo_hash_lock' = NULL
  /\ Goto(t, "hold")
  /\ UNCHANGED <<foo_hash, f_id, f_next, f_lock, heap, below, want>>

\* Mutant: the lock is not released when nothing was found.
FindMiss_KeepsLock(t) ==
  /\ pc[t] = "find_walk" /\ cur[t] = NULL
  /\ Goto(t, "idle")
  /\ UNCHANGED <<foo_hash, fields, heap, foo_hash_lock, below, fp, cur, want>>

FindMiss(t) ==
  /\ pc[t] = "find_walk" /\ cur[t] = NULL
  /\ foo_hash_lock' = NULL
  /\ Goto(t, "idle")
  /\ UNCHANGED <<foo_hash, fields, heap, below, fp, cur, want>>

-----------------------------------------------------------------------------
(* foo_release(fp) *)

CallRelease(t) ==
  /\ pc[t] = "hold"
  /\ Goto(t, "release")
  /\ UNCHANGED <<foo_hash, fields, heap, foo_hash_lock, below, fp, cur, want>>

Drop(t) == f_reference' = [f_reference EXCEPT ![fp[t]] = @ - 1]

\* Another reference is left: decrement under foo_hash_lock and return.
ReleaseShared(t) ==
  /\ pc[t] = "release" /\ foo_hash_lock = NULL
  /\ f_reference[fp[t]] - 1 # 0
  /\ Drop(t)
  /\ fp' = [fp EXCEPT ![t] = NULL]
  /\ Goto(t, "idle")
  /\ UNCHANGED <<foo_hash, f_id, f_next, f_lock, heap, foo_hash_lock, below, cur, want>>

\* Mutant: the last release frees the foo without taking it out of its chain.
ReleaseHead_NoUnlink(t) ==
  /\ pc[t] = "release" /\ foo_hash_lock = NULL
  /\ f_reference[fp[t]] - 1 = 0
  /\ Drop(t)
  /\ heap' = [heap EXCEPT ![fp[t]] = "unlinked"]
  /\ Goto(t, "destroy")
  /\ UNCHANGED <<foo_hash, f_id, f_next, f_lock, foo_hash_lock, below, fp, cur, want>>

\* The last reference to the first foo of its chain: unlinked in the same step.
ReleaseHead(t) ==
  /\ pc[t] = "release" /\ foo_hash_lock = NULL
  /\ f_reference[fp[t]] - 1 = 0
  /\ Drop(t)
  /\ LET f == fp[t]  i == HASH(f_id[f]) IN
       /\ foo_hash[i] = f
       /\ foo_hash' = [foo_hash EXCEPT ![i] = f_next[f]]
       /\ heap' = [heap EXCEPT ![f] = "unlinked"]
  /\ Goto(t, "destroy")
  /\ UNCHANGED <<f_id, f_next, f_lock, foo_hash_lock, below, fp, cur, want>>

\* The last reference to a foo further down: the walk to its predecessor starts.
ReleaseInner(t) ==
  /\ pc[t] = "release" /\ foo_hash_lock = NULL
  /\ f_reference[fp[t]] - 1 = 0
  /\ Drop(t)
  /\ foo_hash[HASH(f_id[fp[t]])] # fp[t]
  /\ foo_hash_lock' = t
  /\ cur' = [cur EXCEPT ![t] = foo_hash[HASH(f_id[fp[t]])]]
  /\ Goto(t, "unlink")
  /\ UNCHANGED <<foo_hash, f_id, f_next, f_lock, heap, below, fp, want>>

UnlinkNext(t) ==
  /\ pc[t] = "unlink" /\ f_next[cur[t]] # fp[t]
  /\ cur' = [cur EXCEPT ![t] = f_next[cur[t]]]
  /\ UNCHANGED <<foo_hash, fields, heap, foo_hash_lock, below, pc, fp, want>>

Unlink(t) ==
  /\ pc[t] = "unlink" /\ f_next[cur[t]] = fp[t]
  /\ f_next' = [f_next EXCEPT ![cur[t]] = f_next[fp[t]]]
  /\ below' = [f \in Foo |-> below[f] \ {fp[t]}]
  /\ heap' = [heap EXCEPT ![fp[t]] = "unlinked"]
  /\ foo_hash_lock' = NULL
  /\ cur' = [cur EXCEPT ![t] = NULL]
  /\ Goto(t, "destroy")
  /\ UNCHANGED <<foo_hash, f_id, f_reference, f_lock, fp, want>>

\* Mutant: free() is missing.
Destroy_NoFree(t) ==
  /\ pc[t] = "destroy"
  /\ fp' = [fp EXCEPT ![t] = NULL]
  /\ Goto(t, "idle")
  /\ UNCHANGED <<foo_hash, fields, heap, foo_hash_lock, below, cur, want>>

\* pthread_mutex_destroy and free, after foo_hash_lock has been released.
Destroy(t) ==
  /\ pc[t] = "destroy"
  /\ heap' = [heap EXCEPT ![fp[t]] = "free"]
  /\ fp' = [fp EXCEPT ![t] = NULL]
  /\ Goto(t, "idle")
  /\ UNCHANGED <<foo_hash, fields, foo_hash_lock, below, cur, want>>

-----------------------------------------------------------------------------
\* The thread is inside one of the three functions and goes on.
Step(t) ==
  \/ Link(t) \/ LockFoo(t) \/ UnlockFoo(t)
  \/ FindLock(t) \/ FindNext(t) \/ FindHit(t) \/ FindMiss(t)
  \/ ReleaseShared(t) \/ ReleaseHead(t) \/ ReleaseInner(t)
  \/ UnlinkNext(t) \/ Unlink(t) \/ Destroy(t)

Next ==
  \E t \in Thread :
    \/ Step(t)
    \/ \E id \in Ids : Alloc(t, id) \/ CallFind(t, id)
    \/ CallRelease(t)

Spec == Init /\ [][Next]_vars

-----------------------------------------------------------------------------
Holders(f) == {t \in Thread : fp[t] = f /\ pc[t] \in Owning}
Linked == {f \in Foo : heap[f] = "linked"}

\* f_reference of an allocated foo is the number of threads that own a reference.
RefCount ==
  \A f \in Foo : heap[f] # "free" => f_reference[f] = Cardinality(Holders(f))

\* A foo that somebody holds is in the table: it can be found, and nobody else has
\* unlinked, destroyed or reused it.
HeldIsLinked ==
  \A t \in Thread : pc[t] \in Owning \ {"alloc"} => heap[fp[t]] = "linked"

\* Every pointer the next step of a thread reads through is a live foo: no use
\* after free, and the walk of foo_release (line 66) never runs off its chain.
NoBadPointer ==
  \A t \in Thread :
    /\ pc[t] \in Owning \cup {"unlink", "destroy"} =>
         fp[t] \in Foo /\ heap[fp[t]] # "free"
    /\ pc[t] = "unlink" => cur[t] \in Linked
    /\ pc[t] = "find_walk" => cur[t] \in Linked \cup {NULL}

\* foo_find_and_hold returns NULL only when no foo in the table has that id, even
\* though foos come and go in the chain between two calls.
MissIsReal ==
  \A t \in Thread :
    pc[t] = "find_walk" /\ cur[t] = NULL => \A f \in Linked : f_id[f] # want[t]

\* Memory is never leaked: an allocated foo is in the hands of some thread.
NoLeak == \A f \in Foo : heap[f] # "free" => \E t \in Thread : fp[t] = f

\* The lock of a foo is not held when pthread_mutex_destroy() gets it (line 71),
\* although foo_alloc publishes the foo before it locks it (lines 33-37).
DestroyUnlocked ==
  \A t \in Thread : pc[t] = "destroy" => f_lock[fp[t]] = NULL

\* No thread ever touches a foo, or its mutex, that another one has freed, or
\* unlinks or destroys under it.
MemorySafe == HeldIsLinked /\ NoBadPointer /\ DestroyUnlocked

\* A call that has not returned can go on, or waits for foo_hash_lock and the thread
\* that has it can go on: no return of foo_find_and_hold() or foo_release() leaves the
\* lock taken, and no walk under it stands still.
CallsGoOn ==
  \A t \in Thread : pc[t] \notin {"idle", "hold"} =>
    \E u \in {t, foo_hash_lock} \ {NULL} : ENABLED <<Step(u)>>_vars
=============================================================================
