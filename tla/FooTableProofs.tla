--------------------------- MODULE FooTableProofs ---------------------------
(***************************************************************************)
(* The hash table of 05_mutex.c for any number of threads, foos, ids and   *)
(* chains.  The induction needs to know that a chain is a list: `below',   *)
(* the history of what follows each foo, is closed under f_next, has no    *)
(* cycle, and what follows the head of chain i is exactly what hashes to i.*)
(***************************************************************************)
EXTENDS FooTable, FiniteSetTheorems, TLAPS

\* foo_hash_lock is held by the thread that walks a chain.
LockOwner ==
  \A t \in Thread : foo_hash_lock = t <=> pc[t] \in {"find_walk", "unlink"}

\* What a thread has in its hands at each place.
Pointers ==
  \A t \in Thread :
    /\ pc[t] \in {"idle", "find", "find_walk"} <=> fp[t] = NULL
    /\ pc[t] = "alloc" => heap[fp[t]] = "private"
    /\ pc[t] \in {"init", "initialized", "hold", "release", "unlink"} =>
         heap[fp[t]] = "linked"
    /\ pc[t] = "destroy" => heap[fp[t]] = "unlinked"

\* A foo not yet published, or whose last reference is gone, has one thread only.
Exclusive ==
  \A t, u \in Thread :
    fp[t] = fp[u] /\ pc[t] \in {"alloc", "unlink", "destroy"} => t = u

\* f_lock is only ever held by the thread in lines 35-37 of foo_alloc.
FooLocks ==
  \A f \in Foo, t \in Thread :
    f_lock[f] = t => fp[t] = f /\ pc[t] = "initialized"

\* The chains are disjoint lists without cycles.
Shape ==
  /\ \A f \in Linked : below[f] \subseteq Linked /\ below[f] = Chain(f_next[f])
  /\ \A f, g \in Linked : g \in below[f] => f \notin below[g]
  /\ \A f, g \in Linked : g \in below[f] => HASH(f_id[f]) = HASH(f_id[g])
  /\ \A f, g \in Linked : f_next[f] = f_next[g] /\ f_next[f] # NULL => f = g

Heads ==
  \A i \in Index :
    /\ \A f \in Foo : f \in Chain(foo_hash[i]) <=> f \in Linked /\ HASH(f_id[f]) = i
    /\ \A f \in Linked : foo_hash[i] \notin below[f]

\* Where the two loops are: what they look for is still ahead of them.
Walks ==
  \A t \in Thread :
    /\ pc[t] = "find_walk" =>
         /\ cur[t] \in Linked \cup {NULL}
         /\ \A f \in Linked : f_id[f] = want[t] => f \in Chain(cur[t])
    /\ pc[t] = "unlink" => cur[t] \in Linked /\ fp[t] \in below[cur[t]]

IInv ==
  /\ TypeOK /\ LockOwner /\ Pointers /\ Exclusive /\ FooLocks
  /\ Shape /\ Heads /\ Walks /\ RefCount /\ NoLeak

-----------------------------------------------------------------------------
\* A hash is an index of foo_hash.
LEMMA HashIndex == \A id \in Ids : HASH(id) \in Index
  BY HashAssumption DEF HASH, Index

\* The threads that own a reference to a foo are finitely many.
LEMMA HoldersFinite == \A f \in Foo : IsFiniteSet(Holders(f))
<1> TAKE f \in Foo
<1>1. Holders(f) \subseteq Thread BY DEF Holders
<1> QED BY <1>1, SetsAssumption, FS_Subset

\* Steps that leave the chains alone leave their shape alone.
LEMMA TableSame ==
  ASSUME IInv, UNCHANGED <<foo_hash, f_id, f_next, below, heap>>
  PROVE  Shape' /\ Heads'
  BY DEF IInv, Shape, Heads, Linked, Chain

\* Steps that leave the references alone leave their number alone.
LEMMA CountSame ==
  ASSUME IInv, UNCHANGED f_reference,
         \A f \in Foo : heap'[f] # "free" => heap[f] # "free",
         \A f \in Foo : Holders(f)' = Holders(f)
  PROVE  RefCount'
  BY DEF IInv, RefCount

\* In the initial states the table and every thread are empty.
LEMMA InitIInv == Init => IInv
<1> SUFFICES ASSUME Init PROVE IInv OBVIOUS
<1>1. TypeOK /\ LockOwner /\ Pointers /\ Exclusive
  BY SetsAssumption DEF Init, TypeOK, Owning, LockOwner, Pointers, Exclusive
<1>2. FooLocks /\ Shape /\ Heads /\ Walks /\ RefCount /\ NoLeak
  BY SetsAssumption
  DEF Init, FooLocks, Shape, Heads, Walks, RefCount, NoLeak, Linked, Chain
<1> QED BY <1>1, <1>2 DEF IInv

\* foo_alloc before the foo is published.
LEMMA AllocIInv ==
  ASSUME IInv, NEW t \in Thread, NEW id \in Ids, Alloc(t, id)
  PROVE  IInv'
<1> USE DEF Goto, Owning
<1> PICK f \in Foo : /\ heap[f] = "free"
                     /\ heap' = [heap EXCEPT ![f] = "private"]
                     /\ f_id' = [f_id EXCEPT ![f] = id]
                     /\ f_reference' = [f_reference EXCEPT ![f] = 1]
                     /\ f_lock' = [f_lock EXCEPT ![f] = NULL]
                     /\ fp' = [fp EXCEPT ![t] = f]
  BY DEF Alloc
<1>0. \A u \in Thread : fp[u] # f
  BY SetsAssumption DEF IInv, TypeOK, Pointers
<1>1. TypeOK' BY DEF Alloc, IInv, TypeOK
<1>2. LockOwner' BY DEF Alloc, IInv, TypeOK, LockOwner
<1>3. Pointers' BY <1>0, SetsAssumption DEF Alloc, IInv, TypeOK, Pointers
<1>4. Exclusive' BY <1>0 DEF Alloc, IInv, TypeOK, Exclusive
<1>5. FooLocks' BY SetsAssumption DEF Alloc, IInv, TypeOK, FooLocks
<1>6. Linked' = Linked BY DEF Alloc, Linked, IInv, TypeOK
<1>7. \A g \in Linked : g # f /\ f_id'[g] = f_id[g] BY DEF Linked, IInv, TypeOK
<1>8. Shape'
  <2>1. UNCHANGED <<below, f_next>> BY DEF Alloc
  <2>2. \A g \in Linked' : below'[g] \subseteq Linked' /\ below'[g] = Chain(f_next[g])'
    BY <1>6, <2>1 DEF IInv, Shape, Chain
  <2>3. \A g, h \in Linked' : h \in below'[g] => g \notin below'[h]
    BY <1>6, <2>1 DEF IInv, Shape
  <2>4. \A g, h \in Linked' : h \in below'[g] => HASH(f_id'[g]) = HASH(f_id'[h])
    BY <1>6, <1>7, <2>1 DEF IInv, Shape
  <2>5. \A g, h \in Linked' : f_next'[g] = f_next'[h] /\ f_next'[g] # NULL => g = h
    BY <1>6, <2>1 DEF IInv, Shape
  <2> QED BY <2>2, <2>3, <2>4, <2>5 DEF Shape
<1>9. Heads'
  BY <1>6, <1>7 DEF Alloc, IInv, TypeOK, Heads, Chain
<1>10. Walks'
  BY <1>6, <1>7 DEF Alloc, IInv, TypeOK, Walks, Chain
<1>11. RefCount'
  <2>1. Holders(f)' = {t}
    BY <1>0 DEF Alloc, IInv, TypeOK, Holders
  <2>2. \A g \in Foo \ {f} : Holders(g)' = Holders(g)
    BY SetsAssumption DEF Alloc, IInv, TypeOK, Holders, Pointers
  <2>3. Cardinality(Holders(f)') = 1 BY <2>1, FS_Singleton
  <2> QED BY <2>2, <2>3 DEF Alloc, IInv, TypeOK, RefCount
<1>12. NoLeak' BY SetsAssumption DEF Alloc, IInv, TypeOK, NoLeak, Pointers
<1> QED
  BY <1>1, <1>2, <1>3, <1>4, <1>5, <1>8, <1>9, <1>10, <1>11, <1>12 DEF IInv

\* foo_alloc publishes the foo at the head of its chain.
LEMMA LinkIInv ==
  ASSUME IInv, NEW t \in Thread, Link(t)
  PROVE  IInv'
<1> USE DEF Goto, Owning
<1> DEFINE f == fp[t]
           i == HASH(f_id[f])
<1>0. f \in Foo /\ f_id[f] \in Ids /\ i \in Index /\ heap[f] = "private"
  BY HashIndex DEF Link, IInv, TypeOK, Pointers
<1>1. TypeOK' BY <1>0 DEF Link, IInv, TypeOK, Chain
<1>2. LockOwner' BY DEF Link, IInv, TypeOK, LockOwner
<1>3. Pointers' BY <1>0 DEF Link, IInv, TypeOK, Pointers, Exclusive
<1>4. Exclusive' BY DEF Link, IInv, TypeOK, Exclusive
<1>5. FooLocks' BY DEF Link, IInv, TypeOK, FooLocks
<1>6. Linked' = Linked \cup {f} /\ f \notin Linked
  BY <1>0 DEF Link, Linked, IInv, TypeOK
<1>7. /\ foo_hash[i] \in Linked \cup {NULL}
      /\ Chain(foo_hash[i]) \subseteq Linked
      /\ \A g \in Linked : g \in Chain(foo_hash[i]) <=> HASH(f_id[g]) = i
  BY <1>0 DEF IInv, TypeOK, Heads, Chain, Linked
<1>8. /\ \A g \in Foo \ {f} : below'[g] = below[g] /\ f_next'[g] = f_next[g]
      /\ below'[f] = Chain(foo_hash[i]) /\ f_next'[f] = foo_hash[i]
      /\ f_id' = f_id
      /\ foo_hash'[i] = f /\ \A j \in Index \ {i} : foo_hash'[j] = foo_hash[j]
  BY <1>0 DEF Link, IInv, TypeOK
<1>9. \A g \in Linked : g \in Foo /\ g # f BY <1>6 DEF Linked
<1>10. \A g \in Linked : /\ below[g] \subseteq Linked
                         /\ f_next[g] \in Linked \cup {NULL}
                         /\ f_next[g] # NULL => f_next[g] \in below[g]
  BY DEF IInv, TypeOK, Shape, Chain, Linked
<1>11. \A g \in Linked \cup {NULL} : Chain(g)' = Chain(g)
  BY <1>8, <1>9 DEF Chain
<1>12. Shape'
  <2>1. \A g \in Linked' : below'[g] \subseteq Linked' /\ below'[g] = Chain(f_next[g])'
    BY <1>6, <1>7, <1>8, <1>9, <1>10, <1>11 DEF IInv, Shape
  <2>2. \A g, h \in Linked' : h \in below'[g] => g \notin below'[h]
    BY <1>6, <1>7, <1>8, <1>9, <1>10 DEF IInv, Shape
  <2>3. \A g, h \in Linked' : h \in below'[g] => HASH(f_id'[g]) = HASH(f_id'[h])
    BY <1>6, <1>7, <1>8, <1>9, <1>10 DEF IInv, Shape
  <2>4. \A g, h \in Linked' : f_next'[g] = f_next'[h] /\ f_next'[g] # NULL => g = h
    BY <1>0, <1>6, <1>7, <1>8, <1>9, <1>10 DEF IInv, Shape, Heads
  <2> QED BY <2>1, <2>2, <2>3, <2>4 DEF Shape
<1>13. Heads'
  <2> SUFFICES ASSUME NEW j \in Index
      PROVE /\ \A g \in Foo : g \in Chain(foo_hash[j])' <=> g \in Linked' /\ HASH(f_id'[g]) = j
            /\ \A g \in Linked' : foo_hash'[j] \notin below'[g]
    BY DEF Heads
  <2>1. CASE j = i
    <3>1. Chain(foo_hash[j])' = {f} \cup Chain(foo_hash[i])
      BY <2>1, <1>0, <1>8, SetsAssumption DEF Chain
    <3> QED BY <2>1, <3>1, <1>6, <1>7, <1>8, <1>9, <1>10
  <2>2. CASE j # i
    <3>1. foo_hash[j] \in Linked \cup {NULL}
      BY DEF IInv, TypeOK, Heads, Chain
    <3>2. Chain(foo_hash[j])' = Chain(foo_hash[j])
      BY <2>2, <3>1, <1>8, <1>11 DEF Chain
    <3>3. foo_hash[j] # NULL => HASH(f_id[foo_hash[j]]) = j
      BY <3>1 DEF IInv, TypeOK, Heads, Chain, Linked
    <3>4. NULL \notin Linked BY SetsAssumption DEF Linked
    <3> QED BY <2>2, <3>1, <3>2, <3>3, <3>4, <1>6, <1>7, <1>8, <1>9 DEF IInv, Heads
  <2> QED BY <2>1, <2>2
<1>14. Walks'
  <2>1. \A u \in Thread : pc'[u] \notin {"find_walk", "unlink"}
    BY SetsAssumption DEF Link, IInv, TypeOK, LockOwner
  <2> QED BY <2>1 DEF Walks
<1>15. RefCount'
  <2>1. \A g \in Foo : Holders(g)' = Holders(g)
    BY DEF Link, IInv, TypeOK, Holders
  <2> QED BY <1>0, <2>1, CountSame DEF Link, IInv, TypeOK
<1>16. NoLeak' BY <1>0 DEF Link, IInv, TypeOK, NoLeak
<1> QED
  BY <1>1, <1>2, <1>3, <1>4, <1>5, <1>12, <1>13, <1>14, <1>15, <1>16 DEF IInv

\* Steps that move a thread along without touching chains or references.
LEMMA MoveIInv ==
  ASSUME IInv, NEW t \in Thread,
         \/ LockFoo(t) \/ UnlockFoo(t) \/ (\E id \in Ids : CallFind(t, id))
         \/ FindLock(t) \/ FindNext(t) \/ FindMiss(t) \/ CallRelease(t) \/ UnlinkNext(t)
  PROVE  IInv'
<1> USE DEF Goto, Owning
<1>1. UNCHANGED <<foo_hash, f_id, f_next, below, heap, f_reference, fp>>
  BY DEF LockFoo, UnlockFoo, CallFind, FindLock, FindNext, FindMiss, CallRelease,
     UnlinkNext, fields
<1>2. Shape' /\ Heads' BY <1>1, TableSame
<1>3. NoLeak' BY <1>1 DEF IInv, NoLeak
<1>4. RefCount'
  <2>1. \A f \in Foo : Holders(f)' = Holders(f)
    BY SetsAssumption
    DEF IInv, TypeOK, Pointers, Holders, LockFoo, UnlockFoo, CallFind, FindLock,
        FindNext, FindMiss, CallRelease, UnlinkNext
  <2> QED BY <1>1, <2>1, CountSame
<1>5. Linked' = Linked /\ \A f : Chain(f)' = Chain(f) BY <1>1 DEF Linked, Chain
<1>6. CASE LockFoo(t)
  <2> USE <1>6 DEF LockFoo
  <2>1. TypeOK' /\ LockOwner' BY DEF IInv, TypeOK, LockOwner
  <2>2. Pointers' /\ Exclusive' BY DEF IInv, TypeOK, Pointers, Exclusive
  <2>3. FooLocks' BY DEF IInv, TypeOK, FooLocks
  <2>4. Walks' BY <1>5 DEF IInv, TypeOK, Walks
  <2> QED BY <1>2, <1>3, <1>4, <2>1, <2>2, <2>3, <2>4 DEF IInv
<1>7. CASE UnlockFoo(t)
  <2> USE <1>7 DEF UnlockFoo
  <2>1. TypeOK' /\ LockOwner' BY DEF IInv, TypeOK, LockOwner
  <2>2. Pointers' /\ Exclusive' BY DEF IInv, TypeOK, Pointers, Exclusive
  <2>3. FooLocks' BY SetsAssumption DEF IInv, TypeOK, FooLocks
  <2>4. Walks' BY <1>5 DEF IInv, TypeOK, Walks
  <2> QED BY <1>2, <1>3, <1>4, <2>1, <2>2, <2>3, <2>4 DEF IInv
<1>8. CASE \E id \in Ids : CallFind(t, id)
  <2> USE <1>8 DEF CallFind, fields
  <2>1. TypeOK' /\ LockOwner' BY DEF IInv, TypeOK, LockOwner
  <2>2. Pointers' /\ Exclusive' BY DEF IInv, TypeOK, Pointers, Exclusive
  <2>3. FooLocks' BY DEF IInv, TypeOK, FooLocks
  <2>4. Walks' BY <1>5 DEF IInv, TypeOK, Walks
  <2> QED BY <1>2, <1>3, <1>4, <2>1, <2>2, <2>3, <2>4 DEF IInv
<1>9. CASE FindLock(t)
  <2> USE <1>9 DEF FindLock, fields
  <2>0. want[t] \in Ids /\ HASH(want[t]) \in Index BY HashIndex DEF IInv, TypeOK
  <2>1. TypeOK' BY <2>0 DEF IInv, TypeOK
  <2>2. LockOwner' BY SetsAssumption DEF IInv, TypeOK, LockOwner
  <2>3. Pointers' /\ Exclusive' BY DEF IInv, TypeOK, Pointers, Exclusive
  <2>4. FooLocks' BY DEF IInv, TypeOK, FooLocks
  <2>5. Walks'
    <3>1. \A u \in Thread \ {t} : pc'[u] \notin {"find_walk", "unlink"}
      BY SetsAssumption DEF IInv, TypeOK, LockOwner
    <3>2. cur'[t] = foo_hash[HASH(want[t])] /\ pc'[t] = "find_walk" /\ want' = want
      BY DEF IInv, TypeOK
    <3>3. cur'[t] \in Linked \cup {NULL}
      BY <2>0, <3>2 DEF IInv, TypeOK, Heads, Chain
    <3>4. \A f \in Linked : f_id[f] = want[t] => f \in Chain(cur'[t])
      BY <2>0, <3>2 DEF IInv, Heads, Linked
    <3> QED BY <1>1, <1>5, <3>1, <3>2, <3>3, <3>4 DEF Walks
  <2> QED BY <1>2, <1>3, <1>4, <2>1, <2>2, <2>3, <2>4, <2>5 DEF IInv
<1>10. CASE FindNext(t)
  <2> USE <1>10 DEF FindNext, fields
  <2>0. cur[t] \in Linked /\ cur[t] \in Foo /\ below[cur[t]] = Chain(f_next[cur[t]])
    BY DEF IInv, Walks, Shape, Linked
  <2>1. TypeOK' BY <2>0 DEF IInv, TypeOK
  <2>2. LockOwner' /\ Pointers' /\ Exclusive' /\ FooLocks'
    BY DEF IInv, TypeOK, LockOwner, Pointers, Exclusive, FooLocks
  <2>3. Walks'
    <3>1. \A u \in Thread \ {t} : cur'[u] = cur[u] BY DEF IInv, TypeOK
    <3>2. cur'[t] = f_next[cur[t]] BY DEF IInv, TypeOK
    <3>3. cur'[t] \in Linked \cup {NULL}
      BY <2>0, <3>2 DEF IInv, TypeOK, Shape, Chain
    <3>4. \A f \in Linked : f_id[f] = want[t] => f \in Chain(cur'[t])
      BY <2>0, <3>2 DEF IInv, Walks, Chain
    <3> QED BY <1>1, <1>5, <3>1, <3>3, <3>4 DEF IInv, Walks
  <2> QED BY <1>2, <1>3, <1>4, <2>1, <2>2, <2>3 DEF IInv
<1>11. CASE FindMiss(t)
  <2> USE <1>11 DEF FindMiss, fields
  <2>1. TypeOK' BY DEF IInv, TypeOK
  <2>2. LockOwner' BY SetsAssumption DEF IInv, TypeOK, LockOwner
  <2>3. Pointers' /\ Exclusive' BY DEF IInv, TypeOK, Pointers, Exclusive
  <2>4. FooLocks' BY DEF IInv, TypeOK, FooLocks
  <2>5. Walks' BY <1>5 DEF IInv, TypeOK, Walks
  <2> QED BY <1>2, <1>3, <1>4, <2>1, <2>2, <2>3, <2>4, <2>5 DEF IInv
<1>12. CASE CallRelease(t)
  <2> USE <1>12 DEF CallRelease, fields
  <2>1. TypeOK' /\ LockOwner' BY DEF IInv, TypeOK, LockOwner
  <2>2. Pointers' /\ Exclusive' BY DEF IInv, TypeOK, Pointers, Exclusive
  <2>3. FooLocks' BY DEF IInv, TypeOK, FooLocks
  <2>4. Walks' BY <1>5 DEF IInv, TypeOK, Walks
  <2> QED BY <1>2, <1>3, <1>4, <2>1, <2>2, <2>3, <2>4 DEF IInv
<1>13. CASE UnlinkNext(t)
  <2> USE <1>13 DEF UnlinkNext, fields
  <2>0. /\ cur[t] \in Linked /\ cur[t] \in Foo /\ below[cur[t]] = Chain(f_next[cur[t]])
        /\ fp[t] \in below[cur[t]]
    BY DEF IInv, Walks, Shape, Linked
  <2>1. TypeOK' BY <2>0 DEF IInv, TypeOK
  <2>2. LockOwner' /\ Pointers' /\ Exclusive' /\ FooLocks'
    BY DEF IInv, TypeOK, LockOwner, Pointers, Exclusive, FooLocks
  <2>3. Walks'
    <3>1. \A u \in Thread \ {t} : cur'[u] = cur[u] BY DEF IInv, TypeOK
    <3>2. cur'[t] = f_next[cur[t]] BY DEF IInv, TypeOK
    <3>3. cur'[t] \in Linked /\ fp[t] \in below[cur'[t]]
      BY <2>0, <3>2 DEF IInv, TypeOK, Shape, Chain
    <3> QED BY <1>1, <1>5, <3>1, <3>3 DEF IInv, Walks
  <2> QED BY <1>2, <1>3, <1>4, <2>1, <2>2, <2>3 DEF IInv
<1> QED BY <1>6, <1>7, <1>8, <1>9, <1>10, <1>11, <1>12, <1>13

\* foo_find_and_hold takes one more reference to a foo of the table.
LEMMA FindHitIInv ==
  ASSUME IInv, NEW t \in Thread, FindHit(t)
  PROVE  IInv'
<1> USE DEF Goto, Owning
<1> PICK f \in Foo : f = cur[t]
  BY DEF FindHit, IInv, TypeOK
<1>0. f \in Linked /\ heap[f] = "linked"
  BY DEF FindHit, IInv, Walks, Linked
<1>1. UNCHANGED <<foo_hash, f_id, f_next, below, heap>> BY DEF FindHit
<1>2. Shape' /\ Heads' BY <1>1, TableSame
<1>3. TypeOK' BY <1>0 DEF FindHit, IInv, TypeOK
<1>4. LockOwner' BY SetsAssumption DEF FindHit, IInv, TypeOK, LockOwner
<1>5. Pointers' BY <1>0, SetsAssumption DEF FindHit, IInv, TypeOK, Pointers
<1>6. \A u \in Thread : pc[u] \in {"alloc", "unlink", "destroy"} => fp[u] # f
  BY <1>0, SetsAssumption DEF FindHit, IInv, TypeOK, Pointers, LockOwner
<1>7. Exclusive' BY <1>6 DEF FindHit, IInv, TypeOK, Exclusive
<1>8. FooLocks' BY DEF FindHit, IInv, TypeOK, FooLocks
<1>9. Walks'
  <2>1. \A u \in Thread : pc'[u] \notin {"find_walk", "unlink"}
    BY <1>4, SetsAssumption DEF FindHit, LockOwner
  <2> QED BY <2>1 DEF Walks
<1>10. RefCount'
  <2>1. fp[t] = NULL /\ t \notin Holders(f)
    BY DEF FindHit, IInv, Pointers, Holders
  <2>2. Holders(f)' = Holders(f) \cup {t}
    BY <2>1 DEF FindHit, IInv, TypeOK, Holders
  <2>3. \A g \in Foo \ {f} : Holders(g)' = Holders(g)
    BY <2>1, SetsAssumption DEF FindHit, IInv, TypeOK, Holders
  <2>4. Cardinality(Holders(f)') = Cardinality(Holders(f)) + 1
    BY <1>0, <2>1, <2>2, HoldersFinite, FS_AddElement
  <2>5. f_reference'[f] = f_reference[f] + 1 /\ \A g \in Foo \ {f} : f_reference'[g] = f_reference[g]
    BY <1>0 DEF FindHit, IInv, TypeOK
  <2> QED BY <1>0, <1>1, <2>3, <2>4, <2>5 DEF IInv, RefCount
<1>11. NoLeak' BY SetsAssumption DEF FindHit, IInv, TypeOK, Pointers, NoLeak
<1> QED
  BY <1>2, <1>3, <1>4, <1>5, <1>7, <1>8, <1>9, <1>10, <1>11 DEF IInv

\* foo_release gives up a reference: it was counted, and it was the only one if the
\* count falls to 0.
LEMMA ReleaseCount ==
  ASSUME IInv, NEW t \in Thread, NEW f \in Foo, fp[t] = f, pc[t] = "release", Drop(t),
         Holders(f)' = Holders(f) \ {t},
         \A g \in Foo \ {f} : Holders(g)' = Holders(g),
         \A g \in Foo : heap'[g] # "free" => heap[g] # "free"
  PROVE  /\ RefCount'
         /\ f_reference' \in [Foo -> Nat]
         /\ heap[f] = "linked"
         /\ f_reference[f] - 1 = 0 => Holders(f) = {t}
<1>0. heap[f] = "linked" BY DEF IInv, Pointers
<1>1. t \in Holders(f) BY DEF Holders, Owning
<1>2. f_reference[f] = Cardinality(Holders(f)) BY <1>0 DEF IInv, RefCount
<1>3. Cardinality(Holders(f)') = Cardinality(Holders(f)) - 1
  BY <1>1, HoldersFinite, FS_RemoveElement
<1>4. Cardinality(Holders(f)') \in Nat
  BY HoldersFinite, FS_RemoveElement, FS_CardinalityType
<1>5. /\ f_reference'[f] = f_reference[f] - 1 /\ f_reference[f] \in Nat
      /\ \A g \in Foo \ {f} : f_reference'[g] = f_reference[g]
  BY DEF IInv, TypeOK, Drop
<1>6. f_reference' \in [Foo -> Nat] BY <1>2, <1>3, <1>4, <1>5 DEF IInv, TypeOK, Drop
<1>7. RefCount' BY <1>2, <1>3, <1>5 DEF IInv, RefCount
<1>8. ASSUME f_reference[f] - 1 = 0 PROVE Holders(f) = {t}
  <2>1. IsFiniteSet(Holders(f)') /\ Cardinality(Holders(f)') = 0
    BY <1>2, <1>3, <1>5, <1>8, HoldersFinite, FS_RemoveElement
  <2>2. Holders(f)' = {} BY <2>1, FS_EmptySet
  <2> QED BY <1>1, <2>2
<1> QED BY <1>0, <1>6, <1>7, <1>8

\* foo_release when somebody else still has a reference.
LEMMA ReleaseSharedIInv ==
  ASSUME IInv, NEW t \in Thread, ReleaseShared(t)
  PROVE  IInv'
<1> USE DEF Goto, Owning
<1> PICK f \in Foo : f = fp[t]
  BY DEF ReleaseShared, IInv, TypeOK, Pointers
<1>1. UNCHANGED <<foo_hash, f_id, f_next, below, heap>> BY DEF ReleaseShared
<1>2. Shape' /\ Heads' BY <1>1, TableSame
<1>3. /\ RefCount' /\ f_reference' \in [Foo -> Nat] /\ heap[f] = "linked"
  <2>1. Holders(f)' = Holders(f) \ {t}
    BY SetsAssumption DEF ReleaseShared, IInv, TypeOK, Holders
  <2>2. \A g \in Foo \ {f} : Holders(g)' = Holders(g)
    BY SetsAssumption DEF ReleaseShared, IInv, TypeOK, Holders
  <2> QED BY <1>1, <2>1, <2>2, ReleaseCount DEF ReleaseShared
<1>4. TypeOK' BY <1>3 DEF ReleaseShared, IInv, TypeOK
<1>5. LockOwner' BY SetsAssumption DEF ReleaseShared, IInv, TypeOK, LockOwner
<1>6. Pointers' BY SetsAssumption DEF ReleaseShared, IInv, TypeOK, Pointers
<1>7. Exclusive' BY SetsAssumption DEF ReleaseShared, IInv, TypeOK, Exclusive, Pointers
<1>8. FooLocks' BY DEF ReleaseShared, IInv, TypeOK, FooLocks
<1>9. Walks'
  <2>1. \A u \in Thread : pc'[u] \notin {"find_walk", "unlink"}
    BY <1>5, SetsAssumption DEF ReleaseShared, LockOwner
  <2> QED BY <2>1 DEF Walks
<1>10. NoLeak'
  <2>1. f_reference[f] = Cardinality(Holders(f)) BY <1>3 DEF IInv, RefCount
  <2>2. Holders(f) # {t}
    BY <2>1, FS_Singleton DEF ReleaseShared
  <2>3. \E u \in Thread \ {t} : fp[u] = f
    BY <2>2 DEF Holders, ReleaseShared
  <2> QED BY <2>3 DEF ReleaseShared, IInv, TypeOK, NoLeak
<1> QED
  BY <1>2, <1>3, <1>4, <1>5, <1>6, <1>7, <1>8, <1>9, <1>10 DEF IInv

\* foo_release of the last reference, when the foo is not at the head.
LEMMA ReleaseInnerIInv ==
  ASSUME IInv, NEW t \in Thread, ReleaseInner(t)
  PROVE  IInv'
<1> USE DEF Goto, Owning
<1> PICK f \in Foo : f = fp[t]
  BY DEF ReleaseInner, IInv, TypeOK, Pointers
<1> DEFINE i == HASH(f_id[f])
<1>0. i \in Index BY HashIndex DEF IInv, TypeOK
<1>1. UNCHANGED <<foo_hash, f_id, f_next, below, heap>> BY DEF ReleaseInner
<1>2. Shape' /\ Heads' BY <1>1, TableSame
<1>3. /\ RefCount' /\ f_reference' \in [Foo -> Nat] /\ heap[f] = "linked"
      /\ Holders(f) = {t}
  <2>1. Holders(f)' = Holders(f) \ {t}
    BY DEF ReleaseInner, IInv, TypeOK, Holders
  <2>2. \A g \in Foo \ {f} : Holders(g)' = Holders(g)
    BY DEF ReleaseInner, IInv, TypeOK, Holders
  <2> QED BY <1>1, <2>1, <2>2, ReleaseCount DEF ReleaseInner
<1>4. TypeOK' BY <1>0, <1>3 DEF ReleaseInner, IInv, TypeOK
<1>5. LockOwner' BY SetsAssumption DEF ReleaseInner, IInv, TypeOK, LockOwner
<1>6. Pointers' BY <1>3, SetsAssumption DEF ReleaseInner, IInv, TypeOK, Pointers
<1>7. \A u \in Thread \ {t} : fp[u] # f
  BY <1>3, SetsAssumption DEF ReleaseInner, IInv, TypeOK, Holders, Pointers, LockOwner
<1>8. Exclusive' BY <1>7 DEF ReleaseInner, IInv, TypeOK, Exclusive
<1>9. FooLocks' BY DEF ReleaseInner, IInv, TypeOK, FooLocks
<1>10. Walks'
  <2>1. \A u \in Thread \ {t} : pc'[u] \notin {"find_walk", "unlink"}
    BY SetsAssumption DEF ReleaseInner, IInv, TypeOK, LockOwner
  <2>2. cur'[t] = foo_hash[i] /\ fp'[t] = f /\ pc'[t] = "unlink" /\ foo_hash[i] # f
    BY DEF ReleaseInner, IInv, TypeOK
  <2>3. f \in Linked BY <1>3 DEF Linked
  <2>4. f \in Chain(foo_hash[i]) BY <1>0, <2>3 DEF IInv, Heads
  <2>5. foo_hash[i] \in Linked BY <1>0, <2>4 DEF IInv, TypeOK, Heads, Chain
  <2>6. f \in below[foo_hash[i]] BY <2>2, <2>4 DEF Chain
  <2> QED BY <1>1, <2>1, <2>2, <2>5, <2>6 DEF Walks, Linked
<1>11. NoLeak' BY DEF ReleaseInner, IInv, TypeOK, NoLeak
<1> QED
  BY <1>2, <1>3, <1>4, <1>5, <1>6, <1>8, <1>9, <1>10, <1>11 DEF IInv

\* foo_release of the last reference to the head of a chain.
LEMMA ReleaseHeadIInv ==
  ASSUME IInv, NEW t \in Thread, ReleaseHead(t)
  PROVE  IInv'
<1> USE DEF Goto, Owning
<1> PICK f \in Foo : f = fp[t]
  BY DEF ReleaseHead, IInv, TypeOK, Pointers
<1> DEFINE i == HASH(f_id[f])
<1>0. i \in Index /\ foo_hash[i] = f BY HashIndex DEF ReleaseHead, IInv, TypeOK
<1>1. UNCHANGED <<f_id, f_next, below>> BY DEF ReleaseHead
<1>2. /\ RefCount' /\ f_reference' \in [Foo -> Nat] /\ heap[f] = "linked"
      /\ Holders(f) = {t}
  <2>1. Holders(f)' = Holders(f) \ {t}
    BY DEF ReleaseHead, IInv, TypeOK, Holders
  <2>2. \A g \in Foo \ {f} : Holders(g)' = Holders(g)
    BY DEF ReleaseHead, IInv, TypeOK, Holders
  <2>3. \A g \in Foo : heap'[g] # "free" => heap[g] # "free"
    BY DEF ReleaseHead, IInv, TypeOK, Pointers
  <2> QED BY <2>1, <2>2, <2>3, ReleaseCount DEF ReleaseHead
<1>3. TypeOK' BY <1>0, <1>2 DEF ReleaseHead, IInv, TypeOK
<1>4. LockOwner' BY DEF ReleaseHead, IInv, TypeOK, LockOwner
<1>5. \A u \in Thread \ {t} : fp[u] # f
  BY <1>2, SetsAssumption DEF ReleaseHead, IInv, TypeOK, Holders, Pointers, LockOwner
<1>6. Pointers' BY <1>5, SetsAssumption DEF ReleaseHead, IInv, TypeOK, Pointers
<1>7. Exclusive' BY <1>5 DEF ReleaseHead, IInv, TypeOK, Exclusive
<1>8. FooLocks' BY DEF ReleaseHead, IInv, TypeOK, FooLocks
<1>9. Walks'
  <2>1. \A u \in Thread : pc'[u] \notin {"find_walk", "unlink"}
    BY SetsAssumption DEF ReleaseHead, IInv, TypeOK, LockOwner
  <2> QED BY <2>1 DEF Walks
<1>10. NoLeak' BY DEF ReleaseHead, IInv, TypeOK, NoLeak, Pointers
<1>11. /\ f \in Linked /\ Linked' = Linked \ {f}
       /\ \A g \in Linked : g \in Foo
       /\ \A g : Chain(g)' = Chain(g)
  BY <1>1, <1>2 DEF ReleaseHead, IInv, TypeOK, Linked, Chain
<1>12. \A g \in Linked : f \notin below[g]
  BY <1>0 DEF IInv, Heads
<1>13. Shape'
  BY <1>1, <1>11, <1>12 DEF IInv, Shape
<1>14. Heads'
  <2>1. foo_hash'[i] = f_next[f] /\ \A j \in Index \ {i} : foo_hash'[j] = foo_hash[j]
    BY <1>0 DEF ReleaseHead, IInv, TypeOK
  <2>2. below[f] = Chain(f_next[f]) /\ Chain(f) = {f} \cup below[f]
    BY <1>11, SetsAssumption DEF IInv, Shape, Chain
  <2> SUFFICES ASSUME NEW j \in Index
      PROVE /\ \A g \in Foo : g \in Chain(foo_hash[j])' <=> g \in Linked' /\ HASH(f_id'[g]) = j
            /\ \A g \in Linked' : foo_hash'[j] \notin below'[g]
    BY DEF Heads
  <2>3. CASE j = i
    <3>1. Chain(foo_hash[j])' = below[f]
      BY <2>1, <2>2, <2>3, <1>11 DEF Chain
    <3>2. \A g \in Foo : g \in below[f] <=> g \in Linked' /\ HASH(f_id[g]) = i
      BY <1>0, <1>11, <1>12, <2>2 DEF IInv, Heads
    <3>3. ASSUME NEW g \in Linked', f_next[f] \in below[g] PROVE FALSE
      <4>1. g \in Linked /\ g # f /\ g \in Foo BY <1>11
      <4>2. f_next[f] \in Linked /\ f_next[f] # NULL
        BY <3>3, <4>1, SetsAssumption DEF IInv, Shape, Linked
      <4>3. f_next[f] \in below[f] BY <2>2, <4>2 DEF Chain
      <4>4. HASH(f_id[g]) = i
        BY <1>11, <4>1, <4>2, <4>3, <3>3 DEF IInv, Shape
      <4>5. g \in below[f] BY <3>2, <4>1, <4>4, <1>11
      <4>6. g = f_next[f] \/ g \in below[f_next[f]] BY <2>2, <4>5, <4>2 DEF Chain
      <4> QED BY <3>3, <4>1, <4>2, <4>6 DEF IInv, Shape
    <3> QED BY <1>1, <2>1, <2>3, <3>1, <3>2, <3>3
  <2>4. CASE j # i
    BY <1>1, <1>11, <2>1, <2>4 DEF IInv, Heads, Chain
  <2> QED BY <2>3, <2>4
<1> QED
  BY <1>2, <1>3, <1>4, <1>6, <1>7, <1>8, <1>9, <1>10, <1>13, <1>14 DEF IInv

\* foo_release takes a foo out of the middle of its chain.
LEMMA UnlinkIInv ==
  ASSUME IInv, NEW t \in Thread, Unlink(t)
  PROVE  IInv'
<1> USE DEF Goto, Owning
<1> PICK f \in Foo : f = fp[t]
  BY SetsAssumption DEF Unlink, IInv, TypeOK, Pointers
<1> PICK c \in Foo : c = cur[t]
  BY DEF Unlink, IInv, Walks, Linked
<1>0. /\ c \in Linked /\ f \in below[c] /\ f_next[c] = f
      /\ heap[f] = "linked" /\ f \in Linked
  BY DEF Unlink, IInv, Walks, Pointers, Linked
<1>1. TypeOK' BY DEF Unlink, IInv, TypeOK
<1>2. LockOwner' BY SetsAssumption DEF Unlink, IInv, TypeOK, LockOwner
<1>3. \A u \in Thread \ {t} : fp[u] # f
  BY DEF Unlink, IInv, TypeOK, Exclusive
<1>4. Pointers' BY <1>3, SetsAssumption DEF Unlink, IInv, TypeOK, Pointers
<1>5. Exclusive' BY <1>3 DEF Unlink, IInv, TypeOK, Exclusive
<1>6. FooLocks' BY DEF Unlink, IInv, TypeOK, FooLocks
<1>7. Walks'
  <2>1. \A u \in Thread : pc'[u] \notin {"find_walk", "unlink"}
    BY <1>2, SetsAssumption DEF Unlink, LockOwner
  <2> QED BY <2>1 DEF Walks
<1>8. NoLeak' BY <1>0 DEF Unlink, IInv, TypeOK, NoLeak
<1>9. RefCount'
  <2>1. \A g \in Foo : Holders(g)' = Holders(g)
    BY DEF Unlink, IInv, TypeOK, Holders
  <2> QED BY <1>0, <2>1, CountSame DEF Unlink, IInv, TypeOK
<1>10. /\ Linked' = Linked \ {f}
       /\ \A g \in Linked : g \in Foo /\ g # NULL
       /\ f_id' = f_id /\ foo_hash' = foo_hash
       /\ \A g \in Foo : below'[g] = below[g] \ {f}
       /\ \A g \in Foo \ {c} : f_next'[g] = f_next[g]
       /\ f_next'[c] = f_next[f]
  BY <1>0, SetsAssumption DEF Unlink, IInv, TypeOK, Linked
<1>11. /\ f \notin below[f] /\ c # f /\ below[c] = {f} \cup below[f]
       /\ \A g \in Linked \ {c} : f_next[g] # f
       /\ \A g \in Linked : f_next[g] \in Linked \cup {NULL}
       /\ f_next[f] # f
  <2>1. f \notin below[f] /\ c # f BY <1>0 DEF IInv, Shape
  <2>2. below[c] = {f} \cup below[f]
    BY <1>0, <1>10 DEF IInv, Shape, Chain
  <2>3. \A g \in Linked \ {c} : f_next[g] # f BY <1>0, <1>10 DEF IInv, Shape
  <2>4. \A g \in Linked : f_next[g] \in Linked \cup {NULL}
    BY DEF IInv, TypeOK, Shape, Chain
  <2> QED BY <1>0, <2>1, <2>2, <2>3, <2>4
<1>12. \A g \in Linked' \cup {NULL} : Chain(g)' = Chain(g) \ {f}
  BY <1>0, <1>10 DEF Chain
<1>13. Shape'
  <2>1. ASSUME NEW g \in Linked'
        PROVE  below'[g] \subseteq Linked' /\ below'[g] = Chain(f_next[g])'
    <3>1. g \in Linked /\ g # f /\ g \in Foo BY <2>1, <1>10
    <3>2. below'[g] \subseteq Linked' BY <3>1, <1>10 DEF IInv, Shape
    <3>3. CASE g = c
      <4>1. below'[g] = below[f]
        <5>1. below'[g] = ({f} \cup below[f]) \ {f} BY <3>3, <1>10, <1>11
        <5>2. ({f} \cup below[f]) \ {f} = below[f] BY <1>11
        <5> QED BY <5>1, <5>2
      <4>2. f_next'[g] = f_next[f] /\ f_next[f] \in Linked' \cup {NULL}
        BY <3>3, <1>0, <1>10, <1>11
      <4>3. Chain(f_next[g])' = Chain(f_next[f]) \ {f} BY <4>2, <1>12 DEF Chain
      <4>4. below[f] = Chain(f_next[f]) BY <1>0 DEF IInv, Shape
      <4> QED BY <3>2, <4>1, <4>3, <4>4, <1>11
    <3>4. CASE g # c
      <4>1. f_next'[g] = f_next[g] /\ f_next[g] \in Linked' \cup {NULL}
        BY <3>1, <3>4, <1>10, <1>11
      <4>2. Chain(f_next[g])' = Chain(f_next[g]) \ {f} BY <4>1, <1>12 DEF Chain
      <4>3. below[g] = Chain(f_next[g]) BY <3>1 DEF IInv, Shape
      <4> QED BY <3>1, <3>2, <4>2, <4>3, <1>10
    <3> QED BY <3>3, <3>4
  <2>2. \A g, h \in Linked' : h \in below'[g] => g \notin below'[h]
    BY <1>10 DEF IInv, Shape
  <2>3. \A g, h \in Linked' : h \in below'[g] => HASH(f_id'[g]) = HASH(f_id'[h])
    BY <1>10 DEF IInv, Shape
  <2>4. \A g, h \in Linked' : f_next'[g] = f_next'[h] /\ f_next'[g] # NULL => g = h
    BY <1>0, <1>10, <1>11 DEF IInv, Shape
  <2> QED BY <2>1, <2>2, <2>3, <2>4 DEF Shape
<1>14. Heads'
  <2> SUFFICES ASSUME NEW j \in Index
      PROVE /\ \A g \in Foo : g \in Chain(foo_hash[j])' <=> g \in Linked' /\ HASH(f_id'[g]) = j
            /\ \A g \in Linked' : foo_hash'[j] \notin below'[g]
    BY DEF Heads
  <2>1. foo_hash[j] \in Linked \cup {NULL} /\ foo_hash[j] # f
    BY <1>0, <1>11 DEF IInv, TypeOK, Heads, Chain
  <2>2. Chain(foo_hash[j])' = Chain(foo_hash[j]) \ {f}
    BY <2>1, <1>10, <1>12 DEF Chain
  <2> QED BY <2>2, <1>10 DEF IInv, Heads
<1> QED
  BY <1>1, <1>2, <1>4, <1>5, <1>6, <1>7, <1>8, <1>9, <1>13, <1>14 DEF IInv

\* foo_release returns the memory of a foo nobody can reach any more.
LEMMA DestroyIInv ==
  ASSUME IInv, NEW t \in Thread, Destroy(t)
  PROVE  IInv'
<1> USE DEF Goto, Owning
<1> PICK f \in Foo : f = fp[t]
  BY SetsAssumption DEF Destroy, IInv, TypeOK, Pointers
<1>0. heap[f] = "unlinked" /\ \A u \in Thread \ {t} : fp[u] # f
  BY DEF Destroy, IInv, Pointers, Exclusive
<1>1. Linked' = Linked /\ UNCHANGED <<foo_hash, f_id, f_next, below, f_lock, f_reference>>
  BY <1>0 DEF Destroy, fields, Linked, IInv, TypeOK
<1>2. TypeOK' BY DEF Destroy, fields, IInv, TypeOK
<1>3. LockOwner' BY DEF Destroy, IInv, TypeOK, LockOwner
<1>4. Pointers' BY <1>0, SetsAssumption DEF Destroy, IInv, TypeOK, Pointers
<1>5. Exclusive' BY SetsAssumption DEF Destroy, IInv, TypeOK, Exclusive, Pointers
<1>6. FooLocks' BY <1>1 DEF Destroy, IInv, TypeOK, FooLocks
<1>7. Shape' /\ Heads' BY <1>1 DEF IInv, Shape, Heads, Chain
<1>8. Walks' BY <1>1 DEF Destroy, IInv, TypeOK, Walks, Chain
<1>9. RefCount'
  <2>1. \A g \in Foo \ {f} : Holders(g)' = Holders(g)
    BY <1>0, SetsAssumption DEF Destroy, IInv, TypeOK, Holders
  <2> QED BY <1>1, <2>1 DEF Destroy, IInv, TypeOK, RefCount
<1>10. NoLeak' BY <1>0 DEF Destroy, IInv, TypeOK, NoLeak
<1> QED
  BY <1>2, <1>3, <1>4, <1>5, <1>6, <1>7, <1>8, <1>9, <1>10 DEF IInv

\* Every step of every thread preserves the invariant.
LEMMA NextIInv == IInv /\ [Next]_vars => IInv'
<1> SUFFICES ASSUME IInv, [Next]_vars PROVE IInv' OBVIOUS
<1>1. CASE UNCHANGED vars
  BY <1>1
  DEF vars, fields, IInv, TypeOK, LockOwner, Pointers, Exclusive, FooLocks, Shape,
      Heads, Walks, RefCount, NoLeak, Linked, Chain, Holders
<1>2. CASE Next
  <2> PICK t \in Thread : \/ Step(t)
                          \/ \E id \in Ids : Alloc(t, id) \/ CallFind(t, id)
                          \/ CallRelease(t)
    BY <1>2 DEF Next
  <2> QED
    BY AllocIInv, LinkIInv, MoveIInv, FindHitIInv, ReleaseSharedIInv,
       ReleaseHeadIInv, ReleaseInnerIInv, UnlinkIInv, DestroyIInv DEF Step
<1> QED BY <1>1, <1>2

\* The inductive invariant holds in every reachable state.
THEOREM Invariance == Spec => []IInv
  BY InitIInv, NextIInv, PTL DEF Spec

\* The table and the threads keep their types; f_reference never goes negative.
THEOREM TypeCorrect == Spec => []TypeOK
<1>1. IInv => TypeOK BY DEF IInv
<1> QED BY <1>1, Invariance, PTL

\* f_reference counts the references the threads own.
THEOREM ReferenceCounting == Spec => []RefCount
<1>1. IInv => RefCount BY DEF IInv
<1> QED BY <1>1, Invariance, PTL

\* What a thread holds stays in the table until it releases it, no thread reads
\* through a freed or null pointer, and a foo is destroyed with its lock free.
THEOREM MemorySafety == Spec => []MemorySafe
<1>1. IInv => HeldIsLinked BY DEF IInv, HeldIsLinked, Pointers, Owning
<1>2. IInv => NoBadPointer
  BY SetsAssumption DEF IInv, NoBadPointer, TypeOK, Pointers, Walks, Owning
<1>3. IInv => DestroyUnlocked
  BY SetsAssumption DEF IInv, DestroyUnlocked, TypeOK, Pointers, FooLocks
<1>4. IInv => MemorySafe BY <1>1, <1>2, <1>3 DEF MemorySafe
<1> QED BY <1>4, Invariance, PTL

\* foo_find_and_hold misses only what is not in the table.
THEOREM FindIsComplete == Spec => []MissIsReal
<1>1. IInv => MissIsReal BY DEF IInv, MissIsReal, Walks, Chain
<1> QED BY <1>1, Invariance, PTL

\* No foo is lost: whatever is allocated is in some thread's hands.
THEOREM NothingLeaks == Spec => []NoLeak
<1>1. IInv => NoLeak BY DEF IInv
<1> QED BY <1>1, Invariance, PTL
=============================================================================
