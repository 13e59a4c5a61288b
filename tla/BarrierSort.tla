---------------------------- MODULE BarrierSort -----------------------------
(***************************************************************************)
(* The parallel sort of 11.threads/09_barrier.c.  Each thread heap-sorts   *)
(* its part of random_numbers; a barrier tells main() that all parts are   *)
(* sorted; merge() then merges them into sorted_numbers.  The parts do not *)
(* overlap, so one pass of a loop of a thread is one step.                 *)
(***************************************************************************)
EXTENDS Naturals, Sequences, FiniteSets

CONSTANTS
  THREAD_COUNT,   \* threads, and parts of the array
  NUMBER_COUNT,   \* numbers to sort
  RAND_MAX,       \* what merge() starts its search for the minimum from
  Numbers,        \* the values of random() % NUMBER_COUNT that are tried
  Inputs          \* the arrays of such values that are tried

ASSUME PartsAssumption ==
  /\ THREAD_COUNT \in Nat \ {0} /\ NUMBER_COUNT \in Nat
  /\ NUMBER_COUNT % THREAD_COUNT = 0
ASSUME NumbersAssumption == \A n \in Numbers : n \in Nat /\ n < RAND_MAX
ASSUME InputsAssumption == Inputs \subseteq [0..(NUMBER_COUNT - 1) -> Numbers]

Thread == 0..(THREAD_COUNT - 1)
Position == 0..(NUMBER_COUNT - 1)
THREAD_NUMBER_COUNT == NUMBER_COUNT \div THREAD_COUNT

VARIABLES
  input,                \* the numbers main() has drawn
  random_numbers,       \* the array the threads sort in place
  sorted_numbers,       \* the output of merge() so far
  thread_initial_index, \* merge(): the next position of each part
  phase,                \* what a thread does next
  i,                    \* the loop variable of its build_heap() or heap_sort()
  index,                \* that of its node_adjust_down()
  place,                \* what main() does next
  created,              \* how many threads main() has tried to create
  arrived               \* how many wait at the barrier

sortVars == <<input, random_numbers, sorted_numbers, thread_initial_index, phase,
              i, index, place, created, arrived>>

SortTypeOK ==
  /\ input \in [Position -> Numbers] /\ random_numbers \in [Position -> Numbers]
  /\ sorted_numbers \in Seq(Numbers) /\ Len(sorted_numbers) <= NUMBER_COUNT
  /\ thread_initial_index \in [Thread -> 0..NUMBER_COUNT]
  /\ phase \in [Thread -> {"unborn", "absent", "build", "extract", "sorted", "wait", "done"}]
  /\ i \in [Thread -> 0..THREAD_NUMBER_COUNT] /\ index \in [Thread -> 0..THREAD_NUMBER_COUNT]
  /\ place \in {"create", "wait", "merge", "done"}
  /\ created \in 0..THREAD_COUNT
  /\ arrived \in 0..(THREAD_COUNT + 1)

SortInit ==
  /\ input \in Inputs
  /\ random_numbers = input
  /\ sorted_numbers = <<>>
  /\ thread_initial_index = [t \in Thread |-> THREAD_NUMBER_COUNT * t]
  /\ phase = [t \in Thread |-> "unborn"]
  /\ i = [t \in Thread |-> 0] /\ index = [t \in Thread |-> 0]
  /\ place = "create" /\ created = 0
  /\ arrived = 0

-----------------------------------------------------------------------------
(* heap_sort() of the part of a thread *)

Swap(a, k, l) == [a EXCEPT ![k] = a[l], ![l] = a[k]]

Base(t) == t * THREAD_NUMBER_COUNT
At(t, k) == random_numbers[Base(t) + k]

\* build_heap() calls node_adjust_down() for all of the part, heap_sort() for the i
\* numbers that are still in the heap.
Size(t) == IF phase[t] = "build" THEN THREAD_NUMBER_COUNT ELSE i[t]

\* Where the largest of the element at index and its children is.
Larger(t, m, c) == IF c < Size(t) /\ At(t, c) > At(t, m) THEN c ELSE m
max_index(t) == Larger(t, Larger(t, index[t], 2 * index[t] + 1), 2 * index[t] + 2)

\* node_adjust_down(): the element changes places with the larger child.
Sink(t) ==
  /\ phase[t] \in {"build", "extract"} /\ max_index(t) # index[t]
  /\ random_numbers' = Swap(random_numbers, Base(t) + index[t], Base(t) + max_index(t))
  /\ index' = [index EXCEPT ![t] = max_index(t)]
  /\ UNCHANGED <<input, sorted_numbers, thread_initial_index, phase, i, place, created, arrived>>

\* The loop of heap_sort(): the maximum goes to position k of the part, and what was
\* there sinks from the root.
Remove(t, k) ==
  /\ random_numbers' = Swap(random_numbers, Base(t), Base(t) + k)
  /\ phase' = [phase EXCEPT ![t] = "extract"]
  /\ i' = [i EXCEPT ![t] = k] /\ index' = [index EXCEPT ![t] = 0]

\* The thread starts: heap_sort() returns at once if there is nothing to sort, and
\* build_heap() begins with the last inner node.
Start(t) ==
  IF THREAD_NUMBER_COUNT <= 1
    THEN phase' = [phase EXCEPT ![t] = "sorted"] /\ UNCHANGED <<i, index>>
    ELSE /\ phase' = [phase EXCEPT ![t] = "build"]
         /\ i' = [i EXCEPT ![t] = THREAD_NUMBER_COUNT \div 2 - 1]
         /\ index' = [index EXCEPT ![t] = THREAD_NUMBER_COUNT \div 2 - 1]

\* build_heap() goes on with the inner node before, or is done.
BuildHeap(t) ==
  /\ phase[t] = "build" /\ max_index(t) = index[t]
  /\ \/ /\ i[t] > 0
        /\ i' = [i EXCEPT ![t] = @ - 1] /\ index' = [index EXCEPT ![t] = i[t] - 1]
        /\ UNCHANGED <<random_numbers, phase>>
     \/ i[t] = 0 /\ Remove(t, THREAD_NUMBER_COUNT - 1)
  /\ UNCHANGED <<input, sorted_numbers, thread_initial_index, place, created, arrived>>

\* heap_sort() goes on with a heap of one number less, or is done.
Extract(t) ==
  /\ phase[t] = "extract" /\ max_index(t) = index[t]
  /\ \/ i[t] > 1 /\ Remove(t, i[t] - 1)
     \/ /\ i[t] = 1 /\ phase' = [phase EXCEPT ![t] = "sorted"]
        /\ UNCHANGED <<random_numbers, i, index>>
  /\ UNCHANGED <<input, sorted_numbers, thread_initial_index, place, created, arrived>>

-----------------------------------------------------------------------------
(* The barrier *)

\* Mutant: main() is not counted.
BarrierCount_NoMain == THREAD_COUNT

\* Mutant: one more than will ever arrive.
BarrierCount_OneMore == THREAD_COUNT + 2

\* pthread_barrier_init(&barrier, NULL, THREAD_COUNT + 1)
BarrierCount == THREAD_COUNT + 1

\* One more at the barrier: the last to come releases those who wait there.
Arrive(threads, isMain) ==
  IF arrived + 1 = BarrierCount
    THEN /\ arrived' = 0
         /\ phase' = [t \in Thread |->
                      IF phase[t] = "wait" \/ t \in threads THEN "done" ELSE phase[t]]
         /\ place' = IF place = "wait" \/ isMain THEN "merge" ELSE place
    ELSE /\ arrived' = arrived + 1
         /\ phase' = [t \in Thread |-> IF t \in threads THEN "wait" ELSE phase[t]]
         /\ place' = IF isMain THEN "wait" ELSE place

ThreadArrives(t) ==
  /\ phase[t] = "sorted"
  /\ Arrive({t}, FALSE)
  /\ UNCHANGED <<input, random_numbers, sorted_numbers, thread_initial_index, i, index, created>>

-----------------------------------------------------------------------------
(* main() *)

\* pthread_create(); a failure is only reported.
CreateThread ==
  /\ place = "create" /\ created < THREAD_COUNT
  /\ created' = created + 1
  /\ \/ Start(created)
     \/ phase' = [phase EXCEPT ![created] = "absent"] /\ UNCHANGED <<i, index>>
  /\ UNCHANGED <<input, random_numbers, sorted_numbers, thread_initial_index, place, arrived>>

MainArrives ==
  /\ place = "create" /\ created = THREAD_COUNT
  /\ Arrive({}, TRUE)
  /\ UNCHANGED <<input, random_numbers, sorted_numbers, thread_initial_index, i, index, created>>

\* merge() looks at the next position of each part before it tests whether the part is
\* used up: of a part that is, this is the first number of the next part, and of the last
\* part what is behind the array, which may be any number.
Offer(t, behind) ==
  IF thread_initial_index[t] \in Position THEN random_numbers[thread_initial_index[t]] ELSE behind

\* Mutant: the second operand of the condition is missing.
Offers_UsedUp(behind) == {t \in Thread : Offer(t, behind) < RAND_MAX}

\* The parts whose next number the condition of line 78 accepts, if it is small enough.
Offers(behind) ==
  {t \in Thread : Offer(t, behind) < RAND_MAX
                    /\ thread_initial_index[t] < (t + 1) * THREAD_NUMBER_COUNT}

\* One iteration of the outer loop of merge(): the first of the smallest offers.
MergeStep ==
  /\ place = "merge" /\ Len(sorted_numbers) < NUMBER_COUNT
  /\ \E behind \in 0..RAND_MAX : \E t \in Offers(behind) :
       /\ \A u \in Offers(behind) :
            Offer(t, behind) < Offer(u, behind) \/ (Offer(t, behind) = Offer(u, behind) /\ t <= u)
       /\ thread_initial_index' = [thread_initial_index EXCEPT ![t] = @ + 1]
       /\ sorted_numbers' = Append(sorted_numbers, Offer(t, behind))
  /\ UNCHANGED <<input, random_numbers, phase, i, index, place, created, arrived>>

AllMerged ==
  /\ place = "merge" /\ Len(sorted_numbers) = NUMBER_COUNT
  /\ place' = "done"
  /\ UNCHANGED <<input, random_numbers, sorted_numbers, thread_initial_index, phase, i, index, created,
                 arrived>>

ThreadStep(t) == place # "done" /\ (Sink(t) \/ BuildHeap(t) \/ Extract(t) \/ ThreadArrives(t))
MergerStep == CreateThread \/ MainArrives \/ MergeStep \/ AllMerged

SortNext == MergerStep \/ \E t \in Thread : ThreadStep(t)

\* Every thread is scheduled.
SortFairness == WF_sortVars(MergerStep) /\ \A t \in Thread : WF_sortVars(ThreadStep(t))

SortSpec == SortInit /\ [][SortNext]_sortVars /\ SortFairness

-----------------------------------------------------------------------------
\* When main() is done sorted_numbers holds the numbers that were drawn, each as
\* often as it was drawn, in ascending order: heap_sort() sorts, the barrier keeps
\* merge() from starting early, and merge() drops nothing at the end of a part.
SortedOutput ==
  place = "done" =>
    /\ \A k \in 1..(NUMBER_COUNT - 1) : sorted_numbers[k] <= sorted_numbers[k + 1]
    /\ \A n \in Numbers : Cardinality({p \in Position : input[p] = n})
                            = Cardinality({k \in 1..NUMBER_COUNT : sorted_numbers[k] = n})

\* The program ends if every thread could be created; if pthread_create() failed,
\* which is only reported, the barrier never opens and main() waits for ever.
EndsUnlessThreadMissing ==
  <>(place = "done" \/ \E t \in Thread : phase[t] = "absent")
=============================================================================
