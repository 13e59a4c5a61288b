----------------------------- MODULE FileProofs -----------------------------
(***************************************************************************)
(* Two programs on files, for all values of their parameters.  The copy of *)
(* 05_rot13.c with asynchronous I/O, for any number of buffers and any     *)
(* size: its counters agree with the requests, and exit(0) means that the  *)
(* whole file was written.  The directory walk of 07_ftw.c, for any tree:  *)
(* the path fits the buffer, and every entry is visited once or skipped    *)
(* for a reason.                                                           *)
(***************************************************************************)
EXTENDS AioCopy, Ftw, FiniteSetTheorems, SequenceTheorems, TLAPS

\* Block b is in the output file.
Copied(b) == out[b] = "full" \/ (out[b] = "short" /\ b = BLOCKS - 1)

\* A busy buffer is about a block that offset has passed; only the buffer of the
\* last block has its `last' flag set, and only that one may write a short block.
Buffers ==
  \A k \in Buf :
    /\ k \in Busy => aio_offset[k] \in Block /\ aio_offset[k] < offset
    /\ last[k] = 1 => offset >= BLOCKS
    /\ last[k] = 1 /\ k \in Busy => aio_offset[k] = BLOCKS - 1
    /\ op[k] = "WRITE_PENDING" /\ aio_nbytes[k] = "short" => last[k] = 1
    /\ k \in Busy <=> request[k] # "none"

\* A finished write has put its block in the output file.
Written ==
  \A k \in Buf :
    op[k] = "WRITE_PENDING" /\ request[k] = "full" => out[aio_offset[k]] = aio_nbytes[k]

\* Every block that offset has passed is copied or on its way.
Coverage ==
  \A b \in Block : b < offset => Copied(b) \/ \E k \in Busy : aio_offset[k] = b

\* When the loop sleeps or has ended.
Ending ==
  /\ pc = "suspend" => num_to_process # 0
  /\ status = "ok" => pc = "exit" /\ num_to_process = 0 /\ offset >= BLOCKS

\* What is needed to prove the claims about the copy.
IInv ==
  /\ TypeOK /\ Bookkeeping /\ DistinctBlocks
  /\ Buffers /\ Written /\ Coverage /\ Ending

-----------------------------------------------------------------------------
\* At most NBUF buffers are busy.
LEMMA BusyFinite == IsFiniteSet(Busy) /\ Cardinality(Busy) \in 0..NBUF
<1>1. IsFiniteSet(Buf) /\ Cardinality(Buf) = NBUF
  BY FS_Interval, SizesAssumption DEF Buf
<1>2. Busy \subseteq Buf BY DEF Busy
<1>3. IsFiniteSet(Busy) /\ Cardinality(Busy) <= NBUF BY <1>1, <1>2, FS_Subset
<1> QED BY <1>3, FS_CardinalityType

\* At the start no buffer is busy.
LEMMA InitIInv == Init => IInv
<1> SUFFICES ASSUME Init PROVE IInv OBVIOUS
<1>1. Busy = {} BY DEF Init, Busy
<1>2. TypeOK BY SizesAssumption DEF Init, TypeOK
<1>3. Bookkeeping BY <1>1, FS_EmptySet DEF Init, Bookkeeping
<1>4. DistinctBlocks /\ Buffers BY <1>1 DEF Init, DistinctBlocks, Buffers
<1>5. Written /\ Coverage /\ Ending
  BY <1>1 DEF Init, Written, Coverage, Ending, Block
<1> QED BY <1>2, <1>3, <1>4, <1>5 DEF IInv

\* Steps that only move the loop, sleep or end.
LEMMA MoveIInv ==
  ASSUME IInv, UNCHANGED <<wrapVars, request, aio_list, offset, num_to_process, out>>,
         i' \in 0..NBUF, pc' \in {"loop", "suspend", "exit"},
         status' \in {"none", "ok", "failed"}, Ending'
  PROVE  IInv'
<1>1. Busy' = Busy BY DEF Busy, wrapVars
<1>2. TypeOK' BY DEF IInv, TypeOK, wrapVars
<1>3. Bookkeeping' /\ DistinctBlocks' BY <1>1 DEF IInv, Bookkeeping, DistinctBlocks, wrapVars
<1>4. Buffers' /\ Written' BY <1>1 DEF IInv, Buffers, Written, wrapVars
<1>5. Coverage' BY <1>1 DEF IInv, Coverage, Copied, wrapVars
<1> QED BY <1>2, <1>3, <1>4, <1>5 DEF IInv

\* exit(-1).
LEMMA FailIInv == IInv /\ Fail => IInv'
<1> SUFFICES ASSUME IInv, Fail PROVE IInv' OBVIOUS
<1>1. i' \in 0..NBUF /\ Ending' BY DEF IInv, TypeOK, Fail, Ending
<1> QED BY <1>1, MoveIInv DEF Fail

\* case UNUSED: a read is started.
LEMMA StartReadIInv == IInv /\ StartRead => IInv'
<1> SUFFICES ASSUME IInv, StartRead, ~Fail PROVE IInv' BY FailIInv
<1>a. /\ op' = [op EXCEPT ![i] = "READ_PENDING"]
      /\ aio_offset' = [aio_offset EXCEPT ![i] = offset]
      /\ last' = [last EXCEPT ![i] = IF offset + 1 >= BLOCKS THEN 1 ELSE @]
      /\ aio_nbytes' = [aio_nbytes EXCEPT ![i] = "full"]
      /\ request' = [request EXCEPT ![i] = "running"]
  BY DEF StartRead
<1>b. /\ i < NBUF /\ op[i] = "UNUSED" /\ offset < BLOCKS /\ pc = "loop"
      /\ offset' = offset + 1 /\ num_to_process' = num_to_process + 1 /\ i' = i + 1
      /\ aio_list' = aio_list \cup {i}
      /\ UNCHANGED <<out, pc, status>>
  BY DEF StartRead, InLoop, Continue
<1>0. i \in Buf /\ i \notin Busy /\ offset \in Block /\ offset < BLOCKS
  BY <1>b, SizesAssumption DEF IInv, TypeOK, Buf, Block, Busy
<1>1. Busy' = Busy \cup {i} BY <1>0, <1>a DEF Busy, IInv, TypeOK
<1>2. /\ Cardinality(Busy') = Cardinality(Busy) + 1
      /\ Cardinality(Busy') \in 0..NBUF
  <2>1. Cardinality(Busy \cup {i}) = Cardinality(Busy) + 1
    BY <1>0, BusyFinite, FS_AddElement
  <2>2. Cardinality(Busy') \in 0..NBUF
    <3>1. Busy' \subseteq Buf BY DEF Busy
    <3>2. IsFiniteSet(Buf) /\ Cardinality(Buf) = NBUF
      BY FS_Interval, SizesAssumption DEF Buf
    <3>3. IsFiniteSet(Busy') /\ Cardinality(Busy') <= NBUF BY <3>1, <3>2, FS_Subset
    <3> QED BY <3>3, FS_CardinalityType
  <2> QED BY <1>1, <2>1, <2>2
<1>3. Bookkeeping' BY <1>1, <1>2, <1>b DEF IInv, Bookkeeping
<1>4. TypeOK'
  <2>1. num_to_process' \in 0..NBUF BY <1>2, <1>3 DEF Bookkeeping
  <2>2. i' \in 0..NBUF /\ offset' \in 0..BLOCKS
    BY <1>0, <1>b, SizesAssumption DEF IInv, TypeOK
  <2>3. /\ op' \in [Buf -> {"UNUSED", "READ_PENDING", "WRITE_PENDING"}]
        /\ aio_offset' \in [Buf -> Block \cup {NoBlock}]
        /\ aio_nbytes' \in [Buf -> {"full", "short"}]
        /\ request' \in [Buf -> {"none", "running", "full", "short", "error"}]
    BY <1>0, <1>a DEF IInv, TypeOK
  <2>4. last' \in [Buf -> {0, 1}] BY <1>0, <1>a DEF IInv, TypeOK
  <2> QED BY <1>0, <1>b, <2>1, <2>2, <2>3, <2>4 DEF IInv, TypeOK
<1>5. \A k \in Buf \ {i} : /\ op'[k] = op[k] /\ last'[k] = last[k]
                           /\ aio_offset'[k] = aio_offset[k] /\ aio_nbytes'[k] = aio_nbytes[k]
                           /\ request'[k] = request[k]
  BY <1>a DEF IInv, TypeOK
<1>6. /\ op'[i] = "READ_PENDING" /\ aio_offset'[i] = offset /\ request'[i] = "running"
      /\ last'[i] = 1 <=> offset + 1 >= BLOCKS
  <2>1. last[i] = 0 BY <1>0, SizesAssumption DEF IInv, TypeOK, Buffers
  <2> QED BY <1>0, <1>a, <2>1 DEF IInv, TypeOK
<1>7. DistinctBlocks'
  BY <1>0, <1>1, <1>5, <1>6, SizesAssumption DEF IInv, TypeOK, Buffers, DistinctBlocks, Busy
<1>8. Buffers'
  <2> SUFFICES ASSUME NEW k \in Buf
      PROVE  /\ k \in Busy' => aio_offset'[k] \in Block /\ aio_offset'[k] < offset'
             /\ last'[k] = 1 => offset' >= BLOCKS
             /\ last'[k] = 1 /\ k \in Busy' => aio_offset'[k] = BLOCKS - 1
             /\ op'[k] = "WRITE_PENDING" /\ aio_nbytes'[k] = "short" => last'[k] = 1
             /\ k \in Busy' <=> request'[k] # "none"
    BY DEF Buffers
  <2>1. CASE k = i
    BY <2>1, <1>0, <1>1, <1>6, <1>b, SizesAssumption DEF IInv, TypeOK
  <2>2. CASE k # i
    <3>1. aio_offset[k] \in Int /\ (k \in Busy => aio_offset[k] < offset)
      BY <2>2, SizesAssumption DEF IInv, TypeOK, Buffers, Block, NoBlock
    <3> QED BY <2>2, <3>1, <1>0, <1>1, <1>5, <1>b, SizesAssumption DEF IInv, TypeOK, Buffers
  <2> QED BY <2>1, <2>2
<1>9. Written' BY <1>5, <1>6, <1>b DEF IInv, Written
<1>10. Coverage'
  <2> SUFFICES ASSUME NEW b \in Block, b < offset'
               PROVE  Copied(b)' \/ \E k \in Busy' : aio_offset'[k] = b
    BY DEF Coverage
  <2>1. CASE b = offset BY <2>1, <1>1, <1>6
  <2>2. CASE b < offset
    <3>1. CASE Copied(b) BY <3>1, <1>b DEF Copied
    <3>2. CASE \E k \in Busy : aio_offset[k] = b
      BY <3>2, <1>0, <1>1, <1>5 DEF Busy
    <3> QED BY <2>2, <3>1, <3>2 DEF IInv, Coverage
  <2> QED BY <2>1, <2>2, <1>b, SizesAssumption DEF IInv, TypeOK, Block
<1>11. Ending' BY <1>b DEF IInv, TypeOK, Ending
<1> QED BY <1>3, <1>4, <1>7, <1>8, <1>9, <1>10, <1>11 DEF IInv

\* case READ_PENDING: a finished read becomes a write of the same block.
LEMMA ReadDoneIInv == IInv /\ ReadDone => IInv'
<1> SUFFICES ASSUME IInv, ReadDone, ~Fail PROVE IInv' BY FailIInv
<1>a. /\ op' = [op EXCEPT ![i] = "WRITE_PENDING"]
      /\ aio_nbytes' = [aio_nbytes EXCEPT ![i] = request[i]]
      /\ request' = [request EXCEPT ![i] = "running"]
  BY DEF ReadDone
<1>b. /\ i < NBUF /\ op[i] = "READ_PENDING" /\ pc = "loop" /\ i' = i + 1
      /\ request[i] = "full" \/ (request[i] = "short" /\ last[i] = 1)
      /\ UNCHANGED <<last, aio_offset, aio_list, offset, num_to_process, out, pc, status>>
  BY DEF ReadDone, InLoop, Continue
<1>0. i \in Buf /\ i \in Busy
  BY <1>b, SizesAssumption DEF IInv, TypeOK, Buf, Busy
<1>1. Busy' = Busy BY <1>0, <1>a DEF Busy, IInv, TypeOK
<1>2. TypeOK'
  <2>1. i' \in 0..NBUF BY <1>b, SizesAssumption DEF IInv, TypeOK
  <2>2. /\ op' \in [Buf -> {"UNUSED", "READ_PENDING", "WRITE_PENDING"}]
        /\ aio_nbytes' \in [Buf -> {"full", "short"}]
        /\ request' \in [Buf -> {"none", "running", "full", "short", "error"}]
    BY <1>0, <1>a, <1>b DEF IInv, TypeOK
  <2> QED BY <1>b, <2>1, <2>2 DEF IInv, TypeOK
<1>3. Bookkeeping' /\ DistinctBlocks'
  BY <1>1, <1>b DEF IInv, Bookkeeping, DistinctBlocks
<1>4. /\ \A k \in Buf \ {i} : op'[k] = op[k] /\ aio_nbytes'[k] = aio_nbytes[k]
                              /\ request'[k] = request[k]
      /\ op'[i] = "WRITE_PENDING" /\ aio_nbytes'[i] = request[i] /\ request'[i] = "running"
  BY <1>0, <1>a DEF IInv, TypeOK
<1>5. Buffers' BY <1>0, <1>1, <1>4, <1>b DEF IInv, Buffers
<1>6. Written' BY <1>4, <1>b DEF IInv, Written
<1>7. Coverage' BY <1>1, <1>b DEF IInv, Coverage, Copied
<1>8. Ending' BY <1>b DEF IInv, Ending
<1> QED BY <1>2, <1>3, <1>5, <1>6, <1>7, <1>8 DEF IInv

\* case WRITE_PENDING: a finished write gives the buffer back.
LEMMA WriteDoneIInv == IInv /\ WriteDone => IInv'
<1> SUFFICES ASSUME IInv, WriteDone PROVE IInv' OBVIOUS
<1>a. /\ op' = [op EXCEPT ![i] = "UNUSED"]
      /\ request' = [request EXCEPT ![i] = "none"]
  BY DEF WriteDone
<1>b. /\ i < NBUF /\ op[i] = "WRITE_PENDING" /\ request[i] = "full" /\ pc = "loop"
      /\ i' = i + 1 /\ num_to_process' = num_to_process - 1
      /\ aio_list' = aio_list \ {i}
      /\ UNCHANGED <<last, aio_offset, aio_nbytes, offset, out, pc, status>>
  BY DEF WriteDone, InLoop, Continue
<1>0. i \in Buf /\ i \in Busy
  BY <1>b, SizesAssumption DEF IInv, TypeOK, Buf, Busy
<1>1. Busy' = Busy \ {i} BY <1>0, <1>a DEF Busy, IInv, TypeOK
<1>2. Cardinality(Busy') = Cardinality(Busy) - 1 /\ Cardinality(Busy') \in 0..NBUF
  <2>1. IsFiniteSet(Busy \ {i}) /\ Cardinality(Busy \ {i}) = Cardinality(Busy) - 1
    BY <1>0, BusyFinite, FS_RemoveElement
  <2>2. Cardinality(Busy \ {i}) \in Nat BY <2>1, FS_CardinalityType
  <2> QED BY <1>1, <2>1, <2>2, BusyFinite, SizesAssumption
<1>3. Bookkeeping' BY <1>1, <1>2, <1>b DEF IInv, Bookkeeping
<1>4. TypeOK'
  <2>1. num_to_process' \in 0..NBUF BY <1>2, <1>3 DEF Bookkeeping
  <2>2. i' \in 0..NBUF BY <1>b, SizesAssumption DEF IInv, TypeOK
  <2>3. /\ op' \in [Buf -> {"UNUSED", "READ_PENDING", "WRITE_PENDING"}]
        /\ request' \in [Buf -> {"none", "running", "full", "short", "error"}]
    BY <1>0, <1>a DEF IInv, TypeOK
  <2> QED BY <1>b, <2>1, <2>2, <2>3 DEF IInv, TypeOK
<1>5. DistinctBlocks' BY <1>1, <1>b DEF IInv, DistinctBlocks
<1>6. /\ \A k \in Buf \ {i} : op'[k] = op[k] /\ request'[k] = request[k]
      /\ op'[i] = "UNUSED" /\ request'[i] = "none"
  BY <1>0, <1>a DEF IInv, TypeOK
<1>7. Buffers' BY <1>0, <1>1, <1>6, <1>b DEF IInv, Buffers
<1>8. Written' BY <1>6, <1>b DEF IInv, Written
<1>9. Copied(aio_offset[i])
  <2>1. aio_nbytes[i] = "full" \/ (aio_nbytes[i] = "short" /\ aio_offset[i] = BLOCKS - 1)
    BY <1>0, <1>b DEF IInv, TypeOK, Buffers
  <2> QED BY <1>0, <1>b, <2>1 DEF IInv, Written, Copied
<1>10. Coverage'
  <2> SUFFICES ASSUME NEW b \in Block, b < offset
               PROVE  Copied(b)' \/ \E k \in Busy' : aio_offset'[k] = b
    BY <1>b DEF Coverage
  <2>1. Copied(b)' <=> Copied(b) BY <1>b DEF Copied
  <2>2. ASSUME NEW k \in Busy, aio_offset[k] = b, ~Copied(b)
        PROVE  \E l \in Busy' : aio_offset'[l] = b
    <3>1. k # i BY <2>2, <1>9
    <3> QED BY <3>1, <2>2, <1>1, <1>b
  <2> QED BY <2>1, <2>2 DEF IInv, Coverage
<1>11. Ending' BY <1>b DEF IInv, Ending
<1> QED BY <1>3, <1>4, <1>5, <1>7, <1>8, <1>10, <1>11 DEF IInv

\* The kernel finishes a request; only the block of that request changes.
LEMMA CompleteIInv ==
  ASSUME IInv, NEW k \in Buf, NEW r \in Result, Complete(k, r)
  PROVE  IInv'
<1>b. /\ request' = [request EXCEPT ![k] = r] /\ request[k] = "running" /\ pc # "exit"
      /\ UNCHANGED <<op, last, aio_offset, aio_nbytes, aio_list, offset, num_to_process,
                     i, pc, status>>
  BY DEF Complete, wrapVars
<1>0. k \in Busy /\ aio_offset[k] \in Block /\ r \in {"full", "short", "error"}
  BY <1>b DEF IInv, Buffers, Result
<1>1. Busy' = Busy BY <1>b DEF Busy
<1>2. /\ out' \in [Block -> {"nothing", "torn", "short", "full"}]
      /\ \A b \in Block : b # aio_offset[k] => out'[b] = out[b]
      /\ op[k] = "WRITE_PENDING" /\ r = "full" => out'[aio_offset[k]] = aio_nbytes[k]
  <2>1. CASE op[k] = "WRITE_PENDING"
    <3>1. out' = [out EXCEPT ![aio_offset[k]] = IF r = "full" THEN aio_nbytes[k] ELSE "torn"]
      BY <2>1 DEF Complete
    <3> QED BY <1>0, <3>1 DEF IInv, TypeOK
  <2>2. CASE op[k] # "WRITE_PENDING"
    BY <2>2 DEF Complete, IInv, TypeOK
  <2> QED BY <2>1, <2>2
<1>3. TypeOK'
  <2>1. request' \in [Buf -> {"none", "running", "full", "short", "error"}]
    BY <1>0, <1>b DEF IInv, TypeOK
  <2> QED BY <1>b, <1>2, <2>1 DEF IInv, TypeOK
<1>4. Bookkeeping' /\ DistinctBlocks'
  BY <1>1, <1>b DEF IInv, Bookkeeping, DistinctBlocks
<1>5. request'[k] = r /\ \A l \in Buf \ {k} : request'[l] = request[l]
  BY <1>b DEF IInv, TypeOK
<1>6. Buffers' BY <1>0, <1>1, <1>5, <1>b DEF IInv, Buffers
<1>7. Written'
  <2> SUFFICES ASSUME NEW l \in Buf, op[l] = "WRITE_PENDING", request'[l] = "full"
               PROVE  out'[aio_offset[l]] = aio_nbytes[l]
    BY <1>b DEF Written
  <2>1. CASE l = k BY <2>1, <1>2, <1>5
  <2>2. CASE l # k
    <3>1. l \in Busy /\ aio_offset[l] # aio_offset[k] /\ aio_offset[l] \in Block
      BY <2>2, <1>0 DEF IInv, Buffers, DistinctBlocks, Busy
    <3> QED BY <2>2, <3>1, <1>2, <1>5 DEF IInv, Written
  <2> QED BY <2>1, <2>2
<1>8. Coverage'
  <2> SUFFICES ASSUME NEW b \in Block, b < offset
               PROVE  Copied(b)' \/ \E l \in Busy : aio_offset[l] = b
    BY <1>1, <1>b DEF Coverage
  <2>1. CASE b = aio_offset[k] BY <2>1, <1>0
  <2>2. CASE b # aio_offset[k]
    BY <2>2, <1>2 DEF IInv, Coverage, Copied
  <2> QED BY <2>1, <2>2
<1>9. Ending' BY <1>b DEF IInv, Ending
<1> QED BY <1>3, <1>4, <1>6, <1>7, <1>8, <1>9 DEF IInv

\* Every step preserves the invariant.
LEMMA NextIInv == IInv /\ [Next]_vars => IInv'
<1> SUFFICES ASSUME IInv, [Next]_vars PROVE IInv' OBVIOUS
<1>1. CASE UNCHANGED vars
  <2>1. i' \in 0..NBUF /\ Ending' BY <1>1 DEF vars, IInv, TypeOK, Ending
  <2> QED BY <1>1, <2>1, MoveIInv DEF vars, IInv, TypeOK
<1>2. CASE NothingToRead \/ StillPending
  <2>1. i' \in 0..NBUF /\ Ending' /\ UNCHANGED <<pc, status>>
    BY <1>2, SizesAssumption
    DEF NothingToRead, StillPending, InLoop, Continue, IInv, TypeOK, Ending
  <2> QED BY <1>2, <2>1, MoveIInv DEF NothingToRead, StillPending, IInv, TypeOK
<1>3. CASE ReadFails \/ WriteFails BY <1>3, FailIInv DEF ReadFails, WriteFails
<1>4. CASE Finish \/ NextPass \/ Suspend \/ Resume \/ Interrupted
  <2>1. i' \in 0..NBUF /\ Ending'
    BY <1>4, SizesAssumption
    DEF Finish, NextPass, Suspend, Resume, Interrupted, IInv, TypeOK, Ending
  <2> QED
    BY <1>4, <2>1, MoveIInv
    DEF Finish, NextPass, Suspend, Resume, Interrupted, IInv, TypeOK
<1> QED
  BY <1>1, <1>2, <1>3, <1>4, StartReadIInv, ReadDoneIInv, WriteDoneIInv, CompleteIInv
  DEF Next, Program

\* The inductive invariant holds in every reachable state.
THEOREM Invariance == Spec => []IInv
  BY InitIInv, NextIInv, PTL DEF Spec

\* The variables of the copy keep their types; offset stops at the end of the file.
THEOREM TypeCorrect == Spec => []TypeOK
<1>1. IInv => TypeOK BY DEF IInv
<1> QED BY <1>1, Invariance, PTL

\* num_to_process and aio_list describe the outstanding requests.
THEOREM BookkeepingCorrect == Spec => []Bookkeeping
<1>1. IInv => Bookkeeping BY DEF IInv
<1> QED BY <1>1, Invariance, PTL

\* No two requests are about the same block.
THEOREM BlocksDistinct == Spec => []DistinctBlocks
<1>1. IInv => DistinctBlocks BY DEF IInv
<1> QED BY <1>1, Invariance, PTL

\* aio_suspend always has something to wait for.
THEOREM SuspendsWithRequest == Spec => []SuspendHasRequest
<1>1. IInv => SuspendHasRequest
  BY FS_EmptySet DEF IInv, SuspendHasRequest, Ending, Bookkeeping
<1> QED BY <1>1, Invariance, PTL

\* exit(0) means that every block of the file was copied.
THEOREM CopyIsComplete == Spec => []CopyComplete
<1>1. IInv => CopyComplete
  <2> SUFFICES ASSUME IInv, status = "ok", NEW b \in Block PROVE Copied(b)
    BY DEF CopyComplete, Copied
  <2>1. num_to_process = 0 /\ offset >= BLOCKS BY DEF IInv, Ending
  <2>2. Busy = {} BY <2>1, BusyFinite, FS_EmptySet DEF IInv, Bookkeeping
  <2>3. b < offset BY <2>1, SizesAssumption DEF IInv, TypeOK, Block
  <2> QED BY <2>2, <2>3 DEF IInv, Coverage
<1> QED BY <1>1, Invariance, PTL

-----------------------------------------------------------------------------
\* A directory being read.
Frame == [dir : Entry, n : Nat, names : SUBSET Entry]

\* The tree: a parent has a smaller number and is a directory.
TreeInv ==
  /\ tree.parent \in [Entry -> Entry] /\ tree.parent[1] = 1
  /\ tree.kind \in [Entry -> Kind] /\ tree.name \in {1, NAME_MAX} /\ tree.root \in RootLength
  /\ \A e \in Entry \ {1} : tree.parent[e] < e /\ tree.kind[tree.parent[e]] = "DIR"

\* The directories being read lead from the argument down, each a child of the one
\* before it; the names not read yet are children of theirs.
StackInv ==
  /\ stack \in Seq(Frame) /\ place \in {"start", "dopath", "return", "done"}
  /\ \A j \in 1..Len(stack) :
       /\ stack[j].dir \in Entry /\ stack[j].n = 2 * j /\ stack[j].names \subseteq Child(stack[j].dir)
       /\ \A h \in 1..(j - 1) : stack[h].dir < stack[j].dir
       /\ IF j = 1 THEN stack[j].dir = 1 ELSE stack[j].dir \in Child(stack[j - 1].dir)
  /\ place \in {"start", "done"} => stack = <<>>

\* fullpath begins with those directories, and dopath() is called for one of the names
\* that the last one has given.
PathInv ==
  place # "start" =>
    /\ fullpath \in Seq(Entry \cup {0})
    /\ Len(fullpath) \in (2 * Len(stack))..(2 * Len(stack) + 2) /\ Len(fullpath) > 0
    /\ \A j \in 1..Len(stack) : fullpath[2 * j - 1] = stack[j].dir /\ fullpath[2 * j] = 0
    /\ place = "dopath" =>
         /\ Len(fullpath) = 2 * Len(stack) + 1
         /\ Here \in IF stack = <<>> THEN {1} ELSE Child(Top.dir) \ Top.names

\* The buffer holds its path, and next to the path of every directory being read one more
\* name.  It was never shorter than a name, so that doubling it once is enough.
RoomInv ==
  place # "start" =>
    /\ pathlen \in Nat /\ pathlen > NAME_MAX + 1 /\ pathlen > Length(fullpath)
    /\ \A j \in 1..Len(stack) : pathlen > Length(SubSeq(fullpath, 1, 2 * j)) + NAME_MAX

\* The entry will be passed to dopath() unless a readdir(), or a closedir() next to it, fails.
Waiting(e) ==
  \/ place = "start" /\ e = 1
  \/ place = "dopath" /\ e = Here
  \/ \E j \in 1..Len(stack) : e \in stack[j].names

\* What waits was not visited; what was visited is below what was visited.
OnceInv ==
  /\ visited \in [Entry -> {0, 1}]
  /\ \A e \in Entry : Waiting(e) => visited[e] = 0
  /\ \A j \in 1..Len(stack) : visited[stack[j].dir] = 1
  /\ \A e \in Entry \ {1} : visited[e] = 1 => visited[tree.parent[e]] = 1

\* An entry was visited, will not be, or waits, itself or a directory above it.
FoundInv ==
  \A e \in Entry : visited[e] = 1 \/ Skipped(e) \/ \E a \in Above(e) : Waiting(a)

\* A dopath() returns something else than 0 after a failed closedir() only, of the argument
\* or of an entry of the directory being read.
CloseInv ==
  /\ ret \in {0, 1}
  /\ place = "return" /\ ret = 1 /\ stack # <<>> =>
       \E b \in Child(Top.dir) : visited[b] = 1 /\ <<"closedir", b>> \in failed
  /\ IF place \in {"return", "done"} /\ stack = <<>>
       THEN ret = 1 <=> <<"closedir", 1>> \in failed
       ELSE <<"closedir", 1>> \notin failed

\* The counters are those of the entries visited so far.
CountInv ==
  /\ count \in [Kind -> Nat]
  /\ \A k \in Kind \ {"DIR"} : count[k] = Number(k)
  /\ count["DIR"] = Cardinality({e \in Entry : visited[e] = 1})

\* The lengths are positive, and a name is at most as long as it may be.
LEMMA Sizes ==
  ASSUME TreeInv
  PROVE  /\ tree.root \in Nat /\ tree.root > 0 /\ tree.name \in Nat /\ tree.name > 0
         /\ tree.name <= NAME_MAX /\ NAME_MAX \in Nat /\ tree.root + tree.name \in Nat
<1>1. tree.root \in RootLength /\ tree.name \in {1, NAME_MAX} BY DEF TreeInv
<1>2. RootLength \subseteq Nat \ {0} /\ NAME_MAX \in Nat \ {0} BY ParametersAssumption
<1>3. tree.root \in Nat \ {0} BY <1>1, <1>2
<1> QED BY <1>1, <1>2, <1>3

\* A width is at least 1 and at most that of the argument and a name together.
LEMMA WidthBound ==
  ASSUME TreeInv, NEW t \in Entry \cup {0}
  PROVE  Width(t) \in 1..(tree.root + tree.name) /\ (t \notin {0, 1} => Width(t) <= NAME_MAX)
  BY Sizes DEF Width

\* The characters of a path are finitely many.
LEMMA FiniteCharacters ==
  ASSUME TreeInv, NEW p \in Seq(Entry \cup {0})
  PROVE  IsFiniteSet(Characters(p)) /\ Length(p) \in Nat
<1>1. Len(p) \in Int /\ tree.root + tree.name \in Int BY Sizes
<1>2. IsFiniteSet(1..Len(p)) /\ IsFiniteSet(1..(tree.root + tree.name))
  BY <1>1, FS_Interval
<1>3. IsFiniteSet((1..Len(p)) \X (1..(tree.root + tree.name))) BY <1>2, FS_Product
<1>4. Characters(p) \subseteq (1..Len(p)) \X (1..(tree.root + tree.name)) BY DEF Characters
<1>5. IsFiniteSet(Characters(p)) BY <1>3, <1>4, FS_Subset
<1> QED BY <1>5, FS_CardinalityType DEF Length

\* What is appended adds its width.
LEMMA LengthAppend ==
  ASSUME TreeInv, NEW p \in Seq(Entry \cup {0}), NEW t \in Entry \cup {0}
  PROVE  Length(Append(p, t)) = Length(p) + Width(t)
<1> DEFINE q == Append(p, t)
           new == {Len(p) + 1} \X (1..Width(t))
<1>1. /\ q \in Seq(Entry \cup {0}) /\ Len(q) = Len(p) + 1 /\ Len(p) \in Nat /\ q[Len(p) + 1] = t
      /\ \A j \in 1..Len(p) : q[j] = p[j]
  BY AppendProperties
<1>2. Width(t) \in 1..(tree.root + tree.name) /\ tree.root + tree.name \in Nat
  BY WidthBound, Sizes
<1>3. Characters(q) = Characters(p) \cup new
  <2>1. ASSUME NEW c \in Characters(q) PROVE c \in Characters(p) \cup new
    <3>1. /\ c \in (1..Len(q)) \X (1..(tree.root + tree.name)) /\ c[2] <= Width(q[c[1]])
      BY <2>1 DEF Characters
    <3>2. CASE c[1] = Len(p) + 1 BY <1>1, <1>2, <3>1, <3>2
    <3>3. CASE c[1] \in 1..Len(p) BY <1>1, <3>1, <3>3 DEF Characters
    <3> QED BY <1>1, <3>1, <3>2, <3>3
  <2>2. ASSUME NEW c \in Characters(p) PROVE c \in Characters(q) BY <1>1 DEF Characters
  <2>3. ASSUME NEW c \in new PROVE c \in Characters(q) BY <1>1, <1>2 DEF Characters
  <2> QED BY <2>1, <2>2, <2>3
<1>4. Characters(p) \cap new = {} BY <1>1 DEF Characters
<1>5. IsFiniteSet(new) /\ Cardinality(new) = Width(t)
  <2>1. IsFiniteSet({Len(p) + 1}) /\ Cardinality({Len(p) + 1}) = 1 BY FS_Singleton
  <2>2. IsFiniteSet(1..Width(t)) /\ Cardinality(1..Width(t)) = Width(t) BY <1>2, FS_Interval
  <2>3. Cardinality(new) = 1 * Width(t) /\ IsFiniteSet(new) BY <2>1, <2>2, FS_Product
  <2> QED BY <1>2, <2>3
<1>6. IsFiniteSet(Characters(p)) /\ Length(p) \in Nat BY FiniteCharacters
<1>7. Cardinality(Characters(q)) = Cardinality(Characters(p)) + Cardinality(new) - Cardinality({})
  BY <1>3, <1>4, <1>5, <1>6, FS_Union
<1> HIDE DEF q, new
<1>8. Length(q) = Length(p) + Width(t) - 0 BY <1>5, <1>7, FS_EmptySet DEF Length
<1> QED BY <1>2, <1>6, <1>8 DEF q

\* A prefix is not longer than the path.
LEMMA LengthPrefix ==
  ASSUME TreeInv, NEW p \in Seq(Entry \cup {0}), NEW m \in 0..Len(p)
  PROVE  /\ SubSeq(p, 1, m) \in Seq(Entry \cup {0}) /\ Len(SubSeq(p, 1, m)) = m
         /\ \A j \in 1..m : SubSeq(p, 1, m)[j] = p[j]
         /\ Length(SubSeq(p, 1, m)) <= Length(p)
<1> DEFINE q == SubSeq(p, 1, m)
<1>1. /\ q \in Seq(Entry \cup {0}) /\ Len(q) = m /\ Len(p) \in Nat
      /\ \A j \in 1..m : q[j] = p[j]
  OBVIOUS
<1> HIDE DEF q
<1>2. Characters(q) \subseteq Characters(p) BY <1>1 DEF Characters
<1>3. Length(q) <= Length(p) BY <1>2, FiniteCharacters, FS_Subset DEF Length
<1> QED BY <1>1, <1>3 DEF q

\* Paths that agree so far have the same prefix.
LEMMA SamePrefix ==
  ASSUME NEW p \in Seq(Entry \cup {0}), NEW q \in Seq(Entry \cup {0}), NEW m \in Nat,
         m <= Len(p), m <= Len(q), \A j \in 1..m : p[j] = q[j]
  PROVE  SubSeq(p, 1, m) = SubSeq(q, 1, m)
<1>1. SubSeq(p, 1, m) = [j \in 1..m |-> p[j]] /\ SubSeq(q, 1, m) = [j \in 1..m |-> q[j]]
  OBVIOUS
<1> QED BY <1>1

\* The steps that leave the directories being read as they are.
Still == Myftw \/ StatError \/ VisitFile \/ AddUp

\* What a sequence is with one more element.
LEMMA AppendIs ==
  ASSUME NEW S, NEW s \in Seq(S), NEW t \in S
  PROVE  /\ Append(s, t) \in Seq(S) /\ Len(Append(s, t)) = Len(s) + 1
         /\ Append(s, t)[Len(s) + 1] = t
         /\ \A j \in 1..Len(s) : Append(s, t)[j] = s[j]
  BY AppendProperties

\* What opening a directory does to the stack.
LEMMA Opening ==
  ASSUME StackInv, NEW f \in Frame, stack' = Append(stack, f)
  PROVE  /\ stack' \in Seq(Frame) /\ Len(stack') = Len(stack) + 1
         /\ \A j \in 1..Len(stack) : stack'[j] = stack[j]
         /\ stack'[Len(stack) + 1] = f
  BY AppendProperties DEF StackInv

\* What reading a name does to the stack.
LEMMA Reading ==
  ASSUME StackInv, stack # <<>>, NEW e, stack' = [stack EXCEPT ![Len(stack)].names = @ \ {e}]
  PROVE  /\ stack' \in Seq(Frame) /\ Len(stack') = Len(stack) /\ Len(stack) \in Nat \ {0}
         /\ \A j \in 1..Len(stack) :
              /\ stack'[j].dir = stack[j].dir /\ stack'[j].n = stack[j].n
              /\ stack'[j].names = IF j = Len(stack) THEN stack[j].names \ {e} ELSE stack[j].names
<1>1. stack \in Seq(Frame) /\ Len(stack) \in Nat \ {0} BY DEF StackInv
<1>2. stack[Len(stack)] \in Frame BY <1>1
<1>3. [stack[Len(stack)] EXCEPT !.names = @ \ {e}] \in Frame BY <1>2 DEF Frame
<1>4. stack' = [stack EXCEPT ![Len(stack)] = [stack[Len(stack)] EXCEPT !.names = @ \ {e}]]
  OBVIOUS
<1>5. stack' \in Seq(Frame) /\ Len(stack') = Len(stack) BY <1>1, <1>3, <1>4
<1>6. ASSUME NEW j \in 1..Len(stack)
      PROVE  /\ stack'[j].dir = stack[j].dir /\ stack'[j].n = stack[j].n
             /\ stack'[j].names = IF j = Len(stack) THEN stack[j].names \ {e} ELSE stack[j].names
  <2>1. stack[j] \in Frame BY <1>1
  <2>2. CASE j = Len(stack) BY <1>1, <1>4, <2>1, <2>2 DEF Frame
  <2>3. CASE j # Len(stack) BY <1>1, <1>4, <2>3
  <2> QED BY <2>2, <2>3
<1> QED BY <1>1, <1>5, <1>6

\* What a readdir() that fails does: no name is left to read.
LEMMA ReadErrorIs ==
  ASSUME StackInv, ReadError
  PROVE  /\ place = "return" /\ ret = 0 /\ stack # <<>> /\ Len(stack) \in 1..Len(stack)
         /\ UNCHANGED <<tree, place, ret, fullpath, pathlen, count, ntot, visited>>
         /\ failed' = failed \cup {<<"readdir", Top.dir>>}
         /\ stack' \in Seq(Frame) /\ Len(stack') = Len(stack) /\ stack' # <<>>
         /\ \A j \in 1..Len(stack) :
              /\ stack'[j].dir = stack[j].dir /\ stack'[j].n = stack[j].n
              /\ stack'[j].names = IF j = Len(stack) THEN {} ELSE stack[j].names
<1>1. /\ place = "return" /\ ret = 0 /\ stack # <<>>
      /\ stack' = [stack EXCEPT ![Len(stack)].names = {}]
      /\ failed' = failed \cup {<<"readdir", Top.dir>>}
      /\ UNCHANGED <<tree, place, ret, fullpath, pathlen, count, ntot, visited>>
  BY DEF ReadError
<1>2. stack \in Seq(Frame) /\ Len(stack) \in 1..Len(stack) BY <1>1 DEF StackInv
<1>3. [stack[Len(stack)] EXCEPT !.names = {}] \in Frame
  <2>1. stack[Len(stack)] \in Frame BY <1>2
  <2> QED BY <2>1 DEF Frame
<1>4. stack' = [stack EXCEPT ![Len(stack)] = [stack[Len(stack)] EXCEPT !.names = {}]]
  BY <1>1
<1>5. stack' \in Seq(Frame) /\ Len(stack') = Len(stack) BY <1>2, <1>3, <1>4
<1>6. ASSUME NEW j \in 1..Len(stack)
      PROVE  /\ stack'[j].dir = stack[j].dir /\ stack'[j].n = stack[j].n
             /\ stack'[j].names = IF j = Len(stack) THEN {} ELSE stack[j].names
  <2>1. stack[j] \in Frame BY <1>2
  <2>2. CASE j = Len(stack) BY <1>2, <1>4, <2>1, <2>2 DEF Frame
  <2>3. CASE j # Len(stack) BY <1>2, <1>4, <2>3
  <2> QED BY <2>2, <2>3
<1>7. stack' # <<>> BY <1>2, <1>5
<1> QED BY <1>1, <1>2, <1>5, <1>6, <1>7

\* What the first m elements of a sequence are.
LEMMA PrefixIs ==
  ASSUME NEW S, NEW s \in Seq(S), NEW m \in 0..Len(s)
  PROVE  /\ SubSeq(s, 1, m) \in Seq(S) /\ Len(SubSeq(s, 1, m)) = m
         /\ \A j \in 1..m : SubSeq(s, 1, m)[j] = s[j]
  OBVIOUS

\* What closing a directory does to the stack.
LEMMA Closing ==
  ASSUME StackInv, stack # <<>>, stack' = SubSeq(stack, 1, Len(stack) - 1)
  PROVE  /\ stack' \in Seq(Frame) /\ Len(stack') = Len(stack) - 1 /\ Len(stack) \in Nat \ {0}
         /\ \A j \in 1..(Len(stack) - 1) : stack'[j] = stack[j]
<1>1. stack \in Seq(Frame) /\ Len(stack) \in Nat \ {0} BY DEF StackInv
<1>2. Len(stack) - 1 \in 0..Len(stack) BY <1>1
<1> QED BY <1>1, <1>2, PrefixIs

\* The tree is the same in all states.
LEMMA SameTree == ASSUME WalkNext PROVE tree' = tree
  BY DEF WalkNext, Myftw, StatError, VisitFile, VisitDirectory, ReadDir, ReadError,
         CloseDir, AddUp

\* The directories being read are a path from the argument down.
LEMMA StackNext == ASSUME TreeInv, StackInv, PathInv, WalkNext PROVE StackInv'
<1> DEFINE d == Len(stack)
<1>1. tree' = tree /\ stack \in Seq(Frame) /\ d \in Nat BY SameTree DEF StackInv
<1>2. CASE Still
  <2>1. stack' = stack /\ place' \in {"dopath", "return", "done"}
    BY <1>2 DEF Still, Myftw, StatError, VisitFile, AddUp, Return
  <2>2. place' = "done" => stack' = <<>>
    BY <1>2 DEF Still, Myftw, StatError, VisitFile, AddUp, Return
  <2> QED BY <1>1, <2>1, <2>2 DEF StackInv, Child
<1>3. CASE VisitDirectory
  <2>1. PICK e \in Entry : /\ e = Here /\ fullpath' = Append(fullpath, 0) /\ place = "dopath"
                           /\ place' = "return"
                           /\ \/ stack' = Append(stack, [dir |-> e, n |-> Len(fullpath'), names |-> Child(e)])
                              \/ UNCHANGED stack
    BY <1>3 DEF VisitDirectory, Visit, Return
  <2>2. CASE UNCHANGED stack BY <1>1, <2>1, <2>2 DEF StackInv, Child
  <2>3. CASE stack' = Append(stack, [dir |-> e, n |-> Len(fullpath'), names |-> Child(e)])
    <3> DEFINE f == [dir |-> e, n |-> Len(fullpath'), names |-> Child(e)]
    <3>1. /\ fullpath \in Seq(Entry \cup {0}) /\ Len(fullpath) = 2 * d + 1
          /\ e \in IF stack = <<>> THEN {1} ELSE Child(Top.dir)
      BY <2>1 DEF PathInv
    <3>2. Len(fullpath') = 2 * (d + 1)
      <4>1. Len(fullpath') = Len(fullpath) + 1
        <5>1. Len(Append(fullpath, 0)) = Len(fullpath) + 1 BY <3>1, AppendIs
        <5> QED BY <2>1, <5>1
      <4>2. Len(fullpath) = 2 * d + 1 /\ d \in Nat BY <1>1, <3>1
      <4> HIDE DEF d
      <4> QED BY <4>1, <4>2
    <3>3. f \in Frame BY <1>1, <3>2 DEF Frame, Child
    <3>4. /\ stack' \in Seq(Frame) /\ Len(stack') = d + 1 /\ stack'[d + 1] = f
          /\ \A j \in 1..d : stack'[j] = stack[j]
      BY <2>3, <3>3, Opening
    <3> DEFINE Good(j) ==
                 /\ stack'[j].dir \in Entry /\ stack'[j].n = 2 * j
                 /\ stack'[j].names \subseteq Child(stack'[j].dir)
                 /\ \A h \in 1..(j - 1) : stack'[h].dir < stack'[j].dir
                 /\ IF j = 1 THEN stack'[j].dir = 1 ELSE stack'[j].dir \in Child(stack'[j - 1].dir)
    <3>5. ASSUME NEW j \in 1..d PROVE Good(j)
      <4>1. \A h \in 1..(j - 1) : h \in 1..d BY <1>1
      <4>2. j # 1 => j - 1 \in 1..d BY <1>1
      <4> QED BY <3>4, <4>1, <4>2 DEF StackInv
    <3>6. Good(d + 1)
      <4>1. stack'[d + 1].dir = e /\ stack'[d + 1].n = 2 * (d + 1) /\ stack'[d + 1].names = Child(e)
        BY <3>2, <3>4
      <4>2. CASE stack = <<>>
        <5>1. d = 0 /\ e = 1 BY <3>1, <4>2
        <5> QED BY <4>1, <5>1
      <4>3. CASE stack # <<>>
        <5>1. d \in 1..d /\ Top = stack[d] BY <1>1, <4>3 DEF Top
        <5>2. e \in Child(stack[d].dir) /\ stack[d].dir \in Entry
          BY <3>1, <4>3, <5>1 DEF StackInv
        <5>3. stack[d].dir < e BY <5>2 DEF Child, TreeInv
        <5>4. ASSUME NEW h \in 1..d PROVE stack'[h].dir < e
          <6>1. stack'[h].dir = stack[h].dir BY <3>4
          <6>2. stack[h].dir \in Entry /\ (h # d => stack[h].dir < stack[d].dir)
            BY <1>1, <5>1 DEF StackInv
          <6> QED BY <5>2, <5>3, <6>1, <6>2 DEF Entry
        <5> QED BY <1>1, <3>4, <4>1, <5>1, <5>2, <5>4
      <4> QED BY <4>2, <4>3
    <3>7. \A j \in 1..Len(stack') : Good(j)
      <4>1. \A j \in 1..Len(stack') : j \in 1..d \/ j = d + 1 BY <1>1, <3>4
      <4> HIDE DEF Good
      <4> QED BY <3>5, <3>6, <4>1
    <3> QED BY <1>1, <2>1, <3>4, <3>7 DEF StackInv, Child
  <2> QED BY <2>1, <2>2, <2>3
<1>4. CASE ReadDir
  <2>1. PICK e \in Entry : stack # <<>> /\ stack' = [stack EXCEPT ![d].names = @ \ {e}] /\ place' = "dopath"
    <3>1. stack # <<>> BY <1>4 DEF ReadDir
    <3>2. stack[d] \in Frame BY <1>1, <3>1
    <3>3. Top.names \subseteq Entry BY <3>2 DEF Top, Frame
    <3> QED BY <1>4, <3>3 DEF ReadDir
  <2>2. /\ stack' \in Seq(Frame) /\ Len(stack') = d
        /\ \A j \in 1..d : /\ stack'[j].dir = stack[j].dir /\ stack'[j].n = stack[j].n
                           /\ stack'[j].names \subseteq stack[j].names
    <3>1. \A j \in 1..d :
            /\ stack'[j].dir = stack[j].dir /\ stack'[j].n = stack[j].n
            /\ stack'[j].names = IF j = d THEN stack[j].names \ {e} ELSE stack[j].names
      BY <2>1, Reading
    <3>2. stack' \in Seq(Frame) /\ Len(stack') = d BY <2>1, Reading
    <3> QED BY <3>1, <3>2
  <2>3. \A j \in 1..d : j # 1 => j - 1 \in 1..d BY <1>1
  <2> QED BY <1>1, <2>1, <2>2, <2>3 DEF StackInv, Child
<1>5. CASE CloseDir
  <2>1. stack # <<>> /\ stack' = SubSeq(stack, 1, d - 1) /\ place' = "return"
    BY <1>5 DEF CloseDir
  <2>2. /\ stack' \in Seq(Frame) /\ Len(stack') = d - 1 /\ \A j \in 1..(d - 1) : stack'[j] = stack[j]
    BY <2>1, Closing
  <2>3. \A j \in 1..(d - 1) : j \in 1..d /\ (j # 1 => j - 1 \in 1..(d - 1)) BY <1>1
  <2>4. ASSUME NEW j \in 1..(d - 1)
        PROVE  /\ stack'[j].dir \in Entry /\ stack'[j].n = 2 * j
               /\ stack'[j].names \subseteq Child(stack'[j].dir)
               /\ \A h \in 1..(j - 1) : stack'[h].dir < stack'[j].dir
               /\ IF j = 1 THEN stack'[j].dir = 1
                           ELSE stack'[j].dir \in Child(stack'[j - 1].dir)
    <3>1. \A h \in 1..(j - 1) : h \in 1..(d - 1) BY <1>1
    <3> QED BY <2>2, <2>3, <3>1 DEF StackInv
  <2> QED BY <1>1, <2>1, <2>2, <2>4 DEF StackInv, Child
<1>6. CASE ReadError
  <2>1. /\ stack' \in Seq(Frame) /\ Len(stack') = d /\ place' = "return" /\ stack # <<>>
        /\ \A j \in 1..d : /\ stack'[j].dir = stack[j].dir /\ stack'[j].n = stack[j].n
                           /\ stack'[j].names \subseteq stack[j].names
    BY <1>6, ReadErrorIs
  <2>2. ASSUME NEW j \in 1..d
        PROVE  /\ stack'[j].dir \in Entry /\ stack'[j].n = 2 * j
               /\ stack'[j].names \subseteq Child(stack'[j].dir)
               /\ \A h \in 1..(j - 1) : stack'[h].dir < stack'[j].dir
               /\ IF j = 1 THEN stack'[j].dir = 1
                           ELSE stack'[j].dir \in Child(stack'[j - 1].dir)
    <3>1. (\A h \in 1..(j - 1) : h \in 1..d) /\ (j # 1 => j - 1 \in 1..d) BY <1>1
    <3> QED BY <2>1, <3>1 DEF StackInv
  <2> QED BY <1>1, <2>1, <2>2 DEF StackInv, Child
<1> QED BY <1>2, <1>3, <1>4, <1>5, <1>6 DEF WalkNext, Still

\* fullpath holds the directories being read, and in front of a dopath() an entry of the
\* last one.
LEMMA PathNext == ASSUME TreeInv, StackInv, PathInv, WalkNext PROVE PathInv'
<1> DEFINE d == Len(stack)
<1>1. tree' = tree /\ stack \in Seq(Frame) /\ d \in Nat BY SameTree DEF StackInv
<1>2. 1 \in Entry BY ParametersAssumption DEF Entry
<1>3. CASE Myftw
  <2>1. fullpath' = <<1>> /\ place' = "dopath" /\ stack' = <<>>
    BY <1>3 DEF Myftw, StackInv
  <2>2. fullpath' \in Seq(Entry \cup {0}) /\ Len(fullpath') = 1 /\ fullpath'[1] = 1
    BY <1>2, <2>1
  <2> QED BY <2>1, <2>2 DEF PathInv, Here
<1>4. CASE StatError \/ VisitFile \/ AddUp
  <2>1. fullpath' = fullpath /\ stack' = stack /\ place' \notin {"start", "dopath"} /\ place # "start"
    BY <1>4 DEF StatError, VisitFile, Visit, AddUp, Return
  <2> QED BY <2>1 DEF PathInv
<1>5. CASE VisitDirectory
  <2>1. PICK e \in Entry : /\ e = Here /\ fullpath' = Append(fullpath, 0) /\ place = "dopath"
                           /\ place' = "return"
                           /\ \/ stack' = Append(stack, [dir |-> e, n |-> Len(fullpath'), names |-> Child(e)])
                              \/ UNCHANGED stack
    BY <1>5 DEF VisitDirectory, Visit, Return
  <2>2. /\ fullpath \in Seq(Entry \cup {0}) /\ Len(fullpath) = 2 * d + 1 /\ e = fullpath[2 * d + 1]
        /\ \A j \in 1..d : fullpath[2 * j - 1] = stack[j].dir /\ fullpath[2 * j] = 0
    BY <2>1 DEF PathInv, Here
  <2>3. /\ fullpath' \in Seq(Entry \cup {0}) /\ Len(fullpath') = 2 * d + 2
        /\ fullpath'[2 * d + 2] = 0
        /\ \A j \in 1..(2 * d + 1) : fullpath'[j] = fullpath[j]
    <3>1. 2 * d + 1 + 1 = 2 * d + 2 BY <1>1
    <3>2. /\ Append(fullpath, 0) \in Seq(Entry \cup {0})
          /\ Len(Append(fullpath, 0)) = Len(fullpath) + 1
          /\ Append(fullpath, 0)[Len(fullpath) + 1] = 0
          /\ \A j \in 1..Len(fullpath) : Append(fullpath, 0)[j] = fullpath[j]
      BY <2>2, AppendIs
    <3> QED BY <2>1, <2>2, <3>1, <3>2
  <2>4. \A j \in 1..d : fullpath'[2 * j - 1] = stack[j].dir /\ fullpath'[2 * j] = 0
    <3>1. \A j \in 1..d : 2 * j - 1 \in 1..(2 * d + 1) /\ 2 * j \in 1..(2 * d + 1) BY <1>1
    <3> QED BY <2>2, <2>3, <3>1
  <2>5. CASE UNCHANGED stack BY <1>1, <2>1, <2>3, <2>4, <2>5 DEF PathInv
  <2>6. CASE stack' = Append(stack, [dir |-> e, n |-> Len(fullpath'), names |-> Child(e)])
    <3>1. [dir |-> e, n |-> Len(fullpath'), names |-> Child(e)] \in Frame
      BY <1>1, <2>3 DEF Frame, Child
    <3>2. Len(stack') = d + 1 /\ stack'[d + 1].dir = e /\ \A j \in 1..d : stack'[j] = stack[j]
      BY <2>6, <3>1, Opening
    <3>3. \A j \in 1..(d + 1) : fullpath'[2 * j - 1] = stack'[j].dir /\ fullpath'[2 * j] = 0
      <4>1. \A j \in 1..(d + 1) : j \in 1..d \/ j = d + 1 BY <1>1
      <4>2. fullpath'[2 * (d + 1) - 1] = e /\ fullpath'[2 * (d + 1)] = 0 BY <1>1, <2>2, <2>3
      <4> QED BY <2>4, <3>2, <4>1, <4>2
    <3>4. Len(fullpath') \in (2 * Len(stack'))..(2 * Len(stack') + 2) /\ Len(fullpath') > 0
      BY <1>1, <2>3, <3>2
    <3> QED BY <2>1, <2>3, <3>2, <3>3, <3>4 DEF PathInv
  <2> QED BY <2>1, <2>5, <2>6
<1>6. CASE ReadDir
  <2>1. PICK e \in Top.names :
          /\ stack # <<>> /\ stack' = [stack EXCEPT ![d].names = @ \ {e}] /\ place' = "dopath"
          /\ fullpath' = Append(SubSeq(fullpath, 1, Top.n), e) /\ place = "return"
    BY <1>6 DEF ReadDir
  <2>2. /\ stack' \in Seq(Frame) /\ Len(stack') = d /\ d \in 1..d
        /\ \A j \in 1..d : stack'[j].dir = stack[j].dir
        /\ stack'[d].names = Top.names \ {e}
    <3>1. /\ stack' \in Seq(Frame) /\ Len(stack') = d /\ d \in Nat \ {0}
          /\ \A j \in 1..d :
               /\ stack'[j].dir = stack[j].dir /\ stack'[j].n = stack[j].n
               /\ stack'[j].names = IF j = d THEN stack[j].names \ {e} ELSE stack[j].names
      BY <2>1, Reading
    <3>2. d \in 1..d BY <3>1
    <3> QED BY <3>1, <3>2 DEF Top
  <2>3. Top.n = 2 * d /\ e \in Child(Top.dir) /\ e \in Entry
    BY <2>1, <2>2 DEF Top, StackInv, Child
  <2>4. /\ fullpath \in Seq(Entry \cup {0}) /\ 2 * d \in 0..Len(fullpath)
        /\ \A j \in 1..d : fullpath[2 * j - 1] = stack[j].dir /\ fullpath[2 * j] = 0
    BY <1>1, <2>1 DEF PathInv
  <2>5. /\ fullpath' \in Seq(Entry \cup {0}) /\ Len(fullpath') = 2 * d + 1
        /\ fullpath'[2 * d + 1] = e
        /\ \A j \in 1..(2 * d) : fullpath'[j] = fullpath[j]
    <3> DEFINE q == SubSeq(fullpath, 1, 2 * d)
    <3>1. q \in Seq(Entry \cup {0}) /\ Len(q) = 2 * d /\ \A j \in 1..(2 * d) : q[j] = fullpath[j]
      BY <2>4, PrefixIs
    <3>2. fullpath' = Append(q, e) BY <2>1, <2>3
    <3> HIDE DEF q
    <3> QED BY <1>1, <2>3, <3>1, <3>2
  <2>6. \A j \in 1..d : fullpath'[2 * j - 1] = stack'[j].dir /\ fullpath'[2 * j] = 0
    <3>1. \A j \in 1..d : 2 * j - 1 \in 1..(2 * d) /\ 2 * j \in 1..(2 * d) BY <1>1
    <3> QED BY <2>2, <2>4, <2>5, <3>1
  <2>7. Here' = e /\ Top'.dir = Top.dir /\ Top'.names = Top.names \ {e} /\ stack' # <<>>
    BY <1>1, <2>2, <2>5 DEF Here, Top
  <2>8. Here' \in (Child(Top.dir) \ Top.names)' BY <1>1, <2>3, <2>7 DEF Child
  <2>9. Len(fullpath') = 2 * Len(stack') + 1 /\ Len(fullpath') > 0
        /\ Len(fullpath') \in (2 * Len(stack'))..(2 * Len(stack') + 2)
    BY <1>1, <2>2, <2>5
  <2> QED BY <2>2, <2>5, <2>6, <2>7, <2>8, <2>9 DEF PathInv
<1>7. CASE CloseDir
  <2>1. /\ stack # <<>> /\ stack' = SubSeq(stack, 1, d - 1) /\ place' = "return" /\ place = "return"
        /\ fullpath' = SubSeq(fullpath, 1, Top.n - 1)
    BY <1>7 DEF CloseDir
  <2>2. Len(stack') = d - 1 /\ d \in 1..d /\ \A j \in 1..(d - 1) : stack'[j] = stack[j]
    BY <1>1, <2>1, Closing
  <2>3. Top.n = 2 * d BY <2>2 DEF Top, StackInv
  <2>4. /\ fullpath \in Seq(Entry \cup {0}) /\ 2 * d - 1 \in 0..Len(fullpath)
        /\ \A j \in 1..d : fullpath[2 * j - 1] = stack[j].dir /\ fullpath[2 * j] = 0
    BY <1>1, <2>1, <2>2 DEF PathInv
  <2>5. /\ fullpath' \in Seq(Entry \cup {0}) /\ Len(fullpath') = 2 * d - 1
        /\ \A j \in 1..(2 * d - 1) : fullpath'[j] = fullpath[j]
    BY <2>1, <2>3, <2>4, PrefixIs
  <2>6. \A j \in 1..(d - 1) : fullpath'[2 * j - 1] = stack'[j].dir /\ fullpath'[2 * j] = 0
    <3>1. \A j \in 1..(d - 1) : 2 * j - 1 \in 1..(2 * d - 1) /\ 2 * j \in 1..(2 * d - 1) /\ j \in 1..d
      BY <1>1
    <3> QED BY <2>2, <2>4, <2>5, <3>1
  <2>7. Len(fullpath') \in (2 * Len(stack'))..(2 * Len(stack') + 2) /\ Len(fullpath') > 0
    BY <1>1, <2>2, <2>5
  <2> QED BY <2>1, <2>2, <2>5, <2>6, <2>7 DEF PathInv
<1>8. CASE ReadError
  <2>1. /\ Len(stack') = d /\ place' = "return" /\ place = "return" /\ fullpath' = fullpath
        /\ \A j \in 1..d : stack'[j].dir = stack[j].dir
    BY <1>8, ReadErrorIs
  <2> QED BY <1>1, <2>1 DEF PathInv
<1> QED BY <1>3, <1>4, <1>5, <1>6, <1>7, <1>8 DEF WalkNext

\* Lengths depend on the path alone, because the names do not change.
LEMMA LengthOf ==
  ASSUME tree' = tree
  PROVE  /\ Length(fullpath)' = Length(fullpath')
         /\ \A m : Length(SubSeq(fullpath, 1, m))' = Length(SubSeq(fullpath', 1, m))
  BY DEF Length, Characters, Width

\* One doubling makes room for "/", a name and the 0 at the end, whatever the depth:
\* the buffer was never shorter than a name, and what is in it fits.
LEMMA GrownEnough ==
  ASSUME NEW l \in Nat, pathlen \in Nat, pathlen > NAME_MAX + 1, pathlen > l
  PROVE  Grown(l) \in Nat /\ Grown(l) >= pathlen /\ Grown(l) >= l + NAME_MAX + 2
<1>1. NAME_MAX \in Nat BY ParametersAssumption
<1> QED BY <1>1 DEF Grown

\* The buffer has room for what is in it, and for the names in each directory being read.
LEMMA RoomNext ==
  ASSUME TreeInv, StackInv, PathInv, RoomInv, WalkNext, StackInv', PathInv'
  PROVE  RoomInv'
<1> DEFINE d == Len(stack)
           Room(p, len, j) == len > Length(SubSeq(p, 1, 2 * j)) + NAME_MAX
<1>1. /\ tree' = tree /\ stack \in Seq(Frame) /\ d \in Nat /\ NAME_MAX \in Nat
      /\ place # "start" =>
           /\ fullpath \in Seq(Entry \cup {0}) /\ Length(fullpath) \in Nat /\ 2 * d \in 0..Len(fullpath)
           /\ \A j \in 1..d : Room(fullpath, pathlen, j)
  <2>1. tree' = tree /\ stack \in Seq(Frame) /\ d \in Nat BY SameTree DEF StackInv
  <2>2. NAME_MAX \in Nat BY Sizes
  <2>3. ASSUME place # "start"
        PROVE  fullpath \in Seq(Entry \cup {0}) /\ 2 * d \in 0..Len(fullpath)
    BY <2>1, <2>3 DEF PathInv
  <2>4. ASSUME place # "start" PROVE Length(fullpath) \in Nat BY <2>3, <2>4, FiniteCharacters
  <2>5. place # "start" => \A j \in 1..d : Room(fullpath, pathlen, j) BY DEF RoomInv
  <2> QED BY <2>1, <2>2, <2>3, <2>4, <2>5
<1>2. SUFFICES ASSUME place' # "start"
               PROVE  /\ pathlen' \in Nat /\ pathlen' > NAME_MAX + 1 /\ pathlen' > Length(fullpath')
                      /\ \A j \in 1..Len(stack') : Room(fullpath', pathlen', j)
  BY <1>1, LengthOf DEF RoomInv
<1>3. CASE Myftw
  <2>1. PICK old \in BOOLEAN :
          pathlen' = IF path_alloc(old) <= tree.root THEN tree.root * 2 ELSE path_alloc(old)
    BY <1>3 DEF Myftw
  <2>2. fullpath' = <<1>> /\ Len(stack') = 0 BY <1>3 DEF Myftw, StackInv
  <2>3. Length(<<1>>) = tree.root
    <3>1. <<>> \in Seq(Entry \cup {0}) /\ 1 \in Entry BY ParametersAssumption DEF Entry
    <3>2. Characters(<<>>) = {} BY DEF Characters
    <3>3. Length(<<>>) = 0 BY <3>2, FS_EmptySet DEF Length
    <3>4. Append(<<>>, 1) = <<1>> OBVIOUS
    <3>5. Length(<<1>>) = 0 + Width(1) BY <3>1, <3>3, <3>4, LengthAppend
    <3> QED BY <3>5, Sizes DEF Width
  <2>4. path_alloc(old) \in Nat /\ path_alloc(old) > NAME_MAX + 1
    BY ParametersAssumption DEF path_alloc
  <2>5. tree.root \in Nat /\ tree.root > 0 BY Sizes
  <2> HIDE DEF Room
  <2>6. \A j \in 1..Len(stack') : Room(fullpath', pathlen', j) BY <2>2
  <2>7. pathlen' \in Nat /\ pathlen' > NAME_MAX + 1 /\ pathlen' > tree.root
    BY <1>1, <2>1, <2>4, <2>5
  <2> QED BY <2>2, <2>3, <2>6, <2>7
<1>4. CASE StatError \/ VisitFile \/ AddUp
  <2>1. fullpath' = fullpath /\ stack' = stack /\ pathlen' = pathlen /\ place # "start"
    BY <1>4 DEF StatError, VisitFile, Visit, AddUp
  <2> QED BY <1>1, <2>1 DEF RoomInv
<1>5. CASE VisitDirectory
  <2>1. PICK e \in Entry : /\ fullpath' = Append(fullpath, 0) /\ place = "dopath"
                           /\ pathlen' = Grown(Length(fullpath))
                           /\ \/ stack' = Append(stack, [dir |-> e, n |-> Len(fullpath'), names |-> Child(e)])
                              \/ UNCHANGED stack
    BY <1>5 DEF VisitDirectory, Visit
  <2>2. fullpath \in Seq(Entry \cup {0}) /\ Len(fullpath) = 2 * d + 1 BY <2>1 DEF PathInv
  <2>3. /\ fullpath' \in Seq(Entry \cup {0}) /\ Len(fullpath') = 2 * d + 2
        /\ \A j \in 1..(2 * d + 1) : fullpath'[j] = fullpath[j]
    <3>1. /\ Append(fullpath, 0) \in Seq(Entry \cup {0})
          /\ Len(Append(fullpath, 0)) = Len(fullpath) + 1
          /\ \A j \in 1..Len(fullpath) : Append(fullpath, 0)[j] = fullpath[j]
      BY <2>2, AppendIs
    <3> QED BY <1>1, <2>1, <2>2, <3>1
  <2>4. Length(fullpath') = Length(fullpath) + 1
    <3>1. Width(0) = 1 BY DEF Width
    <3> QED BY <2>1, <2>2, <3>1, LengthAppend
  <2>5. /\ pathlen' \in Nat /\ pathlen' >= pathlen /\ pathlen' >= Length(fullpath) + NAME_MAX + 2
        /\ pathlen \in Nat /\ pathlen > NAME_MAX + 1
    BY <1>1, <2>1, GrownEnough DEF RoomInv
  <2>6. ASSUME NEW j \in 1..d PROVE Room(fullpath', pathlen', j)
    <3>1. 2 * j \in Nat /\ 2 * j <= Len(fullpath) /\ 2 * j <= Len(fullpath')
      BY <1>1, <2>2, <2>3
    <3>2. \A h \in 1..(2 * j) : fullpath'[h] = fullpath[h] BY <1>1, <2>3
    <3>3. SubSeq(fullpath', 1, 2 * j) = SubSeq(fullpath, 1, 2 * j)
      BY <2>2, <2>3, <3>1, <3>2, SamePrefix
    <3>4. SubSeq(fullpath, 1, 2 * j) \in Seq(Entry \cup {0}) BY <2>2, <3>1, LengthPrefix
    <3>5. Length(SubSeq(fullpath, 1, 2 * j)) \in Nat BY <3>4, FiniteCharacters
    <3>6. pathlen > Length(SubSeq(fullpath, 1, 2 * j)) + NAME_MAX BY <1>1, <2>1
    <3> DEFINE l == Length(SubSeq(fullpath, 1, 2 * j))
    <3> HIDE DEF l
    <3>7. pathlen' > l + NAME_MAX
      <4>1. l \in Nat /\ pathlen > l + NAME_MAX BY <3>5, <3>6 DEF l
      <4> QED BY <1>1, <2>5, <4>1
    <3> QED BY <3>3, <3>7 DEF l
  <2>7. Len(stack') = d + 1 => Room(fullpath', pathlen', d + 1)
    <3>1. 2 * (d + 1) = Len(fullpath') /\ Len(fullpath') \in 0..Len(fullpath') BY <1>1, <2>3
    <3>2. SubSeq(fullpath', 1, 2 * (d + 1)) = fullpath'
      <4>1. \A s \in Seq(Entry \cup {0}) : SubSeq(s, 1, Len(s)) = s OBVIOUS
      <4> QED BY <2>3, <3>1, <4>1
    <3> DEFINE l == Length(fullpath)
    <3>3. l \in Nat BY <1>1, <2>1
    <3>4. Length(fullpath') = l + 1 /\ pathlen' >= l + NAME_MAX + 2 BY <2>4, <2>5
    <3> HIDE DEF l
    <3>5. pathlen' > l + 1 + NAME_MAX BY <1>1, <2>5, <3>3, <3>4
    <3>6. pathlen' > Length(fullpath') + NAME_MAX BY <3>4, <3>5
    <3> QED BY <3>2, <3>6
  <2>8. Len(stack') \in {d, d + 1}
    <3>1. CASE UNCHANGED stack BY <3>1
    <3>2. CASE stack' = Append(stack, [dir |-> e, n |-> Len(fullpath'), names |-> Child(e)])
      <4>1. [dir |-> e, n |-> Len(fullpath'), names |-> Child(e)] \in Frame
        BY <1>1, <2>3 DEF Frame, Child
      <4> QED BY <3>2, <4>1, Opening
    <3> QED BY <2>1, <3>1, <3>2
  <2> HIDE DEF Room
  <2>9. \A j \in 1..Len(stack') : Room(fullpath', pathlen', j)
    <3>1. \A j \in 1..Len(stack') : j \in 1..d \/ (j = d + 1 /\ Len(stack') = d + 1)
      BY <1>1, <2>8
    <3> QED BY <2>6, <2>7, <3>1
  <2>10. pathlen' > NAME_MAX + 1 /\ pathlen' > Length(fullpath')
    BY <1>1, <2>1, <2>4, <2>5
  <2> QED BY <2>5, <2>9, <2>10
<1>6. CASE ReadDir
  <2>1. PICK e \in Top.names :
          /\ stack # <<>> /\ stack' = [stack EXCEPT ![d].names = @ \ {e}] /\ pathlen' = pathlen
          /\ fullpath' = Append(SubSeq(fullpath, 1, Top.n), e) /\ place = "return"
    BY <1>6 DEF ReadDir
  <2>2. Len(stack') = d /\ d \in 1..d BY <1>1, <2>1, Reading
  <2>3. Top.n = 2 * d /\ e \in Child(Top.dir) BY <2>1, <2>2 DEF Top, StackInv
  <2>4. e \in Entry /\ e \notin {0, 1} BY <2>3 DEF Child, Entry
  <2> DEFINE q == SubSeq(fullpath, 1, 2 * d)
  <2>5. /\ q \in Seq(Entry \cup {0}) /\ Len(q) = 2 * d /\ \A j \in 1..(2 * d) : q[j] = fullpath[j]
        /\ pathlen > Length(q) + NAME_MAX
    BY <1>1, <2>1, <2>2, LengthPrefix
  <2>6. fullpath' = Append(q, e) BY <2>1, <2>3
  <2> HIDE DEF q
  <2>7. Length(q) \in Nat /\ Width(e) \in Nat /\ Width(e) <= NAME_MAX
    <3>1. tree.root + tree.name \in Nat BY Sizes
    <3> QED BY <2>4, <2>5, <3>1, FiniteCharacters, WidthBound
  <2>8. Length(fullpath') = Length(q) + Width(e) BY <2>4, <2>5, <2>6, LengthAppend
  <2>9. /\ fullpath' \in Seq(Entry \cup {0}) /\ Len(fullpath') = 2 * d + 1
        /\ \A j \in 1..(2 * d) : fullpath'[j] = fullpath[j]
    <3>1. /\ Append(q, e) \in Seq(Entry \cup {0}) /\ Len(Append(q, e)) = Len(q) + 1
          /\ \A j \in 1..Len(q) : Append(q, e)[j] = q[j]
      BY <2>4, <2>5, AppendIs
    <3>2. Len(q) = 2 * d /\ \A j \in 1..(2 * d) : q[j] = fullpath[j] BY <2>5
    <3> QED BY <2>6, <3>1, <3>2
  <2>10. ASSUME NEW j \in 1..d PROVE Room(fullpath', pathlen', j)
    <3>1. /\ 2 * j \in Nat /\ 2 * j <= Len(fullpath) /\ 2 * j <= Len(fullpath')
          /\ fullpath \in Seq(Entry \cup {0})
      BY <1>1, <2>1, <2>9
    <3>2. \A h \in 1..(2 * j) : fullpath'[h] = fullpath[h] BY <1>1, <2>9
    <3>3. SubSeq(fullpath', 1, 2 * j) = SubSeq(fullpath, 1, 2 * j)
      BY <2>9, <3>1, <3>2, SamePrefix
    <3> QED BY <1>1, <2>1, <3>3
  <2>11. pathlen' \in Nat /\ pathlen' > NAME_MAX + 1 BY <2>1 DEF RoomInv
  <2>12. pathlen' > Length(fullpath') BY <1>1, <2>1, <2>5, <2>7, <2>8, <2>11
  <2> HIDE DEF Room
  <2> QED BY <2>2, <2>10, <2>11, <2>12
<1>7. CASE CloseDir
  <2>1. /\ stack # <<>> /\ stack' = SubSeq(stack, 1, d - 1) /\ place = "return" /\ pathlen' = pathlen
        /\ fullpath' = SubSeq(fullpath, 1, Top.n - 1)
    BY <1>7 DEF CloseDir
  <2>2. Len(stack') = d - 1 /\ d \in 1..d BY <1>1, <2>1, Closing
  <2>3. Top.n = 2 * d BY <2>2 DEF Top, StackInv
  <2>4. 2 * d - 1 \in 0..Len(fullpath) BY <1>1, <2>1, <2>2
  <2>5. /\ fullpath' \in Seq(Entry \cup {0}) /\ Len(fullpath') = 2 * d - 1
        /\ \A j \in 1..(2 * d - 1) : fullpath'[j] = fullpath[j]
        /\ Length(fullpath') <= Length(fullpath)
    BY <1>1, <2>1, <2>3, <2>4, LengthPrefix
  <2>6. ASSUME NEW j \in 1..(d - 1) PROVE Room(fullpath', pathlen', j)
    <3>1. /\ 2 * j \in Nat /\ 2 * j <= Len(fullpath) /\ 2 * j <= Len(fullpath') /\ j \in 1..d
          /\ 2 * j <= 2 * d - 1
      BY <1>1, <2>1, <2>5
    <3>2. \A h \in 1..(2 * j) : fullpath'[h] = fullpath[h] BY <1>1, <2>5, <3>1
    <3>3. SubSeq(fullpath', 1, 2 * j) = SubSeq(fullpath, 1, 2 * j)
      BY <1>1, <2>1, <2>5, <3>1, <3>2, SamePrefix
    <3> QED BY <1>1, <2>1, <3>1, <3>3
  <2>7. Length(fullpath') \in Nat BY <2>5, FiniteCharacters
  <2>8. pathlen' \in Nat /\ pathlen' > NAME_MAX + 1 /\ pathlen > Length(fullpath)
    BY <2>1 DEF RoomInv
  <2>9. pathlen' > Length(fullpath') BY <1>1, <2>1, <2>5, <2>7, <2>8
  <2> HIDE DEF Room
  <2> QED BY <2>2, <2>6, <2>8, <2>9
<1>8. CASE ReadError
  <2>1. /\ Len(stack') = d /\ place = "return" /\ fullpath' = fullpath /\ pathlen' = pathlen
    BY <1>8, ReadErrorIs
  <2> QED BY <1>1, <2>1 DEF RoomInv
<1> QED BY <1>3, <1>4, <1>5, <1>6, <1>7, <1>8 DEF WalkNext

\* What the argument about the buffer needs.
WalkInv == TreeInv /\ StackInv /\ PathInv /\ RoomInv

\* main() starts with no directory open and no buffer.
LEMMA WalkInitInv == ASSUME WalkInit PROVE WalkInv
<1>1. /\ tree \in [parent : {f \in [Entry -> Entry] : f[1] = 1 /\ \A e \in Entry \ {1} : f[e] < e},
                   kind : [Entry -> Kind], name : {1, NAME_MAX}, root : RootLength]
      /\ \A e \in Entry \ {1} : tree.kind[tree.parent[e]] = "DIR"
  BY DEF WalkInit
<1>2. TreeInv BY <1>1 DEF TreeInv
<1>3. StackInv /\ PathInv /\ RoomInv
  <2>1. stack = <<>> /\ place = "start" BY DEF WalkInit
  <2>2. stack \in Seq(Frame) /\ Len(stack) = 0 BY <2>1
  <2> QED BY <2>1, <2>2 DEF StackInv, PathInv, RoomInv
<1> QED BY <1>2, <1>3 DEF WalkInv

\* Every step keeps the tree, the stack, the path and the room for it in line.
LEMMA WalkNextInv == ASSUME WalkInv, [WalkNext]_walkVars PROVE WalkInv'
<1>1. CASE WalkNext
  <2>1. TreeInv' BY <1>1, SameTree DEF WalkInv, TreeInv
  <2>2. StackInv' /\ PathInv' BY <1>1, StackNext, PathNext DEF WalkInv
  <2>3. RoomInv' BY <1>1, <2>2, RoomNext DEF WalkInv
  <2> QED BY <2>1, <2>2, <2>3 DEF WalkInv
<1>2. CASE UNCHANGED walkVars
  <2>1. UNCHANGED <<tree, stack, place, fullpath, pathlen>> BY <1>2 DEF walkVars
  <2>2. TreeInv' /\ StackInv' BY <2>1 DEF WalkInv, TreeInv, StackInv, Child
  <2>3. PathInv' BY <2>1 DEF WalkInv, PathInv, Here, Top, Child
  <2>4. RoomInv' BY <2>1, LengthOf DEF WalkInv, RoomInv
  <2> QED BY <2>2, <2>3, <2>4 DEF WalkInv
<1> QED BY <1>1, <1>2

\* In front of a dopath() every name in the path stands behind a "/" and is that of a
\* child of the directory in front of it.
LEMMA PathLeads == ASSUME TreeInv, StackInv, PathInv, place = "dopath" PROVE Leads(fullpath)
<1> DEFINE d == Len(stack)
<1>1. /\ Len(fullpath) = 2 * d + 1 /\ d \in Nat
      /\ \A j \in 1..d : fullpath[2 * j - 1] = stack[j].dir /\ fullpath[2 * j] = 0
      /\ Here \in IF stack = <<>> THEN {1} ELSE Child(Top.dir) \ Top.names
  BY DEF PathInv, StackInv
<1>2. SUFFICES ASSUME NEW j \in 3..Len(fullpath), fullpath[j] # 0
               PROVE  fullpath[j - 1] = 0 /\ fullpath[j] \in Child(fullpath[j - 2])
  BY DEF Leads
<1>3. PICK h \in 1..d : j = 2 * h \/ j = 2 * h + 1
  <2>1. j \in 3..(2 * d + 1) BY <1>1
  <2>2. j \div 2 \in 1..d /\ (j = 2 * (j \div 2) \/ j = 2 * (j \div 2) + 1) BY <1>1, <2>1
  <2> QED BY <2>2
<1>4. fullpath[2 * h] = 0 /\ fullpath[2 * h - 1] = stack[h].dir BY <1>1
<1>5. j = 2 * h + 1 BY <1>2, <1>3, <1>4
<1>6. fullpath[j - 1] = 0 /\ fullpath[j - 2] = stack[h].dir
  <2>1. j - 1 = 2 * h /\ j - 2 = 2 * h - 1 BY <1>3, <1>5
  <2> QED BY <1>4, <2>1
<1>7. CASE h = d
  <2>1. stack # <<>> BY <1>1, <1>3, <1>7
  <2>2. fullpath[j] = Here /\ Top = stack[h] BY <1>1, <1>5, <1>7 DEF Here, Top
  <2> QED BY <1>1, <1>6, <2>1, <2>2
<1>8. CASE h # d
  <2>1. h + 1 \in 1..d /\ h + 1 # 1 /\ h + 1 - 1 = h BY <1>1, <1>3, <1>8
  <2>2. stack[h + 1].dir \in Child(stack[h].dir) BY <2>1 DEF StackInv
  <2>3. fullpath[2 * (h + 1) - 1] = stack[h + 1].dir /\ 2 * (h + 1) - 1 = j
    BY <1>1, <1>5, <2>1
  <2> QED BY <1>6, <2>2, <2>3
<1> QED BY <1>7, <1>8

\* Whatever fails on the way, dopath() looks at the path of an entry, and no path leaves
\* the buffer, which is doubled at most once per directory: for trees of any size and
\* depth, names of any length up to NAME_MAX and any argument.
THEOREM WalkPathFits == WalkSpec => []PathFits
<1>1. WalkInit => WalkInv BY WalkInitInv
<1>2. WalkInv /\ [WalkNext]_walkVars => WalkInv' BY WalkNextInv
<1>3. WalkInv => PathFits
  <2>1. ASSUME WalkInv, place # "start" PROVE Length(fullpath) < pathlen
    <3>1. fullpath \in Seq(Entry \cup {0}) /\ pathlen \in Nat /\ pathlen > Length(fullpath)
      BY <2>1 DEF WalkInv, PathInv, RoomInv
    <3>2. Length(fullpath) \in Nat BY <2>1, <3>1, FiniteCharacters DEF WalkInv
    <3> QED BY <3>1, <3>2
  <2> QED BY <2>1, PathLeads DEF WalkInv, PathFits
<1> QED BY <1>1, <1>2, <1>3, PTL DEF WalkSpec

\* An entry is one of those above it, which are entries.
LEMMA AboveSelf == ASSUME NEW e \in Entry PROVE e \in Above(e) /\ Above(e) \subseteq Entry
  BY DEF Above

\* With an entry its parent is above e.
LEMMA AboveParent ==
  ASSUME TreeInv, NEW e \in Entry, NEW a \in Above(e)
  PROVE  tree.parent[a] \in Above(e)
<1>1. a \in Entry /\ tree.parent[a] \in Entry BY DEF Above, TreeInv
<1>2. ASSUME NEW S \in SUBSET Entry, e \in S, \A b \in S : tree.parent[b] \in S
      PROVE  tree.parent[a] \in S
  <2>1. a \in S BY <1>2 DEF Above
  <2> QED BY <1>2, <2>1
<1> QED BY <1>1, <1>2 DEF Above

\* An entry above e is e or has a child above e.
LEMMA AboveChild ==
  ASSUME TreeInv, NEW e \in Entry, NEW a \in Above(e), a # e
  PROVE  \E b \in Above(e) : b \in Child(a)
<1> DEFINE S == Above(e) \ {a}
<1>1. S \in SUBSET Entry /\ e \in S BY AboveSelf
<1>2. a \notin S OBVIOUS
<1>3. PICK b \in S : tree.parent[b] \notin S BY <1>1, <1>2 DEF Above
<1>4. b \in Above(e) /\ b # a OBVIOUS
<1>5. tree.parent[b] = a BY <1>3, <1>4, AboveParent
<1>6. b \in Entry \ {1} BY <1>1, <1>4, <1>5 DEF TreeInv
<1> QED BY <1>4, <1>5, <1>6 DEF Child

\* The argument is above every entry: a parent has a smaller number.
LEMMA AboveTop == ASSUME TreeInv, NEW e \in Entry PROVE 1 \in Above(e)
<1> DEFINE Below(m) == {h \in Entry : h < m}
           T == {Below(m) : m \in Above(e)}
           R == StrictSubsetOrdering(Entry)
<1>1. IsFiniteSet(Entry) BY ParametersAssumption, FS_Interval DEF Entry
<1>2. IsWellFoundedOn(R, SUBSET Entry)
  BY <1>1, FS_FiniteSubsetsOfFinite, FS_StrictSubsetOrderingWellFounded
<1>3. T \subseteq SUBSET Entry /\ T # {} BY AboveSelf
<1> HIDE DEF R, T
<1>4. \E x \in T : \A y \in T : ~ (<<y, x>> \in R) BY <1>2, <1>3, WFMin
<1> USE DEF T
<1>5. PICK m \in Above(e) : \A b \in Above(e) : <<Below(b), Below(m)>> \notin R BY <1>4
<1>6. m \in Entry /\ Entry \subseteq Nat BY AboveSelf DEF Entry
<1>7. ASSUME m # 1 PROVE FALSE
  <2>1. tree.parent[m] \in Above(e) /\ tree.parent[m] < m /\ tree.parent[m] \in Entry
    BY <1>6, <1>7, AboveParent, AboveSelf DEF TreeInv
  <2> DEFINE b == tree.parent[m]
  <2>2. m \in Nat /\ b \in Nat /\ b < m /\ b \in Entry BY <1>6, <2>1
  <2> HIDE DEF b
  <2>3. b \in Below(m) /\ b \notin Below(b) BY <2>2
  <2>4. ASSUME NEW h \in Entry, h < b PROVE h < m BY <1>6, <2>2, <2>4
  <2>5. Below(b) \subseteq Below(m) /\ Below(b) \in SUBSET Entry /\ Below(m) \in SUBSET Entry
    BY <2>4
  <2>6. <<Below(b), Below(m)>> \in R BY <2>3, <2>5 DEF R, StrictSubsetOrdering
  <2> QED BY <1>5, <2>1, <2>6 DEF b
<1> QED BY <1>5, <1>7

\* What is above an entry depends on the tree alone.
LEMMA SameAbove ==
  ASSUME tree' = tree, NEW e PROVE Above(e)' = Above(e) /\ Child(e)' = Child(e)
  BY DEF Above, Child

\* A failure that keeps an entry from being visited is not undone.
LEMMA SkippedGrows ==
  ASSUME tree' = tree, failed \subseteq failed', NEW e, Skipped(e)
  PROVE  Skipped(e)'
<1>1. Above(e)' = Above(e) BY SameAbove
<1>2. \A a : Child(tree.parent[a])' = Child(tree.parent[a]) BY DEF Child
<1> QED BY <1>1, <1>2 DEF Skipped

\* No step forgets a failure.
LEMMA FailedGrows == ASSUME WalkNext PROVE failed \subseteq failed'
  BY DEF WalkNext, Myftw, StatError, VisitFile, VisitDirectory, ReadDir, ReadError,
         CloseDir, AddUp

\* The entry in front of a dopath() is not among the names not read yet: it was taken
\* from those of the last directory, and the others are in other directories.
LEMMA HereNotNamed ==
  ASSUME TreeInv, StackInv, PathInv, place = "dopath"
  PROVE  /\ Here \in Entry /\ (stack = <<>> => Here = 1)
         /\ stack # <<>> => Here \in Child(Top.dir)
         /\ \A j \in 1..Len(stack) : Here \notin stack[j].names
<1> DEFINE d == Len(stack)
<1>1. d \in Nat /\ Here \in IF stack = <<>> THEN {1} ELSE Child(Top.dir) \ Top.names
  BY DEF PathInv, StackInv
<1>2. 1 \in Entry BY ParametersAssumption DEF Entry
<1>3. ASSUME NEW j \in 1..d PROVE Here \notin stack[j].names
  <2>1. stack # <<>> /\ d \in 1..d /\ Top = stack[d] BY <1>1, <1>3 DEF Top
  <2>2. CASE j = d BY <1>1, <2>1, <2>2
  <2>3. CASE j # d
    <3>1. j \in 1..(d - 1) BY <1>1, <1>3, <2>3
    <3>2. /\ stack[j].dir < stack[d].dir /\ stack[j].dir \in Entry /\ stack[d].dir \in Entry
          /\ stack[j].names \subseteq Child(stack[j].dir)
      BY <2>1, <3>1 DEF StackInv
    <3>3. stack[j].dir # stack[d].dir BY <3>2 DEF Entry
    <3> QED BY <1>1, <2>1, <3>2, <3>3 DEF Child
  <2> QED BY <2>2, <2>3
<1> QED BY <1>1, <1>2, <1>3 DEF Child

\* What a visit does to `visited': the entry was not visited before.
LEMMA Visiting ==
  ASSUME TreeInv, StackInv, PathInv, OnceInv, NEW e \in Entry, Visit(e)
  PROVE  /\ visited[e] = 0 /\ visited'[e] = 1 /\ visited' \in [Entry -> {0, 1}]
         /\ \A a \in Entry \ {e} : visited'[a] = visited[a]
         /\ e = Here /\ place = "dopath"
<1>1. place = "dopath" /\ e = Here /\ visited' = [visited EXCEPT ![e] = @ + 1] BY DEF Visit
<1>2. Waiting(e) BY <1>1 DEF Waiting
<1>3. visited \in [Entry -> {0, 1}] /\ visited[e] = 0 BY <1>2 DEF OnceInv
<1> QED BY <1>1, <1>3

\* What readdir() gave is at the end of the path.
LEMMA ReadDirHere ==
  ASSUME StackInv, PathInv, stack # <<>>, place = "return", NEW e \in Top.names,
         fullpath' = Append(SubSeq(fullpath, 1, Top.n), e)
  PROVE  Here' = e
<1> DEFINE d == Len(stack)
<1>1. d \in Nat \ {0} /\ stack[d].n = 2 * d BY DEF StackInv
<1>2. fullpath \in Seq(Entry \cup {0}) /\ 2 * d \in 0..Len(fullpath) BY <1>1 DEF PathInv
<1> DEFINE q == SubSeq(fullpath, 1, 2 * d)
<1>3. q \in Seq(Entry \cup {0}) BY <1>2, PrefixIs
<1>4. e \in Entry \cup {0}
  <2>1. d \in 1..d BY <1>1
  <2>2. stack[d].names \subseteq Child(stack[d].dir) BY <2>1 DEF StackInv
  <2> QED BY <2>2 DEF Top, Child
<1>5. fullpath' = Append(q, e) BY <1>1 DEF Top
<1> HIDE DEF q
<1>6. Len(Append(q, e)) = Len(q) + 1 /\ Append(q, e)[Len(q) + 1] = e BY <1>3, <1>4, AppendIs
<1> QED BY <1>5, <1>6 DEF Here

\* Every entry is visited at most once, and only below a directory that was.
LEMMA OnceNext ==
  ASSUME TreeInv, StackInv, PathInv, OnceInv, WalkNext, StackInv', PathInv'
  PROVE  OnceInv'
<1> DEFINE d == Len(stack)
<1>1. tree' = tree /\ stack \in Seq(Frame) /\ d \in Nat /\ visited \in [Entry -> {0, 1}]
  BY SameTree DEF StackInv, OnceInv
<1>2. CASE Myftw
  <2>1. fullpath' = <<1>> /\ stack' = <<>> /\ stack = <<>> /\ visited' = visited /\ place = "start"
    BY <1>2 DEF Myftw, StackInv
  <2>2. Here' = 1 /\ Len(stack') = 0 /\ place' = "dopath" BY <1>2, <2>1 DEF Here, Myftw
  <2>3. ASSUME NEW e \in Entry, Waiting(e)' PROVE Waiting(e)
    BY <2>1, <2>2, <2>3 DEF Waiting
  <2> QED BY <1>1, <2>1, <2>2, <2>3 DEF OnceInv
<1>3. CASE StatError \/ AddUp
  <2>1. stack' = stack /\ visited' = visited /\ place' \in {"return", "done"}
    BY <1>3 DEF StatError, AddUp, Return
  <2>2. ASSUME NEW e \in Entry, Waiting(e)' PROVE Waiting(e) BY <2>1, <2>2 DEF Waiting
  <2> QED BY <1>1, <2>1, <2>2 DEF OnceInv
<1>4. CASE VisitFile \/ VisitDirectory
  <2>1. PICK e \in Entry :
          /\ Visit(e) /\ place' = "return"
          /\ \/ stack' = stack
             \/ stack' = Append(stack, [dir |-> e, n |-> Len(fullpath'), names |-> Child(e)])
    BY <1>4 DEF VisitFile, VisitDirectory, Return
  <2>2. /\ visited[e] = 0 /\ visited'[e] = 1 /\ visited' \in [Entry -> {0, 1}]
        /\ \A a \in Entry \ {e} : visited'[a] = visited[a]
        /\ e = Here /\ place = "dopath"
    BY <2>1, Visiting
  <2>3. \A j \in 1..d : e \notin stack[j].names BY <2>2, HereNotNamed
  <2>4. \A j \in 1..d : visited'[stack[j].dir] = 1
    <3>1. \A j \in 1..d : stack[j].dir \in Entry /\ visited[stack[j].dir] = 1
      BY DEF OnceInv, StackInv
    <3> QED BY <2>2, <3>1
  <2>5. ASSUME NEW a \in Entry \ {1}, visited'[a] = 1 PROVE visited'[tree.parent[a]] = 1
    <3>1. tree.parent[a] \in Entry BY DEF TreeInv
    <3>2. CASE a # e BY <2>2, <2>5, <3>1, <3>2 DEF OnceInv
    <3>3. CASE a = e
      <4>1. stack # <<>> /\ a \in Child(Top.dir) BY <2>2, <3>3, HereNotNamed
      <4>2. tree.parent[a] = stack[d].dir /\ d \in 1..d BY <1>1, <4>1 DEF Child, Top
      <4> QED BY <2>4, <4>2
    <3> QED BY <3>2, <3>3
  <2>6. ASSUME NEW a \in Entry, NEW j \in 1..d, a \in stack[j].names PROVE visited'[a] = 0
    <3>1. Waiting(a) /\ a # e BY <2>3, <2>6 DEF Waiting
    <3> QED BY <2>2, <3>1 DEF OnceInv
  <2>7. CASE stack' = stack
    <3>1. ASSUME NEW a \in Entry, Waiting(a)' PROVE visited'[a] = 0
      BY <2>1, <2>6, <2>7, <3>1 DEF Waiting
    <3> QED BY <1>1, <2>2, <2>4, <2>5, <2>7, <3>1 DEF OnceInv
  <2>8. CASE stack' = Append(stack, [dir |-> e, n |-> Len(fullpath'), names |-> Child(e)])
    <3>1. [dir |-> e, n |-> Len(fullpath'), names |-> Child(e)] \in Frame
      <4>1. Len(fullpath') \in Nat BY <2>1 DEF PathInv
      <4> QED BY <4>1 DEF Frame, Child
    <3>2. /\ Len(stack') = d + 1 /\ \A j \in 1..d : stack'[j] = stack[j]
          /\ stack'[d + 1].dir = e /\ stack'[d + 1].names = Child(e)
      BY <2>8, <3>1, Opening
    <3>3. \A j \in 1..(d + 1) : j \in 1..d \/ j = d + 1 BY <1>1
    <3>4. \A j \in 1..(d + 1) : visited'[stack'[j].dir] = 1 BY <2>2, <2>4, <3>2, <3>3
    <3>5. ASSUME NEW a \in Child(e) PROVE visited'[a] = 0
      <4>1. a \in Entry \ {1} /\ tree.parent[a] = e BY DEF Child
      <4>2. visited[a] = 0 BY <1>1, <2>2, <4>1 DEF OnceInv
      <4>3. a # e BY <4>1 DEF TreeInv, Entry
      <4> QED BY <2>2, <4>1, <4>2, <4>3
    <3>6. ASSUME NEW a \in Entry, Waiting(a)' PROVE visited'[a] = 0
      <4>1. PICK j \in 1..(d + 1) : a \in stack'[j].names BY <2>1, <3>2, <3>6 DEF Waiting
      <4> QED BY <2>6, <3>2, <3>3, <3>5, <4>1
    <3> QED BY <1>1, <2>2, <2>5, <3>2, <3>4, <3>6 DEF OnceInv
  <2> QED BY <2>1, <2>7, <2>8
<1>5. CASE ReadDir
  <2>1. PICK e \in Top.names :
          /\ stack # <<>> /\ stack' = [stack EXCEPT ![d].names = @ \ {e}] /\ place' = "dopath"
          /\ fullpath' = Append(SubSeq(fullpath, 1, Top.n), e) /\ visited' = visited /\ place = "return"
    BY <1>5 DEF ReadDir
  <2>2. /\ Len(stack') = d /\ d \in 1..d
        /\ \A j \in 1..d : stack'[j].dir = stack[j].dir /\ stack'[j].names \subseteq stack[j].names
    <3>1. \A j \in 1..d :
            /\ stack'[j].dir = stack[j].dir /\ stack'[j].n = stack[j].n
            /\ stack'[j].names = IF j = d THEN stack[j].names \ {e} ELSE stack[j].names
      BY <2>1, Reading
    <3>2. Len(stack') = d /\ d \in Nat \ {0} BY <2>1, Reading
    <3>3. d \in 1..d BY <3>2
    <3>4. \A j \in 1..d : stack'[j].names \subseteq stack[j].names BY <3>1
    <3> QED BY <3>1, <3>2, <3>3, <3>4
  <2>3. Here' = e BY <1>5, <2>1, ReadDirHere
  <2>4. ASSUME NEW a \in Entry, Waiting(a)' PROVE Waiting(a)
    BY <2>1, <2>2, <2>3, <2>4 DEF Waiting, Top
  <2> QED BY <1>1, <2>1, <2>2, <2>4 DEF OnceInv
<1>6. CASE CloseDir
  <2>1. /\ stack # <<>> /\ stack' = SubSeq(stack, 1, d - 1) /\ place' = "return" /\ visited' = visited
    BY <1>6 DEF CloseDir
  <2>2. Len(stack') = d - 1 /\ \A j \in 1..(d - 1) : stack'[j] = stack[j] BY <2>1, Closing
  <2>3. \A j \in 1..(d - 1) : j \in 1..d BY <1>1
  <2>4. ASSUME NEW a \in Entry, Waiting(a)' PROVE Waiting(a)
    BY <2>1, <2>2, <2>3, <2>4 DEF Waiting
  <2> QED BY <1>1, <2>1, <2>2, <2>3, <2>4 DEF OnceInv
<1>7. CASE ReadError
  <2>1. /\ Len(stack') = d /\ d \in 1..d /\ place = "return" /\ place' = "return" /\ visited' = visited
        /\ \A j \in 1..d : stack'[j].dir = stack[j].dir /\ stack'[j].names \subseteq stack[j].names
    BY <1>7, ReadErrorIs
  <2>2. ASSUME NEW a \in Entry, Waiting(a)' PROVE Waiting(a) BY <2>1, <2>2 DEF Waiting
  <2> QED BY <1>1, <2>1, <2>2 DEF OnceInv
<1> QED BY <1>2, <1>3, <1>4, <1>5, <1>6, <1>7 DEF WalkNext

\* A directory whose closedir() failed made its parent stop reading; nothing else that
\* fails is returned.
LEMMA CloseNext ==
  ASSUME TreeInv, StackInv, PathInv, OnceInv, CloseInv, WalkNext
  PROVE  CloseInv'
<1> DEFINE d == Len(stack)
<1>1. tree' = tree /\ stack \in Seq(Frame) /\ d \in Nat BY SameTree DEF StackInv
<1>2. CASE Myftw
  <2>1. /\ place = "start" /\ place' = "dopath" /\ ret' = ret /\ failed' = failed
    BY <1>2 DEF Myftw
  <2> QED BY <2>1 DEF CloseInv
<1>3. CASE StatError \/ VisitFile
  <2>1. /\ place = "dopath" /\ place' = "return" /\ ret' = 0 /\ stack' = stack
        /\ failed' = failed \/ failed' = failed \cup {<<"lstat", Here>>}
    BY <1>3 DEF StatError, VisitFile, Visit, Return
  <2>2. <<"closedir", 1>> \notin failed' BY <2>1 DEF CloseInv
  <2> QED BY <2>1, <2>2 DEF CloseInv
<1>4. CASE VisitDirectory
  <2>1. PICK e \in Entry :
          /\ place = "dopath" /\ place' = "return" /\ ret' = 0
          /\ failed' = failed \/ failed' = failed \cup {<<"opendir", e>>}
    BY <1>4 DEF VisitDirectory, Visit, Return
  <2>2. <<"closedir", 1>> \notin failed' BY <2>1 DEF CloseInv
  <2> QED BY <2>1, <2>2 DEF CloseInv
<1>5. CASE ReadDir
  <2>1. /\ place' = "dopath" /\ place = "return" /\ ret' = ret /\ failed' = failed /\ stack # <<>>
    BY <1>5 DEF ReadDir
  <2> QED BY <2>1 DEF CloseInv
<1>6. CASE AddUp
  <2>1. /\ place' = "done" /\ place = "return" /\ UNCHANGED <<ret, failed, stack>> /\ stack = <<>>
    BY <1>6 DEF AddUp
  <2> QED BY <2>1 DEF CloseInv
<1>7. CASE CloseDir
  <2>1. /\ stack # <<>> /\ stack' = SubSeq(stack, 1, d - 1) /\ place = "return" /\ place' = place
        /\ visited' = visited
        /\ \/ ret' = 0 /\ failed' = failed
           \/ ret' = 1 /\ failed' = failed \cup {<<"closedir", Top.dir>>}
    BY <1>7 DEF CloseDir
  <2>2. /\ Len(stack') = d - 1 /\ d \in 1..d /\ \A j \in 1..(d - 1) : stack'[j] = stack[j]
        /\ stack' \in Seq(Frame)
    BY <1>1, <2>1, Closing
  <2>3. <<"closedir", 1>> \notin failed BY <2>1 DEF CloseInv
  <2>4. CASE stack' = <<>>
    <3>1. d = 1 BY <1>1, <2>2, <2>4
    <3>2. Top.dir = 1 BY <2>2, <3>1 DEF Top, StackInv
    <3> QED BY <2>1, <2>3, <2>4, <3>2 DEF CloseInv
  <2>5. CASE stack' # <<>>
    <3>1. d - 1 \in 1..(d - 1) /\ d # 1 BY <1>1, <2>2, <2>5
    <3>2. Top' = stack[d - 1] BY <2>2, <3>1 DEF Top
    <3>3. Top.dir \in Child(stack[d - 1].dir) BY <2>2, <3>1 DEF Top, StackInv
    <3>4. Top.dir \in Child(Top.dir)' BY <1>1, <3>2, <3>3 DEF Child
    <3>5. visited'[Top.dir] = 1 BY <2>1, <2>2 DEF OnceInv, Top
    <3>6. <<"closedir", 1>> \notin failed' BY <2>1, <2>3, <3>3 DEF Child
    <3>7. ret' = 1 => \E b \in Child(Top.dir)' : visited'[b] = 1 /\ <<"closedir", b>> \in failed'
      BY <2>1, <3>4, <3>5
    <3> QED BY <2>1, <2>5, <3>6, <3>7 DEF CloseInv
  <2> QED BY <2>4, <2>5
<1>8. CASE ReadError
  <2>1. /\ place = "return" /\ place' = "return" /\ ret = 0 /\ ret' = 0 /\ stack # <<>> /\ stack' # <<>>
        /\ failed' = failed \cup {<<"readdir", Top.dir>>}
    BY <1>8, ReadErrorIs
  <2>2. <<"closedir", 1>> \notin failed' BY <2>1 DEF CloseInv
  <2> QED BY <2>1, <2>2 DEF CloseInv
<1> QED BY <1>2, <1>3, <1>4, <1>5, <1>6, <1>7, <1>8 DEF WalkNext

\* What stays found: an entry that was visited or will be skipped.
LEMMA StaysFound ==
  ASSUME TreeInv, StackInv, PathInv, OnceInv, WalkNext, NEW e \in Entry,
         visited[e] = 1 \/ Skipped(e)
  PROVE  visited'[e] = 1 \/ Skipped(e)'
<1>1. Skipped(e) => Skipped(e)' BY SameTree, FailedGrows, SkippedGrows
<1>2. ASSUME visited[e] = 1 PROVE visited'[e] = 1
  <2>1. CASE VisitFile \/ VisitDirectory
    <3>1. PICK f \in Entry : Visit(f) BY <2>1 DEF VisitFile, VisitDirectory
    <3>2. visited[f] = 0 /\ \A a \in Entry \ {f} : visited'[a] = visited[a] BY <3>1, Visiting
    <3> QED BY <1>2, <3>2
  <2>2. CASE ~(VisitFile \/ VisitDirectory)
    <3>1. visited' = visited
      BY <2>2 DEF WalkNext, Myftw, StatError, ReadDir, ReadError, CloseDir, AddUp
    <3> QED BY <1>2, <3>1
  <2> QED BY <2>1, <2>2
<1> QED BY <1>1, <1>2

\* Until an entry was visited or is skipped, it or a directory above it waits.
LEMMA FoundNext ==
  ASSUME TreeInv, StackInv, PathInv, OnceInv, FoundInv, CloseInv, WalkNext, StackInv', PathInv'
  PROVE  FoundInv'
<1> DEFINE d == Len(stack)
<1>1. tree' = tree /\ stack \in Seq(Frame) /\ d \in Nat BY SameTree DEF StackInv
<1>2. SUFFICES ASSUME NEW e \in Entry, NEW a \in Above(e), Waiting(a)
               PROVE  visited'[e] = 1 \/ Skipped(e)' \/ \E b \in Above(e) : Waiting(b)'
  <2>1. \A e \in Entry : Above(e)' = Above(e) BY <1>1, SameAbove
  <2> QED BY <2>1, StaysFound DEF FoundInv
<1>3. a \in Entry /\ Above(e)' = Above(e) /\ \A b : Child(b)' = Child(b)
  BY <1>1, AboveSelf, SameAbove
<1>4. ASSUME stack' = stack, place = "dopath", a # Here PROVE Waiting(a)'
  <2>1. \E j \in 1..d : a \in stack[j].names BY <1>2, <1>4 DEF Waiting
  <2> QED BY <1>4, <2>1 DEF Waiting
<1>6. CASE Myftw
  <2>1. place = "start" /\ place' = "dopath" /\ fullpath' = <<1>> /\ stack = <<>>
    BY <1>6 DEF Myftw, StackInv
  <2>2. a = 1 BY <1>2, <2>1 DEF Waiting
  <2>3. Here' = 1 BY <2>1 DEF Here
  <2> QED BY <2>1, <2>2, <2>3 DEF Waiting
<1>7. CASE StatError
  <2>1. /\ place = "dopath" /\ stack' = stack /\ failed' = failed \cup {<<"lstat", Here>>}
    BY <1>7 DEF StatError
  <2>2. CASE a = Here
    <3>1. <<"lstat", a>> \in failed' BY <2>1, <2>2
    <3> QED BY <1>3, <3>1 DEF Skipped
  <2> QED BY <1>4, <2>1, <2>2
<1>8. CASE VisitFile
  <2>1. PICK f \in Entry : Visit(f) /\ tree.kind[f] # "DIR" /\ stack' = stack
    BY <1>8 DEF VisitFile
  <2>2. visited'[f] = 1 /\ f = Here /\ place = "dopath" BY <2>1, Visiting
  <2>3. CASE a = f
    <3>1. ASSUME a # e PROVE FALSE
      <4>1. PICK b \in Above(e) : b \in Child(a) BY <3>1, AboveChild
      <4>2. tree.kind[a] = "DIR" BY <4>1 DEF Child, TreeInv
      <4> QED BY <2>1, <2>3, <4>2
    <3> QED BY <2>2, <2>3, <3>1
  <2> QED BY <1>4, <2>1, <2>2, <2>3
<1>9. CASE VisitDirectory
  <2>1. PICK f \in Entry :
          /\ Visit(f)
          /\ \/ stack' = Append(stack, [dir |-> f, n |-> Len(fullpath'), names |-> Child(f)])
             \/ stack' = stack /\ failed' = failed \cup {<<"opendir", f>>}
    BY <1>9 DEF VisitDirectory
  <2>2. visited'[f] = 1 /\ f = Here /\ place = "dopath" BY <2>1, Visiting
  <2>3. CASE stack' = stack /\ failed' = failed \cup {<<"opendir", f>>}
    <3>1. CASE a = f
      <4>1. a # e => Skipped(e)' BY <1>3, <2>3, <3>1 DEF Skipped
      <4> QED BY <2>2, <3>1, <4>1
    <3> QED BY <1>4, <2>2, <2>3, <3>1
  <2>4. CASE stack' = Append(stack, [dir |-> f, n |-> Len(fullpath'), names |-> Child(f)])
    <3>1. [dir |-> f, n |-> Len(fullpath'), names |-> Child(f)] \in Frame
      <4>1. Len(fullpath') \in Nat
        <5>1. place' # "start" BY <1>9 DEF VisitDirectory, Return
        <5> QED BY <5>1 DEF PathInv
      <4> QED BY <4>1 DEF Frame, Child
    <3>2. /\ Len(stack') = d + 1 /\ \A j \in 1..d : stack'[j] = stack[j]
          /\ stack'[d + 1].names = Child(f)
      BY <2>4, <3>1, Opening
    <3>3. d + 1 \in 1..(d + 1) /\ \A j \in 1..d : j \in 1..(d + 1) BY <1>1
    <3>4. CASE a = f
      <4>1. ASSUME a # e PROVE \E b \in Above(e) : Waiting(b)'
        <5>1. PICK b \in Above(e) : b \in Child(a) BY <4>1, AboveChild
        <5>2. b \in stack'[d + 1].names BY <3>2, <3>4, <5>1
        <5>3. Waiting(b)' BY <3>2, <3>3, <5>2 DEF Waiting
        <5> QED BY <5>3
      <4> QED BY <2>2, <3>4, <4>1
    <3>5. CASE a # f
      <4>1. PICK j \in 1..d : a \in stack[j].names BY <1>2, <2>2, <3>5 DEF Waiting
      <4>2. Waiting(a)' BY <3>2, <3>3, <4>1 DEF Waiting
      <4> QED BY <4>2
    <3> QED BY <3>4, <3>5
  <2> QED BY <2>1, <2>3, <2>4
<1>10. CASE ReadDir
  <2>1. PICK f \in Top.names :
          /\ stack # <<>> /\ stack' = [stack EXCEPT ![d].names = @ \ {f}] /\ place' = "dopath"
          /\ fullpath' = Append(SubSeq(fullpath, 1, Top.n), f) /\ place = "return"
    BY <1>10 DEF ReadDir
  <2>2. Here' = f BY <2>1, ReadDirHere
  <2>3. /\ Len(stack') = d
        /\ \A j \in 1..d :
             /\ stack'[j].dir = stack[j].dir /\ stack'[j].n = stack[j].n
             /\ stack'[j].names = IF j = d THEN stack[j].names \ {f} ELSE stack[j].names
    BY <2>1, Reading
  <2>4. PICK j \in 1..d : a \in stack[j].names BY <1>2, <2>1 DEF Waiting
  <2>5. a # f => a \in stack'[j].names BY <2>3, <2>4
  <2>6. Waiting(a)' BY <2>1, <2>2, <2>3, <2>4, <2>5 DEF Waiting
  <2> QED BY <2>6
<1>11. CASE CloseDir
  <2>1. /\ stack # <<>> /\ stack' = SubSeq(stack, 1, d - 1) /\ place = "return" /\ failed \subseteq failed'
        /\ Top.names = {} \/ ret # 0
    BY <1>11, FailedGrows DEF CloseDir
  <2>2. Len(stack') = d - 1 /\ d \in 1..d /\ \A j \in 1..(d - 1) : stack'[j] = stack[j]
    BY <1>1, <2>1, Closing
  <2>3. PICK j \in 1..d : a \in stack[j].names BY <1>2, <2>1 DEF Waiting
  <2>4. CASE j # d
    <3>1. j \in 1..(d - 1) BY <1>1, <2>3, <2>4
    <3>2. Waiting(a)' BY <2>2, <2>3, <3>1 DEF Waiting
    <3> QED BY <3>2
  <2>5. CASE j = d
    <3>1. a \in Top.names /\ ret # 0 BY <2>1, <2>3, <2>5 DEF Top
    <3>2. PICK b \in Child(Top.dir) : visited[b] = 1 /\ <<"closedir", b>> \in failed
      BY <2>1, <3>1 DEF CloseInv
    <3>3. a \in Child(Top.dir) BY <2>2, <3>1 DEF Top, StackInv
    <3>4. a # 1 /\ tree.parent[a] = Top.dir BY <3>3 DEF Child
    <3>5. visited[a] = 0 BY <1>2, <1>3 DEF OnceInv
    <3>6. b \in Child(tree.parent[a]) \ {a} /\ <<"closedir", b>> \in failed'
      BY <2>1, <3>2, <3>4, <3>5
    <3>7. Skipped(e)' BY <1>1, <1>3, <3>4, <3>6 DEF Skipped
    <3> QED BY <3>7
  <2> QED BY <2>4, <2>5
<1>12. CASE AddUp
  <2>1. place = "return" /\ stack = <<>> BY <1>12 DEF AddUp
  <2> QED BY <1>2, <2>1 DEF Waiting
<1>13. CASE ReadError
  <2>1. /\ Len(stack') = d /\ d \in 1..d /\ place = "return" /\ visited' = visited
        /\ failed' = failed \cup {<<"readdir", Top.dir>>}
        /\ \A j \in 1..d : stack'[j].names = IF j = d THEN {} ELSE stack[j].names
    BY <1>13, ReadErrorIs
  <2>2. PICK j \in 1..d : a \in stack[j].names BY <1>2, <2>1 DEF Waiting
  <2>3. CASE j # d
    <3>1. Waiting(a)' BY <2>1, <2>2, <2>3 DEF Waiting
    <3> QED BY <3>1
  <2>4. CASE j = d
    <3>1. a \in Child(Top.dir) /\ visited[Top.dir] = 1
      BY <2>1, <2>2, <2>4 DEF Top, StackInv, OnceInv
    <3>2. Top.dir \in Above(e)
      <4>1. tree.parent[a] = Top.dir BY <3>1 DEF Child
      <4> QED BY <4>1, <1>2, AboveParent
    <3>3. CASE Top.dir = e BY <2>1, <3>1, <3>3
    <3>4. CASE Top.dir # e
      <4>1. <<"readdir", Top.dir>> \in failed' BY <2>1
      <4>2. PICK c \in Above(e) : c # e /\ <<"readdir", c>> \in failed' BY <3>2, <3>4, <4>1
      <4>3. Skipped(e)' BY <1>3, <4>2 DEF Skipped
      <4> QED BY <4>3
    <3> QED BY <3>3, <3>4
  <2> QED BY <2>3, <2>4
<1> QED BY <1>6, <1>7, <1>8, <1>9, <1>10, <1>11, <1>12, <1>13 DEF WalkNext

\* One more entry visited is one more in each set of visited entries it belongs to.
LEMMA OneMore ==
  ASSUME NEW S \in SUBSET Entry, NEW T \in SUBSET Entry, NEW e \in Entry, e \notin S,
         T = S \/ T = S \cup {e}
  PROVE  /\ Cardinality(S) \in Nat
         /\ T = S => Cardinality(T) = Cardinality(S)
         /\ T = S \cup {e} => Cardinality(T) = Cardinality(S) + 1
<1>1. IsFiniteSet(Entry) BY ParametersAssumption, FS_Interval DEF Entry
<1>2. IsFiniteSet(S) BY <1>1, FS_Subset
<1> QED BY <1>2, FS_AddElement, FS_CardinalityType

\* Each visit is counted in the kind of the entry, and in ndir.
LEMMA CountNext ==
  ASSUME TreeInv, StackInv, PathInv, OnceInv, CountInv, WalkNext
  PROVE  CountInv'
<1> DEFINE Of(k) == {x \in Entry : visited[x] = 1 /\ tree.kind[x] = k}
           After(k) == {x \in Entry : visited'[x] = 1 /\ tree.kind[x] = k}
           All == {x \in Entry : visited[x] = 1}
           AllAfter == {x \in Entry : visited'[x] = 1}
<1>1. tree' = tree BY SameTree
<1>2. /\ \A k \in Kind : Number(k) = Cardinality(Of(k)) /\ Number(k)' = Cardinality(After(k))
      /\ count \in [Kind -> Nat] /\ "DIR" \in Kind
      /\ \A k \in Kind \ {"DIR"} : count[k] = Cardinality(Of(k))
      /\ count["DIR"] = Cardinality(All)
  BY <1>1, ParametersAssumption DEF Number, CountInv
<1>3. CASE VisitFile \/ VisitDirectory
  <2>1. PICK e \in Entry : Visit(e) BY <1>3 DEF VisitFile, VisitDirectory
  <2>2. /\ visited[e] = 0 /\ visited'[e] = 1
        /\ \A a \in Entry \ {e} : visited'[a] = visited[a]
    BY <2>1, Visiting
  <2>3. count' = Count(count, tree.kind[e]) BY <2>1 DEF Visit
  <2>4. count' \in [Kind -> Nat]
        /\ \A k \in Kind : count'[k] = IF k = tree.kind[e] \/ k = "DIR" THEN count[k] + 1 ELSE count[k]
    BY <1>2, <2>3 DEF Count
  <2>5. ASSUME NEW k \in Kind \ {"DIR"} PROVE count'[k] = Cardinality(After(k))
    <3>1. Of(k) \in SUBSET Entry /\ After(k) \in SUBSET Entry /\ e \notin Of(k) BY <2>2
    <3>2. CASE tree.kind[e] = k
      <4>1. After(k) = Of(k) \cup {e} BY <2>2, <3>2
      <4>2. Cardinality(After(k)) = Cardinality(Of(k)) + 1
        <5> HIDE DEF Of, After
        <5> QED BY <3>1, <4>1, OneMore
      <4>3. count'[k] = count[k] + 1 /\ count[k] = Cardinality(Of(k))
        BY <1>2, <2>4, <2>5, <3>2
      <4> QED BY <4>2, <4>3
    <3>3. CASE tree.kind[e] # k
      <4>1. After(k) = Of(k) BY <2>2, <3>3
      <4>2. count'[k] = count[k] /\ count[k] = Cardinality(Of(k)) BY <1>2, <2>4, <2>5, <3>3
      <4> QED BY <4>1, <4>2
    <3> QED BY <3>2, <3>3
  <2>6. count'["DIR"] = Cardinality(AllAfter)
    <3>1. All \in SUBSET Entry /\ AllAfter \in SUBSET Entry /\ e \notin All BY <2>2
    <3>2. AllAfter = All \cup {e} BY <2>2
    <3>3. Cardinality(AllAfter) = Cardinality(All) + 1
      <4> HIDE DEF All, AllAfter
      <4> QED BY <3>1, <3>2, OneMore
    <3> QED BY <1>2, <2>4, <3>3
  <2> QED BY <1>2, <2>4, <2>5, <2>6 DEF CountInv
<1>4. CASE ~(VisitFile \/ VisitDirectory)
  <2>1. visited' = visited /\ count' = count
    BY <1>4 DEF WalkNext, Myftw, StatError, ReadDir, ReadError, CloseDir, AddUp
  <2> QED BY <1>1, <2>1 DEF CountInv, Number
<1> QED BY <1>3, <1>4

\* What the argument about the visits needs besides.
SeenInv == OnceInv /\ FoundInv /\ CloseInv /\ CountInv

\* At the start nothing is visited and everything is below the argument, which waits.
LEMMA SeenInitInv == ASSUME WalkInit PROVE SeenInv
<1>1. TreeInv BY WalkInitInv DEF WalkInv
<1>2. /\ stack = <<>> /\ place = "start" /\ ret = 0 /\ failed = {}
      /\ visited = [e \in Entry |-> 0] /\ count = [k \in Kind |-> 0]
  BY DEF WalkInit
<1>3. Len(stack) = 0 /\ \A e \in Entry : visited[e] = 0 BY <1>2
<1>4. OnceInv BY <1>2, <1>3 DEF OnceInv
<1>5. FoundInv BY <1>1, <1>2, AboveTop DEF FoundInv, Waiting
<1>6. CloseInv BY <1>2 DEF CloseInv
<1>7. CountInv
  <2>1. \A k : {e \in Entry : visited[e] = 1 /\ tree.kind[e] = k} = {} BY <1>3
  <2>2. {e \in Entry : visited[e] = 1} = {} BY <1>3
  <2>3. \A k \in Kind : count[k] = 0 /\ Number(k) = 0 BY <1>2, <2>1, FS_EmptySet DEF Number
  <2>4. count["DIR"] = Cardinality({e \in Entry : visited[e] = 1})
    BY <2>2, <2>3, FS_EmptySet, ParametersAssumption
  <2> QED BY <1>2, <2>3, <2>4 DEF CountInv
<1> QED BY <1>4, <1>5, <1>6, <1>7 DEF SeenInv

\* Every step keeps what was visited, counted and skipped in line with what waits.
LEMMA SeenNextInv ==
  ASSUME WalkInv, WalkInv', SeenInv, [WalkNext]_walkVars
  PROVE  SeenInv'
<1>1. CASE WalkNext
  BY <1>1, OnceNext, FoundNext, CloseNext, CountNext DEF WalkInv, SeenInv
<1>2. CASE UNCHANGED walkVars
  <2>1. UNCHANGED <<tree, stack, place, ret, fullpath, count, visited, failed>>
    BY <1>2 DEF walkVars
  <2>2. \A e : Above(e)' = Above(e) BY <2>1, SameAbove
  <2>3. \A e : Waiting(e)' = Waiting(e) BY <2>1 DEF Waiting, Here
  <2>4. \A e : Skipped(e)' = Skipped(e) BY <2>1, <2>2 DEF Skipped, Child
  <2>5. OnceInv' /\ FoundInv' BY <2>1, <2>2, <2>3, <2>4 DEF SeenInv, OnceInv, FoundInv
  <2>6. CloseInv' /\ CountInv' BY <2>1 DEF SeenInv, CloseInv, CountInv, Child, Top, Number
  <2> QED BY <2>5, <2>6 DEF SeenInv
<1> QED BY <1>1, <1>2

\* When the walk is over each entry was visited once or an error above or beside it says
\* why not, the counters are those of the visited entries, and only a failed closedir()
\* of the argument shows in the exit status: for trees of any size and shape.
THEOREM WalkIsComplete == WalkSpec => []WalkComplete
<1>1. WalkInit => WalkInv /\ SeenInv BY WalkInitInv, SeenInitInv
<1>2. (WalkInv /\ SeenInv) /\ [WalkNext]_walkVars => (WalkInv /\ SeenInv)'
  BY WalkNextInv, SeenNextInv
<1>3. WalkInv /\ SeenInv => WalkComplete
  <2> SUFFICES ASSUME WalkInv, SeenInv, place = "done" PROVE WalkComplete BY DEF WalkComplete
  <2>1. stack = <<>> /\ Len(stack) = 0 BY DEF WalkInv, StackInv
  <2>2. \A a : ~Waiting(a) BY <2>1 DEF Waiting
  <2>3. \A e \in Entry : visited[e] \in {0, 1} /\ (visited[e] = 1 \/ Skipped(e))
    BY <2>2 DEF SeenInv, OnceInv, FoundInv
  <2>4. ret # 0 <=> <<"closedir", 1>> \in failed BY <2>1 DEF SeenInv, CloseInv
  <2> QED BY <2>3, <2>4 DEF SeenInv, CountInv, WalkComplete
<1> QED BY <1>1, <1>2, <1>3, PTL DEF WalkSpec
=============================================================================
