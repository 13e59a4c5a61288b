------------------------------ MODULE AioCopy ------------------------------
(***************************************************************************)
(* 14.advio/05_rot13.c: a file is copied with asynchronous I/O through     *)
(* NBUF buffers.  A single loop goes over the buffers again and again,     *)
(* starting a read in an unused one, turning a finished read into a write, *)
(* and a finished write into an unused buffer; when a pass has left        *)
(* anything outstanding it sleeps in aio_suspend.  The kernel completes    *)
(* the requests at any time, in any order, with any result.                *)
(*                                                                         *)
(* Offsets are counted in blocks of BSZ bytes.  The result of a request is *)
(* all of the bytes asked for ("full"), fewer ("short") or an error.       *)
(***************************************************************************)
EXTENDS Integers, FiniteSets

CONSTANTS NBUF, BLOCKS   \* buffers (8 in the code); st_size / BSZ rounded up

ASSUME SizesAssumption == NBUF \in Nat \ {0} /\ BLOCKS \in Nat

Buf == 0..(NBUF - 1)
Block == 0..(BLOCKS - 1)
NoBlock == -1

VARIABLES
  op, last,         \* members of aio_wrap
  aio_offset,       \* the block the request of the buffer is about
  aio_nbytes,       \* bytes to transfer: a whole block, or what a short read gave
  request,          \* the kernel's side: "none", "running" or the result
  aio_list,         \* the entries that are not NULL
  offset, num_to_process,
  i,                \* the buffer the for loop is at
  pc,               \* "loop", "suspend" or "exit"
  status,           \* exit status
  out               \* what the output file holds of each block

wrapVars == <<op, last, aio_offset, aio_nbytes>>
vars == <<wrapVars, request, aio_list, offset, num_to_process, i, pc, status, out>>

TypeOK ==
  /\ op \in [Buf -> {"UNUSED", "READ_PENDING", "WRITE_PENDING"}]
  /\ last \in [Buf -> {0, 1}]
  /\ aio_offset \in [Buf -> Block \cup {NoBlock}]
  /\ aio_nbytes \in [Buf -> {"full", "short"}]
  /\ request \in [Buf -> {"none", "running", "full", "short", "error"}]
  /\ aio_list \in SUBSET Buf
  /\ offset \in 0..BLOCKS
  /\ num_to_process \in 0..NBUF
  /\ i \in 0..NBUF
  /\ pc \in {"loop", "suspend", "exit"}
  /\ status \in {"none", "ok", "failed"}
  /\ out \in [Block -> {"nothing", "torn", "short", "full"}]

Init ==
  /\ op = [k \in Buf |-> "UNUSED"]
  /\ last = [k \in Buf |-> 0]
  /\ aio_offset = [k \in Buf |-> NoBlock]
  /\ aio_nbytes = [k \in Buf |-> "full"]
  /\ request = [k \in Buf |-> "none"]
  /\ aio_list = {}
  /\ offset = 0 /\ num_to_process = 0 /\ i = 0
  /\ pc = "loop" /\ status = "none"
  /\ out = [b \in Block |-> "nothing"]

\* The for loop is at buffer i.
InLoop == pc = "loop" /\ i < NBUF

Continue == i' = i + 1 /\ UNCHANGED <<pc, status>>

\* exit(-1): the outstanding requests are abandoned with the process.
Fail ==
  /\ pc' = "exit" /\ status' = "failed"
  /\ UNCHANGED <<wrapVars, request, aio_list, offset, num_to_process, i, out>>

-----------------------------------------------------------------------------
(* case UNUSED *)

NothingToRead ==
  /\ InLoop /\ op[i] = "UNUSED" /\ offset >= BLOCKS
  /\ Continue
  /\ UNCHANGED <<wrapVars, request, aio_list, offset, num_to_process, out>>

\* The next block is read into buffer i; aio_read itself may fail.
StartRead ==
  /\ InLoop /\ op[i] = "UNUSED" /\ offset < BLOCKS
  /\ \/ /\ op' = [op EXCEPT ![i] = "READ_PENDING"]
        /\ aio_offset' = [aio_offset EXCEPT ![i] = offset]
        /\ offset' = offset + 1
        /\ last' = [last EXCEPT ![i] = IF offset + 1 >= BLOCKS THEN 1 ELSE @]
        /\ aio_nbytes' = [aio_nbytes EXCEPT ![i] = "full"]
        /\ request' = [request EXCEPT ![i] = "running"]
        /\ aio_list' = aio_list \cup {i}
        /\ num_to_process' = num_to_process + 1
        /\ Continue
        /\ UNCHANGED out
     \/ Fail

\* case READ_PENDING and case WRITE_PENDING: aio_error says EINPROGRESS.
StillPending ==
  /\ InLoop /\ op[i] # "UNUSED" /\ request[i] = "running"
  /\ Continue
  /\ UNCHANGED <<wrapVars, request, aio_list, offset, num_to_process, out>>

(* case READ_PENDING *)

ReadFails ==
  /\ InLoop /\ op[i] = "READ_PENDING"
  /\ \/ request[i] = "error"
     \/ request[i] = "short" /\ last[i] = 0
  /\ Fail

\* What was read is written at the same offset; aio_write itself may fail.
ReadDone ==
  /\ InLoop /\ op[i] = "READ_PENDING"
  /\ request[i] = "full" \/ (request[i] = "short" /\ last[i] = 1)
  /\ \/ /\ op' = [op EXCEPT ![i] = "WRITE_PENDING"]
        /\ aio_nbytes' = [aio_nbytes EXCEPT ![i] = request[i]]
        /\ request' = [request EXCEPT ![i] = "running"]
        /\ Continue
        /\ UNCHANGED <<last, aio_offset, aio_list, offset, num_to_process, out>>
     \/ Fail

(* case WRITE_PENDING *)

WriteFails ==
  /\ InLoop /\ op[i] = "WRITE_PENDING"
  /\ request[i] \in {"short", "error"}
  /\ Fail

\* Mutant: num_to_process is not decremented.
WriteDone_KeepsCount ==
  /\ InLoop /\ op[i] = "WRITE_PENDING" /\ request[i] = "full"
  /\ aio_list' = aio_list \ {i}
  /\ op' = [op EXCEPT ![i] = "UNUSED"]
  /\ request' = [request EXCEPT ![i] = "none"]
  /\ Continue
  /\ UNCHANGED <<last, aio_offset, aio_nbytes, offset, num_to_process, out>>

WriteDone ==
  /\ InLoop /\ op[i] = "WRITE_PENDING" /\ request[i] = "full"
  /\ aio_list' = aio_list \ {i}
  /\ op' = [op EXCEPT ![i] = "UNUSED"]
  /\ request' = [request EXCEPT ![i] = "none"]
  /\ num_to_process' = num_to_process - 1
  /\ Continue
  /\ UNCHANGED <<last, aio_offset, aio_nbytes, offset, out>>

-----------------------------------------------------------------------------
(* The end of a pass *)

\* Mutant: the loop is left as soon as everything has been read.
Finish_EarlyExit ==
  /\ pc = "loop" /\ i = NBUF
  /\ offset >= BLOCKS
  /\ pc' = "exit" /\ status' = "ok"
  /\ UNCHANGED <<wrapVars, request, aio_list, offset, num_to_process, i, out>>

\* Mutant: `offset > st_size' in the last test.
Finish_StrictlyPast ==
  /\ pc = "loop" /\ i = NBUF
  /\ num_to_process = 0 /\ offset > BLOCKS
  /\ pc' = "exit" /\ status' = "ok"
  /\ UNCHANGED <<wrapVars, request, aio_list, offset, num_to_process, i, out>>

\* Nothing outstanding and nothing left to read: aio_fsync is asked for and not
\* waited for, exit(0).
Finish ==
  /\ pc = "loop" /\ i = NBUF
  /\ num_to_process = 0 /\ offset >= BLOCKS
  /\ pc' = "exit" /\ status' = "ok"
  /\ UNCHANGED <<wrapVars, request, aio_list, offset, num_to_process, i, out>>

\* Nothing outstanding, but more to read.
NextPass ==
  /\ pc = "loop" /\ i = NBUF
  /\ num_to_process = 0 /\ offset < BLOCKS
  /\ i' = 0
  /\ UNCHANGED <<wrapVars, request, aio_list, offset, num_to_process, pc, status, out>>

Suspend ==
  /\ pc = "loop" /\ i = NBUF
  /\ num_to_process # 0
  /\ pc' = "suspend"
  /\ UNCHANGED <<wrapVars, request, aio_list, offset, num_to_process, i, status, out>>

\* aio_suspend returns because a request of aio_list is finished.
Resume ==
  /\ pc = "suspend"
  /\ \E k \in aio_list : request[k] # "running"
  /\ pc' = "loop" /\ i' = 0
  /\ UNCHANGED <<wrapVars, request, aio_list, offset, num_to_process, status, out>>

\* aio_suspend is interrupted: a message, and the next pass.
Interrupted ==
  /\ pc = "suspend"
  /\ pc' = "loop" /\ i' = 0
  /\ UNCHANGED <<wrapVars, request, aio_list, offset, num_to_process, status, out>>

-----------------------------------------------------------------------------
(* The kernel *)

Complete(k, result) ==
  /\ pc # "exit"
  /\ request[k] = "running"
  /\ request' = [request EXCEPT ![k] = result]
  /\ out' = IF op[k] = "WRITE_PENDING"
            THEN [out EXCEPT ![aio_offset[k]] =
                    IF result = "full" THEN aio_nbytes[k] ELSE "torn"]
            ELSE out
  /\ UNCHANGED <<wrapVars, aio_list, offset, num_to_process, i, pc, status>>

Result == {"full", "short", "error"}

Program ==
  \/ NothingToRead \/ StartRead \/ StillPending \/ ReadFails \/ ReadDone
  \/ WriteFails \/ WriteDone \/ Finish \/ NextPass \/ Suspend \/ Resume

Next ==
  \/ Program \/ Interrupted
  \/ \E k \in Buf, r \in Result : Complete(k, r)

\* The process runs and the kernel completes every request it has accepted.
Fairness ==
  /\ WF_vars(Program)
  /\ \A k \in Buf : WF_vars(\E r \in Result : Complete(k, r))

Spec == Init /\ [][Next]_vars /\ Fairness

-----------------------------------------------------------------------------
Busy == {k \in Buf : op[k] # "UNUSED"}

\* num_to_process and aio_list, which decide whether the loop ends or sleeps, agree
\* with the buffers that have a request outstanding.
Bookkeeping == num_to_process = Cardinality(Busy) /\ aio_list = Busy

\* No block is in two buffers at once, so no two requests write the same offset.
DistinctBlocks ==
  \A k, l \in Busy : aio_offset[k] = aio_offset[l] => k = l

\* aio_suspend is only called with a request it can wait for.
SuspendHasRequest == pc = "suspend" => aio_list # {}

\* exit(0) means the copy is complete; a block may be short only if it is the
\* last, where the read count of line 77 is not checked.
CopyComplete ==
  status = "ok" =>
    \A b \in Block : out[b] = "full" \/ (out[b] = "short" /\ b = BLOCKS - 1)

\* The copy ends, with success or with an error.
Terminates == <>(pc = "exit")
=============================================================================
