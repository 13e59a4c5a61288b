------------------------------ MODULE PollMsg -------------------------------
(***************************************************************************)
(* 17.uds/01_pollmsg.c: for each of NUMBER_THREADS System V queues a       *)
(* thread moves the messages into a datagram socket, and main() reads the  *)
(* sockets that epoll_wait() reports.  17.uds/02_sendmsg.c sends to the    *)
(* queues.  A message is its length.                                       *)
(*                                                                         *)
(* The loop of main() over the events stores the result of read() in its   *)
(* own bound n and always reads the socket of the first event.  What it    *)
(* looks at beyond the events of this call is left over from earlier ones, *)
(* uninitialised, or past the array.                                       *)
(***************************************************************************)
EXTENDS Naturals, Sequences, FiniteSets

CONSTANTS
  NUMBER_THREADS,
  MAXLINE,     \* the longest message a thread accepts
  SocketRoom,  \* how many datagrams a socket holds
  MaxSent      \* bound: how many messages are sent to each queue

ASSUME ParametersAssumption ==
  NUMBER_THREADS \in Nat \ {0} /\ MAXLINE \in Nat \ {0} /\ SocketRoom \in Nat \ {0} /\ MaxSent \in Nat

Queue == 1..NUMBER_THREADS

VARIABLES
  made,   \* how many queues, sockets and threads main() has made
  queue,  \* messages in each queue
  thread, \* what each thread does: "receives", "writes" or "ended"
  buf,    \* the message a thread has received and not written yet, if any
  sock,   \* messages in each socket
  pc,     \* main(): "setup", "epoll", "loop", "read" or "exit"
  first,  \* the queue of events[0]
  seen,   \* how many elements of events[] have ever been filled in
  i, n,   \* the loop variable and its bound
  sent,   \* messages sent to each queue
  got     \* messages that main() has read from each socket

vars == <<made, queue, thread, buf, sock, pc, first, seen, i, n, sent, got>>
mainVars == <<pc, first, seen, i, n, got>>

Init ==
  /\ made = 0 /\ pc = "setup"
  /\ queue = [q \in Queue |-> <<>>] /\ sent = queue /\ got = queue /\ sock = queue /\ buf = queue
  /\ thread = [q \in Queue |-> "receives"]
  /\ first = 1 /\ seen = 0 /\ i = 0 /\ n = 0

-----------------------------------------------------------------------------
\* msgget(), socketpair(), epoll_ctl() and pthread_create(); main() returns, and its
\* threads end with it, if one of them fails.
Setup ==
  /\ pc = "setup"
  /\ \/ /\ made' = made + 1
        /\ pc' = IF made' = NUMBER_THREADS THEN "epoll" ELSE pc
     \/ pc' = "exit" /\ UNCHANGED made
  /\ UNCHANGED <<queue, thread, buf, sock, first, seen, i, n, sent, got>>

\* 02_sendmsg: a queue that exists gets a message.
Send(q, length) ==
  /\ q <= made /\ Len(sent[q]) < MaxSent
  /\ queue' = [queue EXCEPT ![q] = Append(@, length)]
  /\ sent' = [sent EXCEPT ![q] = Append(@, length)]
  /\ UNCHANGED <<made, thread, buf, sock, mainVars>>

Runs(q, state) == pc # "exit" /\ q <= made /\ thread[q] = state


\* msgrcv() fails for a message that is too long, which stays in the queue: the
\* thread ends.
MsgRcv(q) ==
  /\ Runs(q, "receives") /\ queue[q] # <<>>
  /\ IF Head(queue[q]) > MAXLINE
       THEN thread' = [thread EXCEPT ![q] = "ended"] /\ UNCHANGED <<queue, buf>>
       ELSE /\ thread' = [thread EXCEPT ![q] = "writes"]
            /\ buf' = [buf EXCEPT ![q] = <<Head(queue[q])>>]
            /\ queue' = [queue EXCEPT ![q] = Tail(@)]
  /\ UNCHANGED <<made, sock, sent, mainVars>>

\* Mutant: a write to a full socket does not wait.
Write_NoWait(q) ==
  /\ Runs(q, "writes")
  /\ sock' = IF Len(sock[q]) < SocketRoom THEN [sock EXCEPT ![q] = @ \o buf[q]] ELSE sock
  /\ buf' = [buf EXCEPT ![q] = <<>>]
  /\ thread' = [thread EXCEPT ![q] = "receives"]
  /\ UNCHANGED <<made, queue, sent, mainVars>>

\* write() waits for room in the socket.
Write(q) ==
  /\ Runs(q, "writes") /\ Len(sock[q]) < SocketRoom
  /\ sock' = [sock EXCEPT ![q] = @ \o buf[q]]
  /\ buf' = [buf EXCEPT ![q] = <<>>]
  /\ thread' = [thread EXCEPT ![q] = "receives"]
  /\ UNCHANGED <<made, queue, sent, mainVars>>

-----------------------------------------------------------------------------
Ready == {q \in Queue : sock[q] # <<>>}

\* epoll_wait() reports all sockets with data, in any order.
EpollWait ==
  /\ pc = "epoll" /\ Ready # {}
  /\ first' \in Ready
  /\ n' = Cardinality(Ready) /\ i' = 0
  /\ seen' = IF n' > seen THEN n' ELSE seen
  /\ pc' = "loop"
  /\ UNCHANGED <<made, queue, thread, buf, sock, sent, got>>

\* EPOLLIN is set in events[i] if that was ever filled in, and may be otherwise.
LoopTest ==
  /\ pc = "loop"
  /\ \/ i >= n /\ pc' = "epoll" /\ UNCHANGED i
     \/ i < n /\ pc' = "read" /\ UNCHANGED i
     \/ i < n /\ i >= seen /\ i' = i + 1 /\ UNCHANGED pc
  /\ UNCHANGED <<made, queue, thread, buf, sock, first, seen, n, sent, got>>

\* read(events->data.fd, ...) waits for a datagram.
Read ==
  /\ pc = "read" /\ sock[first] # <<>>
  /\ n' = Head(sock[first])
  /\ got' = [got EXCEPT ![first] = Append(@, n')]
  /\ sock' = [sock EXCEPT ![first] = Tail(@)]
  /\ i' = i + 1
  /\ pc' = "loop"
  /\ UNCHANGED <<made, queue, thread, buf, first, seen, sent>>

Main == Setup \/ EpollWait \/ LoopTest \/ Read

Next ==
  \/ Main
  \/ \E q \in Queue : MsgRcv(q) \/ Write(q) \/ \E length \in 0..(MAXLINE + 1) : Send(q, length)

\* main() and its threads are scheduled; nobody has to send anything.
Spec ==
  /\ Init /\ [][Next]_vars
  /\ WF_vars(Main) /\ \A q \in Queue : WF_vars(MsgRcv(q)) /\ WF_vars(Write(q))

-----------------------------------------------------------------------------
\* Nothing is lost, doubled or reordered on the way from a sender to main(), although
\* main() reads other sockets, and more often, than the events it got say.
InOrder == \A q \in Queue : got[q] \o sock[q] \o buf[q] \o queue[q] = sent[q]

\* main() waits in read() on a socket without data.
Stuck == pc = "read" /\ sock[first] = <<>>

\* A message that is too long is next in the queue.
TooLong(q) == queue[q] # <<>> /\ Head(queue[q]) > MAXLINE

=============================================================================
