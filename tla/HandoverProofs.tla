--------------------------- MODULE HandoverProofs ---------------------------
(***************************************************************************)
(* Programs that hand something over: the threads of 01_pollmsg hand       *)
(* messages to main(), and the parent and the child of 14_tell_wait,       *)
(* 02_deadlock and 04_mandatory hand each other the turn.                  *)
(*                                                                         *)
(* For any number of threads, messages and any room in the sockets, every  *)
(* message that is sent to a queue is in one place at a time and in the    *)
(* order in which it was sent, and main() reads it whole.                  *)
(*                                                                         *)
(* For the four programs that take turns with SIGUSR1: nobody passes a     *)
(* wait before the other's tell, the handlers run only inside              *)
(* sigsuspend(), and the locks are refused as the programs are written to  *)
(* show.  The proofs read each program once, as the numbers of its         *)
(* operations (CodeShape), and then argue about those.                     *)
(***************************************************************************)
EXTENDS PollMsg, TellWait, SequenceTheorems, TLAPS

-----------------------------------------------------------------------------
(* Messages. *)

\* What may be sent, and what msgrcv() accepts of it.
Message == 0..(MAXLINE + 1)
Short == 0..MAXLINE

\* A thread that is not about to write holds no message.
BufferInv == \A q \in Queue : thread[q] # "writes" => buf[q] = <<>>

\* The types; only the queues and the senders know messages that are too long.
PollType ==
  /\ queue \in [Queue -> Seq(Message)] /\ sent \in [Queue -> Seq(Message)]
  /\ buf \in [Queue -> Seq(Short)] /\ sock \in [Queue -> Seq(Short)]
  /\ got \in [Queue -> Seq(Short)]
  /\ thread \in [Queue -> {"receives", "writes", "ended"}]
  /\ first \in Queue

\* No datagram is longer than what read() asks for (01_pollmsg:89): none is cut.
NoneIsCut == \A q \in Queue : sock[q] \in Seq(0..MAXLINE)

\* All messages of a queue, the ones main() has read first.
Path(read, inSocket, inBuffer, inQueue) == read \o inSocket \o inBuffer \o inQueue

\* A message is put behind the others.
Put(s, m) == Append(s, m)

IInv == PollType /\ BufferInv /\ InOrder

-----------------------------------------------------------------------------
\* A message that msgrcv() accepts is a message.
LEMMA ShortSeq == ASSUME NEW s \in Seq(Short) PROVE s \in Seq(Message)
  BY ParametersAssumption DEF Short, Message

\* A sequence is its head and its tail.
LEMMA HeadAndTail ==
  ASSUME NEW S, NEW s \in Seq(S), s # <<>>
  PROVE  <<Head(s)>> \o Tail(s) = s
  OBVIOUS

\* Sending: the message is last in the queue and last of the sent ones.
LEMMA SendKeeps ==
  ASSUME NEW a \in Seq(Message), NEW b \in Seq(Message), NEW c \in Seq(Message),
         NEW d \in Seq(Message), NEW m \in Message
  PROVE  Path(a, b, c, Put(d, m)) = Put(Path(a, b, c, d), m)
<1> DEFINE e == a \o b \o c
<1>1. e \in Seq(Message) /\ <<m>> \in Seq(Message) BY ConcatProperties
<1>2. e \o Append(d, m) = e \o (d \o <<m>>) BY AppendIsConcat
<1>3. e \o (d \o <<m>>) = (e \o d) \o <<m>> BY <1>1, ConcatAssociative, SMTT(30)
<1>4. (e \o d) \o <<m>> = Append(e \o d, m) BY <1>1, ConcatProperties, AppendIsConcat
<1> QED BY <1>2, <1>3, <1>4 DEF Path, Put

\* msgrcv(): the first message of the queue moves into the empty buffer.
LEMMA ReceiveKeeps ==
  ASSUME NEW a \in Seq(Message), NEW b \in Seq(Message), NEW d \in Seq(Message), d # <<>>
  PROVE  Path(a, b, <<Head(d)>>, Tail(d)) = Path(a, b, <<>>, d)
<1> DEFINE e == a \o b
<1>1. e \in Seq(Message) BY ConcatProperties
<1>2. <<Head(d)>> \in Seq(Message) /\ Tail(d) \in Seq(Message) BY HeadTailProperties
<1>3. (e \o <<Head(d)>>) \o Tail(d) = e \o (<<Head(d)>> \o Tail(d))
  BY <1>1, <1>2, ConcatAssociative
<1>4. e \o <<>> = e BY <1>1, ConcatEmptySeq
<1> QED BY <1>3, <1>4, HeadAndTail DEF Path

\* write(): the buffer moves behind what the socket holds.
LEMMA WriteKeeps ==
  ASSUME NEW a \in Seq(Message), NEW b \in Seq(Message), NEW c \in Seq(Message),
         NEW d \in Seq(Message)
  PROVE  Path(a, b \o c, <<>>, d) = Path(a, b, c, d)
<1>1. a \o (b \o c) = a \o b \o c BY ConcatAssociative, SMTT(30)
<1>2. a \o b \o c \in Seq(Message) BY ConcatProperties
<1> QED BY <1>1, <1>2, ConcatEmptySeq DEF Path

\* read(): the first datagram of the socket moves behind what main() has read.
LEMMA ReadKeeps ==
  ASSUME NEW a \in Seq(Message), NEW b \in Seq(Message), NEW c \in Seq(Message),
         NEW d \in Seq(Message),
         b # <<>>
  PROVE  Path(Append(a, Head(b)), Tail(b), c, d) = Path(a, b, c, d)
<1>1. Head(b) \in Message /\ <<Head(b)>> \in Seq(Message) /\ Tail(b) \in Seq(Message)
  BY HeadTailProperties
<1>2. Append(a, Head(b)) \o Tail(b) = (a \o <<Head(b)>>) \o Tail(b) BY <1>1, AppendIsConcat
<1>3. (a \o <<Head(b)>>) \o Tail(b) = a \o (<<Head(b)>> \o Tail(b))
  BY <1>1, ConcatAssociative
<1> QED BY <1>2, <1>3, HeadAndTail DEF Path

-----------------------------------------------------------------------------
\* Nothing has been sent.
LEMMA InitIInv == Init => IInv
<1> SUFFICES ASSUME Init PROVE IInv OBVIOUS
<1>1. PollType BY ParametersAssumption DEF Init, PollType, Queue
<1>2. BufferInv BY DEF Init, BufferInv
<1>3. InOrder BY DEF Init, InOrder
<1> QED BY <1>1, <1>2, <1>3 DEF IInv

\* Every step of main(), of a thread and of a sender preserves the invariant.
LEMMA NextIInv == IInv /\ [Next]_vars => IInv'
<1> SUFFICES ASSUME IInv, [Next]_vars PROVE IInv' OBVIOUS
<1> USE DEF IInv
<1>1. ASSUME NEW q \in Queue, NEW length \in 0..(MAXLINE + 1), Send(q, length) PROVE IInv'
  <2>1. length \in Message BY DEF Message
  <2>2. PollType'
    BY <1>1, <2>1, AppendProperties DEF Send, PollType, mainVars
  <2>3. BufferInv' BY <1>1 DEF Send, BufferInv
  <2>4. InOrder'
    <3> SUFFICES ASSUME NEW p \in Queue
                 PROVE  (Path(got[p], sock[p], buf[p], queue[p]) = sent[p])'
      BY DEF InOrder, Path
    <3>1. /\ got[p] \in Seq(Message) /\ sock[p] \in Seq(Message) /\ buf[p] \in Seq(Message)
          /\ queue[p] \in Seq(Message)
      BY ShortSeq DEF PollType
    <3>2. Path(got[p], sock[p], buf[p], queue[p]) = sent[p] BY DEF InOrder, Path
    <3>3. CASE p = q
      <4>1. queue'[p] = Put(queue[p], length) /\ sent'[p] = Put(sent[p], length)
        BY <1>1, <3>3 DEF Send, PollType, Put
      <4>2. Path(got[p], sock[p], buf[p], Put(queue[p], length)) = Put(sent[p], length)
        BY <2>1, <3>1, <3>2, SendKeeps
      <4> QED BY <1>1, <4>1, <4>2 DEF Send, mainVars
    <3>4. CASE p # q BY <1>1, <3>2, <3>4 DEF Send, mainVars, PollType
    <3> QED BY <3>3, <3>4
  <2> QED BY <2>2, <2>3, <2>4
<1>2. ASSUME NEW q \in Queue, MsgRcv(q) PROVE IInv'
  <2>1. CASE Head(queue[q]) > MAXLINE
    BY <1>2, <2>1 DEF MsgRcv, mainVars, PollType, BufferInv, InOrder, Runs
  <2>2. CASE ~(Head(queue[q]) > MAXLINE)
    <3>1. queue[q] \in Seq(Message) /\ queue[q] # <<>> BY <1>2 DEF MsgRcv, PollType
    <3>2. Head(queue[q]) \in Message /\ Tail(queue[q]) \in Seq(Message)
      BY <3>1, HeadTailProperties
    <3>3. Head(queue[q]) \in Short
      BY <2>2, <3>2, ParametersAssumption DEF Short, Message
    <3>4. buf[q] = <<>> BY <1>2 DEF MsgRcv, Runs, BufferInv
    <3>5. PollType'
      <4>1. <<Head(queue[q])>> \in Seq(Short) BY <3>3
      <4> QED BY <1>2, <2>2, <3>2, <4>1 DEF MsgRcv, mainVars, PollType
    <3>6. BufferInv' BY <1>2, <2>2 DEF MsgRcv, BufferInv, PollType
    <3>7. InOrder'
      <4> SUFFICES ASSUME NEW p \in Queue
                   PROVE  (Path(got[p], sock[p], buf[p], queue[p]) = sent[p])'
        BY DEF InOrder, Path
      <4>1. got[p] \in Seq(Message) /\ sock[p] \in Seq(Message)
        BY ShortSeq DEF PollType
      <4>2. Path(got[p], sock[p], buf[p], queue[p]) = sent[p] BY DEF InOrder, Path
      <4>3. CASE p = q
        <5>1. buf'[p] = <<Head(queue[p])>> /\ queue'[p] = Tail(queue[p])
          BY <1>2, <2>2, <4>3 DEF MsgRcv, PollType
        <5>2. Path(got[p], sock[p], <<Head(queue[p])>>, Tail(queue[p])) = sent[p]
          BY <3>1, <3>4, <4>1, <4>2, <4>3, ReceiveKeeps
        <5> QED BY <1>2, <5>1, <5>2 DEF MsgRcv, mainVars
      <4>4. CASE p # q BY <1>2, <2>2, <4>2, <4>4 DEF MsgRcv, mainVars, PollType
      <4> QED BY <4>3, <4>4
    <3> QED BY <3>5, <3>6, <3>7
  <2> QED BY <2>1, <2>2
<1>3. ASSUME NEW q \in Queue, Write(q) PROVE IInv'
  <2>1. PollType' BY <1>3, ConcatProperties DEF Write, mainVars, PollType
  <2>2. BufferInv' BY <1>3 DEF Write, BufferInv, PollType
  <2>3. InOrder'
    <3> SUFFICES ASSUME NEW p \in Queue
                 PROVE  (Path(got[p], sock[p], buf[p], queue[p]) = sent[p])'
      BY DEF InOrder, Path
    <3>1. /\ got[p] \in Seq(Message) /\ sock[p] \in Seq(Message) /\ buf[p] \in Seq(Message)
          /\ queue[p] \in Seq(Message)
      BY ShortSeq DEF PollType
    <3>2. Path(got[p], sock[p], buf[p], queue[p]) = sent[p] BY DEF InOrder, Path
    <3>3. CASE p = q
      <4>1. sock'[p] = sock[p] \o buf[p] /\ buf'[p] = <<>>
        BY <1>3, <3>3 DEF Write, PollType
      <4>2. Path(got[p], sock[p] \o buf[p], <<>>, queue[p]) = sent[p]
        BY <3>1, <3>2, WriteKeeps
      <4> QED BY <1>3, <4>1, <4>2 DEF Write, mainVars
    <3>4. CASE p # q BY <1>3, <3>2, <3>4 DEF Write, mainVars, PollType
    <3> QED BY <3>3, <3>4
  <2> QED BY <2>1, <2>2, <2>3
<1>4. CASE Read
  <2>1. first \in Queue /\ sock[first] \in Seq(Short) /\ sock[first] # <<>>
    BY <1>4 DEF Read, PollType
  <2>2. Head(sock[first]) \in Short /\ Tail(sock[first]) \in Seq(Short)
    BY <2>1, HeadTailProperties
  <2>3. got' = [got EXCEPT ![first] = Append(@, Head(sock[first]))] BY <1>4 DEF Read
  <2>4. PollType'
    BY <1>4, <2>1, <2>2, <2>3, AppendProperties DEF Read, PollType
  <2>5. BufferInv' BY <1>4 DEF Read, BufferInv
  <2>6. InOrder'
    <3> SUFFICES ASSUME NEW p \in Queue
                 PROVE  (Path(got[p], sock[p], buf[p], queue[p]) = sent[p])'
      BY DEF InOrder, Path
    <3>1. /\ got[p] \in Seq(Message) /\ sock[p] \in Seq(Message) /\ buf[p] \in Seq(Message)
          /\ queue[p] \in Seq(Message)
      BY ShortSeq DEF PollType
    <3>2. Path(got[p], sock[p], buf[p], queue[p]) = sent[p] BY DEF InOrder, Path
    <3>3. CASE p = first
      <4>1. got'[p] = Append(got[p], Head(sock[p])) /\ sock'[p] = Tail(sock[p])
        BY <1>4, <2>3, <3>3 DEF Read, PollType
      <4>2. Path(Append(got[p], Head(sock[p])), Tail(sock[p]), buf[p], queue[p]) = sent[p]
        BY <2>1, <3>1, <3>2, <3>3, ReadKeeps
      <4> QED BY <1>4, <4>1, <4>2 DEF Read
    <3>4. CASE p # first BY <1>4, <2>3, <3>2, <3>4 DEF Read, PollType
    <3> QED BY <3>3, <3>4
  <2> QED BY <2>4, <2>5, <2>6
<1>5. CASE Setup \/ EpollWait \/ LoopTest \/ UNCHANGED vars
  BY <1>5
  DEF Setup, EpollWait, LoopTest, vars, mainVars, Ready, PollType, BufferInv, InOrder
<1> QED BY <1>1, <1>2, <1>3, <1>4, <1>5 DEF Next, Main

-----------------------------------------------------------------------------
\* Nothing is lost, doubled or reordered between a sender and main(), although main()
\* reads other sockets and more often than epoll_wait() said (01_pollmsg:83-92).
THEOREM PollMsgInOrder == Spec => []InOrder
<1>1. Spec => []IInv BY InitIInv, NextIInv, PTL DEF Spec
<1>2. IInv => InOrder BY DEF IInv
<1> QED BY <1>1, <1>2, PTL

\* main() asks read() for MAXLINE bytes and no datagram is longer, because a thread
\* accepts no longer message (01_pollmsg:33,89): main() gets every one whole.
THEOREM PollMsgNoneIsCut == Spec => []NoneIsCut
<1>1. Spec => []IInv BY InitIInv, NextIInv, PTL DEF Spec
<1>2. IInv => NoneIsCut BY DEF IInv, PollType, NoneIsCut, Short
<1> QED BY <1>1, <1>2, PTL

-----------------------------------------------------------------------------
(* Turns. *)

\* How many operations a role of a program has; below, which of them is its tell and
\* which is its wait or its bare sigsuspend() (0: it has none).
Length(p, r) ==
  IF r = "parent" THEN CASE p = "child_first" -> 6 [] p = "parent_first" -> 4
                         [] p = "deadlock" -> 8 [] p = "mandatory" -> 8
                  ELSE CASE p = "child_first" -> 2 [] p = "parent_first" -> 4
                         [] p = "deadlock" -> 6 [] p = "mandatory" -> 5

\* Where it tells the other process.
TellAt(p, r) ==
  IF r = "parent" THEN CASE p = "child_first" -> 0 [] p = "parent_first" -> 3
                         [] p = "deadlock" -> 4 [] p = "mandatory" -> 6
                  ELSE CASE p = "child_first" -> 1 [] p = "parent_first" -> 0
                         [] p = "deadlock" -> 2 [] p = "mandatory" -> 2

\* Where it waits for the other process.
WaitAt(p, r) ==
  IF r = "parent" THEN CASE p = "child_first" -> 3 [] p = "parent_first" -> 0
                         [] p = "deadlock" -> 5 [] p = "mandatory" -> 3
                  ELSE CASE p = "child_first" -> 0 [] p = "parent_first" -> 1
                         [] p = "deadlock" -> 3 [] p = "mandatory" -> 3

\* What is known of operation k of role r of program p.
Shape(p, r, k) ==
  LET o == Code(p, r)[k] IN
  /\ o.op = "exit" <=> k = Length(p, r)
  /\ o.op = "tell_wait" <=> r = "parent" /\ k = 1
  /\ o.op = "fork" <=> r = "parent" /\ k = 2
  /\ o.op = "tell" <=> k = TellAt(p, r)
  /\ o.op \in {"wait", "suspend"} <=> k = WaitAt(p, r)
  /\ o.op = "restore" => 0 < WaitAt(p, r) /\ WaitAt(p, r) < k

\* The operations that lock something, and what.
LockPlace(p, r, k) ==
  \/ p = "deadlock" /\ r = "parent" /\ k \in {3, 7}
  \/ p = "deadlock" /\ r = "child" /\ k \in {1, 5}
  \/ p = "mandatory" /\ r = "parent" /\ k = 5
  \/ p = "mandatory" /\ r = "child" /\ k = 1

\* What is known of the locks in operation k.
LockShape(p, r, k) ==
  LET o == Code(p, r)[k] IN
  /\ o.op = "lock" <=> LockPlace(p, r, k)
  /\ o.op = "lock" =>
       \/ p = "deadlock" /\ r = "parent" /\ k = 3 /\ o.bytes = {1}
       \/ p = "deadlock" /\ r = "parent" /\ k = 7 /\ o.bytes = {0}
       \/ p = "deadlock" /\ r = "child" /\ k = 1 /\ o.bytes = {0}
       \/ p = "deadlock" /\ r = "child" /\ k = 5 /\ o.bytes = {1}
       \/ p = "mandatory" /\ r = "parent" /\ k = 5 /\ o.bytes = Byte
       \/ p = "mandatory" /\ r = "child" /\ k = 1 /\ o.bytes = Byte

-----------------------------------------------------------------------------
\* The operations the programs are made of.
Operation ==
  {Op(name) : name \in {"tell_wait", "fork", "tell", "wait", "suspend", "clear",
                        "restore", "exit"}}
    \cup {Lk({0}), Lk({1}), Lk(Byte)}

\* An operation is what Op or Lk made it.
LEMMA OperationFields ==
  /\ \A name : Op(name).op = name
  /\ \A bytes : Lk(bytes).op = "lock" /\ Lk(bytes).bytes = bytes
  BY DEF Op, Lk

\* The operations of two pieces of a program, one after the other.
LEMMA JoinTwo ==
  ASSUME NEW a \in Seq(Operation), NEW b \in Seq(Operation)
  PROVE  /\ a \o b \in Seq(Operation) /\ Len(a \o b) = Len(a) + Len(b)
         /\ \A k \in 1..Len(a) : (a \o b)[k] = a[k]
         /\ \A k \in (Len(a) + 1)..(Len(a) + Len(b)) : (a \o b)[k] = b[k - Len(a)]
  BY ConcatProperties

\* The same for three pieces.
LEMMA JoinThree ==
  ASSUME NEW a \in Seq(Operation), NEW b \in Seq(Operation), NEW c \in Seq(Operation)
  PROVE  /\ Len(a \o b \o c) = Len(a) + Len(b) + Len(c)
         /\ \A k \in 1..Len(a) : (a \o b \o c)[k] = a[k]
         /\ \A k \in (Len(a) + 1)..(Len(a) + Len(b)) : (a \o b \o c)[k] = b[k - Len(a)]
         /\ \A k \in (Len(a) + Len(b) + 1)..(Len(a) + Len(b) + Len(c)) :
              (a \o b \o c)[k] = c[k - (Len(a) + Len(b))]
<1> DEFINE d == a \o b
<1>1. /\ d \in Seq(Operation) /\ Len(d) = Len(a) + Len(b)
      /\ \A k \in 1..Len(a) : d[k] = a[k]
      /\ \A k \in (Len(a) + 1)..(Len(a) + Len(b)) : d[k] = b[k - Len(a)]
  BY JoinTwo
<1>2. /\ Len(d \o c) = Len(d) + Len(c)
      /\ \A k \in 1..Len(d) : (d \o c)[k] = d[k]
      /\ \A k \in (Len(d) + 1)..(Len(d) + Len(c)) : (d \o c)[k] = c[k - Len(d)]
  BY <1>1, JoinTwo
<1>3. Len(a) \in Nat /\ Len(b) \in Nat /\ Len(c) \in Nat BY LenProperties
<1> HIDE DEF d
<1>4. \A k \in 1..Len(a) : (d \o c)[k] = a[k] BY <1>1, <1>2, <1>3
<1>5. \A k \in (Len(a) + 1)..(Len(a) + Len(b)) : (d \o c)[k] = b[k - Len(a)]
  BY <1>1, <1>2, <1>3
<1>6. /\ Len(d \o c) = Len(a) + Len(b) + Len(c)
      /\ \A k \in (Len(a) + Len(b) + 1)..(Len(a) + Len(b) + Len(c)) :
           (d \o c)[k] = c[k - (Len(a) + Len(b))]
  BY <1>1, <1>2
<1> QED BY <1>4, <1>5, <1>6 DEF d

\* What every program starts and ends with.
LEMMA StartAndEnd ==
  /\ Start \in Seq(Operation) /\ Len(Start) = 2
  /\ Start[1] = Op("tell_wait") /\ Start[2] = Op("fork")
  /\ End \in Seq(Operation) /\ Len(End) = 1 /\ End[1] = Op("exit")
  BY DEF Start, End, Operation

\* The operations of 14_tell_wait with the child first.
LEMMA ChildFirstShape ==
  ASSUME NEW r \in Role
  PROVE  /\ Len(Code("child_first", r)) = Length("child_first", r)
         /\ \A k \in 1..Length("child_first", r) :
              Shape("child_first", r, k) /\ LockShape("child_first", r, k)
<1>1. CASE r = "parent"
  <2> DEFINE b == <<Op("wait"), Op("clear"), Op("restore")>>
             c == Code("child_first", "parent")
  <2>1. c = Start \o b \o End BY DEF Code, TellWaitMain, WaitAndReset
  <2>2. b \in Seq(Operation) /\ Len(b) = 3 BY DEF Operation
  <2>3. /\ b[1] = Op("wait") /\ b[2] = Op("clear") /\ b[3] = Op("restore")
    OBVIOUS
  <2> HIDE DEF b, c
  <2>4. /\ Len(c) = 6 /\ c[1] = Start[1] /\ c[2] = Start[2] /\ c[3] = b[1]
        /\ c[4] = b[2] /\ c[5] = b[3] /\ c[6] = End[1]
    <3>1. /\ Len(c) = Len(Start) + Len(b) + Len(End)
          /\ \A k \in 1..Len(Start) : c[k] = Start[k]
          /\ \A k \in (Len(Start) + 1)..(Len(Start) + Len(b)) : c[k] = b[k - Len(Start)]
          /\ \A k \in (Len(Start) + Len(b) + 1)..(Len(Start) + Len(b) + Len(End)) :
               c[k] = End[k - (Len(Start) + Len(b))]
      BY <2>1, <2>2, StartAndEnd, JoinThree, ZenonT(60)
    <3>2. /\ Len(c) = 6 /\ \A k \in 1..2 : c[k] = Start[k]
          /\ \A k \in 3..5 : c[k] = b[k - 2]
          /\ \A k \in 6..6 : c[k] = End[k - 5]
      BY <2>2, <3>1, StartAndEnd
    <3> QED BY <3>2
  <2>5. /\ c[1] = Op("tell_wait") /\ c[2] = Op("fork") /\ c[3] = Op("wait")
        /\ c[4] = Op("clear") /\ c[5] = Op("restore") /\ c[6] = Op("exit")
    BY <2>3, <2>4, StartAndEnd
  <2>6. /\ c[1].op = "tell_wait" /\ c[2].op = "fork" /\ c[3].op = "wait"
        /\ c[4].op = "clear" /\ c[5].op = "restore" /\ c[6].op = "exit"
    BY <2>5, OperationFields
  <2>7. /\ Length("child_first", "parent") = 6 /\ TellAt("child_first", "parent") = 0
        /\ WaitAt("child_first", "parent") = 3
    BY DEF Length, TellAt, WaitAt
  <2>8. \A k \in 1..6 : Shape("child_first", "parent", k) BY <2>6, <2>7 DEF Shape, c
  <2>9. \A k \in 1..6 : LockShape("child_first", "parent", k) BY <2>6 DEF LockShape, LockPlace, c
  <2> QED BY <1>1, <2>4, <2>7, <2>8, <2>9 DEF c
<1>2. CASE r = "child"
  <2> DEFINE b == <<Op("tell")>>
             c == Code("child_first", "child")
  <2>1. c = b \o End BY DEF Code, TellWaitMain, WaitAndReset
  <2>2. b \in Seq(Operation) /\ Len(b) = 1 BY DEF Operation
  <2>3. /\ b[1] = Op("tell")
    OBVIOUS
  <2> HIDE DEF b, c
  <2>4. /\ Len(c) = 2 /\ c[1] = b[1] /\ c[2] = End[1]
    <3>1. /\ Len(c) = Len(b) + Len(End)
          /\ \A k \in 1..Len(b) : c[k] = b[k]
          /\ \A k \in (Len(b) + 1)..(Len(b) + Len(End)) : c[k] = End[k - Len(b)]
      BY <2>1, <2>2, StartAndEnd, JoinTwo
    <3>2. /\ Len(c) = 2 /\ \A k \in 1..1 : c[k] = b[k]
          /\ \A k \in 2..2 : c[k] = End[k - 1]
      BY <2>2, <3>1, StartAndEnd
    <3> QED BY <3>2
  <2>5. /\ c[1] = Op("tell") /\ c[2] = Op("exit")
    BY <2>3, <2>4, StartAndEnd
  <2>6. /\ c[1].op = "tell" /\ c[2].op = "exit"
    BY <2>5, OperationFields
  <2>7. /\ Length("child_first", "child") = 2 /\ TellAt("child_first", "child") = 1
        /\ WaitAt("child_first", "child") = 0
    BY DEF Length, TellAt, WaitAt
  <2>8. \A k \in 1..2 : Shape("child_first", "child", k) BY <2>6, <2>7 DEF Shape, c
  <2>9. \A k \in 1..2 : LockShape("child_first", "child", k) BY <2>6 DEF LockShape, LockPlace, c
  <2> QED BY <1>2, <2>4, <2>7, <2>8, <2>9 DEF c
<1> QED BY <1>1, <1>2 DEF Role

\* The operations of 14_tell_wait with the parent first.
LEMMA ParentFirstShape ==
  ASSUME NEW r \in Role
  PROVE  /\ Len(Code("parent_first", r)) = Length("parent_first", r)
         /\ \A k \in 1..Length("parent_first", r) :
              Shape("parent_first", r, k) /\ LockShape("parent_first", r, k)
<1>1. CASE r = "parent"
  <2> DEFINE b == <<Op("tell")>>
             c == Code("parent_first", "parent")
  <2>1. c = Start \o b \o End BY DEF Code, TellWaitMain, WaitAndReset
  <2>2. b \in Seq(Operation) /\ Len(b) = 1 BY DEF Operation
  <2>3. /\ b[1] = Op("tell")
    OBVIOUS
  <2> HIDE DEF b, c
  <2>4. /\ Len(c) = 4 /\ c[1] = Start[1] /\ c[2] = Start[2] /\ c[3] = b[1]
        /\ c[4] = End[1]
    <3>1. /\ Len(c) = Len(Start) + Len(b) + Len(End)
          /\ \A k \in 1..Len(Start) : c[k] = Start[k]
          /\ \A k \in (Len(Start) + 1)..(Len(Start) + Len(b)) : c[k] = b[k - Len(Start)]
          /\ \A k \in (Len(Start) + Len(b) + 1)..(Len(Start) + Len(b) + Len(End)) :
               c[k] = End[k - (Len(Start) + Len(b))]
      BY <2>1, <2>2, StartAndEnd, JoinThree, ZenonT(60)
    <3>2. /\ Len(c) = 4 /\ \A k \in 1..2 : c[k] = Start[k]
          /\ \A k \in 3..3 : c[k] = b[k - 2]
          /\ \A k \in 4..4 : c[k] = End[k - 3]
      BY <2>2, <3>1, StartAndEnd
    <3> QED BY <3>2
  <2>5. /\ c[1] = Op("tell_wait") /\ c[2] = Op("fork") /\ c[3] = Op("tell")
        /\ c[4] = Op("exit")
    BY <2>3, <2>4, StartAndEnd
  <2>6. /\ c[1].op = "tell_wait" /\ c[2].op = "fork" /\ c[3].op = "tell"
        /\ c[4].op = "exit"
    BY <2>5, OperationFields
  <2>7. /\ Length("parent_first", "parent") = 4 /\ TellAt("parent_first", "parent") = 3
        /\ WaitAt("parent_first", "parent") = 0
    BY DEF Length, TellAt, WaitAt
  <2>8. \A k \in 1..4 : Shape("parent_first", "parent", k) BY <2>6, <2>7 DEF Shape, c
  <2>9. \A k \in 1..4 : LockShape("parent_first", "parent", k) BY <2>6 DEF LockShape, LockPlace, c
  <2> QED BY <1>1, <2>4, <2>7, <2>8, <2>9 DEF c
<1>2. CASE r = "child"
  <2> DEFINE b == <<Op("wait"), Op("clear"), Op("restore")>>
             c == Code("parent_first", "child")
  <2>1. c = b \o End BY DEF Code, TellWaitMain, WaitAndReset
  <2>2. b \in Seq(Operation) /\ Len(b) = 3 BY DEF Operation
  <2>3. /\ b[1] = Op("wait") /\ b[2] = Op("clear") /\ b[3] = Op("restore")
    OBVIOUS
  <2> HIDE DEF b, c
  <2>4. /\ Len(c) = 4 /\ c[1] = b[1] /\ c[2] = b[2] /\ c[3] = b[3] /\ c[4] = End[1]
    <3>1. /\ Len(c) = Len(b) + Len(End)
          /\ \A k \in 1..Len(b) : c[k] = b[k]
          /\ \A k \in (Len(b) + 1)..(Len(b) + Len(End)) : c[k] = End[k - Len(b)]
      BY <2>1, <2>2, StartAndEnd, JoinTwo
    <3>2. /\ Len(c) = 4 /\ \A k \in 1..3 : c[k] = b[k]
          /\ \A k \in 4..4 : c[k] = End[k - 3]
      BY <2>2, <3>1, StartAndEnd
    <3> QED BY <3>2
  <2>5. /\ c[1] = Op("wait") /\ c[2] = Op("clear") /\ c[3] = Op("restore")
        /\ c[4] = Op("exit")
    BY <2>3, <2>4, StartAndEnd
  <2>6. /\ c[1].op = "wait" /\ c[2].op = "clear" /\ c[3].op = "restore"
        /\ c[4].op = "exit"
    BY <2>5, OperationFields
  <2>7. /\ Length("parent_first", "child") = 4 /\ TellAt("parent_first", "child") = 0
        /\ WaitAt("parent_first", "child") = 1
    BY DEF Length, TellAt, WaitAt
  <2>8. \A k \in 1..4 : Shape("parent_first", "child", k) BY <2>6, <2>7 DEF Shape, c
  <2>9. \A k \in 1..4 : LockShape("parent_first", "child", k) BY <2>6 DEF LockShape, LockPlace, c
  <2> QED BY <1>2, <2>4, <2>7, <2>8, <2>9 DEF c
<1> QED BY <1>1, <1>2 DEF Role

\* The operations of 02_deadlock.
LEMMA DeadlockShape ==
  ASSUME NEW r \in Role
  PROVE  /\ Len(Code("deadlock", r)) = Length("deadlock", r)
         /\ \A k \in 1..Length("deadlock", r) :
              Shape("deadlock", r, k) /\ LockShape("deadlock", r, k)
<1>1. CASE r = "parent"
  <2> DEFINE b == <<Lk({1}), Op("tell"), Op("wait"), Op("restore"), Lk({0})>>
             c == Code("deadlock", "parent")
  <2>1. c = Start \o b \o End BY DEF Code, DeadlockMain
  <2>2. b \in Seq(Operation) /\ Len(b) = 5 BY DEF Operation
  <2>3. /\ b[1] = Lk({1}) /\ b[2] = Op("tell") /\ b[3] = Op("wait")
        /\ b[4] = Op("restore") /\ b[5] = Lk({0})
    OBVIOUS
  <2> HIDE DEF b, c
  <2>4. /\ Len(c) = 8 /\ c[1] = Start[1] /\ c[2] = Start[2] /\ c[3] = b[1]
        /\ c[4] = b[2] /\ c[5] = b[3] /\ c[6] = b[4] /\ c[7] = b[5] /\ c[8] = End[1]
    <3>1. /\ Len(c) = Len(Start) + Len(b) + Len(End)
          /\ \A k \in 1..Len(Start) : c[k] = Start[k]
          /\ \A k \in (Len(Start) + 1)..(Len(Start) + Len(b)) : c[k] = b[k - Len(Start)]
          /\ \A k \in (Len(Start) + Len(b) + 1)..(Len(Start) + Len(b) + Len(End)) :
               c[k] = End[k - (Len(Start) + Len(b))]
      BY <2>1, <2>2, StartAndEnd, JoinThree, ZenonT(60)
    <3>2. /\ Len(c) = 8 /\ \A k \in 1..2 : c[k] = Start[k]
          /\ \A k \in 3..7 : c[k] = b[k - 2]
          /\ \A k \in 8..8 : c[k] = End[k - 7]
      BY <2>2, <3>1, StartAndEnd
    <3> QED BY <3>2
  <2>5. /\ c[1] = Op("tell_wait") /\ c[2] = Op("fork") /\ c[3] = Lk({1})
        /\ c[4] = Op("tell") /\ c[5] = Op("wait") /\ c[6] = Op("restore")
        /\ c[7] = Lk({0}) /\ c[8] = Op("exit")
    BY <2>3, <2>4, StartAndEnd
  <2>6. /\ c[1].op = "tell_wait" /\ c[2].op = "fork" /\ c[3].op = "lock"
        /\ c[4].op = "tell" /\ c[5].op = "wait" /\ c[6].op = "restore"
        /\ c[7].op = "lock" /\ c[8].op = "exit" /\ c[3].bytes = {1} /\ c[7].bytes = {0}
    BY <2>5, OperationFields
  <2>7. /\ Length("deadlock", "parent") = 8 /\ TellAt("deadlock", "parent") = 4
        /\ WaitAt("deadlock", "parent") = 5
    BY DEF Length, TellAt, WaitAt
  <2>8. \A k \in 1..8 : Shape("deadlock", "parent", k) BY <2>6, <2>7 DEF Shape, c
  <2>9. \A k \in 1..8 : LockShape("deadlock", "parent", k) BY <2>6 DEF LockShape, LockPlace, c
  <2> QED BY <1>1, <2>4, <2>7, <2>8, <2>9 DEF c
<1>2. CASE r = "child"
  <2> DEFINE b == <<Lk({0}), Op("tell"), Op("wait"), Op("restore"), Lk({1})>>
             c == Code("deadlock", "child")
  <2>1. c = b \o End BY DEF Code, DeadlockMain
  <2>2. b \in Seq(Operation) /\ Len(b) = 5 BY DEF Operation
  <2>3. /\ b[1] = Lk({0}) /\ b[2] = Op("tell") /\ b[3] = Op("wait")
        /\ b[4] = Op("restore") /\ b[5] = Lk({1})
    OBVIOUS
  <2> HIDE DEF b, c
  <2>4. /\ Len(c) = 6 /\ c[1] = b[1] /\ c[2] = b[2] /\ c[3] = b[3] /\ c[4] = b[4]
        /\ c[5] = b[5] /\ c[6] = End[1]
    <3>1. /\ Len(c) = Len(b) + Len(End)
          /\ \A k \in 1..Len(b) : c[k] = b[k]
          /\ \A k \in (Len(b) + 1)..(Len(b) + Len(End)) : c[k] = End[k - Len(b)]
      BY <2>1, <2>2, StartAndEnd, JoinTwo
    <3>2. /\ Len(c) = 6 /\ \A k \in 1..5 : c[k] = b[k]
          /\ \A k \in 6..6 : c[k] = End[k - 5]
      BY <2>2, <3>1, StartAndEnd
    <3> QED BY <3>2
  <2>5. /\ c[1] = Lk({0}) /\ c[2] = Op("tell") /\ c[3] = Op("wait")
        /\ c[4] = Op("restore") /\ c[5] = Lk({1}) /\ c[6] = Op("exit")
    BY <2>3, <2>4, StartAndEnd
  <2>6. /\ c[1].op = "lock" /\ c[2].op = "tell" /\ c[3].op = "wait"
        /\ c[4].op = "restore" /\ c[5].op = "lock" /\ c[6].op = "exit"
        /\ c[1].bytes = {0} /\ c[5].bytes = {1}
    BY <2>5, OperationFields
  <2>7. /\ Length("deadlock", "child") = 6 /\ TellAt("deadlock", "child") = 2
        /\ WaitAt("deadlock", "child") = 3
    BY DEF Length, TellAt, WaitAt
  <2>8. \A k \in 1..6 : Shape("deadlock", "child", k) BY <2>6, <2>7 DEF Shape, c
  <2>9. \A k \in 1..6 : LockShape("deadlock", "child", k) BY <2>6 DEF LockShape, LockPlace, c
  <2> QED BY <1>2, <2>4, <2>7, <2>8, <2>9 DEF c
<1> QED BY <1>1, <1>2 DEF Role

\* The operations of 04_mandatory.
LEMMA MandatoryShape ==
  ASSUME NEW r \in Role
  PROVE  /\ Len(Code("mandatory", r)) = Length("mandatory", r)
         /\ \A k \in 1..Length("mandatory", r) :
              Shape("mandatory", r, k) /\ LockShape("mandatory", r, k)
<1>1. CASE r = "parent"
  <2> DEFINE b == <<Op("wait"), Op("clear"), Lk(Byte), Op("tell"), Op("restore")>>
             c == Code("mandatory", "parent")
  <2>1. c = Start \o b \o End BY DEF Code, MandatoryMain
  <2>2. b \in Seq(Operation) /\ Len(b) = 5 BY DEF Operation
  <2>3. /\ b[1] = Op("wait") /\ b[2] = Op("clear") /\ b[3] = Lk(Byte)
        /\ b[4] = Op("tell") /\ b[5] = Op("restore")
    OBVIOUS
  <2> HIDE DEF b, c
  <2>4. /\ Len(c) = 8 /\ c[1] = Start[1] /\ c[2] = Start[2] /\ c[3] = b[1]
        /\ c[4] = b[2] /\ c[5] = b[3] /\ c[6] = b[4] /\ c[7] = b[5] /\ c[8] = End[1]
    <3>1. /\ Len(c) = Len(Start) + Len(b) + Len(End)
          /\ \A k \in 1..Len(Start) : c[k] = Start[k]
          /\ \A k \in (Len(Start) + 1)..(Len(Start) + Len(b)) : c[k] = b[k - Len(Start)]
          /\ \A k \in (Len(Start) + Len(b) + 1)..(Len(Start) + Len(b) + Len(End)) :
               c[k] = End[k - (Len(Start) + Len(b))]
      BY <2>1, <2>2, StartAndEnd, JoinThree, ZenonT(60)
    <3>2. /\ Len(c) = 8 /\ \A k \in 1..2 : c[k] = Start[k]
          /\ \A k \in 3..7 : c[k] = b[k - 2]
          /\ \A k \in 8..8 : c[k] = End[k - 7]
      BY <2>2, <3>1, StartAndEnd
    <3> QED BY <3>2
  <2>5. /\ c[1] = Op("tell_wait") /\ c[2] = Op("fork") /\ c[3] = Op("wait")
        /\ c[4] = Op("clear") /\ c[5] = Lk(Byte) /\ c[6] = Op("tell")
        /\ c[7] = Op("restore") /\ c[8] = Op("exit")
    BY <2>3, <2>4, StartAndEnd
  <2>6. /\ c[1].op = "tell_wait" /\ c[2].op = "fork" /\ c[3].op = "wait"
        /\ c[4].op = "clear" /\ c[5].op = "lock" /\ c[6].op = "tell"
        /\ c[7].op = "restore" /\ c[8].op = "exit" /\ c[5].bytes = Byte
    BY <2>5, OperationFields
  <2>7. /\ Length("mandatory", "parent") = 8 /\ TellAt("mandatory", "parent") = 6
        /\ WaitAt("mandatory", "parent") = 3
    BY DEF Length, TellAt, WaitAt
  <2>8. \A k \in 1..8 : Shape("mandatory", "parent", k) BY <2>6, <2>7 DEF Shape, c
  <2>9. \A k \in 1..8 : LockShape("mandatory", "parent", k) BY <2>6 DEF LockShape, LockPlace, c
  <2> QED BY <1>1, <2>4, <2>7, <2>8, <2>9 DEF c
<1>2. CASE r = "child"
  <2> DEFINE b == <<Lk(Byte), Op("tell"), Op("suspend"), Op("restore")>>
             c == Code("mandatory", "child")
  <2>1. c = b \o End BY DEF Code, MandatoryMain
  <2>2. b \in Seq(Operation) /\ Len(b) = 4 BY DEF Operation
  <2>3. /\ b[1] = Lk(Byte) /\ b[2] = Op("tell") /\ b[3] = Op("suspend")
        /\ b[4] = Op("restore")
    OBVIOUS
  <2> HIDE DEF b, c
  <2>4. /\ Len(c) = 5 /\ c[1] = b[1] /\ c[2] = b[2] /\ c[3] = b[3] /\ c[4] = b[4]
        /\ c[5] = End[1]
    <3>1. /\ Len(c) = Len(b) + Len(End)
          /\ \A k \in 1..Len(b) : c[k] = b[k]
          /\ \A k \in (Len(b) + 1)..(Len(b) + Len(End)) : c[k] = End[k - Len(b)]
      BY <2>1, <2>2, StartAndEnd, JoinTwo
    <3>2. /\ Len(c) = 5 /\ \A k \in 1..4 : c[k] = b[k]
          /\ \A k \in 5..5 : c[k] = End[k - 4]
      BY <2>2, <3>1, StartAndEnd
    <3> QED BY <3>2
  <2>5. /\ c[1] = Lk(Byte) /\ c[2] = Op("tell") /\ c[3] = Op("suspend")
        /\ c[4] = Op("restore") /\ c[5] = Op("exit")
    BY <2>3, <2>4, StartAndEnd
  <2>6. /\ c[1].op = "lock" /\ c[2].op = "tell" /\ c[3].op = "suspend"
        /\ c[4].op = "restore" /\ c[5].op = "exit" /\ c[1].bytes = Byte
    BY <2>5, OperationFields
  <2>7. /\ Length("mandatory", "child") = 5 /\ TellAt("mandatory", "child") = 2
        /\ WaitAt("mandatory", "child") = 3
    BY DEF Length, TellAt, WaitAt
  <2>8. \A k \in 1..5 : Shape("mandatory", "child", k) BY <2>6, <2>7 DEF Shape, c
  <2>9. \A k \in 1..5 : LockShape("mandatory", "child", k) BY <2>6 DEF LockShape, LockPlace, c
  <2> QED BY <1>2, <2>4, <2>7, <2>8, <2>9 DEF c
<1> QED BY <1>1, <1>2 DEF Role

\* Every role of every program: the numbers above are those of its operations.
LEMMA CodeShape ==
  ASSUME NEW p \in Program, NEW r \in Role
  PROVE  /\ Len(Code(p, r)) = Length(p, r)
         /\ \A k \in 1..Length(p, r) : Shape(p, r, k) /\ LockShape(p, r, k)
  BY ChildFirstShape, ParentFirstShape, DeadlockShape, MandatoryShape DEF Program

\* The tell and the wait come before the exit, and in the parent after fork().
TurnsOrdered(p, r) ==
  /\ Length(p, r) \in Nat /\ TellAt(p, r) \in Nat /\ WaitAt(p, r) \in Nat
  /\ TellAt(p, r) < Length(p, r) /\ WaitAt(p, r) < Length(p, r)
  /\ 1 < Length(p, r)
  /\ r = "parent" => /\ 2 < Length(p, r)
                     /\ TellAt(p, r) = 0 \/ 2 < TellAt(p, r)
                     /\ WaitAt(p, r) = 0 \/ 2 < WaitAt(p, r)

\* The numbers are in this order.
LEMMA Numbers == ASSUME NEW p \in Program, NEW r \in Role PROVE TurnsOrdered(p, r)
  BY DEF Program, Role, Length, TellAt, WaitAt, TurnsOrdered

-----------------------------------------------------------------------------
\* r has passed its tell, its wait.
PastTell(r) == 0 < TellAt(prog, r) /\ TellAt(prog, r) < place[r]
PastWait(r) == 0 < WaitAt(prog, r) /\ WaitAt(prog, r) < place[r]
PastExit(r) == place[r] = Length(prog, r) + 1

\* The types; pc is a function.
TurnsTyped ==
  /\ prog \in Program /\ old \in BOOLEAN
  /\ place \in [Role -> Nat] /\ \A r \in Role : place[r] <= Length(prog, r) + 1
  /\ step \in [Role -> {"run", "checked", "suspended"}]
  /\ blocked \in [Role -> BOOLEAN] /\ pending \in [Role -> BOOLEAN]
  /\ flag \in [Role -> {0, 1}]
  /\ holds \in [Role -> SUBSET Byte]

\* There is no child before fork(), nor after it when it failed.
Forked ==
  /\ place["parent"] > 0
  /\ place["parent"] <= 2 => place["child"] = 0
  /\ place["child"] = 0 => place["parent"] <= 2 \/ PastExit("parent")

\* A signal is sent once, by the tell of the other process, and delivered once; the
\* wait has consumed it.
SignalInv ==
  \A r \in Role :
    /\ pending[r] \/ flag[r] = 1 => PastTell(Peer(r))
    /\ flag[r] = 1 => ~pending[r]
    /\ PastWait(r) => ~pending[r] /\ (PastTell(Peer(r)) \/ place["child"] = 0)

\* SIGUSR1 is unblocked only before tell_wait() and after the wait; there may be no
\* child yet.
MaskInv ==
  \A r \in Role :
    blocked[r] \/ place[r] = 0 \/ (r = "parent" /\ place[r] = 1) \/ PastWait(r)

\* 02_deadlock: each process has its own byte from its first lock until it exits, and
\* not the other's before its second.
DeadlockInv ==
  prog = "deadlock" =>
    /\ place["parent"] <= 7 => holds["parent"] \subseteq {1}
    /\ place["child"] <= 5 => holds["child"] \subseteq {0}
    /\ 3 < place["parent"] /\ place["parent"] <= 8 => 1 \in holds["parent"]
    /\ 1 < place["child"] /\ place["child"] <= 6 => 0 \in holds["child"]

\* 04_mandatory: the child has the file from its lock until it exits.
MandatoryInv ==
  prog = "mandatory" =>
    /\ holds["parent"] = {}
    /\ 1 < place["child"] /\ place["child"] <= 5 => holds["child"] = Byte

TurnsTaken == Forked /\ SignalInv /\ MaskInv
TurnsIInv == TurnsTyped /\ TurnsTaken /\ DeadlockInv /\ MandatoryInv

-----------------------------------------------------------------------------
\* What it means that a process is at an operation.
Where(r) ==
  /\ Alive(r) <=> 0 < place[r] /\ place[r] <= Length(prog, r)
  /\ Gone(r) <=> PastExit(r)
  /\ At(r, "tell_wait") => r = "parent" /\ place[r] = 1
  /\ At(r, "fork") => r = "parent" /\ place[r] = 2
  /\ At(r, "tell") => place[r] = TellAt(prog, r)
  /\ At(r, "tell") \/ At(r, "lock") \/ At(r, "clear") \/ At(r, "restore") =>
       place[r] # WaitAt(prog, r) /\ (r = "parent" => 2 < place[r])
  /\ At(r, "wait") \/ At(r, "suspend") => place[r] = WaitAt(prog, r)
  /\ At(r, "restore") => 0 < WaitAt(prog, r) /\ WaitAt(prog, r) < place[r]
  /\ At(r, "exit") => place[r] = Length(prog, r)
  /\ Alive(r) => LockShape(prog, r, place[r])

\* The operations have these places.
LEMMA AtOperation == ASSUME TurnsTyped, NEW r \in Role PROVE Where(r)
<1>1. Len(Code(prog, r)) = Length(prog, r) BY CodeShape DEF TurnsTyped
<1>2. /\ Alive(r) <=> 0 < place[r] /\ place[r] <= Length(prog, r)
      /\ Gone(r) <=> PastExit(r)
  BY <1>1, Numbers DEF TurnsOrdered, TurnsTyped, Alive, Gone, PastExit
<1>3. Alive(r) => Shape(prog, r, place[r]) /\ LockShape(prog, r, place[r])
  BY <1>2, CodeShape, Numbers DEF TurnsOrdered, TurnsTyped
<1> QED BY <1>2, <1>3, Numbers DEF TurnsOrdered, TurnsTyped, At, Current, Shape, Where

\* The two processes are each other's peers.
LEMMA Peers ==
  /\ Role = {"parent", "child"} /\ Peer("parent") = "child" /\ Peer("child") = "parent"
  /\ \A r \in Role : Peer(r) \in Role /\ Peer(r) # r
  BY DEF Role, Peer

\* Before fork() nobody has sent a signal.
LEMMA TurnsInitIInv == TurnsInit => TurnsIInv
<1> SUFFICES ASSUME TurnsInit PROVE TurnsIInv OBVIOUS
<1>1. TurnsTyped BY Numbers, Peers DEF TurnsOrdered, TurnsInit, TurnsTyped
<1>2. Forked BY Peers DEF TurnsInit, Forked
<1>3. SignalInv /\ MaskInv
  BY Numbers, Peers DEF TurnsOrdered, TurnsInit, SignalInv, MaskInv, PastTell, PastWait
<1>4. DeadlockInv /\ MandatoryInv BY Peers DEF TurnsInit, DeadlockInv, MandatoryInv
<1> QED BY <1>1, <1>2, <1>3, <1>4 DEF TurnsIInv, TurnsTaken

\* Every step of either process and every delivery keeps the types.
LEMMA NextTyped ==
  ASSUME TurnsIInv, NEW r \in Role, Run(r) \/ Deliver(r)
  PROVE  TurnsTyped'
<1>1. /\ Where(r) /\ TurnsOrdered(prog, r) /\ TurnsOrdered(prog, Peer(r))
      /\ Len(Code(prog, r)) = Length(prog, r)
  BY AtOperation, Numbers, Peers, CodeShape DEF TurnsIInv, TurnsTyped
<1> USE <1>1, Peers DEF TurnsIInv, TurnsTyped, Where, TurnsOrdered, Advance, sigVars
<1>2. CASE TellWait(r) BY <1>2 DEF TellWait
<1>3. CASE Fork(r) BY <1>3 DEF Fork
<1>4. CASE ForkFails(r) \/ Exit(r) BY <1>4 DEF ForkFails, Exit, Leave
<1>5. CASE Lock(r)
  <2>1. Current(r).bytes \subseteq Byte BY <1>5, SMTT(30) DEF Lock, At, Current, LockShape, Byte
  <2> QED BY <1>5, <2>1 DEF Lock, At
<1>6. CASE Tell(r) BY <1>6 DEF Tell, At
<1>7. CASE CheckFlag(r) BY <1>7 DEF CheckFlag, At
<1>8. CASE Suspend(r) BY <1>8 DEF Suspend
<1>9. CASE Deliver(r) BY <1>9 DEF Deliver
<1>10. CASE ClearFlag(r) BY <1>10 DEF ClearFlag, At
<1>11. CASE RestoreMask(r) BY <1>11 DEF RestoreMask, At
<1> QED
  BY <1>2, <1>3, <1>4, <1>5, <1>6, <1>7, <1>8, <1>9, <1>10, <1>11 DEF Run

\* Every step of either process and every delivery keeps the order of fork(), tell and
\* wait: a tell comes once, a wait is passed only on the signal of a tell, and the
\* mask is restored only after the wait.
LEMMA NextTurn ==
  ASSUME TurnsIInv, NEW r \in Role, Run(r) \/ Deliver(r), TurnsTyped'
  PROVE  TurnsTaken'
<1>1. Where(r) /\ Where(Peer(r)) /\ Len(Code(prog, r)) = Length(prog, r)
  BY AtOperation, Peers, CodeShape DEF TurnsIInv, TurnsTyped
<1>2. TurnsOrdered(prog, "parent") /\ TurnsOrdered(prog, "child") BY Numbers, Peers DEF TurnsIInv, TurnsTyped
<1> USE <1>1, <1>2, Peers
    DEF TurnsIInv, TurnsTaken, TurnsTyped, Forked, SignalInv, MaskInv, PastTell, PastWait,
        PastExit, Advance, sigVars, Where, TurnsOrdered
<1>3. CASE TellWait(r) BY <1>3 DEF TellWait
<1>4. CASE Fork(r) BY <1>4 DEF Fork
<1>5. CASE ForkFails(r) BY <1>5 DEF ForkFails, Leave
<1>6. CASE Exit(r) BY <1>6 DEF Exit, Leave
<1>7. CASE Lock(r) BY <1>7 DEF Lock, At
<1>8. CASE Tell(r)
  <2>1. Forked' BY <1>8 DEF Tell, At
  <2>2. place["child"] # 0 BY <1>8 DEF Tell, At
  <2>3. flag[Peer(r)] # 1 /\ ~PastWait(Peer(r)) BY <1>8, <2>2 DEF Tell
  <2>4. SignalInv' BY <1>8, <2>2, <2>3, SMTT(30) DEF Tell
  <2>5. MaskInv' BY <1>8 DEF Tell, At
  <2> QED BY <2>1, <2>4, <2>5
<1>9. CASE CheckFlag(r)
  <2>1. CASE flag[r] = 1
    <3>1. Forked' BY <1>9, <2>1 DEF CheckFlag, At
    <3>2. SignalInv' BY <1>9, <2>1, SMTT(30) DEF CheckFlag, At
    <3>3. MaskInv' BY <1>9, <2>1 DEF CheckFlag, At
    <3> QED BY <3>1, <3>2, <3>3
  <2>2. CASE flag[r] # 1 BY <1>9, <2>2 DEF CheckFlag
  <2> QED BY <2>1, <2>2
<1>10. CASE Suspend(r) BY <1>10 DEF Suspend
<1>11. CASE Deliver(r) BY <1>11, SMTT(30) DEF Deliver
<1>12. CASE ClearFlag(r) BY <1>12, SMTT(30) DEF ClearFlag, At
<1>13. CASE RestoreMask(r) BY <1>13 DEF RestoreMask
<1> QED
  BY <1>3, <1>4, <1>5, <1>6, <1>7, <1>8, <1>9, <1>10, <1>11, <1>12, <1>13 DEF Run

\* Where the two processes of 02_deadlock and 04_mandatory are when one takes a lock.
LockTurn(r) ==
  /\ prog = "deadlock" /\ r = "parent" =>
       \/ place[r] = 3 /\ Current(r).bytes = {1} /\ place["child"] <= 3
       \/ place[r] = 7 /\ Current(r).bytes = {0} /\ 2 < place["child"]
  /\ prog = "deadlock" /\ r = "child" =>
       \/ place[r] = 1 /\ Current(r).bytes = {0} /\ place["parent"] <= 5
       \/ place[r] = 5 /\ Current(r).bytes = {1} /\ 4 < place["parent"]
  /\ prog = "mandatory" =>
       /\ Current(r).bytes = Byte
       /\ r = "parent" => place["child"] = 3
       /\ r = "child" => place[r] = 1

\* The turns decide who can be where: a second lock comes after the other's tell, and
\* a first lock before the other's wait is over.
LEMMA LockInTurn == ASSUME TurnsIInv, NEW r \in Role, Lock(r) PROVE LockTurn(r)
<1>1. Where(r) /\ Where(Peer(r)) BY AtOperation, Peers DEF TurnsIInv, TurnsTyped
<1>2. LockShape(prog, r, place[r]) /\ Current(r).op = "lock" /\ place[r] # 0
  BY <1>1 DEF Lock, At, Where, Alive, TurnsIInv, TurnsTyped
<1>3. /\ place \in [Role -> Nat] /\ Peer(r) \in Role
      /\ PastWait("parent") => PastTell("child") \/ place["child"] = 0
      /\ PastWait("child") => PastTell("parent") \/ place["child"] = 0
  BY Peers DEF TurnsIInv, TurnsTyped, TurnsTaken, SignalInv
<1>4. place["child"] = 0 => place["parent"] <= 2 \/ PastExit("parent")
  BY DEF TurnsIInv, TurnsTaken, Forked
<1>5. CASE prog = "deadlock"
  <2>1. /\ TellAt(prog, "parent") = 4 /\ WaitAt(prog, "parent") = 5 /\ Length(prog, "parent") = 8
        /\ TellAt(prog, "child") = 2 /\ WaitAt(prog, "child") = 3
    BY <1>5 DEF TellAt, WaitAt, Length
  <2>2. CASE r = "parent"
    <3>1. \/ place[r] = 3 /\ Current(r).bytes = {1}
          \/ place[r] = 7 /\ Current(r).bytes = {0}
      BY <1>2, <1>5, <2>2 DEF LockShape, Current
    <3>2. place["child"] # 0 BY <1>4, <2>1, <2>2, <3>1 DEF PastExit
    <3>3. place[r] = 3 => place["child"] <= 3
      BY <1>3, <2>1, <2>2, <3>2, Peers DEF PastWait, PastTell
    <3>4. place[r] = 7 => 2 < place["child"]
      BY <1>3, <2>1, <2>2, <3>2, Peers DEF PastWait, PastTell
    <3> QED BY <1>5, <2>2, <3>1, <3>3, <3>4 DEF LockTurn
  <2>3. CASE r = "child"
    <3>1. \/ place[r] = 1 /\ Current(r).bytes = {0}
          \/ place[r] = 5 /\ Current(r).bytes = {1}
      BY <1>2, <1>5, <2>3 DEF LockShape, Current
    <3>2. place[r] = 1 => place["parent"] <= 5
      BY <1>3, <2>1, <2>3, Peers DEF PastWait, PastTell
    <3>3. place[r] = 5 => 4 < place["parent"]
      BY <1>3, <2>1, <2>3, Peers DEF PastWait, PastTell
    <3> QED BY <1>5, <2>3, <3>1, <3>2, <3>3 DEF LockTurn
  <2> QED BY <2>2, <2>3, Peers
<1>6. CASE prog = "mandatory"
  <2>1. /\ TellAt(prog, "parent") = 6 /\ WaitAt(prog, "parent") = 3 /\ Length(prog, "parent") = 8
        /\ TellAt(prog, "child") = 2 /\ WaitAt(prog, "child") = 3
    BY <1>6 DEF TellAt, WaitAt, Length
  <2>2. /\ Current(r).bytes = Byte
        /\ r = "parent" => place[r] = 5
        /\ r = "child" => place[r] = 1
    BY <1>2, <1>6 DEF LockShape, Current
  <2>3. r = "parent" => place["child"] # 0 BY <1>4, <2>1, <2>2 DEF PastExit
  <2>4. r = "parent" => place["child"] = 3
    BY <1>3, <2>1, <2>2, <2>3, Peers DEF PastWait, PastTell
  <2> QED BY <1>6, <2>2, <2>4 DEF LockTurn
<1> QED BY <1>5, <1>6 DEF LockTurn

\* Every step keeps what is known of the locks of 02_deadlock and 04_mandatory.
LEMMA NextLocks ==
  ASSUME TurnsIInv, NEW r \in Role, Run(r) \/ Deliver(r)
  PROVE  (DeadlockInv /\ MandatoryInv)'
<1>1. Where(r) /\ Len(Code(prog, r)) = Length(prog, r)
  BY AtOperation, CodeShape DEF TurnsIInv, TurnsTyped
<1>2. /\ prog = "deadlock" => Length(prog, "parent") = 8 /\ Length(prog, "child") = 6
      /\ prog = "mandatory" => Length(prog, "parent") = 8 /\ Length(prog, "child") = 5
  BY DEF Length
<1>3. /\ prog' = prog /\ place \in [Role -> Nat] /\ holds \in [Role -> SUBSET Byte]
      /\ DeadlockInv /\ MandatoryInv
  BY DEF TurnsIInv, TurnsTyped, Run, TellWait, Fork, ForkFails, Lock, Tell, CheckFlag,
     Suspend, Deliver, ClearFlag, RestoreMask, Exit
<1> USE <1>3, Peers DEF DeadlockInv, MandatoryInv, Advance, sigVars
<1>4. CASE TellWait(r) BY <1>1, <1>4 DEF TellWait, Where
<1>5. CASE Fork(r)
  <2>1. r = "parent" /\ place["parent"] = 2 /\ place["child"] = 0
    BY <1>1, <1>5 DEF Fork, Where, TurnsIInv, TurnsTaken, Forked
  <2> QED BY <1>5, <2>1 DEF Fork
<1>6. CASE ForkFails(r) BY <1>1, <1>2, <1>6 DEF ForkFails, Leave
<1>7. CASE Exit(r) BY <1>1, <1>2, <1>7 DEF Exit, Leave
<1>8. CASE Lock(r)
  <2>1. LockTurn(r) BY <1>8, LockInTurn
  <2>2. CASE r = "parent" BY <1>8, <2>1, <2>2 DEF Lock, LockTurn, Byte
  <2>3. CASE r = "child" BY <1>8, <2>1, <2>3 DEF Lock, LockTurn, Byte
  <2> QED BY <2>2, <2>3
<1>9. Current(r).op # "lock" /\ Alive(r) => ~LockPlace(prog, r, place[r])
  BY <1>1 DEF Where, LockShape, Current
<1>10. CASE Tell(r) BY <1>9, <1>10 DEF Tell, At, LockPlace
<1>11. CASE CheckFlag(r) BY <1>9, <1>11 DEF CheckFlag, At, LockPlace
<1>12. CASE Suspend(r) BY <1>12 DEF Suspend
<1>13. CASE Deliver(r) BY <1>9, <1>13 DEF Deliver, At, LockPlace
<1>14. CASE ClearFlag(r) BY <1>9, <1>14 DEF ClearFlag, At, LockPlace
<1>15. CASE RestoreMask(r) BY <1>9, <1>15 DEF RestoreMask, At, LockPlace
<1> QED
  BY <1>4, <1>5, <1>6, <1>7, <1>8, <1>10, <1>11, <1>12, <1>13, <1>14, <1>15 DEF Run

\* The invariant is inductive.
LEMMA TurnsNextIInv == TurnsIInv /\ [TurnsNext]_turnsVars => TurnsIInv'
<1> SUFFICES ASSUME TurnsIInv, [TurnsNext]_turnsVars PROVE TurnsIInv' OBVIOUS
<1>1. CASE UNCHANGED turnsVars
  BY <1>1
  DEF turnsVars, TurnsIInv, TurnsTyped, TurnsTaken, Forked, SignalInv, MaskInv, DeadlockInv,
      MandatoryInv, PastTell, PastWait, PastExit
<1>2. ASSUME NEW r \in Role, Run(r) \/ Deliver(r) PROVE TurnsIInv'
  BY <1>2, NextTyped, NextTurn, NextLocks DEF TurnsIInv
<1> QED BY <1>1, <1>2 DEF TurnsNext

\* The invariant holds of every behaviour.
LEMMA TurnsInvariant == TurnsSpec => []TurnsIInv
  BY TurnsInitIInv, TurnsNextIInv, PTL DEF TurnsSpec

-----------------------------------------------------------------------------
\* The types of the variables; no process runs past its exit.
THEOREM TellWaitTypeCorrect == TurnsSpec => []TypeOK
<1>1. TurnsIInv => TypeOK BY CodeShape, Numbers DEF TurnsIInv, TurnsTyped, TypeOK, TurnsOrdered
<1> QED BY <1>1, TurnsInvariant, PTL

\* A wait is over only after the other's tell: a signal is pending or its flag set only
\* because of that tell (14_tell_wait:29,39, 02_deadlock:77, 04_mandatory:36,78).
THEOREM TellWaitWaitsForTheTell == TurnsSpec => []WaitsForTheTell
<1>1. ASSUME TurnsIInv PROVE WaitsForTheTell
  <2> SUFFICES ASSUME NEW r \in Role, NEW k \in 1..(place[r] - 1),
                      Code(prog, r)[k].op \in {"wait", "suspend"}
               PROVE  Told(Peer(r)) \/ place["child"] = 0
    BY DEF WaitsForTheTell
  <2>1. /\ prog \in Program /\ \A q \in Role : place[q] \in Nat /\ place[q] <= Length(prog, q) + 1
        /\ \A q \in Role : Length(prog, q) \in Nat /\ TellAt(prog, q) \in Nat
    BY <1>1, Numbers DEF TurnsIInv, TurnsTyped, TurnsOrdered
  <2>2. k \in 1..Length(prog, r) BY <2>1
  <2>3. k = WaitAt(prog, r) BY <2>1, <2>2, CodeShape DEF Shape
  <2>4. PastWait(r) BY <2>1, <2>3 DEF PastWait
  <2>5. PastTell(Peer(r)) \/ place["child"] = 0 BY <1>1, <2>4 DEF TurnsIInv, TurnsTaken, SignalInv
  <2>6. ASSUME NEW q \in Role, PastTell(q) PROVE Told(q)
    <3>1. TellAt(prog, q) \in 1..Length(prog, q) /\ TellAt(prog, q) \in 1..(place[q] - 1)
      BY <2>1, <2>6 DEF PastTell
    <3>2. Code(prog, q)[TellAt(prog, q)].op = "tell" BY <2>1, <3>1, CodeShape DEF Shape
    <3> QED BY <3>1, <3>2 DEF Told
  <2> QED BY <2>5, <2>6, Peers
<1> QED BY <1>1, TurnsInvariant, PTL

\* The handlers run only inside sigsuspend(): while a signal is pending and the process
\* is not in sigsuspend(), SIGUSR1 is blocked.
THEOREM TellWaitHandlerOnlyInSuspend == TurnsSpec => HandlerOnlyInSuspend
<1> DEFINE InSuspend == \A r \in Role : pending[r] /\ ~pending'[r] => step[r] = "suspended"
<1>1. ASSUME TurnsIInv, NEW r \in Role, Run(r) \/ Deliver(r) PROVE InSuspend
  <2>1. pending \in [Role -> BOOLEAN] BY <1>1 DEF TurnsIInv, TurnsTyped
  <2>2. CASE Deliver(r)
    <3>1. ASSUME step[r] # "suspended" PROVE FALSE
      <4>1. Alive(r) /\ pending[r] /\ ~blocked[r] BY <2>2, <3>1 DEF Deliver
      <4>2. 0 < place[r] /\ place[r] \in Nat
        BY <1>1, <4>1, AtOperation DEF TurnsIInv, Where, TurnsTyped
      <4>3. ~PastWait(r) /\ PastTell(Peer(r)) BY <1>1, <4>1 DEF TurnsIInv, TurnsTaken, SignalInv
      <4>4. r = "parent" /\ place[r] = 1 BY <1>1, <4>1, <4>2, <4>3 DEF TurnsIInv, TurnsTaken, MaskInv
      <4>5. place["child"] = 0 BY <1>1, <4>4 DEF TurnsIInv, TurnsTaken, Forked
      <4>6. TellAt(prog, "child") \in Nat
        BY <1>1, Numbers, Peers DEF TurnsIInv, TurnsTyped, TurnsOrdered
      <4> QED BY <4>3, <4>4, <4>5, <4>6, Peers DEF PastTell
    <3>2. \A q \in Role : q # r => pending'[q] = pending[q] BY <2>1, <2>2 DEF Deliver
    <3> QED BY <3>1, <3>2
  <2>3. CASE Tell(r) BY <2>1, <2>3, Peers DEF Tell
  <2>4. CASE Run(r) /\ ~Tell(r)
    BY <2>4
    DEF Run, TellWait, Fork, ForkFails, Lock, CheckFlag, Suspend, ClearFlag, RestoreMask,
        Exit, sigVars
  <2> QED BY <1>1, <2>2, <2>3, <2>4
<1>2. TurnsIInv /\ [TurnsNext]_turnsVars => [InSuspend]_turnsVars BY <1>1 DEF TurnsNext
<1> QED BY <1>2, TurnsInvariant, PTL DEF TurnsSpec, HandlerOnlyInSuspend

\* In 02_deadlock nobody gets the other's byte before the other has exited, and in
\* 04_mandatory the parent is always refused.
THEOREM TellWaitLocksRefused == TurnsSpec => LocksRefused
<1> DEFINE Refused ==
      /\ prog = "deadlock" =>
           \A r \in Role : holds'[r] = Byte /\ holds[r] # Byte => Gone(Peer(r))
      /\ prog = "mandatory" => holds'["parent"] = {}
<1>1. ASSUME TurnsIInv, NEW r \in Role, Run(r) \/ Deliver(r) PROVE Refused
  <2>1. ASSUME prog = "mandatory" PROVE holds'["parent"] = {}
    <3>1. prog' = prog
      BY <1>1
      DEF Run, TellWait, Fork, ForkFails, Lock, Tell, CheckFlag, Suspend, Deliver, ClearFlag,
          RestoreMask, Exit
    <3> QED BY <1>1, <2>1, <3>1, NextLocks DEF MandatoryInv
  <2>2. ASSUME prog = "deadlock", NEW q \in Role, holds'[q] = Byte, holds[q] # Byte
        PROVE  Gone(Peer(q))
    <3>1. holds \in [Role -> SUBSET Byte] BY <1>1 DEF TurnsIInv, TurnsTyped
    <3>2. Lock(r) /\ q = r
      BY <1>1, <2>2, <3>1
      DEF Run, TellWait, Fork, ForkFails, Leave, Lock, Tell, CheckFlag, Suspend, Deliver,
          ClearFlag, RestoreMask, Exit, Byte
    <3>3. LockTurn(r) BY <1>1, <3>2, LockInTurn
    <3>4. holds[Peer(r)] \cap Current(r).bytes = {}
      BY <2>2, <3>2 DEF Lock
    <3>5. holds'[r] = holds[r] \cup Current(r).bytes BY <3>1, <3>2, <3>4 DEF Lock
    <3>6. DeadlockInv /\ TurnsTyped BY <1>1 DEF TurnsIInv
    <3>7. Length(prog, "parent") = 8 /\ Length(prog, "child") = 6 BY <2>2 DEF Length
    <3>8. CASE r = "parent"
      <4>1. place[r] = 7 /\ 0 \notin holds["child"] /\ 2 < place["child"]
        BY <2>2, <3>2, <3>3, <3>4, <3>5, <3>6, <3>8, Peers DEF LockTurn, DeadlockInv, Byte
      <4>2. PastExit("child")
        BY <2>2, <3>6, <3>7, <4>1, Peers DEF DeadlockInv, TurnsTyped, PastExit
      <4> QED BY <3>2, <3>6, <3>8, <4>2, AtOperation, Peers DEF Where
    <3>9. CASE r = "child"
      <4>1. place[r] = 5 /\ 1 \notin holds["parent"] /\ 4 < place["parent"]
        BY <2>2, <3>2, <3>3, <3>4, <3>5, <3>6, <3>9, Peers DEF LockTurn, DeadlockInv, Byte
      <4>2. PastExit("parent")
        BY <2>2, <3>6, <3>7, <4>1, Peers DEF DeadlockInv, TurnsTyped, PastExit
      <4> QED BY <3>2, <3>6, <3>9, <4>2, AtOperation, Peers DEF Where
    <3> QED BY <3>8, <3>9, Peers
  <2> QED BY <2>1, <2>2
<1>2. TurnsIInv /\ [TurnsNext]_turnsVars => [Refused]_turnsVars BY <1>1 DEF TurnsNext
<1> QED BY <1>2, TurnsInvariant, PTL DEF TurnsSpec, LocksRefused
=============================================================================
