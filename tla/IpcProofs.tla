----------------------------- MODULE IpcProofs ------------------------------
(***************************************************************************)
(* The sixteen pairs of communicating programs, started and killed any     *)
(* number of times: two programs are never in the critical section of one  *)
(* semaphore, what a program uses is what the other one sent, and which    *)
(* crashes there can be without a kill.                                    *)
(*                                                                         *)
(* The inductive invariant (IInv) has a part for each way of communicating *)
(* (semaphores, shared memory, what is on its way) and, while nobody is    *)
(* killed, one for each pair that can read the end of a file or be killed  *)
(* by SIGPIPE.  The proofs look at the text of a program only in lemmas    *)
(* named ...Code, ...Steps or the like, which go through all pairs.        *)
(***************************************************************************)
EXTENDS Ipc, SequenceTheorems, TLAPS

-----------------------------------------------------------------------------
(* The inductive invariant. *)

\* The two directions of a connection, and the ends that a process may hold.
Direction == {"toA", "toB"}
End == {"r", "w"} \X Direction \X (1..MaxRuns)

\* A process, all connections, an object.
Process ==
  [pc : Nat, runs : 0..MaxRuns, ref : Nat, adj : Int, cur : 0..MaxRuns, ends : SUBSET End,
   got : Proc \cup {Nil}, crash : {Nil, "SIGSEGV", "SIGBUS", "SIGPIPE"}]

Channels == [1..MaxRuns -> [Direction -> Seq(Proc)]]

Object ==
  [q : Seq(Proc), val : Int, text : Proc \cup {Nil}, sized : BOOLEAN, alive : BOOLEAN, open : BOOLEAN]

\* The types; a process that runs is at one of its calls and was started.
IpcType ==
  /\ pair \in Pair /\ root \in BOOLEAN
  /\ proc \in [Proc -> Process]
  /\ \A p \in Proc : proc[p].pc # 0 => proc[p].pc \in DOMAIN Code(pair, p) /\ proc[p].runs # 0
  /\ obj \in Seq(Object) /\ name \in Nat
  /\ chan \in Channels
  /\ backlog \in Seq(1..MaxRuns)
  /\ faults \subseteq {"killed", "lost", "exec", "file", "popen"}

\* The pairs that share an object.
Sharing == SysV \cup {"posixmq", "posixsem", "posixshm", "mmap", "unnamed"}

\* A process refers to objects that were made, and has one after its first call.
RefInv ==
  pair \in Sharing =>
    /\ name <= Len(obj)
    /\ \A p \in Proc : /\ proc[p].ref <= Len(obj)
                       /\ proc[p].pc # 0 /\ Here(p).op # "get" => proc[p].ref # 0

\* The pairs with semaphores, and the call with which a program takes one.
Semaphores == {"svsem", "posixsem", "unnamed"}
TakesAt(p) == IF p = "A" /\ pair # "posixsem" THEN 3 ELSE 2
Holds(p) == proc[p].pc \in {TakesAt(p) + 1, TakesAt(p) + 2}

\* A semaphore is 1 or has one holder, or neither: a removed one may be lost.
SemValues ==
  \A r \in DOMAIN obj :
    /\ obj[r].val \in {0, 1}
    /\ \A p \in Proc : Holds(p) /\ proc[p].ref = r => obj[r].val = 0
    /\ ~(Holds("A") /\ Holds("B") /\ proc["A"].ref = r /\ proc["B"].ref = r)

\* 14_svsem_1 posts the initial 1 on a semaphore that is 0 and has no holder.
SemFirst ==
  pair = "svsem" /\ proc["A"].pc = 2 =>
    obj[proc["A"].ref].val = 0 /\ ~(Holds("B") /\ proc["B"].ref = proc["A"].ref)

\* What SEM_UNDO will do is what the process owes: 15_svsem_2 what it took, 14_svsem_1
\* the initial 1 that it put there and has not taken.
SemAdjusts ==
  /\ proc["A"].adj = IF pair = "svsem" /\ proc["A"].pc \in {3, 6, 7, 8} THEN -1 ELSE 0
  /\ proc["B"].adj = IF pair = "svsem" /\ Holds("B") THEN 1 ELSE 0

\* The invariant of the semaphores.
SemInv == pair \in Semaphores => SemValues /\ SemFirst /\ SemAdjusts

\* The pairs with shared memory, and the program that writes there.
Memory == {"svshm", "posixshm", "mmap"}
Writer == IF pair = "posixshm" THEN "B" ELSE "A"

\* Shared memory holds what the writer of the pair put there; the segment of the key,
\* and the one 16_svshm_1 is about to attach or use, have not been removed.
ShmInv ==
  pair \in Memory =>
    /\ \A r \in DOMAIN obj :
         obj[r].text \in {Nil, Writer} /\ (pair # "posixshm" => obj[r].sized /\ obj[r].open)
    /\ pair = "svshm" => /\ name # 0 => obj[name].alive
                         /\ proc["A"].pc \in 2..5 => obj[proc["A"].ref].alive

\* What is on its way to a process was sent by the other one; with one FIFO for both
\* directions this is not so.
ChanInv ==
  pair # "fifo" =>
    \A k \in 1..MaxRuns : chan[k]["toA"] \in Seq({"B"}) /\ chan[k]["toB"] \in Seq({"A"})

\* Nobody was killed so far.
KillFree == "killed" \notin faults

\* Only connections wait to be accepted.
QueueInv == pair \notin {"tcp", "uniquecon", "sendfd"} => backlog = <<>>

\* pipe and tellwait: the writer, until it has written, has a reader; the reader waits
\* for a message or for a writer that has not written yet.
OneWayInv(w, before, r, waiting, d) ==
  /\ proc["A"].pc = 1 => proc["B"].pc = 0
  /\ proc["B"].pc # 0 => proc["A"].runs # 0
  /\ chan[1][d] # <<>> => proc["A"].runs # 0 /\ proc["A"].pc # 1 /\ proc[w].pc \notin before
  /\ proc[w].pc \in before =>
       /\ proc[r].pc \in waiting
       /\ proc[w].cur = 1 /\ <<"w", d, 1>> \in proc[w].ends
  /\ proc[r].pc \in waiting =>
       /\ proc[r].cur = 1 /\ <<"r", d, 1>> \in proc[r].ends
       /\ chan[1][d] # <<>> \/ proc[w].pc \in before

PipeInv == KillFree /\ pair = "pipe" => OneWayInv("A", {2, 3}, "B", {1, 2}, "toB")
TellInv == KillFree /\ pair = "tellwait" => OneWayInv("B", {1, 2, 3}, "A", {2, 3}, "toA")

\* The two programs of the coprocess hold both pipes as long as the child runs, and one
\* line is on its way exactly when the child waits for the answer.  A parent that is still
\* itself has no 08_add2, and closed its own reader of the pipe it prints to.
CoprocessInv ==
  KillFree /\ pair = "coprocess" =>
    /\ proc["A"].pc = 1 => proc["B"].pc = 0
    /\ proc["B"].pc # 0 =>
         /\ proc["A"].runs # 0 /\ proc["A"].pc \in 2..8 /\ proc["B"].cur = 1
         /\ {<<"r", "toA", 1>>, <<"w", "toB", 1>>} \subseteq proc["A"].ends
         /\ {<<"w", "toA", 1>>, <<"r", "toB", 1>>} \subseteq proc["B"].ends
    /\ proc["A"].pc > 1 => proc["A"].cur = 1
    /\ proc["A"].pc > 2 => <<"r", "toB", 1>> \notin proc["A"].ends
    /\ proc["A"].pc \in {8, 9} => "exec" \in faults
    /\ proc["B"].pc = 0 => proc["B"].ends = {}
    /\ proc["B"].pc # 4 => /\ chan[1]["toA"] = <<>> /\ chan[1]["toB"] = <<>>
                           /\ proc["A"].pc \notin {5, 6}
    /\ chan[1]["toA"] # <<>> => chan[1]["toA"] = <<"B">> /\ chan[1]["toB"] = <<>>
                                /\ proc["A"].pc \notin {5, 6}
    /\ chan[1]["toB"] # <<>> => chan[1]["toB"] = <<"A">> /\ proc["A"].pc \notin {5, 6}

\* The ends of the FIFO that a program holds: r and w are the calls at which it does.
FifoEnds(pc, r, w) ==
  (IF pc \in r THEN {<<"r", "toA", 1>>} ELSE {}) \cup (IF pc \in w THEN {<<"w", "toA", 1>>} ELSE {})

\* The two programs of the FIFO go through their phases together.
FifoInv ==
  KillFree /\ pair = "fifo" =>
    LET a == proc["A"].pc
        b == proc["B"].pc
    IN /\ proc["A"].ends = FifoEnds(a, 2..5, 7..9) /\ (a > 1 => proc["A"].cur = 1)
       /\ proc["B"].ends = FifoEnds(b, 6..9, 2..4) /\ (b > 1 => proc["B"].cur = 1)
       /\ \/ a \in {0, 1, 2, 9} /\ b \in {0, 1, 2, 7, 8, 9} /\ ~(a = 2 /\ b = 2)
          \/ a = 3 /\ b \in 3..6
          \/ a \in 4..7 /\ b \in 4..6 /\ ~(a = 7 /\ b = 6)
          \/ a = 8 /\ b = 7
       /\ chan[1]["toA"] = IF a = 3 /\ b \in 4..6 THEN <<"B">>
                           ELSE IF b = 7 /\ a # 8 THEN <<"A">> ELSE <<>>

\* Something was written to a connection, or its client is about to.
Served(k) == chan[k]["toA"] # <<>> \/ (proc["B"].pc = 2 /\ proc["B"].runs = k)

\* The connections were made in order, the last one by the client's last run.
InOrder(j) ==
  /\ backlog[j] <= proc["B"].runs /\ (proc["B"].pc = 1 => backlog[j] < proc["B"].runs)
  /\ proc["A"].pc = 3 => proc["A"].cur < backlog[j]
  /\ \A h \in 1..(j - 1) : backlog[h] < backlog[j]

\* A client of uniquecon has its server, and the server a message or a client that has
\* not written yet on every connection; a connection is made and accepted once.
UniqueConInv ==
  KillFree /\ pair = "uniquecon" =>
    /\ name # 0 => proc["A"].pc > 1
    /\ proc["B"].pc = 2 =>
         /\ proc["B"].cur = proc["B"].runs
         /\ <<"r", "toA", proc["B"].runs>> \in proc["A"].ends
         /\ <<"w", "toA", proc["B"].runs>> \in proc["B"].ends
    /\ proc["A"].pc = 3 =>
         /\ proc["A"].cur # 0 /\ Served(proc["A"].cur)
         /\ proc["A"].cur <= proc["B"].runs /\ (proc["B"].pc = 1 => proc["A"].cur < proc["B"].runs)
    /\ \A j \in DOMAIN backlog : Served(backlog[j]) /\ InOrder(j)
    /\ proc["A"].pc \in {0, 1} => backlog = <<>> /\ proc["B"].pc # 2

\* The client of sendfd waits for a server that has its connection in the backlog or in
\* hand, for the descriptor that was sent, or for nothing: its connection was reset, or
\* the server has failed to make the file.
SendFdInv ==
  KillFree /\ pair = "sendfd" =>
    LET k == proc["B"].cur IN
    /\ proc["A"].pc \in {3, 4} => proc["B"].pc = 2 /\ k = proc["A"].cur /\ k # 0 /\ backlog = <<>>
    /\ name # 0 => proc["A"].pc > 1
    /\ backlog # <<>> => /\ proc["A"].pc > 1 /\ proc["B"].pc = 2 /\ k # 0 /\ backlog = <<k>>
    /\ proc["A"].pc \in {3, 4} \/ backlog # <<>> => chan[k]["toB"] = <<>>
    /\ \A m \in 1..MaxRuns : chan[m]["toB"] # <<>> =>
         m <= proc["B"].runs /\ (proc["B"].pc = 1 => m < proc["B"].runs)
    /\ proc["B"].pc = 2 /\ k # 0 =>
         /\ k = proc["B"].runs /\ <<"r", "toB", k>> \in proc["B"].ends
         /\ proc["A"].pc \in {3, 4} \/ backlog # <<>> => <<"w", "toB", k>> \in proc["A"].ends
         /\ chan[k]["toB"] # <<>> \/ proc["A"].pc \in {3, 4} \/ backlog # <<>> \/ "file" \in faults

\* The inductive invariant.
IInv ==
  /\ IpcType /\ RefInv /\ SemInv /\ ShmInv /\ ChanInv /\ QueueInv
  /\ PipeInv /\ TellInv /\ CoprocessInv /\ FifoInv /\ UniqueConInv /\ SendFdInv
  /\ UsesTheOthers /\ CrashExplained

-----------------------------------------------------------------------------
\* All calls.
Calls == {"get", "snd", "rcv", "wait", "post", "attach", "size", "poke", "peek", "remove", "unlink",
          "fork", "close", "write", "read", "open", "partner", "listen", "connect", "accept", "send",
          "recv", "recvfrom", "sendto", "exec", "file", "popen", "reap", "input", "nap", "use",
          "goto", "exit"}

\* A call is followed by another one, unless it ends the program or jumps.
WellFormed(code) ==
  /\ 1 \in DOMAIN code
  /\ \A k \in DOMAIN code :
    /\ k \in Nat /\ (k > 1 => k - 1 \in DOMAIN code)
    /\ code[k].op \in Calls /\ code[k].to \in Nat
    /\ code[k].op \notin {"exit", "goto"} => k + 1 \in DOMAIN code
    /\ code[k].op = "open" => k + 2 \in DOMAIN code /\ code[k].x \in {"r", "w"}
    /\ code[k].op \in {"read", "write"} => code[k].x \in Direction
    /\ code[k].op \in {"read", "goto", "input", "exec"} => code[k].to \in DOMAIN code

\* Which program is which, for the pairs that share an object.
LEMMA CodeIs ==
  /\ Code("svmsg", "A") = SvMsgServer /\ Code("svmsg", "B") = SvMsgClient
  /\ Code("posixmq", "A") = PosixMq1 /\ Code("posixmq", "B") = PosixMq2
  /\ Code("svsem", "A") = SvSem1 /\ Code("svsem", "B") = SvSem2
  /\ Code("posixsem", "A") = PosixSem1 /\ Code("posixsem", "B") = PosixSem2
  /\ Code("unnamed", "A") = Unnamed("A") /\ Code("unnamed", "B") = Unnamed("B")
  /\ Code("svshm", "A") = SvShm1 /\ Code("svshm", "B") = SvShm2
  /\ Code("posixshm", "A") = PosixShm1 /\ Code("posixshm", "B") = PosixShm2
  /\ Code("mmap", "A") = Mmap("A") /\ Code("mmap", "B") = Mmap("B")
  BY DEF Code

\* Which program is which, for the other pairs.
LEMMA CodeIs2 ==
  /\ Code("pipe", "A") = Pipe("A") /\ Code("pipe", "B") = Pipe("B")
  /\ Code("tellwait", "A") = TellWait("A") /\ Code("tellwait", "B") = TellWait("B")
  /\ Code("coprocess", "A") = Coprocess("A") /\ Code("coprocess", "B") = Coprocess("B")
  /\ Code("fifo", "A") = Fifo1 /\ Code("fifo", "B") = Fifo2
  /\ Code("tcp", "A") = TcpServer /\ Code("tcp", "B") = TcpClient
  /\ Code("udp", "A") = UdpServer /\ Code("udp", "B") = UdpClient
  /\ Code("uniquecon", "A") = UniqueConServer /\ Code("uniquecon", "B") = UniqueConClient
  /\ Code("sendfd", "A") = SendFdServer /\ Code("sendfd", "B") = SendFdClient
  BY DEF Code

\* Three sequences in a row.
LEMMA InOnePiece ==
  ASSUME NEW a, NEW b, NEW c, NEW d, NEW e, NEW f, NEW g, NEW h, NEW i, NEW j
  PROVE  <<a, b, c>> \o <<d, e, f, g>> \o <<h, i, j>> = <<a, b, c, d, e, f, g, h, i, j>>
<1> DEFINE w == <<a, b, c>> \o <<d, e, f, g>> \o <<h, i, j>>
           v == <<a, b, c, d, e, f, g, h, i, j>>
           S == {a, b, c, d, e, f, g, h, i, j}
<1>1. w \in Seq(S) /\ v \in Seq(S) /\ Len(w) = Len(v) /\ Len(v) = 10 OBVIOUS
<1>2. /\ v[1] = a /\ v[2] = b /\ v[3] = c /\ v[4] = d /\ v[5] = e /\ v[6] = f /\ v[7] = g
      /\ v[8] = h /\ v[9] = i /\ v[10] = j
  OBVIOUS
<1>3. /\ w[1] = a /\ w[2] = b /\ w[3] = c /\ w[4] = d /\ w[5] = e /\ w[6] = f /\ w[7] = g
      /\ w[8] = h /\ w[9] = i /\ w[10] = j
  OBVIOUS
<1> HIDE DEF w, v, S
<1>4. \A k \in 1..10 : w[k] = v[k] BY <1>2, <1>3
<1>5. w = v BY <1>1, <1>4, SeqEqual
<1> QED BY <1>5 DEF w, v

\* The program of the coprocess in one piece.
LEMMA CoprocessIs ==
  Coprocess("A") =
    <<Op("fork"), On("close", {<<"r", "toB">>, <<"w", "toA">>}), To("exec", Nil, 8),
      To("read", "toA", 10), Op("use"), On("write", "toB"), To("goto", Nil, 4), Op("reap"), On("write", "toB"), Op("exit")>>
<1>1. Coprocess("A") =
        <<Op("fork"), On("close", {<<"r", "toB">>, <<"w", "toA">>}), To("exec", Nil, 8)>>
          \o <<To("read", "toA", 10), Op("use"), On("write", "toB"), To("goto", Nil, 4)>>
          \o <<Op("reap"), On("write", "toB"), Op("exit")>>
  BY DEF Coprocess, Add2
<1> QED BY <1>1, InOnePiece

\* All programs are well formed.
LEMMA CodeWellFormed == \A r \in Pair, p \in Proc : WellFormed(Code(r, p))
<1> USE DEF WellFormed, Calls, Op, On, To, Direction
<1>1. WellFormed(SvMsgServer) /\ WellFormed(SvMsgClient) BY DEF SvMsgServer, SvMsgClient
<1>2. WellFormed(PosixMq1) /\ WellFormed(PosixMq2) BY DEF PosixMq1, PosixMq2
<1>3. WellFormed(SvSem1) /\ WellFormed(SvSem2) BY DEF SvSem1, SvSem2
<1>4. WellFormed(PosixSem1) /\ WellFormed(PosixSem2) BY DEF PosixSem1, PosixSem2
<1>5. WellFormed(Unnamed("A")) /\ WellFormed(Unnamed("B")) BY DEF Unnamed
<1>6. WellFormed(SvShm1) /\ WellFormed(SvShm2) BY DEF SvShm1, SvShm2
<1>7. WellFormed(PosixShm1) /\ WellFormed(PosixShm2) BY DEF PosixShm1, PosixShm2
<1>8. WellFormed(Mmap("A")) /\ WellFormed(Mmap("B")) BY DEF Mmap
<1>9. WellFormed(Pipe("A")) /\ WellFormed(Pipe("B")) BY DEF Pipe
<1>10. WellFormed(TellWait("A")) /\ WellFormed(TellWait("B")) BY DEF TellWait
<1>11. WellFormed(Coprocess("A")) /\ WellFormed(Coprocess("B"))
  <2>1. WellFormed(Coprocess("A")) BY CoprocessIs
  <2>2. WellFormed(Coprocess("B")) BY SMTT(20) DEF Coprocess
  <2> QED BY <2>1, <2>2
<1>12. WellFormed(Fifo1) /\ WellFormed(Fifo2) BY DEF Fifo1, Fifo2
<1>13. WellFormed(TcpServer) /\ WellFormed(TcpClient) BY DEF TcpServer, TcpClient
<1>14. WellFormed(UdpServer) /\ WellFormed(UdpClient) BY DEF UdpServer, UdpClient
<1>15. WellFormed(UniqueConServer) /\ WellFormed(UniqueConClient)
  BY DEF UniqueConServer, UniqueConClient
<1>16. WellFormed(SendFdServer) /\ WellFormed(SendFdClient) BY DEF SendFdServer, SendFdClient
<1> HIDE DEF WellFormed
<1> QED
  BY CodeIs, CodeIs2, <1>1, <1>2, <1>3, <1>4, <1>5, <1>6, <1>7, <1>8, <1>9, <1>10, <1>11,
     <1>12, <1>13, <1>14, <1>15, <1>16
  DEF Pair, SysV, Forking, Socket, Proc

\* What a process does next is what its next call says.
LEMMA Dispatch ==
  ASSUME NEW p \in Proc, Step(p)
  PROVE  /\ proc[p].pc # 0
         /\ LET op == Here(p).op IN
            /\ op = "get" => Get(p)
            /\ op = "snd" => Snd(p) \/ GiveUp(p)
            /\ op = "rcv" => Rcv(p) \/ GiveUp(p)
            /\ op = "wait" => Wait(p) \/ GiveUp(p)
            /\ op = "post" => Post(p) \/ GiveUp(p)
            /\ op = "attach" => Attach(p)
            /\ op = "size" => Size(p)
            /\ op = "poke" => Poke(p)
            /\ op = "peek" => Peek(p)
            /\ op \in {"remove", "unlink"} => Remove(p)
            /\ op = "fork" => Fork(p)
            /\ op = "close" => Close(p)
            /\ op = "write" => Write(p)
            /\ op = "read" => Read(p)
            /\ op = "open" => Open(p)
            /\ op # "partner"
            /\ op = "listen" => Listen(p)
            /\ op = "connect" => Connect(p)
            /\ op = "accept" => Accept(p)
            /\ op = "send" => Send(p)
            /\ op = "recv" => Recv(p)
            /\ op = "recvfrom" => RecvFrom(p)
            /\ op = "sendto" => SendTo(p)
            /\ op = "exec" => Exec(p)
            /\ op = "file" => File(p)
            /\ op = "popen" => Popen(p)
            /\ op = "reap" => Reap(p)
            /\ op = "input" => Input(p)
            /\ op \in {"nap", "use", "goto"} => Pass(p)
            /\ op = "exit" => Exit(p)
<1> DEFINE op == Here(p).op
<1>1. Get(p) => proc[p].pc # 0 /\ op = "get" BY DEF Get, At
<1>2. GiveUp(p) => proc[p].pc # 0 /\ op \in {"snd", "rcv", "wait", "post"} BY DEF GiveUp, At
<1>3. Snd(p) => proc[p].pc # 0 /\ op = "snd" BY DEF Snd, At
<1>4. Rcv(p) => proc[p].pc # 0 /\ op = "rcv" BY DEF Rcv, At
<1>5. Wait(p) => proc[p].pc # 0 /\ op = "wait" BY DEF Wait, SemOp, At
<1>6. Post(p) => proc[p].pc # 0 /\ op = "post" BY DEF Post, SemOp, At
<1>7. Attach(p) => proc[p].pc # 0 /\ op = "attach" BY DEF Attach, At
<1>8. Size(p) => proc[p].pc # 0 /\ op = "size" BY DEF Size, At
<1>9. Poke(p) => proc[p].pc # 0 /\ op = "poke" BY DEF Poke, At
<1>10. Peek(p) => proc[p].pc # 0 /\ op = "peek" BY DEF Peek, At
<1>11. Remove(p) => proc[p].pc # 0 /\ op \in {"remove", "unlink"} BY DEF Remove, At
<1>12. Fork(p) => proc[p].pc # 0 /\ op = "fork" BY DEF Fork, At
<1>13. Close(p) => proc[p].pc # 0 /\ op = "close" BY DEF Close, At
<1>14. Write(p) => proc[p].pc # 0 /\ op = "write" BY DEF Write, At
<1>15. Read(p) => proc[p].pc # 0 /\ op = "read" BY DEF Read, At
<1>16. Open(p) => proc[p].pc # 0 /\ op = "open" BY DEF Open, At
<1>17. Listen(p) => proc[p].pc # 0 /\ op = "listen" BY DEF Listen, At
<1>18. Connect(p) => proc[p].pc # 0 /\ op = "connect" BY DEF Connect, At
<1>19. Accept(p) => proc[p].pc # 0 /\ op = "accept" BY DEF Accept, At
<1>20. Send(p) => proc[p].pc # 0 /\ op = "send" BY DEF Send, At
<1>21. Recv(p) => proc[p].pc # 0 /\ op = "recv" BY DEF Recv, At
<1>22. RecvFrom(p) => proc[p].pc # 0 /\ op = "recvfrom" BY DEF RecvFrom, At
<1>23. SendTo(p) => proc[p].pc # 0 /\ op = "sendto" BY DEF SendTo, At
<1>24. Exec(p) => proc[p].pc # 0 /\ op = "exec" BY DEF Exec, At
<1>25. Reap(p) => proc[p].pc # 0 /\ op = "reap" BY DEF Reap, At
<1>26. Input(p) => proc[p].pc # 0 /\ op = "input" BY DEF Input, At
<1>27. Pass(p) => proc[p].pc # 0 /\ op \in {"nap", "use", "goto"} BY DEF Pass, At
<1>28. Exit(p) => proc[p].pc # 0 /\ op = "exit" BY DEF Exit, At
<1>32. File(p) => proc[p].pc # 0 /\ op = "file" BY DEF File, At
<1>33. Popen(p) => proc[p].pc # 0 /\ op = "popen" BY DEF Popen, At
<1> HIDE DEF op
<1>29. ObjectStep(p) \/ ChannelStep(p) \/ Exit(p) BY DEF Step
<1>30. CASE ObjectStep(p)
  BY <1>30, <1>1, <1>2, <1>3, <1>4, <1>5, <1>6, <1>7, <1>8, <1>9, <1>10, <1>11
  DEF ObjectStep, op
<1>31. CASE ChannelStep(p)
  BY <1>31, <1>12, <1>13, <1>14, <1>15, <1>16, <1>17, <1>18, <1>19, <1>20, <1>21, <1>22,
     <1>23, <1>24, <1>25, <1>26, <1>27, <1>32, <1>33 DEF ChannelStep, op
<1> QED BY <1>29, <1>30, <1>31, <1>28 DEF op

\* The call a process is at, and the one after it.
LEMMA PlaceFacts ==
  ASSUME IpcType, NEW p \in Proc, proc[p].pc # 0
  PROVE  LET c == proc[p].pc IN
         /\ c \in DOMAIN Code(pair, p)
         /\ Here(p).op \notin {"exit", "goto"} => c + 1 \in DOMAIN Code(pair, p)
         /\ Here(p).op = "open" => c + 2 \in DOMAIN Code(pair, p) /\ Here(p).x \in {"r", "w"}
         /\ Here(p).op \in {"read", "write"} => Here(p).x \in Direction
         /\ Here(p).op \in {"read", "goto", "input", "exec"} => Here(p).to \in DOMAIN Code(pair, p)
         /\ Here(p).op \in Calls /\ Here(p).to \in Nat
         /\ 1 \in DOMAIN Code(pair, p) 
  BY CodeWellFormed DEF IpcType, WellFormed, Here

-----------------------------------------------------------------------------
(* Updates of a process and of an object. *)

\* One member of a process changes.
LEMMA SetField ==
  ASSUME NEW r \in Process
  PROVE  /\ \A v \in Nat : [r EXCEPT !.pc = v] \in Process
         /\ \A v \in Nat : [r EXCEPT !.ref = v] \in Process
         /\ \A v \in Int : [r EXCEPT !.adj = v] \in Process
         /\ \A v \in 0..MaxRuns : [r EXCEPT !.cur = v] \in Process
         /\ \A v \in SUBSET End : [r EXCEPT !.ends = v] \in Process
         /\ \A v \in Proc \cup {Nil} : [r EXCEPT !.got = v] \in Process
  BY DEF Process

\* The members of a process.
Is(r, pc, runs, ref, adj, cur, ends, got, crash) ==
  /\ r \in Process /\ r.pc = pc /\ r.runs = runs /\ r.ref = ref /\ r.adj = adj /\ r.cur = cur
  /\ r.ends = ends /\ r.got = got /\ r.crash = crash

\* The next call and one or two other members of a process change.
LEMMA SetFields ==
  ASSUME NEW r \in Process, NEW n \in Nat
  PROVE  /\ Is([r EXCEPT !.pc = n], n, r.runs, r.ref, r.adj, r.cur, r.ends, r.got, r.crash)
         /\ \A v \in Nat : Is([r EXCEPT !.pc = n, !.ref = v],
                              n, r.runs, v, r.adj, r.cur, r.ends, r.got, r.crash)
         /\ \A v \in Int : Is([r EXCEPT !.pc = n, !.adj = v],
                              n, r.runs, r.ref, v, r.cur, r.ends, r.got, r.crash)
         /\ \A v \in 0..MaxRuns : Is([r EXCEPT !.pc = n, !.cur = v],
                                     n, r.runs, r.ref, r.adj, v, r.ends, r.got, r.crash)
         /\ \A v \in SUBSET End : Is([r EXCEPT !.pc = n, !.ends = v],
                                     n, r.runs, r.ref, r.adj, r.cur, v, r.got, r.crash)
         /\ \A v \in Proc \cup {Nil} : Is([r EXCEPT !.pc = n, !.got = v],
                                          n, r.runs, r.ref, r.adj, r.cur, r.ends, v, r.crash)
         /\ \A v \in 0..MaxRuns, w \in SUBSET End :
              Is([r EXCEPT !.pc = n, !.cur = v, !.ends = w],
                 n, r.runs, r.ref, r.adj, v, w, r.got, r.crash)
         /\ \A v \in 0..MaxRuns, w \in Proc \cup {Nil} :
              Is([r EXCEPT !.pc = n, !.cur = v, !.got = w],
                 n, r.runs, r.ref, r.adj, v, r.ends, w, r.crash)
<1> DEFINE s == [r EXCEPT !.pc = n]
<1>1. Is(s, n, r.runs, r.ref, r.adj, r.cur, r.ends, r.got, r.crash) BY SetField DEF Is, Process
<1> HIDE DEF s
<1>2. /\ \A v \in Nat : Is([s EXCEPT !.ref = v], n, r.runs, v, r.adj, r.cur, r.ends, r.got, r.crash)
      /\ \A v \in Int : Is([s EXCEPT !.adj = v], n, r.runs, r.ref, v, r.cur, r.ends, r.got, r.crash)
      /\ \A v \in 0..MaxRuns :
           Is([s EXCEPT !.cur = v], n, r.runs, r.ref, r.adj, v, r.ends, r.got, r.crash)
      /\ \A v \in SUBSET End :
           Is([s EXCEPT !.ends = v], n, r.runs, r.ref, r.adj, r.cur, v, r.got, r.crash)
      /\ \A v \in Proc \cup {Nil} :
           Is([s EXCEPT !.got = v], n, r.runs, r.ref, r.adj, r.cur, r.ends, v, r.crash)
  BY <1>1 DEF Is, Process
<1>3. ASSUME NEW v \in 0..MaxRuns
      PROVE  /\ \A w \in SUBSET End :
                  Is([s EXCEPT !.cur = v, !.ends = w],
                     n, r.runs, r.ref, r.adj, v, w, r.got, r.crash)
             /\ \A w \in Proc \cup {Nil} :
                  Is([s EXCEPT !.cur = v, !.got = w],
                     n, r.runs, r.ref, r.adj, v, r.ends, w, r.crash)
  <2> DEFINE t == [s EXCEPT !.cur = v]
  <2>1. Is(t, n, r.runs, r.ref, r.adj, v, r.ends, r.got, r.crash) BY <1>2
  <2> HIDE DEF t
  <2>2. /\ \A w \in SUBSET End :
             Is([t EXCEPT !.ends = w], n, r.runs, r.ref, r.adj, v, w, r.got, r.crash)
        /\ \A w \in Proc \cup {Nil} :
             Is([t EXCEPT !.got = w], n, r.runs, r.ref, r.adj, v, r.ends, w, r.crash)
    BY <2>1 DEF Is, Process
  <2> QED BY <2>2, Zenon DEF t
<1>4. /\ \A v \in 0..MaxRuns, w \in SUBSET End :
           Is([s EXCEPT !.cur = v, !.ends = w], n, r.runs, r.ref, r.adj, v, w, r.got, r.crash)
      /\ \A v \in 0..MaxRuns, w \in Proc \cup {Nil} :
           Is([s EXCEPT !.cur = v, !.got = w], n, r.runs, r.ref, r.adj, v, r.ends, w, r.crash)
  BY <1>3
<1> QED BY <1>1, <1>2, <1>4, Zenon DEF s

\* One member of an object changes.
LEMMA SetObject ==
  ASSUME NEW r \in Object
  PROVE  /\ \A v \in Seq(Proc) : [r EXCEPT !.q = v] \in Object
         /\ \A v \in Int : [r EXCEPT !.val = v] \in Object
         /\ \A v \in Proc \cup {Nil} : [r EXCEPT !.text = v] \in Object
         /\ \A v \in BOOLEAN : [r EXCEPT !.sized = v] \in Object
         /\ \A v \in BOOLEAN : [r EXCEPT !.alive = v] \in Object
         /\ [r EXCEPT !.sized = FALSE, !.text = Nil] \in Object
<1>1. /\ \A v \in Seq(Proc) : [r EXCEPT !.q = v] \in Object
      /\ \A v \in Int : [r EXCEPT !.val = v] \in Object
      /\ \A v \in Proc \cup {Nil} : [r EXCEPT !.text = v] \in Object
      /\ \A v \in BOOLEAN : [r EXCEPT !.sized = v] \in Object
      /\ \A v \in BOOLEAN : [r EXCEPT !.alive = v] \in Object
  BY DEF Object
<1> DEFINE s == [r EXCEPT !.sized = FALSE]
<1>2. s \in Object BY <1>1
<1> HIDE DEF s
<1>3. [s EXCEPT !.text = Nil] \in Object BY <1>2 DEF Object
<1> QED BY <1>1, <1>3, Zenon DEF s

\* One of the elements of a sequence changes.
LEMMA SetElement ==
  ASSUME NEW S, NEW s \in Seq(S), NEW k, NEW v, k \in DOMAIN s => v \in S
  PROVE  /\ [s EXCEPT ![k] = v] \in Seq(S)
         /\ Len([s EXCEPT ![k] = v]) = Len(s)
         /\ DOMAIN [s EXCEPT ![k] = v] = DOMAIN s
         /\ \A j \in DOMAIN s : [s EXCEPT ![k] = v][j] = IF j = k THEN v ELSE s[j]
<1>1. CASE k \in DOMAIN s BY <1>1
<1>2. CASE k \notin DOMAIN s
  <2>1. [s EXCEPT ![k] = v] = s
    <3>1. s = [j \in DOMAIN s |-> s[j]] OBVIOUS
    <3> QED BY <1>2, <3>1, Zenon
  <2> QED BY <1>2, <2>1
<1> QED BY <1>1, <1>2

\* The empty sequence is a sequence of anything.
LEMMA EmptyIsSeq == ASSUME NEW S PROVE <<>> \in Seq(S) OBVIOUS

\* What is in one direction of a connection changes, or all that is underway to A is lost.
LEMMA SetChannel ==
  ASSUME NEW c \in Channels
  PROVE  /\ \A n, d, v : (n \in 1..MaxRuns => v \in Seq(Proc)) => [c EXCEPT ![n][d] = v] \in Channels
         /\ [n \in 1..MaxRuns |-> [c[n] EXCEPT !["toA"] = <<>>]] \in Channels
<1>1. ASSUME NEW e \in [Direction -> Seq(Proc)], NEW v \in Seq(Proc), NEW d
      PROVE  [e EXCEPT ![d] = v] \in [Direction -> Seq(Proc)]
  OBVIOUS
<1>2. ASSUME NEW n, NEW d, NEW v, n \in 1..MaxRuns => v \in Seq(Proc)
      PROVE  [c EXCEPT ![n][d] = v] \in Channels
  <2>1. n \in 1..MaxRuns => [c[n] EXCEPT ![d] = v] \in [Direction -> Seq(Proc)]
    BY <1>1, <1>2 DEF Channels
  <2> DEFINE w == [c[n] EXCEPT ![d] = v]
  <2> HIDE DEF w
  <2>2. [c EXCEPT ![n] = w] \in Channels BY <2>1 DEF Channels, w
  <2> QED BY <2>2, Zenon DEF w
<1>3. \A n \in 1..MaxRuns : [c[n] EXCEPT !["toA"] = <<>>] \in [Direction -> Seq(Proc)]
  BY <1>1, EmptyIsSeq DEF Channels
<1>4. [n \in 1..MaxRuns |-> [c[n] EXCEPT !["toA"] = <<>>]] \in Channels BY <1>3 DEF Channels
<1> QED BY <1>2, <1>4

\* One of the processes changes.
LEMMA SetProcess ==
  ASSUME proc \in [Proc -> Process], NEW p \in Proc, NEW r \in Process, proc' = [proc EXCEPT ![p] = r]
  PROVE  /\ proc' \in [Proc -> Process]
         /\ proc'[p] = r
         /\ \A q \in Proc : q # p => proc'[q] = proc[q]
  OBVIOUS

\* The parts of the type invariant.
LEMMA TypeParts ==
  ASSUME IpcType
  PROVE  /\ pair \in Pair /\ root \in BOOLEAN
         /\ proc \in [Proc -> Process]
         /\ proc["A"] \in Process /\ proc["B"] \in Process
         /\ obj \in Seq(Object) /\ name \in Nat
         /\ chan \in Channels
         /\ backlog \in Seq(1..MaxRuns)
         /\ faults \subseteq {"killed", "lost", "exec", "file", "popen"}
  BY DEF IpcType, Proc

\* The process p changes, the other one does not.
Becomes(p, pc, ref, adj, cur, ends, got) ==
  /\ proc' \in [Proc -> Process]
  /\ Is(proc'[p], pc, proc[p].runs, ref, adj, cur, ends, got, proc[p].crash)
  /\ \A q \in Proc : q # p => proc'[q] = proc[q]

\* What the updates of the actions make of a process.
LEMMA Becoming ==
  ASSUME IpcType, NEW p \in Proc, NEW n \in Nat
  PROVE  LET r == proc[p] IN
         /\ proc' = [proc EXCEPT ![p].pc = n] =>
              Becomes(p, n, r.ref, r.adj, r.cur, r.ends, r.got)
         /\ \A v \in Nat : proc' = [proc EXCEPT ![p].pc = n, ![p].ref = v] =>
              Becomes(p, n, v, r.adj, r.cur, r.ends, r.got)
         /\ \A v \in Int : proc' = [proc EXCEPT ![p].pc = n, ![p].adj = v] =>
              Becomes(p, n, r.ref, v, r.cur, r.ends, r.got)
         /\ \A v \in 0..MaxRuns : proc' = [proc EXCEPT ![p].pc = n, ![p].cur = v] =>
              Becomes(p, n, r.ref, r.adj, v, r.ends, r.got)
         /\ \A v \in SUBSET End : proc' = [proc EXCEPT ![p].pc = n, ![p].ends = v] =>
              Becomes(p, n, r.ref, r.adj, r.cur, v, r.got)
         /\ \A v \in Proc \cup {Nil} : proc' = [proc EXCEPT ![p].pc = n, ![p].got = v] =>
              Becomes(p, n, r.ref, r.adj, r.cur, r.ends, v)
         /\ \A v \in 0..MaxRuns, w \in Proc \cup {Nil} :
              proc' = [proc EXCEPT ![p].pc = n, ![p].cur = v, ![p].got = w] =>
                Becomes(p, n, r.ref, r.adj, v, r.ends, w)
<1> DEFINE r == proc[p]
<1>1. proc \in [Proc -> Process] /\ r \in Process BY TypeParts
<1>2. ASSUME NEW t, NEW ref, NEW adj, NEW cur, NEW ends, NEW got,
             Is(t, n, r.runs, ref, adj, cur, ends, got, r.crash), proc' = [proc EXCEPT ![p] = t]
      PROVE  Becomes(p, n, ref, adj, cur, ends, got)
  <2>1. t \in Process BY <1>2 DEF Is
  <2>2. proc' \in [Proc -> Process] /\ proc'[p] = t /\ \A q \in Proc : q # p => proc'[q] = proc[q]
    BY <1>1, <1>2, <2>1, SetProcess
  <2> QED BY <1>2, <2>2, Zenon DEF Becomes
<1>3. ASSUME proc' = [proc EXCEPT ![p].pc = n] PROVE Becomes(p, n, r.ref, r.adj, r.cur, r.ends, r.got)
  BY <1>1, <1>2, <1>3, SetFields, Zenon
<1>4. ASSUME NEW v \in Nat, proc' = [proc EXCEPT ![p].pc = n, ![p].ref = v]
      PROVE  Becomes(p, n, v, r.adj, r.cur, r.ends, r.got)
  <2>1. proc' = [proc EXCEPT ![p] = [r EXCEPT !.pc = n, !.ref = v]] BY <1>1, <1>4, Zenon
  <2> QED BY <1>1, <1>2, <2>1, SetFields, Zenon
<1>5. ASSUME NEW v \in Int, proc' = [proc EXCEPT ![p].pc = n, ![p].adj = v]
      PROVE  Becomes(p, n, r.ref, v, r.cur, r.ends, r.got)
  <2>1. proc' = [proc EXCEPT ![p] = [r EXCEPT !.pc = n, !.adj = v]] BY <1>1, <1>5, Zenon
  <2> QED BY <1>1, <1>2, <2>1, SetFields, Zenon
<1>6. ASSUME NEW v \in 0..MaxRuns, proc' = [proc EXCEPT ![p].pc = n, ![p].cur = v]
      PROVE  Becomes(p, n, r.ref, r.adj, v, r.ends, r.got)
  <2>1. proc' = [proc EXCEPT ![p] = [r EXCEPT !.pc = n, !.cur = v]] BY <1>1, <1>6, Zenon
  <2> QED BY <1>1, <1>2, <2>1, SetFields, Zenon
<1>7. ASSUME NEW v \in SUBSET End, proc' = [proc EXCEPT ![p].pc = n, ![p].ends = v]
      PROVE  Becomes(p, n, r.ref, r.adj, r.cur, v, r.got)
  <2>1. proc' = [proc EXCEPT ![p] = [r EXCEPT !.pc = n, !.ends = v]] BY <1>1, <1>7, Zenon
  <2> QED BY <1>1, <1>2, <2>1, SetFields, Zenon
<1>8. ASSUME NEW v \in Proc \cup {Nil}, proc' = [proc EXCEPT ![p].pc = n, ![p].got = v]
      PROVE  Becomes(p, n, r.ref, r.adj, r.cur, r.ends, v)
  <2>1. proc' = [proc EXCEPT ![p] = [r EXCEPT !.pc = n, !.got = v]] BY <1>1, <1>8, Zenon
  <2> QED BY <1>1, <1>2, <2>1, SetFields, Zenon
<1>9. ASSUME NEW v \in 0..MaxRuns, NEW w \in Proc \cup {Nil},
             proc' = [proc EXCEPT ![p].pc = n, ![p].cur = v, ![p].got = w]
      PROVE  Becomes(p, n, r.ref, r.adj, v, r.ends, w)
  <2>1. proc' = [proc EXCEPT ![p] = [r EXCEPT !.pc = n, !.cur = v, !.got = w]]
    BY <1>1, <1>9, Zenon
  <2> QED BY <1>1, <1>2, <2>1, SetFields, Zenon
<1> QED BY <1>3, <1>4, <1>5, <1>6, <1>7, <1>8, <1>9, Zenon

\* What Advance makes of a process.
LEMMA AdvanceBecomes ==
  ASSUME IpcType, NEW p \in Proc, Advance(p)
  PROVE  Becomes(p, proc[p].pc + 1, proc[p].ref, proc[p].adj, proc[p].cur, proc[p].ends, proc[p].got)
<1>1. proc[p].pc + 1 \in Nat
  <2>1. proc[p].pc \in Nat BY TypeParts DEF Process
  <2> QED BY <2>1
<1> QED BY <1>1, Becoming, Zenon DEF Advance, GoTo

\* What Receive makes of a process.
LEMMA ReceiveBecomes ==
  ASSUME IpcType, NEW p \in Proc, NEW v \in Proc \cup {Nil}, Receive(p, v)
  PROVE  Becomes(p, proc[p].pc + 1, proc[p].ref, proc[p].adj, proc[p].cur, proc[p].ends, v)
<1>1. proc[p].pc + 1 \in Nat
  <2>1. proc[p].pc \in Nat BY TypeParts DEF Process
  <2> QED BY <2>1
<1> QED BY <1>1, Becoming, Zenon DEF Receive

\* The process r is what s was, but for the connection in cur.
Same(r, s) ==
  /\ r.pc = s.pc /\ r.runs = s.runs /\ r.ref = s.ref /\ r.adj = s.adj /\ r.ends = s.ends
  /\ r.got = s.got /\ r.crash = s.crash

\* The process r is what is left of s, which ended with c.
Gone(r, s, c) ==
  /\ r.pc = 0 /\ r.runs = s.runs /\ r.ref = 0 /\ r.adj = 0 /\ r.cur = 0 /\ r.ends = {}
  /\ r.got = Nil /\ r.crash = c

\* The other process of the two.
LEMMA Others == \A p \in Proc : Other(p) \in Proc /\ Other(p) # p /\ \A q \in Proc : q = p \/ q = Other(p)
  BY DEF Other, Proc

\* What Leave makes of the two processes.
LEMMA LeaveIs ==
  ASSUME IpcType, NEW p \in Proc, NEW c \in {Nil, "SIGSEGV", "SIGBUS", "SIGPIPE"}, Leave(p, c)
  PROVE  /\ proc' \in [Proc -> Process]
         /\ Gone(proc'[p], proc[p], c)
         /\ Same(proc'[Other(p)], proc[Other(p)])
         /\ proc'[Other(p)].cur = IF p = "A" /\ \E j \in DOMAIN backlog : backlog[j] = proc[Other(p)].cur
                                  THEN 0 ELSE proc[Other(p)].cur
<1> DEFINE o == Other(p)
           f == Fresh(proc[p].runs)
           gone == [f EXCEPT !.pc = 0, !.crash = c]
           k == IF p = "A" /\ \E j \in DOMAIN backlog : backlog[j] = proc[o].cur THEN 0 ELSE proc[o].cur
           kept == [proc[o] EXCEPT !.cur = k]
<1>1. o \in Proc /\ o # p BY Others
<1>2. proc \in [Proc -> Process] /\ proc[p] \in Process /\ proc[o] \in Process
  BY <1>1, TypeParts
<1>3. proc' = [proc EXCEPT ![p] = gone, ![o] = kept] BY <1>1 DEF Leave
<1>4. k \in 0..MaxRuns BY <1>2, MaxRunsAssumption DEF Process
<1>5. kept \in Process /\ kept.cur = k /\ Same(kept, proc[o])
  <2> HIDE DEF k
  <2> QED BY <1>2, <1>4 DEF Process, Same
<1>6. gone \in Process /\ Gone(gone, proc[p], c)
  <2>1. f \in Process BY <1>2, MaxRunsAssumption DEF Process, Fresh
  <2>2. f.runs = proc[p].runs /\ f.ref = 0 /\ f.adj = 0 /\ f.cur = 0 /\ f.ends = {} /\ f.got = Nil
    BY DEF Fresh
  <2> HIDE DEF f
  <2> DEFINE g == [f EXCEPT !.pc = 0]
  <2>3. g \in Process BY <2>1, SetField
  <2>4. /\ g.pc = 0 /\ g.runs = f.runs /\ g.ref = f.ref /\ g.adj = f.adj /\ g.cur = f.cur
        /\ g.ends = f.ends /\ g.got = f.got
    BY <2>1 DEF Process
  <2> HIDE DEF g
  <2>5. [g EXCEPT !.crash = c] \in Process /\ Gone([g EXCEPT !.crash = c], proc[p], c)
    BY <2>2, <2>3, <2>4 DEF Process, Gone
  <2> QED BY <2>5, Zenon DEF g
<1> HIDE DEF gone, kept
<1>7. proc'[p] = gone /\ proc'[o] = kept BY <1>1, <1>2, <1>3
<1>8. proc' \in [Proc -> Process] BY <1>1, <1>2, <1>3, <1>5, <1>6
<1> QED BY <1>5, <1>6, <1>7, <1>8 DEF k

\* Types: a process leaves.
LEMMA LeaveType ==
  ASSUME IpcType, NEW p \in Proc, NEW c \in {Nil, "SIGSEGV", "SIGBUS", "SIGPIPE"}, Leave(p, c),
         UNCHANGED <<pair, root>>, faults' \subseteq {"killed", "lost", "exec", "file", "popen"}
  PROVE  IpcType'
<1> USE MaxRunsAssumption
<1> DEFINE o == Other(p)
<1>1. proc' \in [Proc -> Process] BY LeaveIs
<1>2. proc'[p].pc = 0 /\ proc'[o].pc = proc[o].pc /\ proc'[o].runs = proc[o].runs
  BY LeaveIs DEF Gone, Same
<1>3. \A q \in Proc : proc'[q].pc # 0 => proc'[q].pc \in DOMAIN Code(pair', q) /\ proc'[q].runs # 0
  BY <1>2, Others DEF IpcType
<1>4. obj' \in Seq(Object)
  <2> DEFINE r == proc[p].ref
             e == IF obj[r].val + proc[p].adj < 0 THEN 0 ELSE obj[r].val + proc[p].adj
             v == [obj[r] EXCEPT !.val = e]
  <2>1. proc[p].adj \in Int BY TypeParts DEF Process
  <2>2. obj \in Seq(Object) BY TypeParts
  <2>3. r \in DOMAIN obj => obj[r] \in Object BY <2>2
  <2>4. r \in DOMAIN obj => v \in Object
    <3>1. r \in DOMAIN obj => e \in Int BY <2>1, <2>3 DEF Object
    <3> QED BY <3>1, <2>3, SetObject
  <2>5. obj' = obj \/ obj' = [obj EXCEPT ![r] = v] BY DEF Leave
  <2> HIDE DEF v, r
  <2> QED BY <2>2, <2>4, <2>5, SetElement
<1>5. name' \in Nat
  <2>1. name' \in {0, name} BY DEF Leave
  <2> QED BY <2>1, TypeParts
<1>6. chan' \in Channels
  <2>1. chan' = chan \/ chan' = [n \in 1..MaxRuns |-> [chan[n] EXCEPT !["toA"] = <<>>]]
    BY DEF Leave
  <2> QED BY <2>1, SetChannel, TypeParts, Zenon
<1>7. backlog' \in Seq(1..MaxRuns)
  <2>1. backlog' = <<>> \/ backlog' = backlog BY DEF Leave
  <2> QED BY <2>1, TypeParts, EmptyIsSeq, Zenon
<1> QED BY <1>1, <1>3, <1>4, <1>5, <1>6, <1>7, TypeParts DEF IpcType

\* The types of all but the processes after a step.
OthersTyped ==
  /\ obj' \in Seq(Object) /\ name' \in Nat /\ chan' \in Channels /\ backlog' \in Seq(1..MaxRuns)
  /\ faults' \subseteq {"killed", "lost", "exec", "file", "popen"} /\ UNCHANGED <<pair, root>>

\* A process goes on to another of its calls.
LEMMA GoesOnType ==
  ASSUME IpcType, NEW p \in Proc, proc[p].pc # 0, NEW n \in DOMAIN Code(pair, p), OthersTyped,
         \E ref, adj, cur, ends, got : Becomes(p, n, ref, adj, cur, ends, got)
  PROVE  IpcType'
<1>1. PICK ref, adj, cur, ends, got : Becomes(p, n, ref, adj, cur, ends, got) OBVIOUS
<1>2. proc' \in [Proc -> Process] /\ proc'[p].pc = n /\ proc'[p].runs = proc[p].runs
  BY <1>1, Zenon DEF Becomes, Is
<1>3. \A q \in Proc : q # p => proc'[q] = proc[q] BY <1>1, Zenon DEF Becomes
<1>4. \A q \in Proc : proc'[q].pc # 0 => proc'[q].pc \in DOMAIN Code(pair', q) /\ proc'[q].runs # 0
  BY <1>2, <1>3 DEF IpcType, OthersTyped
<1> QED BY <1>2, <1>4, TypeParts DEF IpcType, OthersTyped

\* What is next to a call that is followed by another one.
LEMMA NextPlace ==
  ASSUME IpcType, NEW p \in Proc, proc[p].pc # 0, Here(p).op \notin {"exit", "goto"}
  PROVE  proc[p].pc + 1 \in DOMAIN Code(pair, p) /\ proc[p].pc + 1 \in Nat
<1>1. proc[p].pc + 1 \in DOMAIN Code(pair, p) BY PlaceFacts
<1>2. proc[p].pc \in Nat BY TypeParts DEF Process
<1> QED BY <1>1, <1>2

\* The calls on a shared object, other than the one that gets it.
Uses == {"snd", "rcv", "wait", "post", "attach", "size", "poke", "peek", "remove", "unlink"}

\* The calls on a shared object are made by the pairs that share one.
LEMMA UsesCode ==
  \A r \in Pair, p \in Proc : r \notin Sharing => \A k \in DOMAIN Code(r, p) : Code(r, p)[k].op \notin Uses
<1> DEFINE Free(code) == \A k \in DOMAIN code : code[k].op \notin Uses
<1> USE DEF Uses, Op, On, To
<1>1. Free(Pipe("A")) /\ Free(Pipe("B")) BY DEF Pipe
<1>2. Free(TellWait("A")) /\ Free(TellWait("B")) BY DEF TellWait
<1>3. Free(Coprocess("A")) /\ Free(Coprocess("B")) BY DEF Coprocess, Add2
<1>4. Free(Fifo1) /\ Free(Fifo2) BY DEF Fifo1, Fifo2
<1>5. Free(TcpServer) /\ Free(TcpClient) BY DEF TcpServer, TcpClient
<1>6. Free(UdpServer) /\ Free(UdpClient) BY DEF UdpServer, UdpClient
<1>7. Free(UniqueConServer) /\ Free(UniqueConClient) BY DEF UniqueConServer, UniqueConClient
<1>8. Free(SendFdServer) /\ Free(SendFdClient) BY DEF SendFdServer, SendFdClient
<1> HIDE DEF Free
<1>9. \A r \in Pair, p \in Proc : r \notin Sharing => Free(Code(r, p))
  BY CodeIs2, <1>1, <1>2, <1>3, <1>4, <1>5, <1>6, <1>7, <1>8
  DEF Pair, Sharing, SysV, Forking, Socket, Proc
<1> QED BY <1>9 DEF Free

\* A process that uses an object has one.
LEMMA HasObject ==
  ASSUME IpcType, RefInv, NEW p \in Proc, proc[p].pc # 0, Here(p).op \in Uses
  PROVE  /\ pair \in Sharing
         /\ proc[p].ref \in DOMAIN obj /\ Obj(p) \in Object
<1>1. pair \in Sharing BY UsesCode, TypeParts DEF IpcType, Here
<1>2. proc[p].ref # 0 /\ proc[p].ref <= Len(obj) BY <1>1 DEF RefInv, Uses
<1>3. proc[p].ref \in Nat /\ obj \in Seq(Object) BY TypeParts DEF Process
<1>4. proc[p].ref \in DOMAIN obj BY <1>2, <1>3
<1> QED BY <1>1, <1>3, <1>4 DEF Obj

\* Types: the calls on objects.
LEMMA ObjectStepType ==
  ASSUME IpcType, RefInv, NEW p \in Proc, ObjectStep(p), UNCHANGED <<pair, root>>
  PROVE  IpcType'
<1> DEFINE c == proc[p].pc
           r == proc[p].ref
<1>0. /\ proc[p] \in Process /\ c \in Nat /\ r \in Nat /\ proc[p].adj \in Int
      /\ obj \in Seq(Object) /\ name \in Nat /\ chan \in Channels /\ backlog \in Seq(1..MaxRuns)
      /\ faults \subseteq {"killed", "lost", "exec", "file", "popen"}
  BY TypeParts DEF Process
<1>1. \A k \in DOMAIN obj : obj[k] \in Object BY <1>0
<1>2. CASE Get(p)
  <2>1. c # 0 /\ c + 1 \in DOMAIN Code(pair, p) /\ c + 1 \in Nat BY <1>2, NextPlace DEF Get, At
  <2>2. CASE name # 0 /\ Here(p).x # "excl"
    <3>1. obj' \in Seq(Object)
      <4> DEFINE v == [obj[name] EXCEPT !.sized = FALSE, !.text = Nil]
      <4>1. name \in DOMAIN obj => v \in Object BY <1>1, SetObject
      <4>2. [obj EXCEPT ![name].sized = FALSE, ![name].text = Nil] = [obj EXCEPT ![name] = v]
        BY <1>0, Zenon
      <4>3. obj' = obj \/ obj' = [obj EXCEPT ![name] = v] BY <1>2, <2>2, <4>2 DEF Get
      <4> HIDE DEF v
      <4> QED BY <1>0, <4>1, <4>3, SetElement
    <3>2. proc' = [proc EXCEPT ![p].pc = c + 1, ![p].ref = name] BY <1>2, <2>2 DEF Get
    <3>3. OthersTyped BY <1>0, <1>2, <2>2, <3>1 DEF Get, OthersTyped
    <3> QED BY <1>0, <2>1, <3>2, <3>3, GoesOnType, Becoming
  <2>3. CASE ~(name # 0 /\ Here(p).x # "excl") /\ (name # 0 \/ Here(p).x = "open")
    BY <1>0, <1>2, <2>3, LeaveType DEF Get
  <2>4. CASE ~(name # 0 /\ Here(p).x # "excl") /\ ~(name # 0 \/ Here(p).x = "open")
    <3>1. NewObject(Here(p).x) \in Object BY EmptyIsSeq DEF NewObject, Object
    <3>2. obj' = Append(obj, NewObject(Here(p).x)) BY <1>2, <2>4 DEF Get
    <3>3. obj' \in Seq(Object) /\ Len(obj') \in Nat BY <1>0, <3>1, <3>2
    <3>4. proc' = [proc EXCEPT ![p].pc = c + 1, ![p].ref = Len(obj')] BY <1>2, <2>4 DEF Get
    <3>5. name' \in {0, Len(obj')} BY <1>2, <2>4 DEF Get
    <3>6. OthersTyped BY <1>0, <1>2, <2>4, <3>3, <3>5 DEF Get, OthersTyped
    <3> QED BY <1>0, <2>1, <3>3, <3>4, <3>6, GoesOnType, Becoming
  <2> QED BY <2>2, <2>3, <2>4
<1>3. CASE GiveUp(p) BY <1>0, <1>3, LeaveType DEF GiveUp
<1>4. ASSUME NEW v, r \in DOMAIN obj => v \in Object, obj' = [obj EXCEPT ![r] = v]
      PROVE  obj' \in Seq(Object)
  BY <1>0, <1>4, SetElement
<1>5. CASE Snd(p)
  <2>1. c # 0 /\ c + 1 \in DOMAIN Code(pair, p) /\ c + 1 \in Nat BY <1>5, NextPlace DEF Snd, At
  <2>2. r \in DOMAIN obj => [obj[r] EXCEPT !.q = Append(obj[r].q, p)] \in Object
    <3>1. r \in DOMAIN obj => Append(obj[r].q, p) \in Seq(Proc) BY <1>1 DEF Object
    <3> QED BY <1>1, <3>1, SetObject
  <2>3. obj' \in Seq(Object) BY <1>4, <1>5, <2>2 DEF Snd
  <2>4. OthersTyped BY <1>0, <1>5, <2>3 DEF Snd, OthersTyped
  <2> QED BY <1>5, <2>1, <2>4, GoesOnType, AdvanceBecomes DEF Snd
<1>6. CASE Rcv(p)
  <2>1. c # 0 /\ c + 1 \in DOMAIN Code(pair, p) /\ c + 1 \in Nat BY <1>6, NextPlace DEF Rcv, At
  <2>2. obj' \in Seq(Object)
    <3>1. r \in DOMAIN obj => Tail(obj[r].q) \in Seq(Proc) BY <1>1, <1>6 DEF Object, Rcv, Obj
    <3>2. r \in DOMAIN obj => [obj[r] EXCEPT !.q = Tail(obj[r].q)] \in Object
      BY <1>1, <3>1, SetObject
    <3> QED BY <1>4, <1>6, <3>2 DEF Rcv
  <2>3. Head(Obj(p).q) \in Proc \cup {Nil}
    <3>1. Obj(p) \in Object BY <1>6, HasObject DEF Rcv, At, Uses
    <3>2. Obj(p).q \in Seq(Proc) /\ Obj(p).q # <<>> BY <1>6, <3>1 DEF Object, Rcv
    <3> QED BY <3>2
  <2>4. OthersTyped BY <1>0, <1>6, <2>2 DEF Rcv, OthersTyped
  <2> QED BY <1>6, <2>1, <2>3, <2>4, GoesOnType, ReceiveBecomes DEF Rcv
<1>7. ASSUME NEW op \in {"wait", "post"}, NEW n \in {-1, 1}, SemOp(p, op, n) PROVE IpcType'
  <2>1. c # 0 /\ c + 1 \in DOMAIN Code(pair, p) /\ c + 1 \in Nat
    BY <1>7, NextPlace DEF SemOp, At
  <2>2. r \in DOMAIN obj => [obj[r] EXCEPT !.val = obj[r].val + n] \in Object
    <3>1. r \in DOMAIN obj => obj[r].val + n \in Int BY <1>1 DEF Object
    <3> QED BY <1>1, <3>1, SetObject
  <2>3. obj' \in Seq(Object) BY <1>4, <1>7, <2>2 DEF SemOp
  <2>4. OthersTyped BY <1>0, <1>7, <2>3 DEF SemOp, OthersTyped
  <2>5. PICK v \in Int : proc' = [proc EXCEPT ![p].pc = c + 1, ![p].adj = v]
    <3> DEFINE v == IF pair = "svsem" THEN proc[p].adj - n ELSE proc[p].adj
    <3>1. v \in Int BY <1>0
    <3>2. proc' = [proc EXCEPT ![p].pc = c + 1, ![p].adj = v]
      BY <1>7, TypeParts, Zenon DEF SemOp
    <3> QED BY <3>1, <3>2, Zenon
  <2> QED BY <2>1, <2>4, <2>5, GoesOnType, Becoming
<1>8. CASE Wait(p) BY <1>8, <1>7 DEF Wait
<1>9. CASE Post(p) BY <1>9, <1>7 DEF Post
<1>10. CASE Attach(p)
  <2>1. c # 0 /\ c + 1 \in DOMAIN Code(pair, p) /\ c + 1 \in Nat
    BY <1>10, NextPlace DEF Attach, At
  <2>2. CASE Refused(p) BY <1>0, <1>10, <2>2, LeaveType DEF Attach
  <2>3. CASE ~Refused(p)
    <3>1. OthersTyped BY <1>0, <1>10, <2>3 DEF Attach, OthersTyped
    <3> QED BY <1>10, <2>1, <2>3, <3>1, GoesOnType, AdvanceBecomes DEF Attach
  <2> QED BY <2>2, <2>3
<1>11. CASE Size(p)
  <2>1. c # 0 /\ c + 1 \in DOMAIN Code(pair, p) /\ c + 1 \in Nat
    BY <1>11, NextPlace DEF Size, At
  <2>2. r \in DOMAIN obj => [obj[r] EXCEPT !.sized = TRUE] \in Object BY <1>1, SetObject
  <2>3. obj' \in Seq(Object) BY <1>4, <1>11, <2>2 DEF Size
  <2>4. OthersTyped BY <1>0, <1>11, <2>3 DEF Size, OthersTyped
  <2> QED BY <1>11, <2>1, <2>4, GoesOnType, AdvanceBecomes DEF Size
<1>12. CASE Poke(p)
  <2>1. c # 0 /\ c + 1 \in DOMAIN Code(pair, p) /\ c + 1 \in Nat
    BY <1>12, NextPlace DEF Poke, At
  <2>2. CASE ~Obj(p).sized BY <1>0, <1>12, <2>2, LeaveType DEF Poke
  <2>3. CASE Obj(p).sized
    <3>1. r \in DOMAIN obj => [obj[r] EXCEPT !.text = p] \in Object BY <1>1, SetObject
    <3>2. obj' \in Seq(Object) BY <1>4, <1>12, <2>3, <3>1 DEF Poke
    <3>3. OthersTyped BY <1>0, <1>12, <2>3, <3>2 DEF Poke, OthersTyped
    <3> QED BY <1>12, <2>1, <2>3, <3>3, GoesOnType, AdvanceBecomes DEF Poke
  <2> QED BY <2>2, <2>3
<1>13. CASE Peek(p)
  <2>1. c # 0 /\ c + 1 \in DOMAIN Code(pair, p) /\ c + 1 \in Nat
    BY <1>13, NextPlace DEF Peek, At
  <2>2. OthersTyped BY <1>0, <1>13 DEF Peek, OthersTyped
  <2>3. Obj(p).text \in Proc \cup {Nil}
    <3>1. Obj(p) \in Object BY <1>13, HasObject DEF Peek, At, Uses
    <3> QED BY <3>1 DEF Object
  <2> QED BY <1>13, <2>1, <2>2, <2>3, GoesOnType, ReceiveBecomes DEF Peek
<1>14. CASE Remove(p)
  <2>1. c # 0 /\ c + 1 \in DOMAIN Code(pair, p) /\ c + 1 \in Nat
    BY <1>14, NextPlace DEF Remove, At
  <2>2. r \in DOMAIN obj => [obj[r] EXCEPT !.alive = FALSE] \in Object BY <1>1, SetObject
  <2>3. obj' \in Seq(Object) BY <1>0, <1>4, <1>14, <2>2 DEF Remove
  <2>4. name' \in {0, name} BY <1>14 DEF Remove
  <2>5. OthersTyped BY <1>0, <1>14, <2>3, <2>4 DEF Remove, OthersTyped
  <2> QED BY <1>14, <2>1, <2>5, GoesOnType, AdvanceBecomes DEF Remove
<1> QED
  BY <1>2, <1>3, <1>5, <1>6, <1>8, <1>9, <1>10, <1>11, <1>12, <1>13, <1>14 DEF ObjectStep

\* The programs that fork or connect.
LEMMA SideCode ==
  \A r \in Pair :
    /\ \A k \in DOMAIN Code(r, "A") : Code(r, "A")[k].op # "connect"
    /\ \A k \in DOMAIN Code(r, "B") : Code(r, "B")[k].op # "fork"
<1> DEFINE X(code) == \A k \in DOMAIN code : code[k].op # "connect"
           Y(code) == \A k \in DOMAIN code : code[k].op # "fork"
<1> USE DEF Op, On, To
<1>1. /\ X(SvMsgServer) /\ X(PosixMq1) /\ X(SvSem1) /\ X(PosixSem1) /\ X(Unnamed("A"))
      /\ X(SvShm1) /\ X(PosixShm1) /\ X(Mmap("A"))
  BY DEF SvMsgServer, PosixMq1, SvSem1, PosixSem1, Unnamed, SvShm1, PosixShm1, Mmap
<1>2. /\ X(Pipe("A")) /\ X(TellWait("A")) /\ X(Coprocess("A")) /\ X(Fifo1) /\ X(TcpServer)
      /\ X(UdpServer) /\ X(UniqueConServer) /\ X(SendFdServer)
  BY DEF Pipe, TellWait, Coprocess, Add2, Fifo1, TcpServer, UdpServer, UniqueConServer,
     SendFdServer
<1>3. /\ Y(SvMsgClient) /\ Y(PosixMq2) /\ Y(SvSem2) /\ Y(PosixSem2) /\ Y(Unnamed("B"))
      /\ Y(SvShm2) /\ Y(PosixShm2) /\ Y(Mmap("B"))
  BY DEF SvMsgClient, PosixMq2, SvSem2, PosixSem2, Unnamed, SvShm2, PosixShm2, Mmap
<1>4. /\ Y(Pipe("B")) /\ Y(TellWait("B")) /\ Y(Coprocess("B")) /\ Y(Fifo2) /\ Y(TcpClient)
      /\ Y(UdpClient) /\ Y(UniqueConClient) /\ Y(SendFdClient)
  BY DEF Pipe, TellWait, Coprocess, Fifo2, TcpClient, UdpClient, UniqueConClient,
     SendFdClient
<1> HIDE DEF X, Y
<1>5. \A r \in Pair : X(Code(r, "A")) /\ Y(Code(r, "B"))
  BY CodeIs, CodeIs2, <1>1, <1>2, <1>3, <1>4 DEF Pair, SysV, Forking, Socket
<1> QED BY <1>5 DEF X, Y

\* The ends that both processes have after fork().
PipeEnds == {<<e, d, 1>> : e \in {"r", "w"}, d \in Pipes}

\* These ends are ends.
LEMMA PipesEnds == PipeEnds \in SUBSET End
<1>1. Pipes \subseteq Direction BY DEF Pipes, Direction
<1> QED BY <1>1, MaxRunsAssumption DEF End, PipeEnds

\* Both processes change.
LEMMA SetBoth ==
  ASSUME proc \in [Proc -> Process], NEW p \in Proc, NEW o \in Proc, p # o,
         NEW r \in Process, NEW t \in Process, proc' = [proc EXCEPT ![p] = r, ![o] = t]
  PROVE  proc' \in [Proc -> Process] /\ proc'[p] = r /\ proc'[o] = t
  OBVIOUS

\* Types: both processes may go on.
LEMMA MoveBothType ==
  ASSUME IpcType, NEW p \in Proc, proc' \in [Proc -> Process], OthersTyped,
         LET o == Other(p) IN
         /\ proc'[p].pc # 0 => proc'[p].pc \in DOMAIN Code(pair, p) /\ proc'[p].runs # 0
         /\ proc'[o].pc # 0 => proc'[o].pc \in DOMAIN Code(pair, o) /\ proc'[o].runs # 0
  PROVE  IpcType'
<1>1. \A q \in Proc : proc'[q].pc # 0 => proc'[q].pc \in DOMAIN Code(pair', q) /\ proc'[q].runs # 0
  BY Others DEF OthersTyped
<1> QED BY <1>1, TypeParts DEF IpcType, OthersTyped

\* What fork() makes of the two processes.
Forked ==
  LET r == proc["A"]
      ends == PipeEnds
  IN /\ proc' \in [Proc -> Process]
     /\ Is(proc'["A"], r.pc + 1, r.runs, r.ref, r.adj, 1, ends, r.got, r.crash)
     /\ Is(proc'["B"], 1, 1, r.ref, 0, 1, ends, Nil, Nil)
     /\ UNCHANGED <<obj, name, chan, backlog>>

\* fork() fails, or the child starts as a copy of the parent.
LEMMA ForkIs ==
  ASSUME IpcType, NEW p \in Proc, Fork(p)
  PROVE  /\ p = "A" /\ proc["A"].pc # 0 /\ Here("A").op = "fork" /\ UNCHANGED faults
         /\ Leave(p, Nil) \/ Forked
<1>0. proc["A"] \in Process BY TypeParts
<1>1. proc[p].pc # 0 /\ Here(p).op = "fork" /\ UNCHANGED faults BY DEF Fork, At
<1>2. p = "A" BY <1>1, SideCode, TypeParts DEF IpcType, Here, Proc
<1>3. CASE Leave(p, Nil) BY <1>1, <1>2, <1>3
<1>4. CASE ~Leave(p, Nil)
  <2> DEFINE c == proc["A"].pc
             ends == PipeEnds
             r == [proc["A"] EXCEPT !.pc = c + 1, !.cur = 1, !.ends = ends]
             f == Fresh(1)
             t == [f EXCEPT !.ref = proc["A"].ref, !.cur = 1, !.ends = ends]
  <2>1. /\ proc' = [proc EXCEPT !["A"].pc = c + 1, !["A"].cur = 1, !["A"].ends = ends, !["B"] = t]
        /\ UNCHANGED <<obj, name, chan, backlog>>
    BY <1>4 DEF Fork, PipeEnds
  <2>2. proc \in [Proc -> Process] /\ "A" \in Proc /\ "B" \in Proc /\ "A" # "B"
    BY TypeParts DEF Proc
  <2> HIDE DEF ends, t
  <2>3. proc' = [proc EXCEPT !["A"] = r, !["B"] = t] BY <2>1, <2>2, Zenon
  <2>4. c + 1 \in Nat
    <3>1. c \in Nat BY <1>0 DEF Process
    <3> QED BY <3>1
  <2>5. 1 \in 0..MaxRuns /\ ends \in SUBSET End BY PipesEnds, MaxRunsAssumption DEF ends
  <2>6. Is(r, c + 1, proc["A"].runs, proc["A"].ref, proc["A"].adj, 1, ends, proc["A"].got, proc["A"].crash)
    BY <1>0, <2>4, <2>5, SetFields, Zenon
  <2>7. Is(f, 1, 1, 0, 0, 0, {}, Nil, Nil) BY MaxRunsAssumption DEF Fresh, Process, Is
  <2> HIDE DEF f
  <2>8. Is(t, 1, 1, proc["A"].ref, 0, 1, ends, Nil, Nil)
    <3> DEFINE u == [f EXCEPT !.ref = proc["A"].ref]
    <3>1. Is(u, 1, 1, proc["A"].ref, 0, 0, {}, Nil, Nil) BY <1>0, <2>7 DEF Process, Is
    <3> HIDE DEF u
    <3> DEFINE v == [u EXCEPT !.cur = 1]
    <3>2. Is(v, 1, 1, proc["A"].ref, 0, 1, {}, Nil, Nil) BY <2>5, <3>1 DEF Process, Is
    <3> HIDE DEF v
    <3> DEFINE w == [v EXCEPT !.ends = ends]
    <3>3. Is(w, 1, 1, proc["A"].ref, 0, 1, ends, Nil, Nil) BY <2>5, <3>2 DEF Process, Is
    <3> QED BY <3>3, Zenon DEF u, v, t
  <2> HIDE DEF r
  <2>9. r \in Process /\ t \in Process BY <2>6, <2>8 DEF Is
  <2>10. proc' \in [Proc -> Process] /\ proc'["A"] = r /\ proc'["B"] = t
    BY <2>2, <2>3, <2>9, SetBoth
  <2>11. Forked BY <2>1, <2>6, <2>8, <2>10, Zenon DEF ends, Forked
  <2> QED BY <1>1, <1>2, <2>11
<1> QED BY <1>3, <1>4

\* Types: fork().
LEMMA ForkType ==
  ASSUME IpcType, NEW p \in Proc, Fork(p), UNCHANGED <<pair, root>>
  PROVE  IpcType'
<1>0. /\ obj \in Seq(Object) /\ name \in Nat /\ chan \in Channels
      /\ backlog \in Seq(1..MaxRuns)
      /\ faults \subseteq {"killed", "lost", "exec", "file", "popen"}
  BY TypeParts
<1>1. p = "A" /\ proc["A"].pc # 0 /\ Here("A").op = "fork" /\ UNCHANGED faults BY ForkIs
<1>2. CASE Leave(p, Nil) BY <1>0, <1>1, <1>2, LeaveType
<1>3. CASE ~Leave(p, Nil)
  <2>1. /\ proc' \in [Proc -> Process] /\ proc'["A"].pc = proc["A"].pc + 1
        /\ proc'["A"].runs = proc["A"].runs /\ proc'["B"].pc = 1 /\ proc'["B"].runs = 1
        /\ UNCHANGED <<obj, name, chan, backlog>>
    BY <1>3, ForkIs DEF Is, Forked
  <2>2. proc["A"].pc + 1 \in DOMAIN Code(pair, "A") /\ proc["A"].runs # 0
    BY <1>1, NextPlace DEF IpcType
  <2>3. 1 \in DOMAIN Code(pair, "B") BY CodeWellFormed, TypeParts DEF WellFormed, Proc
  <2>4. OthersTyped BY <1>0, <1>1, <2>1 DEF OthersTyped
  <2> QED BY <1>1, <2>1, <2>2, <2>3, <2>4, MoveBothType DEF Other
<1> QED BY <1>2, <1>3

\* open() of the FIFO may let the other process go on as well.
LEMMA OpenIs ==
  ASSUME IpcType, NEW p \in Proc, Open(p)
  PROVE  LET o == Other(p)
             r == proc[p]
             t == proc[o]
             mine == Here(p).x
             partner == IF mine = "r" THEN "w" ELSE "r"
         IN /\ r.pc # 0 /\ Here(p).op = "open" /\ mine \in {"r", "w"}
            /\ proc' \in [Proc -> Process]
            /\ Is(proc'[p], IF Held(<<partner, "toA", 1>>) THEN r.pc + 2 ELSE r.pc + 1, r.runs, r.ref,
                  r.adj, 1, r.ends \cup {<<mine, "toA", 1>>}, r.got, r.crash)
            /\ Is(proc'[o], IF At(o, "partner") /\ Code(pair, o)[t.pc - 1].x = partner THEN t.pc + 1 ELSE t.pc,
                  t.runs, t.ref, t.adj, t.cur, t.ends, t.got, t.crash)
            /\ UNCHANGED <<obj, name, chan, backlog, faults>>
<1> DEFINE o == Other(p)
           c == proc[p].pc
           mine == Here(p).x
           partner == IF mine = "r" THEN "w" ELSE "r"
           waits == At(o, "partner") /\ Code(pair, o)[proc[o].pc - 1].x = partner
           n == IF Held(<<partner, "toA", 1>>) THEN c + 2 ELSE c + 1
           m == IF waits THEN proc[o].pc + 1 ELSE proc[o].pc
           ends == proc[p].ends \cup {<<mine, "toA", 1>>}
           r == [proc[p] EXCEPT !.pc = n, !.cur = 1, !.ends = ends]
           t == [proc[o] EXCEPT !.pc = m]
<1>0. /\ proc[p] \in Process /\ proc[o] \in Process /\ o \in Proc /\ o # p /\ proc \in [Proc -> Process]
  BY TypeParts, Others
<1>1. c # 0 /\ Here(p).op = "open" /\ UNCHANGED <<obj, name, chan, backlog, faults>>
  BY DEF Open, At
<1>2. mine \in {"r", "w"} BY <1>1, PlaceFacts
<1>3. proc' = [proc EXCEPT ![p].pc = n, ![p].cur = 1, ![p].ends = ends, ![o].pc = m]
  BY <1>0, Zenon DEF Open
<1>4. n \in Nat /\ m \in Nat BY <1>0 DEF Process
<1>5. ends \in SUBSET End BY <1>0, <1>2, MaxRunsAssumption DEF Process, End, Direction
<1>6. 1 \in 0..MaxRuns BY MaxRunsAssumption
<1> HIDE DEF n, m, ends
<1>7. proc' = [proc EXCEPT ![p] = r, ![o] = t] BY <1>0, <1>3, Zenon
<1>8. Is(r, n, proc[p].runs, proc[p].ref, proc[p].adj, 1, ends, proc[p].got, proc[p].crash)
  BY <1>0, <1>4, <1>5, <1>6, SetFields, Zenon
<1>9. Is(t, m, proc[o].runs, proc[o].ref, proc[o].adj, proc[o].cur, proc[o].ends, proc[o].got, proc[o].crash)
  BY <1>0, <1>4, SetFields
<1> HIDE DEF r, t
<1>10. r \in Process /\ t \in Process BY <1>8, <1>9 DEF Is
<1>11. proc' \in [Proc -> Process] /\ proc'[p] = r /\ proc'[o] = t BY <1>0, <1>7, <1>10, SetBoth
<1> QED BY <1>1, <1>2, <1>8, <1>9, <1>11, Zenon DEF n, m, ends

\* Types: open() of the FIFO.
LEMMA OpenType ==
  ASSUME IpcType, NEW p \in Proc, Open(p), UNCHANGED <<pair, root>>
  PROVE  IpcType'
<1> DEFINE o == Other(p)
           waits == At(o, "partner")
                    /\ Code(pair, o)[proc[o].pc - 1].x = IF Here(p).x = "r" THEN "w" ELSE "r"
<1>1. /\ proc[p].pc # 0 /\ Here(p).op = "open" /\ proc' \in [Proc -> Process]
      /\ proc'[p].pc = proc[p].pc + 1 \/ proc'[p].pc = proc[p].pc + 2
      /\ proc'[p].runs = proc[p].runs /\ proc'[o].runs = proc[o].runs
      /\ proc'[o].pc = IF waits THEN proc[o].pc + 1 ELSE proc[o].pc
      /\ UNCHANGED <<obj, name, chan, backlog, faults>>
  BY OpenIs DEF Is
<1>2. proc'[p].pc \in DOMAIN Code(pair, p) /\ proc[p].runs # 0 BY <1>1, PlaceFacts DEF IpcType
<1>3. o \in Proc BY Others
<1>4. waits => proc[o].pc + 1 \in DOMAIN Code(pair, o) /\ proc[o].runs # 0
  BY <1>3, NextPlace DEF At, IpcType
<1>5. OthersTyped BY <1>1, TypeParts DEF OthersTyped
<1> HIDE DEF waits
<1>6. proc'[o].pc # 0 => proc'[o].pc \in DOMAIN Code(pair, o) /\ proc'[o].runs # 0
  BY <1>1, <1>3, <1>4 DEF IpcType
<1> QED BY <1>1, <1>2, <1>5, <1>6, MoveBothType

\* connect() fails, or makes the connection's two ends.
LEMMA ConnectIs ==
  ASSUME IpcType, NEW p \in Proc, Connect(p)
  PROVE  LET r == proc["B"]
             t == proc["A"]
             n == r.runs
         IN /\ p = "B" /\ r.pc # 0 /\ Here("B").op = "connect" /\ n \in 1..MaxRuns /\ UNCHANGED faults
            /\ \/ name = 0 /\ Leave(p, Nil)
               \/ /\ name # 0 /\ proc' \in [Proc -> Process]
                  /\ Is(proc'["B"], r.pc + 1, r.runs, r.ref, r.adj, n, {<<"r", "toB", n>>, <<"w", "toA", n>>},
                        r.got, r.crash)
                  /\ Is(proc'["A"], t.pc, t.runs, t.ref, t.adj, t.cur,
                        t.ends \cup {<<"r", "toA", n>>, <<"w", "toB", n>>}, t.got, t.crash)
                  /\ backlog' = Append(backlog, n)
                  /\ UNCHANGED <<obj, name, chan>>
<1> DEFINE c == proc["B"].pc
           n == proc["B"].runs
<1>0. /\ proc["B"] \in Process /\ proc["A"] \in Process /\ proc \in [Proc -> Process]
      /\ "A" \in Proc /\ "B" \in Proc /\ "A" # "B"
  BY TypeParts DEF Proc
<1>1. proc[p].pc # 0 /\ Here(p).op = "connect" /\ UNCHANGED faults BY DEF Connect, At
<1>2. p = "B" BY <1>1, SideCode, TypeParts DEF IpcType, Here, Proc
<1>3. c + 1 \in Nat BY <1>1, <1>2, NextPlace
<1>4. n \in 0..MaxRuns /\ n \in 1..MaxRuns
  BY <1>0, <1>1, <1>2, MaxRunsAssumption DEF IpcType, Process
<1>5. CASE name = 0 BY <1>1, <1>2, <1>4, <1>5 DEF Connect
<1>6. CASE name # 0
  <2> DEFINE ends == {<<"r", "toB", n>>, <<"w", "toA", n>>}
             more == proc["A"].ends \cup {<<"r", "toA", n>>, <<"w", "toB", n>>}
             r == [proc["B"] EXCEPT !.pc = c + 1, !.cur = n, !.ends = ends]
             t == [proc["A"] EXCEPT !.ends = more]
  <2>1. /\ proc' = [proc EXCEPT !["B"].pc = c + 1, !["B"].cur = n, !["B"].ends = ends, !["A"].ends = more]
        /\ backlog' = Append(backlog, n) /\ UNCHANGED <<obj, name, chan>>
    BY <1>0, <1>2, <1>6, Zenon DEF Connect
  <2>2. proc' = [proc EXCEPT !["B"] = r, !["A"] = t] BY <1>0, <2>1, Zenon
  <2>3. ends \in SUBSET End /\ more \in SUBSET End BY <1>0, <1>4 DEF Process, End, Direction
  <2> HIDE DEF ends, more
  <2>4. Is(r, c + 1, n, proc["B"].ref, proc["B"].adj, n, ends, proc["B"].got, proc["B"].crash)
    BY <1>0, <1>3, <1>4, <2>3, SetFields, Zenon
  <2>5. Is(t, proc["A"].pc, proc["A"].runs, proc["A"].ref, proc["A"].adj, proc["A"].cur, more,
           proc["A"].got, proc["A"].crash)
    BY <1>0, <2>3 DEF Process, Is
  <2> HIDE DEF r, t
  <2>6. r \in Process /\ t \in Process BY <2>4, <2>5 DEF Is
  <2>7. proc' \in [Proc -> Process] /\ proc'["B"] = r /\ proc'["A"] = t
    BY <1>0, <2>2, <2>6, SetBoth
  <2> QED BY <1>1, <1>2, <1>4, <1>6, <2>1, <2>4, <2>5, <2>7, Zenon DEF ends, more
<1> QED BY <1>5, <1>6

\* Types: connect().
LEMMA ConnectType ==
  ASSUME IpcType, NEW p \in Proc, Connect(p), UNCHANGED <<pair, root>>
  PROVE  IpcType'
<1>0. /\ obj \in Seq(Object) /\ name \in Nat /\ chan \in Channels
      /\ backlog \in Seq(1..MaxRuns)
      /\ faults \subseteq {"killed", "lost", "exec", "file", "popen"}
  BY TypeParts
<1> DEFINE n == proc["B"].runs
<1>1. p = "B" /\ proc["B"].pc # 0 /\ Here("B").op = "connect" /\ n \in 1..MaxRuns /\ UNCHANGED faults
  BY ConnectIs
<1>2. CASE name = 0 BY <1>0, <1>1, <1>2, ConnectIs, LeaveType
<1>3. CASE name # 0
  <2>1. /\ proc' \in [Proc -> Process] /\ proc'["B"].pc = proc["B"].pc + 1 /\ proc'["B"].runs = n
        /\ proc'["A"].pc = proc["A"].pc /\ proc'["A"].runs = proc["A"].runs
        /\ backlog' = Append(backlog, n) /\ UNCHANGED <<obj, name, chan>>
    BY <1>3, ConnectIs DEF Is
  <2>2. backlog' \in Seq(1..MaxRuns) BY <1>0, <1>1, <2>1
  <2>3. OthersTyped BY <1>0, <1>1, <2>1, <2>2 DEF OthersTyped
  <2>4. proc["B"].pc + 1 \in DOMAIN Code(pair, "B") /\ n # 0 BY <1>1, NextPlace DEF IpcType
  <2>5. "A" \in Proc BY DEF Proc
  <2> QED BY <1>1, <2>1, <2>3, <2>4, <2>5, MoveBothType DEF Other, IpcType
<1> QED BY <1>2, <1>3

\* Types: the calls on pipes, FIFOs and sockets.
LEMMA ChannelStepType ==
  ASSUME IpcType, NEW p \in Proc, ChannelStep(p), UNCHANGED <<pair, root>>
  PROVE  IpcType'
<1> DEFINE c == proc[p].pc
           k == proc[p].cur
           d == Here(p).x
<1>0. /\ proc[p] \in Process /\ c \in Nat /\ k \in 0..MaxRuns /\ obj \in Seq(Object) /\ name \in Nat
      /\ chan \in Channels /\ backlog \in Seq(1..MaxRuns)
      /\ faults \subseteq {"killed", "lost", "exec", "file", "popen"}
  BY TypeParts DEF Process
<1>1. c # 0 => proc[p].runs \in 1..MaxRuns
  BY <1>0, MaxRunsAssumption DEF IpcType, Process
<1>2. ASSUME NEW v, \/ proc' = [proc EXCEPT ![p].pc = c + 1]
               \/ (v \in 0..MaxRuns /\ proc' = [proc EXCEPT ![p].pc = c + 1, ![p].cur = v])
               \/ (v \in Proc \cup {Nil} /\ proc' = [proc EXCEPT ![p].pc = c + 1, ![p].got = v])
               \/ (v \in SUBSET End /\ proc' = [proc EXCEPT ![p].pc = c + 1, ![p].ends = v]),
             c # 0, Here(p).op \notin {"exit", "goto"}, OthersTyped
      PROVE  IpcType'
  <2>1. c + 1 \in DOMAIN Code(pair, p) /\ c + 1 \in Nat BY <1>2, NextPlace
  <2>2. \E ref, adj, cur, ends, got : Becomes(p, c + 1, ref, adj, cur, ends, got)
    BY <1>2, <2>1, Becoming, Zenon
  <2> QED BY <1>2, <2>1, <2>2, GoesOnType
<1>3. ASSUME GoTo(p, Here(p).to), c # 0, Here(p).op \in {"read", "goto", "input", "exec"}, OthersTyped
      PROVE  IpcType'
  <2>1. Here(p).to \in DOMAIN Code(pair, p) /\ Here(p).to \in Nat BY <1>3, PlaceFacts
  <2>2. Becomes(p, Here(p).to, proc[p].ref, proc[p].adj, k, proc[p].ends, proc[p].got)
    BY <1>3, <2>1, Becoming DEF GoTo
  <2> QED BY <1>3, <2>1, <2>2, GoesOnType, Zenon
<1>4. ASSUME NEW n \in 1..MaxRuns, NEW e \in Direction
      PROVE  /\ chan[n][e] \in Seq(Proc)
             /\ [chan EXCEPT ![n][e] = Append(@, p)] \in Channels
             /\ chan[n][e] # <<>> => /\ [chan EXCEPT ![n][e] = Tail(@)] \in Channels
                                     /\ Head(chan[n][e]) \in Proc \cup {Nil}
  <2>1. chan[n][e] \in Seq(Proc) BY <1>0 DEF Channels
  <2>2. Append(chan[n][e], p) \in Seq(Proc) BY <2>1
  <2>3. chan[n][e] # <<>> => Tail(chan[n][e]) \in Seq(Proc) /\ Head(chan[n][e]) \in Proc BY <2>1
  <2> QED BY <1>0, <2>1, <2>2, <2>3, SetChannel, Zenon
<1>5. CASE Fork(p) BY <1>5, ForkType
<1>6. CASE Close(p)
  <2> DEFINE v == proc[p].ends \ {<<e[1], e[2], k>> : e \in Here(p).x}
  <2>1. v \in SUBSET End BY <1>0 DEF Process
  <2>2. OthersTyped BY <1>0, <1>6 DEF Close, OthersTyped
  <2>3. proc' = [proc EXCEPT ![p].pc = c + 1, ![p].ends = v] BY <1>6, TypeParts, Zenon DEF Close
  <2>4. c # 0 /\ Here(p).op = "close" BY <1>6 DEF Close, At
  <2> HIDE DEF v
  <2> QED BY <1>2, <2>1, <2>2, <2>3, <2>4
<1>7. CASE Write(p)
  <2>1. c # 0 /\ Here(p).op = "write" /\ d \in Direction BY <1>7, PlaceFacts DEF Write, At
  <2>2. CASE Held(<<"r", d, k>>) \/ pair = "tcp"
    <3>1. chan' = [chan EXCEPT ![k][d] = Append(@, p)] BY <1>7, <2>2 DEF Write
    <3>2. k \in 1..MaxRuns => Append(chan[k][d], p) \in Seq(Proc) BY <1>0, <2>1 DEF Channels
    <3>3. chan' \in Channels BY <1>0, <3>1, <3>2, SetChannel, Zenon
    <3>4. OthersTyped BY <1>0, <1>7, <2>2, <3>3 DEF Write, OthersTyped
    <3> QED BY <1>2, <1>7, <2>1, <2>2, <3>4 DEF Write, Advance, GoTo
  <2>3. CASE ~(Held(<<"r", d, k>>) \/ pair = "tcp") BY <1>0, <1>7, <2>3, LeaveType DEF Write
  <2> QED BY <2>2, <2>3
<1>8. CASE Read(p)
  <2>1. c # 0 /\ Here(p).op = "read" /\ d \in Direction BY <1>8, PlaceFacts DEF Read, At
  <2>2. CASE k = 0 BY <1>0, <1>8, <2>2, LeaveType DEF Read
  <2>3. CASE k # 0 /\ chan[k][d] # <<>>
    <3>1. k \in 1..MaxRuns BY <1>0, <2>3, MaxRunsAssumption
    <3>2. Receive(p, Head(chan[k][d])) /\ chan' = [chan EXCEPT ![k][d] = Tail(@)]
      BY <1>8, <2>3 DEF Read
    <3>3. chan' \in Channels /\ Head(chan[k][d]) \in Proc \cup {Nil}
      BY <1>4, <2>1, <2>3, <3>1, <3>2
    <3>4. OthersTyped BY <1>0, <1>8, <2>3, <3>3 DEF Read, OthersTyped
    <3> QED BY <1>2, <2>1, <3>2, <3>3, <3>4 DEF Receive
  <2>4. CASE k # 0 /\ chan[k][d] = <<>>
    <3>1. proc' = [proc EXCEPT ![p].pc = Here(p).to, ![p].got = Nil] /\ UNCHANGED chan
      BY <1>8, <2>4 DEF Read
    <3>2. OthersTyped BY <1>0, <1>8, <2>4, <3>1 DEF Read, OthersTyped
    <3>3. Here(p).to \in DOMAIN Code(pair, p) /\ Here(p).to \in Nat BY <2>1, PlaceFacts
    <3> QED BY <2>1, <3>1, <3>2, <3>3, GoesOnType, Becoming
  <2> QED BY <2>2, <2>3, <2>4
<1>9. CASE Open(p) BY <1>9, OpenType
<1>10. CASE Listen(p)
  <2>1. CASE Leave(p, Nil) BY <1>0, <1>10, <2>1, LeaveType DEF Listen
  <2>2. CASE ~Leave(p, Nil)
    <3>1. OthersTyped BY <1>0, <1>10, <2>2 DEF Listen, OthersTyped
    <3> QED BY <1>2, <1>10, <2>2, <3>1 DEF Listen, At, Advance, GoTo
  <2> QED BY <2>1, <2>2
<1>11. CASE Connect(p) BY <1>11, ConnectType
<1>12. CASE Accept(p)
  <2>1. Head(backlog) \in 0..MaxRuns /\ backlog' \in Seq(1..MaxRuns)
    BY <1>0, <1>12, MaxRunsAssumption DEF Accept
  <2>2. OthersTyped BY <1>0, <1>12, <2>1 DEF Accept, OthersTyped
  <2> QED BY <1>2, <1>12, <2>1, <2>2 DEF Accept, At
<1>13. CASE Send(p)
  <2>1. c # 0 /\ Here(p).op = "send" /\ "toA" \in Direction BY <1>13 DEF Send, At, Direction
  <2>2. CASE name = 0
    <3>1. OthersTyped BY <1>0, <1>13, <2>2 DEF Send, OthersTyped
    <3> QED BY <1>2, <1>13, <2>1, <2>2, <3>1 DEF Send, Advance, GoTo
  <2>3. CASE name # 0
    <3>0. Datagram(p, proc[p].runs, "toA") BY <1>13, <2>3 DEF Send
    <3>1. /\ chan' \in Channels
          /\ faults' \subseteq {"killed", "lost", "exec", "file", "popen"}
      <4>1. proc[p].runs \in 1..MaxRuns BY <1>1, <2>1
      <4>2. CASE chan' = [chan EXCEPT ![proc[p].runs]["toA"] = Append(@, p)] /\ UNCHANGED faults
        BY <1>0, <1>4, <2>1, <4>1, <4>2
      <4>3. CASE faults' = faults \cup {"lost"} /\ UNCHANGED chan BY <1>0, <4>3
      <4> QED BY <3>0, <4>2, <4>3 DEF Datagram
    <3>2. OthersTyped BY <1>0, <1>13, <2>3, <3>1 DEF Send, OthersTyped
    <3>3. proc[p].runs \in 0..MaxRuns BY <1>0 DEF Process
    <3> QED BY <1>2, <1>13, <2>1, <2>3, <3>2, <3>3, ZenonT(30) DEF Send
  <2> QED BY <2>2, <2>3
<1>14. CASE Recv(p)
  <2>1. CASE k = 0 BY <1>0, <1>14, <2>1, LeaveType DEF Recv
  <2>2. CASE k # 0
    <3>1. k \in 1..MaxRuns /\ "toB" \in Direction BY <1>0, <2>2, MaxRunsAssumption DEF Direction
    <3>2. /\ chan[k]["toB"] # <<>> /\ Receive(p, Head(chan[k]["toB"]))
          /\ chan' = [chan EXCEPT ![k]["toB"] = Tail(@)] /\ UNCHANGED <<obj, name, backlog, faults>>
      BY <1>14, <2>2 DEF Recv
    <3>3. chan' \in Channels /\ Head(chan[k]["toB"]) \in Proc \cup {Nil} BY <1>4, <3>1, <3>2
    <3>4. OthersTyped BY <1>0, <3>2, <3>3 DEF OthersTyped
    <3> QED BY <1>2, <1>14, <3>2, <3>3, <3>4 DEF Recv, At, Receive
  <2> QED BY <2>1, <2>2
<1>15. CASE RecvFrom(p)
  <2>1. PICK n \in 1..MaxRuns :
          /\ chan[n]["toA"] # <<>>
          /\ proc' = [proc EXCEPT ![p].pc = @ + 1, ![p].cur = n, ![p].got = Head(chan[n]["toA"])]
          /\ chan' = [chan EXCEPT ![n]["toA"] = Tail(@)]
    BY <1>15 DEF RecvFrom
  <2>2. "toA" \in Direction BY DEF Direction
  <2>3. chan' \in Channels /\ Head(chan[n]["toA"]) \in Proc \cup {Nil} BY <1>4, <2>1, <2>2
  <2>4. OthersTyped BY <1>0, <1>15, <2>3 DEF RecvFrom, OthersTyped
  <2>5. c # 0 /\ c + 1 \in DOMAIN Code(pair, p) /\ c + 1 \in Nat
    BY <1>15, NextPlace DEF RecvFrom, At
  <2>6. n \in 0..MaxRuns BY MaxRunsAssumption
  <2> QED BY <2>1, <2>3, <2>4, <2>5, <2>6, GoesOnType, Becoming
<1>16. CASE SendTo(p)
  <2>1. chan' \in Channels /\ faults' \subseteq {"killed", "lost", "exec", "file", "popen"}
    <3>1. CASE chan' = [chan EXCEPT ![k]["toB"] = Append(@, p)] /\ UNCHANGED faults
      <4>1. k \in 1..MaxRuns => Append(chan[k]["toB"], p) \in Seq(Proc)
        BY <1>0 DEF Channels, Direction
      <4> QED BY <1>0, <3>1, <4>1, SetChannel, Zenon
    <3> QED BY <1>0, <1>16, <3>1 DEF SendTo, Datagram
  <2>2. OthersTyped BY <1>0, <1>16, <2>1 DEF SendTo, OthersTyped
  <2> QED BY <1>2, <1>16, <2>2 DEF SendTo, At, Advance, GoTo
<1>17. CASE Exec(p)
  <2>1. OthersTyped BY <1>0, <1>17 DEF Exec, OthersTyped
  <2> QED BY <1>2, <1>3, <1>17, <2>1 DEF Exec, At, Advance, GoTo
<1>18. CASE Reap(p)
  <2>1. OthersTyped BY <1>0, <1>18 DEF Reap, OthersTyped
  <2> QED BY <1>2, <1>18, <2>1 DEF Reap, At, Advance, GoTo
<1>19. CASE Input(p)
  <2>1. OthersTyped BY <1>0, <1>19 DEF Input, OthersTyped
  <2> QED BY <1>2, <1>3, <1>19, <2>1 DEF Input, At, Advance, GoTo
<1>20. CASE Pass(p)
  <2>1. OthersTyped BY <1>0, <1>20 DEF Pass, OthersTyped
  <2> QED BY <1>2, <1>3, <1>20, <2>1 DEF Pass, At, Advance, GoTo
<1>21. CASE File(p)
  <2>1. CASE Advance(p) /\ UNCHANGED <<obj, name, chan, backlog, faults>>
    <3>1. OthersTyped BY <1>0, <2>1 DEF OthersTyped
    <3> QED BY <1>2, <1>21, <2>1, <3>1 DEF File, At, Advance, GoTo
  <2>2. CASE Leave(p, Nil) /\ faults' = faults \cup {"file"} BY <1>0, <2>2, LeaveType
  <2> QED BY <1>21, <2>1, <2>2 DEF File
<1>22. CASE Popen(p)
  <2>1. CASE Advance(p) /\ UNCHANGED <<obj, name, chan, backlog, faults>>
    <3>1. OthersTyped BY <1>0, <2>1 DEF OthersTyped
    <3> QED BY <1>2, <1>22, <2>1, <3>1 DEF Popen, At, Advance, GoTo
  <2>2. CASE Leave(p, "SIGSEGV") /\ faults' = faults \cup {"popen"} BY <1>0, <2>2, LeaveType
  <2> QED BY <1>22, <2>1, <2>2 DEF Popen
<1> QED
  BY <1>5, <1>6, <1>7, <1>8, <1>9, <1>10, <1>11, <1>12, <1>13, <1>14, <1>15, <1>16, <1>17,
     <1>18, <1>19, <1>20, <1>21, <1>22 DEF ChannelStep

\* What Start makes of a process.
LEMMA StartIs ==
  ASSUME IpcType, NEW p \in Proc, Start(p)
  PROVE  /\ proc' = [proc EXCEPT ![p] = Fresh(proc[p].runs + 1)]
         /\ Fresh(proc[p].runs + 1) \in Process /\ proc[p].runs \in Nat
         /\ proc' \in [Proc -> Process] /\ proc'[p] = Fresh(proc[p].runs + 1)
         /\ \A q \in Proc : q # p => proc'[q] = proc[q]
         /\ proc[p].pc = 0
         /\ UNCHANGED <<pair, root, obj, name, chan, backlog, faults>>
<1>1. proc' = [proc EXCEPT ![p] = Fresh(proc[p].runs + 1)] /\ proc[p].runs < MaxRuns
  BY DEF Start
<1>2. proc \in [Proc -> Process] /\ proc[p].runs \in 0..MaxRuns BY TypeParts DEF Process
<1>3. proc[p].runs + 1 \in 0..MaxRuns BY <1>1, <1>2, MaxRunsAssumption
<1>4. Fresh(proc[p].runs + 1) \in Process BY <1>3, MaxRunsAssumption DEF Fresh, Process
<1> QED BY <1>1, <1>2, <1>4, SetProcess DEF Start

\* Every step keeps the types.
LEMMA TypeNext ==
  ASSUME IpcType, RefInv, [Next]_vars
  PROVE  IpcType'
<1>1. CASE UNCHANGED vars BY <1>1 DEF vars, IpcType
<1>2. ASSUME NEW p \in Proc, Step(p) PROVE IpcType'
  <2>1. CASE ObjectStep(p) BY <1>2, <2>1, ObjectStepType DEF Step
  <2>2. CASE ChannelStep(p) BY <1>2, <2>2, ChannelStepType DEF Step
  <2>3. CASE Exit(p) BY <1>2, <2>3, LeaveType, TypeParts DEF Step, Exit
  <2> QED BY <1>2, <2>1, <2>2, <2>3 DEF Step
<1>3. ASSUME NEW p \in Proc, Start(p) PROVE IpcType'
  <2>1. Fresh(proc[p].runs + 1).pc = 1 /\ Fresh(proc[p].runs + 1).runs # 0
    <3>1. proc[p].runs \in Nat BY <1>3, StartIs
    <3> QED BY <3>1 DEF Fresh
  <2>2. 1 \in DOMAIN Code(pair, p) BY CodeWellFormed, TypeParts DEF WellFormed
  <2>3. \A q \in Proc : proc'[q].pc # 0 => proc'[q].pc \in DOMAIN Code(pair', q) /\ proc'[q].runs # 0
    BY <1>3, <2>1, <2>2, StartIs DEF IpcType
  <2> QED BY <1>3, <2>3, StartIs, TypeParts DEF IpcType
<1>4. ASSUME NEW p \in Proc, Kill(p) PROVE IpcType'
  <2>1. Leave(p, Nil) /\ UNCHANGED <<pair, root>> BY <1>4 DEF Kill
  <2>2. faults' \subseteq {"killed", "lost", "exec", "file", "popen"} BY <1>4, TypeParts DEF Kill
  <2> QED BY <2>1, <2>2, LeaveType
<1> QED BY <1>1, <1>2, <1>3, <1>4 DEF Next

-----------------------------------------------------------------------------
(* The objects. *)

\* The calls of the pairs that share an object.
LEMMA SharingCode ==
  \A r \in Sharing, p \in Proc : \A k \in DOMAIN Code(r, p) :
    Code(r, p)[k].op \in Uses \cup {"get", "fork", "reap", "nap", "use", "exit"}
<1> DEFINE Fits(code) ==
      \A k \in DOMAIN code : code[k].op \in Uses \cup {"get", "fork", "reap", "nap", "use", "exit"}
<1> USE DEF Uses, Op, On
<1>1. Fits(SvMsgServer) /\ Fits(SvMsgClient) BY DEF SvMsgServer, SvMsgClient
<1>2. Fits(PosixMq1) /\ Fits(PosixMq2) BY DEF PosixMq1, PosixMq2
<1>3. Fits(SvSem1) /\ Fits(SvSem2) BY DEF SvSem1, SvSem2
<1>4. Fits(PosixSem1) /\ Fits(PosixSem2) BY DEF PosixSem1, PosixSem2
<1>5. Fits(Unnamed("A")) /\ Fits(Unnamed("B")) BY DEF Unnamed
<1>6. Fits(SvShm1) /\ Fits(SvShm2) BY DEF SvShm1, SvShm2
<1>7. Fits(PosixShm1) /\ Fits(PosixShm2) BY DEF PosixShm1, PosixShm2
<1>8. Fits(Mmap("A")) /\ Fits(Mmap("B")) BY DEF Mmap
<1> HIDE DEF Fits
<1>9. \A r \in Sharing, p \in Proc : Fits(Code(r, p))
  BY CodeIs, <1>1, <1>2, <1>3, <1>4, <1>5, <1>6, <1>7, <1>8 DEF Sharing, SysV, Proc
<1> QED BY <1>9 DEF Fits

\* The steps of a pair that shares an object.
LEMMA SharingStep ==
  ASSUME IpcType, pair \in Sharing, NEW p \in Proc, Step(p)
  PROVE  /\ proc[p].pc # 0
         /\ \/ Get(p) \/ GiveUp(p) \/ Snd(p) \/ Rcv(p) \/ Wait(p) \/ Post(p) \/ Attach(p) \/ Size(p)
            \/ Poke(p) \/ Peek(p) \/ Remove(p) \/ Fork(p) \/ Reap(p) \/ Exit(p)
            \/ Pass(p) /\ Here(p).op \in {"nap", "use"}
<1>1. proc[p].pc # 0 BY Dispatch
<1>2. proc[p].pc \in DOMAIN Code(pair, p) BY <1>1, PlaceFacts
<1>3. Here(p).op \in Uses \cup {"get", "fork", "reap", "nap", "use", "exit"}
  BY <1>2, SharingCode DEF Here
<1> QED BY <1>1, <1>3, Dispatch DEF Uses

\* What the step of a process changes of the objects and the references.
RefFrame ==
  /\ \A q \in Proc : proc'[q].ref = proc[q].ref
  /\ Len(obj') = Len(obj) /\ name' \in {0, name} /\ UNCHANGED pair
  /\ \A q \in Proc : proc'[q].pc = proc[q].pc \/ (proc[q].pc # 0 /\ Here(q).op # "get")

\* Such a step keeps the references.
LEMMA RefFrameKeeps ==
  ASSUME IpcType, RefInv, RefFrame, pair \in Sharing
  PROVE  RefInv'
<1>1. obj \in Seq(Object) /\ name \in Nat BY TypeParts
<1>2. name' <= Len(obj') BY <1>1 DEF RefFrame, RefInv
<1>3. ASSUME NEW q \in Proc PROVE proc'[q].ref <= Len(obj') BY DEF RefFrame, RefInv
<1>4. ASSUME NEW q \in Proc, proc'[q].pc # 0, Here(q)'.op # "get" PROVE proc'[q].ref # 0
  BY <1>4 DEF RefFrame, RefInv, Here
<1> QED BY <1>2, <1>3, <1>4 DEF RefInv

\* A process that leaves.
LEMMA LeaveRef ==
  ASSUME IpcType, RefInv, pair \in Sharing, NEW p \in Proc, NEW c \in {Nil, "SIGSEGV", "SIGBUS", "SIGPIPE"},
         Leave(p, c), UNCHANGED pair
  PROVE  RefInv'
<1> DEFINE o == Other(p)
<1>1. obj \in Seq(Object) /\ name \in Nat BY TypeParts
<1>2. /\ o \in Proc /\ \A q \in Proc : q = p \/ q = o
      /\ proc'[p].pc = 0 /\ proc'[p].ref = 0
      /\ proc'[o].pc = proc[o].pc /\ proc'[o].ref = proc[o].ref
  BY LeaveIs, Others DEF Gone, Same
<1>3. Len(obj') = Len(obj)
  <2> DEFINE r == proc[p].ref
             v == [obj[r] EXCEPT !.val = IF @ + proc[p].adj < 0 THEN 0 ELSE @ + proc[p].adj]
  <2>1. obj' = obj \/ obj' = [obj EXCEPT ![r] = v] BY DEF Leave
  <2> HIDE DEF r, v
  <2> QED BY <1>1, <2>1
<1>4. name' \in {0, name} BY DEF Leave
<1>5. name' <= Len(obj') BY <1>1, <1>3, <1>4 DEF RefInv
<1>6. ASSUME NEW q \in Proc
      PROVE  proc'[q].ref <= Len(obj') /\ (proc'[q].pc # 0 /\ Here(q)'.op # "get" => proc'[q].ref # 0)
  <2>1. CASE q = p BY <1>1, <1>2, <1>3, <2>1
  <2>2. CASE q = o BY <1>2, <1>3, <2>2 DEF RefInv, Here
  <2> QED BY <1>2, <2>1, <2>2
<1> QED BY <1>5, <1>6 DEF RefInv

\* A process and the objects, when a step changes neither the number of objects nor a reference.
LEMMA BecomesRef ==
  ASSUME IpcType, RefInv, pair \in Sharing, NEW p \in Proc, proc[p].pc # 0, Here(p).op # "get",
         NEW n, NEW adj, NEW cur, NEW ends, NEW got, Becomes(p, n, proc[p].ref, adj, cur, ends, got),
         Len(obj') = Len(obj), name' \in {0, name}, UNCHANGED pair
  PROVE  RefInv'
<1>1. proc'[p].ref = proc[p].ref BY Zenon DEF Becomes, Is
<1>2. \A q \in Proc : q # p => proc'[q] = proc[q] BY Zenon DEF Becomes
<1>3. RefFrame BY <1>1, <1>2 DEF RefFrame
<1> QED BY <1>3, RefFrameKeeps

\* One member of the object in use changes.
LEMMA ObjectLength ==
  ASSUME IpcType, NEW r, NEW v, obj' = [obj EXCEPT ![r] = v]
  PROVE  Len(obj') = Len(obj)
  BY TypeParts

\* The object of the name is used, or a new one is made.
GetsOld(p) ==
  /\ name # 0 /\ Here(p).x # "excl"
  /\ Becomes(p, proc[p].pc + 1, name, proc[p].adj, proc[p].cur, proc[p].ends, proc[p].got)
  /\ obj' = IF Here(p).x = "trunc" THEN [obj EXCEPT ![name].sized = FALSE, ![name].text = Nil] ELSE obj
  /\ Len(obj') = Len(obj)
  /\ UNCHANGED <<name, chan, backlog, faults>>

GetsNew(p) ==
  /\ name = 0 /\ Here(p).x # "open"
  /\ Becomes(p, proc[p].pc + 1, Len(obj) + 1, proc[p].adj, proc[p].cur, proc[p].ends, proc[p].got)
  /\ obj' = Append(obj, NewObject(Here(p).x)) /\ NewObject(Here(p).x) \in Object
  /\ Len(obj') = Len(obj) + 1
  /\ name' = IF Here(p).x = "anonymous" THEN 0 ELSE Len(obj) + 1
  /\ UNCHANGED <<chan, backlog, faults>>

\* What the get calls do.
LEMMA GetIs ==
  ASSUME IpcType, NEW p \in Proc, Get(p)
  PROVE  /\ proc[p].pc # 0 /\ Here(p).op = "get"
         /\ (Leave(p, Nil) /\ UNCHANGED faults) \/ GetsOld(p) \/ GetsNew(p)
<1> DEFINE c == proc[p].pc
<1>1. c # 0 /\ Here(p).op = "get" BY DEF Get, At
<1>2. obj \in Seq(Object) /\ name \in Nat /\ c + 1 \in Nat BY <1>1, TypeParts, NextPlace
<1>3. CASE name # 0 /\ Here(p).x # "excl"
  <2>1. proc' = [proc EXCEPT ![p].pc = c + 1, ![p].ref = name] BY <1>3 DEF Get
  <2>2. /\ obj' = IF Here(p).x = "trunc" THEN [obj EXCEPT ![name].sized = FALSE, ![name].text = Nil] ELSE obj
        /\ UNCHANGED <<name, chan, backlog, faults>>
    BY <1>3, Zenon DEF Get
  <2>3. Len(obj') = Len(obj)
    <3> DEFINE v == [obj[name] EXCEPT !.sized = FALSE, !.text = Nil]
    <3>1. [obj EXCEPT ![name].sized = FALSE, ![name].text = Nil] = [obj EXCEPT ![name] = v]
      BY <1>2, Zenon
    <3>2. obj' = obj \/ obj' = [obj EXCEPT ![name] = v] BY <2>2, <3>1
    <3> HIDE DEF v
    <3> QED BY <1>2, <3>2
  <2>4. Becomes(p, c + 1, name, proc[p].adj, proc[p].cur, proc[p].ends, proc[p].got)
    BY <1>2, <2>1, Becoming
  <2>5. GetsOld(p) BY <1>3, <2>2, <2>3, <2>4, Zenon DEF GetsOld
  <2> QED BY <1>1, <2>5
<1>4. CASE ~(name # 0 /\ Here(p).x # "excl") /\ (name # 0 \/ Here(p).x = "open")
  BY <1>1, <1>4 DEF Get
<1>5. CASE name = 0 /\ Here(p).x # "open"
  <2>1. /\ obj' = Append(obj, NewObject(Here(p).x))
        /\ name' = IF Here(p).x = "anonymous" THEN 0 ELSE Len(obj')
        /\ proc' = [proc EXCEPT ![p].pc = c + 1, ![p].ref = Len(obj')]
        /\ UNCHANGED <<chan, backlog, faults>>
    BY <1>5 DEF Get
  <2>2. NewObject(Here(p).x) \in Object BY EmptyIsSeq DEF NewObject, Object
  <2>3. Len(obj') = Len(obj) + 1 /\ Len(obj) + 1 \in Nat BY <1>2, <2>1, <2>2
  <2>4. Becomes(p, c + 1, Len(obj) + 1, proc[p].adj, proc[p].cur, proc[p].ends, proc[p].got)
    BY <1>2, <2>1, <2>3, Becoming
  <2>5. GetsNew(p) BY <1>5, <2>1, <2>2, <2>3, <2>4, Zenon DEF GetsNew
  <2> QED BY <1>1, <2>5
<1> QED BY <1>3, <1>4, <1>5

\* The programs that somebody starts begin with the object, and get one only there.
LEMMA FirstCall ==
  /\ \A r \in Sharing : Code(r, "A")[1].op = "get" /\ (r \notin Forking => Code(r, "B")[1].op = "get")
  /\ \A r \in Sharing, p \in Proc : \A k \in DOMAIN Code(r, p) : Code(r, p)[k].op = "get" => k = 1
<1> DEFINE Once(code) == \A k \in DOMAIN code : code[k].op = "get" => k = 1
           First(code) == code[1].op = "get"
<1> USE DEF Op, On
<1>1. Once(SvMsgServer) /\ Once(SvMsgClient) BY DEF SvMsgServer, SvMsgClient
<1>2. Once(PosixMq1) /\ Once(PosixMq2) BY DEF PosixMq1, PosixMq2
<1>3. Once(SvSem1) /\ Once(SvSem2) BY DEF SvSem1, SvSem2
<1>4. Once(PosixSem1) /\ Once(PosixSem2) BY DEF PosixSem1, PosixSem2
<1>5. Once(Unnamed("A")) /\ Once(Unnamed("B")) BY DEF Unnamed
<1>6. Once(SvShm1) /\ Once(SvShm2) BY DEF SvShm1, SvShm2
<1>7. Once(PosixShm1) /\ Once(PosixShm2) BY DEF PosixShm1, PosixShm2
<1>8. Once(Mmap("A")) /\ Once(Mmap("B")) BY DEF Mmap
<1>9. /\ First(SvMsgServer) /\ First(SvMsgClient) /\ First(PosixMq1) /\ First(PosixMq2)
      /\ First(SvSem1) /\ First(SvSem2) /\ First(PosixSem1) /\ First(PosixSem2)
  BY DEF SvMsgServer, SvMsgClient, PosixMq1, PosixMq2, SvSem1, SvSem2, PosixSem1, PosixSem2
<1>10. /\ First(Unnamed("A")) /\ First(SvShm1) /\ First(SvShm2) /\ First(PosixShm1)
       /\ First(PosixShm2) /\ First(Mmap("A"))
  BY DEF Unnamed, SvShm1, SvShm2, PosixShm1, PosixShm2, Mmap
<1> HIDE DEF Once, First
<1>11. \A r \in Sharing, p \in Proc : Once(Code(r, p))
  BY CodeIs, <1>1, <1>2, <1>3, <1>4, <1>5, <1>6, <1>7, <1>8 DEF Sharing, SysV, Proc
<1>12. \A r \in Sharing : First(Code(r, "A")) /\ (r \notin Forking => First(Code(r, "B")))
  BY CodeIs, <1>9, <1>10 DEF Sharing, SysV, Forking
<1> QED BY <1>11, <1>12 DEF Once, First

\* Every step keeps the references.
LEMMA RefNext ==
  ASSUME IpcType, RefInv, [Next]_vars
  PROVE  RefInv'
<1>0. CASE pair \notin Sharing
  <2>1. UNCHANGED pair BY DEF Next, Step, Start, Kill, vars
  <2> QED BY <1>0, <2>1 DEF RefInv
<1>1. CASE pair \in Sharing /\ UNCHANGED vars BY <1>1 DEF vars, RefInv, Here
<1>2. ASSUME pair \in Sharing, NEW p \in Proc, Step(p) PROVE RefInv'
  <2> DEFINE c == proc[p].pc
             r == proc[p].ref
  <2>0. /\ obj \in Seq(Object) /\ name \in Nat /\ c \in Nat /\ proc[p].adj \in Int
        /\ c # 0 /\ UNCHANGED pair
    BY <1>2, SharingStep, TypeParts DEF Process, Step
  <2>a. obj' \in Seq(Object) BY TypeNext, TypeParts, <1>2 DEF Next, IpcType
  <2>1. ASSUME Leave(p, Nil) \/ Leave(p, "SIGSEGV") \/ Leave(p, "SIGBUS") PROVE RefInv'
    BY <1>2, <2>0, <2>1, LeaveRef
  <2>2. ASSUME Advance(p), Here(p).op # "get", Len(obj') = Len(obj), name' \in {0, name} PROVE RefInv'
    BY <1>2, <2>0, <2>2, AdvanceBecomes, BecomesRef
  <2>3. ASSUME NEW v \in Proc \cup {Nil}, Receive(p, v), Here(p).op # "get", Len(obj') = Len(obj), name' = name
        PROVE  RefInv'
    BY <1>2, <2>0, <2>3, ReceiveBecomes, BecomesRef
  <2>4. CASE Get(p)
    <3>1. (Leave(p, Nil) /\ UNCHANGED faults) \/ GetsOld(p) \/ GetsNew(p) BY <2>4, GetIs
    <3>2. ASSUME NEW n \in Nat, n # 0, n <= Len(obj'), Len(obj) <= Len(obj'), name' <= Len(obj'),
                 Becomes(p, c + 1, n, proc[p].adj, proc[p].cur, proc[p].ends, proc[p].got)
          PROVE  RefInv'
      <4>1. proc'[p].ref = n BY <3>2, Zenon DEF Becomes, Is
      <4>2. \A q \in Proc : q # p => proc'[q] = proc[q] BY <3>2, Zenon DEF Becomes
      <4>3. \A q \in Proc : proc[q].ref \in Nat BY TypeParts DEF Process
      <4>4. Len(obj) \in Nat /\ Len(obj') \in Nat BY <2>0, <2>a
      <4>5. \A q \in Proc : proc'[q].ref <= Len(obj')
        BY <1>2, <3>2, <4>1, <4>2, <4>3, <4>4 DEF RefInv
      <4>6. \A q \in Proc : proc'[q].pc # 0 /\ Here(q)'.op # "get" => proc'[q].ref # 0
        BY <1>2, <2>0, <3>2, <4>1, <4>2 DEF RefInv, Here
      <4> QED BY <3>2, <4>5, <4>6 DEF RefInv
    <3>3. CASE GetsOld(p)
      <4>1. Becomes(p, c + 1, name, proc[p].adj, proc[p].cur, proc[p].ends, proc[p].got)
        BY <3>3 DEF GetsOld
      <4>2. name # 0 /\ Len(obj') = Len(obj) /\ name' = name BY <3>3 DEF GetsOld
      <4>3. name <= Len(obj) BY <1>2 DEF RefInv
      <4> QED BY <2>0, <3>2, <4>1, <4>2, <4>3
    <3>4. CASE GetsNew(p)
      <4>1. Becomes(p, c + 1, Len(obj) + 1, proc[p].adj, proc[p].cur, proc[p].ends, proc[p].got)
        BY <3>4 DEF GetsNew
      <4>2. Len(obj') = Len(obj) + 1 /\ name' \in {0, Len(obj) + 1} BY <3>4 DEF GetsNew
      <4> QED BY <2>0, <3>2, <4>1, <4>2
    <3> QED BY <2>1, <3>1, <3>3, <3>4
  <2>5. CASE GiveUp(p) BY <2>1, <2>5 DEF GiveUp
  <2>6. CASE Snd(p)
    <3>1. Len(obj') = Len(obj) BY <2>6, ObjectLength DEF Snd
    <3> QED BY <2>2, <2>6, <3>1 DEF Snd, At
  <2>7. CASE Rcv(p)
    <3>1. Len(obj') = Len(obj) BY <2>7, ObjectLength DEF Rcv
    <3>2. Obj(p) \in Object BY <2>7, HasObject DEF Rcv, At, Uses
    <3>3. Obj(p).q \in Seq(Proc) /\ Obj(p).q # <<>> BY <2>7, <3>2 DEF Object, Rcv
    <3>4. Head(Obj(p).q) \in Proc \cup {Nil} BY <3>3
    <3> QED BY <2>3, <2>7, <3>1, <3>4 DEF Rcv, At
  <2>8. ASSUME NEW op \in {"wait", "post"}, NEW n \in {-1, 1}, SemOp(p, op, n) PROVE RefInv'
    <3>1. Len(obj') = Len(obj) BY <2>8, ObjectLength DEF SemOp
    <3> DEFINE v == IF pair = "svsem" THEN proc[p].adj - n ELSE proc[p].adj
    <3>2. v \in Int /\ c + 1 \in Nat BY <2>0
    <3>3. proc' = [proc EXCEPT ![p].pc = c + 1, ![p].adj = v]
      BY <2>8, TypeParts, Zenon DEF SemOp
    <3> HIDE DEF v
    <3>4. Becomes(p, c + 1, r, v, proc[p].cur, proc[p].ends, proc[p].got)
      BY <3>2, <3>3, Becoming
    <3>5. Here(p).op # "get" /\ name' = name BY <2>8 DEF SemOp, At
    <3> QED BY <1>2, <2>0, <3>1, <3>4, <3>5, BecomesRef
  <2>9. CASE Wait(p) \/ Post(p) BY <2>8, <2>9 DEF Wait, Post
  <2>10. CASE Attach(p) BY <2>1, <2>2, <2>10 DEF Attach, At
  <2>11. CASE Size(p)
    <3>1. Len(obj') = Len(obj) BY <2>11, ObjectLength DEF Size
    <3> QED BY <2>2, <2>11, <3>1 DEF Size, At
  <2>12. CASE Poke(p)
    <3>1. CASE Obj(p).sized
      <4>1. Len(obj') = Len(obj) BY <2>12, <3>1, ObjectLength DEF Poke
      <4> QED BY <2>2, <2>12, <3>1, <4>1 DEF Poke, At
    <3> QED BY <2>1, <2>12, <3>1 DEF Poke
  <2>13. CASE Peek(p)
    <3>1. Obj(p) \in Object BY <2>13, HasObject DEF Peek, At, Uses
    <3>2. Obj(p).text \in Proc \cup {Nil} BY <3>1 DEF Object
    <3> QED BY <2>3, <2>13, <3>2 DEF Peek, At
  <2>14. CASE Remove(p)
    <3>1. Len(obj') = Len(obj)
      <4>1. obj' = obj \/ obj' = [obj EXCEPT ![r] = [obj[r] EXCEPT !.alive = FALSE]]
        BY <2>14 DEF Remove
      <4> QED BY <4>1, ObjectLength
    <3> QED BY <2>2, <2>14, <3>1 DEF Remove, At
  <2>15. CASE Fork(p)
    <3>1. p = "A" /\ Here("A").op = "fork" /\ (Leave(p, Nil) \/ Forked) BY <2>15, ForkIs
    <3>2. CASE Forked
      <4>1. proc'["A"].ref = proc["A"].ref /\ proc'["B"].ref = proc["A"].ref /\ name' = name /\ obj' = obj
        BY <3>2 DEF Forked, Is
      <4>2. \A q \in Proc : proc'[q].ref = proc["A"].ref BY <4>1 DEF Proc
      <4>3. proc["A"].ref # 0 /\ proc["A"].ref <= Len(obj) /\ name <= Len(obj)
        BY <1>2, <2>0, <3>1 DEF RefInv
      <4> QED BY <4>1, <4>2, <4>3 DEF RefInv
    <3> QED BY <2>1, <3>1, <3>2
  <2>16. CASE Reap(p) BY <2>2, <2>16 DEF Reap, At
  <2>17. CASE Exit(p) BY <2>1, <2>17 DEF Exit
  <2>18. CASE Pass(p) /\ Here(p).op \in {"nap", "use"} BY <2>2, <2>18 DEF Pass, At
  <2> QED
    BY <1>2, <2>4, <2>5, <2>6, <2>7, <2>9, <2>10, <2>11, <2>12, <2>13, <2>14, <2>15, <2>16,
       <2>17, <2>18, SharingStep
<1>3. ASSUME pair \in Sharing, NEW p \in Proc, Start(p) PROVE RefInv'
  <2>1. Fresh(proc[p].runs + 1).ref = 0 /\ Fresh(proc[p].runs + 1).pc = 1 BY DEF Fresh
  <2>2. Code(pair, p)[1].op = "get" BY <1>3, FirstCall DEF Start, Proc
  <2>3. proc'[p].ref = 0 /\ proc'[p].pc = 1 BY <1>3, <2>1, StartIs
  <2>4. Here(p)'.op = "get" BY <1>3, <2>2, <2>3, StartIs DEF Here
  <2>5. \A q \in Proc : q # p => proc'[q] = proc[q] BY <1>3, StartIs
  <2>6. UNCHANGED <<pair, obj, name>> /\ obj \in Seq(Object) BY <1>3, StartIs, TypeParts
  <2>7. \A q \in Proc : /\ proc'[q].ref <= Len(obj)
                        /\ proc'[q].pc # 0 /\ Here(q)'.op # "get" => proc'[q].ref # 0
    <3> SUFFICES ASSUME NEW q \in Proc
                 PROVE  /\ proc'[q].ref <= Len(obj)
                        /\ proc'[q].pc # 0 /\ Here(q)'.op # "get" => proc'[q].ref # 0
      OBVIOUS
    <3>1. CASE q = p BY <2>3, <2>4, <2>6, <3>1
    <3>2. CASE q # p BY <1>3, <2>5, <2>6, <3>2 DEF RefInv, Here
    <3> QED BY <3>1, <3>2
  <2> QED BY <1>3, <2>6, <2>7 DEF RefInv
<1>4. ASSUME pair \in Sharing, NEW p \in Proc, Kill(p) PROVE RefInv' BY <1>4, LeaveRef DEF Kill
<1> QED BY <1>0, <1>1, <1>2, <1>3, <1>4 DEF Next
-----------------------------------------------------------------------------
(* Semaphores. *)

\* The calls of the programs with semaphores.
SemPlace(r, p, k, call) ==
  LET takes == IF p = "A" /\ r # "posixsem" THEN 3 ELSE 2 IN
  /\ k \in Nat
  /\ call.op \in {"get", "fork", "wait", "post", "nap", "remove", "unlink", "reap", "exit"}
  /\ call.op = "wait" <=> k = takes
  /\ call.op = "post" <=> (k = takes + 2 \/ (r = "svsem" /\ p = "A" /\ k = 2))
  /\ call.op = "get" => /\ k = 1 /\ call.x \in {"excl", "bare", "create", "anonymous"}
                        /\ r = "svsem" /\ p = "A" => call.x = "excl"
  /\ call.op = "fork" => r = "unnamed" /\ p = "A" /\ k = 2

\* The programs with semaphores make their calls there.
LEMMA SemCode ==
  \A r \in Semaphores, p \in Proc : \A k \in DOMAIN Code(r, p) : SemPlace(r, p, k, Code(r, p)[k])
<1> DEFINE Fits(r, p, code) == \A k \in DOMAIN code : SemPlace(r, p, k, code[k])
<1> USE DEF SemPlace, Op, On
<1>1. Fits("svsem", "A", SvSem1) BY DEF SvSem1
<1>2. Fits("svsem", "B", SvSem2) BY DEF SvSem2
<1>3. Fits("posixsem", "A", PosixSem1) BY DEF PosixSem1
<1>4. Fits("posixsem", "B", PosixSem2) BY DEF PosixSem2
<1>5. Fits("unnamed", "A", Unnamed("A")) BY DEF Unnamed
<1>6. Fits("unnamed", "B", Unnamed("B")) BY DEF Unnamed
<1> HIDE DEF Fits
<1>7. \A r \in Semaphores, p \in Proc : Fits(r, p, Code(r, p))
  BY CodeIs, <1>1, <1>2, <1>3, <1>4, <1>5, <1>6 DEF Semaphores, Proc
<1> QED BY <1>7 DEF Fits

\* The call of a process with a semaphore.
LEMMA SemHere ==
  ASSUME IpcType, pair \in Semaphores, NEW p \in Proc, proc[p].pc # 0
  PROVE  SemPlace(pair, p, proc[p].pc, Here(p))
  BY SemCode DEF IpcType, Here

\* The value of one semaphore changes.
LEMMA SetValue ==
  ASSUME obj \in Seq(Object), NEW r \in DOMAIN obj, NEW v \in Int, obj' = [obj EXCEPT ![r].val = v]
  PROVE  /\ DOMAIN obj' = DOMAIN obj
         /\ \A k \in DOMAIN obj : obj'[k].val = IF k = r THEN v ELSE obj[k].val
<1> DEFINE e == [obj[r] EXCEPT !.val = v]
<1>1. obj[r] \in Object OBVIOUS
<1>2. e \in Object /\ e.val = v BY <1>1 DEF Object
<1> HIDE DEF e
<1>3. obj' = [obj EXCEPT ![r] = e] BY Zenon DEF e
<1> QED BY <1>2, <1>3, SetElement

\* The semaphores are sequence elements with an integer value.
LEMMA SemTypes ==
  ASSUME IpcType
  PROVE  /\ \A k \in DOMAIN obj : obj[k].val \in Int
         /\ \A p \in Proc : proc[p].pc \in Nat /\ proc[p].ref \in Nat /\ proc[p].adj \in Int
         /\ obj \in Seq(Object) /\ DOMAIN obj = 1..Len(obj) /\ Len(obj) \in Nat
<1>1. obj \in Seq(Object) /\ \A p \in Proc : proc[p] \in Process BY TypeParts
<1>2. \A k \in DOMAIN obj : obj[k] \in Object BY <1>1
<1> QED BY <1>1, <1>2 DEF Object, Process

\* A process that leaves gives back what it owes.
LEMMA SemLeave ==
  ASSUME IpcType, RefInv, SemInv, pair \in Semaphores, NEW p \in Proc,
         NEW c \in {Nil, "SIGSEGV", "SIGBUS", "SIGPIPE"}, Leave(p, c), UNCHANGED pair
  PROVE  SemInv'
<1> DEFINE o == Other(p)
<1>1. SemValues /\ SemFirst /\ SemAdjusts BY DEF SemInv
<1>2. /\ proc'[p].pc = 0 /\ proc'[p].ref = 0 /\ proc'[p].adj = 0
      /\ proc'[o].pc = proc[o].pc /\ proc'[o].ref = proc[o].ref /\ proc'[o].adj = proc[o].adj
  BY LeaveIs DEF Gone, Same
<1>3. p \in {"A", "B"} /\ o = (IF p = "A" THEN "B" ELSE "A") BY DEF Other, Proc
<1>4. Holds(p)' = FALSE /\ Holds(o)' = Holds(o)
  <2>1. TakesAt(p)' \in {2, 3} BY DEF TakesAt
  <2>2. TakesAt(o)' = TakesAt(o) BY DEF TakesAt
  <2> QED BY <1>2, <2>1, <2>2 DEF Holds
<1>5. SemAdjusts' BY <1>1, <1>2, <1>3, <1>4 DEF SemAdjusts
<1>6. CASE proc[p].adj = 0
  <2>1. obj' = obj BY <1>6 DEF Leave
  <2>2. SemValues' BY <1>1, <1>2, <1>3, <1>4, <2>1 DEF SemValues, Proc
  <2>3. SemFirst' BY <1>1, <1>2, <1>3, <1>4, <2>1 DEF SemFirst
  <2> QED BY <1>5, <2>2, <2>3 DEF SemInv
<1>7. CASE proc[p].adj # 0
  <2> DEFINE r == proc[p].ref
             v == IF p = "A" THEN 0 ELSE 1
  <2>1. /\ pair = "svsem"
        /\ p = "A" => proc[p].adj = -1 /\ proc[p].pc \in {3, 6, 7, 8}
        /\ p = "B" => proc[p].adj = 1 /\ Holds("B")
    BY <1>1, <1>3, <1>7 DEF SemAdjusts
  <2>2. proc[p].pc # 0 /\ proc[p].pc # 1 BY <1>3, <2>1 DEF Holds, TakesAt
  <2>3. r \in DOMAIN obj
    <3>1. Here(p).op # "get" BY <2>2, SemHere DEF SemPlace
    <3>2. pair \in Sharing BY DEF Sharing, SysV, Semaphores
    <3> QED BY <2>2, <3>1, <3>2, SemTypes DEF RefInv
  <2>4. obj[r].val \in {0, 1} /\ (p = "B" => obj[r].val = 0)
    BY <1>1, <2>1, <2>3 DEF SemValues, Proc
  <2>5. obj' = [obj EXCEPT ![r].val = v]
    <3>1. obj' = [obj EXCEPT ![r].val = IF obj[r].val + proc[p].adj < 0 THEN 0 ELSE obj[r].val + proc[p].adj]
      BY <1>7 DEF Leave
    <3>2. (IF obj[r].val + proc[p].adj < 0 THEN 0 ELSE obj[r].val + proc[p].adj) = v
      BY <1>3, <2>1, <2>4
    <3> QED BY <3>1, <3>2, Zenon
  <2>6. /\ DOMAIN obj' = DOMAIN obj
        /\ \A k \in DOMAIN obj : obj'[k].val = IF k = r THEN v ELSE obj[k].val
    BY <2>3, <2>5, SetValue, SemTypes
  <2>7. SemValues' BY <1>1, <1>2, <1>3, <1>4, <2>1, <2>3, <2>4, <2>6 DEF SemValues, Proc
  <2>8. SemFirst'
    <3>1. CASE p = "A" BY <1>2, <3>1 DEF SemFirst
    <3>2. CASE p = "B" /\ proc["A"].pc = 2
      <4>1. r # proc["A"].ref BY <1>1, <2>1, <3>2 DEF SemFirst
      <4>2. proc["A"].ref \in DOMAIN obj
        <5>1. "A" \in Proc BY DEF Proc
        <5>2. Here("A").op # "get" BY <3>2, <5>1, SemHere DEF SemPlace
        <5>3. pair \in Sharing BY DEF Sharing, SysV, Semaphores
        <5> QED BY <3>2, <5>1, <5>2, <5>3, SemTypes DEF RefInv
      <4> QED BY <1>1, <1>2, <1>3, <1>4, <2>6, <3>2, <4>1, <4>2 DEF SemFirst
    <3>3. CASE p = "B" /\ proc["A"].pc # 2 BY <1>2, <1>3, <3>3 DEF SemFirst
    <3> QED BY <1>3, <3>1, <3>2, <3>3
  <2> QED BY <1>5, <2>7, <2>8 DEF SemInv
<1> QED BY <1>6, <1>7

\* A step that touches no semaphore and takes none.
LEMMA SemQuiet ==
  ASSUME IpcType, RefInv, SemInv, pair \in Semaphores, NEW p \in Proc, proc[p].pc # 0,
         Here(p).op \notin {"get", "fork", "wait", "post", "exit"}, Advance(p),
         DOMAIN obj' = DOMAIN obj, \A k \in DOMAIN obj : obj'[k].val = obj[k].val, UNCHANGED pair
  PROVE  SemInv'
<1> DEFINE c == proc[p].pc
<1>1. SemValues /\ SemFirst /\ SemAdjusts BY DEF SemInv
<1>2. /\ proc'[p].pc = c + 1 /\ proc'[p].ref = proc[p].ref /\ proc'[p].adj = proc[p].adj
      /\ \A q \in Proc : q # p => proc'[q] = proc[q]
  BY AdvanceBecomes, Zenon DEF Becomes, Is
<1>3. p \in {"A", "B"} /\ c \in Nat /\ TakesAt(p) \in {2, 3} BY SemTypes DEF Proc, TakesAt
<1>4. c # TakesAt(p) /\ c # TakesAt(p) + 2 /\ ~(pair = "svsem" /\ p = "A" /\ c = 2)
  BY SemHere DEF SemPlace, TakesAt
<1>5. \A q \in Proc : TakesAt(q)' = TakesAt(q) /\ Holds(q)' = Holds(q) /\ proc'[q].ref = proc[q].ref
  <2> SUFFICES ASSUME NEW q \in Proc
               PROVE  TakesAt(q)' = TakesAt(q) /\ Holds(q)' = Holds(q) /\ proc'[q].ref = proc[q].ref
    OBVIOUS
  <2>1. TakesAt(q)' = TakesAt(q) BY DEF TakesAt
  <2>2. CASE q # p BY <1>2, <2>1, <2>2 DEF Holds
  <2>3. CASE q = p BY <1>2, <1>3, <1>4, <2>1, <2>3 DEF Holds
  <2> QED BY <2>1, <2>2, <2>3
<1>6. "A" \in Proc /\ "B" \in Proc BY DEF Proc
<1>7. SemValues' BY <1>1, <1>5, <1>6 DEF SemValues
<1>8. pair = "svsem" /\ p = "A" => c # 1 /\ c # 5
  <2>1. ASSUME pair = "svsem", p = "A" PROVE c # 1 /\ c # 5
    <3>1. c \in DOMAIN SvSem1 /\ Here(p) = SvSem1[c] BY <2>1, CodeIs DEF IpcType, Here
    <3> QED BY <2>1, <1>4, <3>1 DEF SvSem1, Op, On, TakesAt
  <2> QED BY <2>1
<1>9. SemFirst'
  <2> SUFFICES ASSUME pair = "svsem", proc'["A"].pc = 2
               PROVE  (obj[proc["A"].ref].val = 0 /\ ~(Holds("B") /\ proc["B"].ref = proc["A"].ref))'
    BY DEF SemFirst
  <2>1. proc["A"].pc = 2 BY <1>2, <1>3, <1>6, <1>8
  <2>2. proc["A"].ref \in DOMAIN obj
    <3>1. Here("A").op # "get" BY <1>6, <2>1, SemHere DEF SemPlace
    <3>2. pair \in Sharing BY DEF Sharing, SysV, Semaphores
    <3> QED BY <1>6, <2>1, <3>1, <3>2, SemTypes DEF RefInv
  <2> QED BY <1>1, <1>5, <1>6, <2>1, <2>2 DEF SemFirst
<1>10. proc'["A"].adj = proc["A"].adj /\ proc'["B"].adj = proc["B"].adj BY <1>2, <1>6
<1>11. pair = "svsem" => (proc'["A"].pc \in {3, 6, 7, 8} <=> proc["A"].pc \in {3, 6, 7, 8})
  <2>1. CASE p # "A" BY <1>2, <1>6, <2>1
  <2>2. ASSUME pair = "svsem", p = "A" PROVE proc'["A"].pc \in {3, 6, 7, 8} <=> proc["A"].pc \in {3, 6, 7, 8}
    <3>1. c \in DOMAIN SvSem1 /\ Here(p) = SvSem1[c] BY <2>2, CodeIs DEF IpcType, Here
    <3>2. c \in 1..8 BY <3>1 DEF SvSem1
    <3>3. c # 8 BY <3>1 DEF SvSem1, Op
    <3> QED BY <1>2, <1>4, <1>8, <2>2, <3>2, <3>3 DEF TakesAt
  <2> QED BY <2>1, <2>2
<1>12. SemAdjusts' BY <1>1, <1>5, <1>6, <1>10, <1>11 DEF SemAdjusts
<1> QED BY <1>7, <1>9, <1>12 DEF SemInv

\* What the operations on a semaphore do.
LEMMA SemOpIs ==
  ASSUME IpcType, RefInv, NEW p \in Proc, NEW op \in {"wait", "post"}, NEW n \in {-1, 1}, SemOp(p, op, n)
  PROVE  LET r == proc[p].ref
             adj == IF pair = "svsem" THEN proc[p].adj - n ELSE proc[p].adj
         IN /\ proc[p].pc # 0 /\ Here(p).op = op /\ r \in DOMAIN obj
            /\ obj[r].val + n >= 0
            /\ DOMAIN obj' = DOMAIN obj
            /\ \A k \in DOMAIN obj : obj'[k].val = IF k = r THEN obj[k].val + n ELSE obj[k].val
            /\ Becomes(p, proc[p].pc + 1, r, adj, proc[p].cur, proc[p].ends, proc[p].got)
<1> DEFINE r == proc[p].ref
           adj == IF pair = "svsem" THEN proc[p].adj - n ELSE proc[p].adj
<1>1. /\ proc[p].pc # 0 /\ Here(p).op = op /\ obj[r].val + n >= 0
      /\ obj' = [obj EXCEPT ![r].val = obj[r].val + n]
  BY DEF SemOp, At, Obj
<1>2. proc' = [proc EXCEPT ![p].pc = proc[p].pc + 1, ![p].adj = adj]
  BY TypeParts, Zenon DEF SemOp
<1>3. r \in DOMAIN obj BY <1>1, HasObject DEF Uses
<1>4. obj[r].val + n \in Int /\ adj \in Int /\ proc[p].pc + 1 \in Nat BY <1>3, SemTypes
<1>5. /\ DOMAIN obj' = DOMAIN obj
      /\ \A k \in DOMAIN obj : obj'[k].val = IF k = r THEN obj[r].val + n ELSE obj[k].val
  BY <1>1, <1>3, <1>4, SemTypes, SetValue
<1> HIDE DEF adj
<1>6. Becomes(p, proc[p].pc + 1, r, adj, proc[p].cur, proc[p].ends, proc[p].got)
  BY <1>2, <1>4, Becoming
<1> QED BY <1>1, <1>3, <1>5, <1>6, Zenon DEF adj

\* A process takes its semaphore, or gives it back.
LEMMA SemWaitPost ==
  ASSUME IpcType, RefInv, SemInv, pair \in Semaphores, NEW p \in Proc, UNCHANGED pair,
         NEW op \in {"wait", "post"}, NEW n \in {-1, 1}, n = (IF op = "wait" THEN -1 ELSE 1), SemOp(p, op, n)
  PROVE  SemInv'
<1> DEFINE c == proc[p].pc
           r == proc[p].ref
           o == Other(p)
           first == pair = "svsem" /\ p = "A" /\ c = 2
<1>1. SemValues /\ SemFirst /\ SemAdjusts BY DEF SemInv
<1>2. /\ c # 0 /\ Here(p).op = op /\ r \in DOMAIN obj /\ obj[r].val + n >= 0
      /\ DOMAIN obj' = DOMAIN obj
      /\ \A k \in DOMAIN obj : obj'[k].val = IF k = r THEN obj[k].val + n ELSE obj[k].val
  BY SemOpIs
<1>3. /\ proc'[p].pc = c + 1 /\ proc'[p].ref = r
      /\ proc'[p].adj = IF pair = "svsem" THEN proc[p].adj - n ELSE proc[p].adj
      /\ \A q \in Proc : q # p => proc'[q] = proc[q]
  BY SemOpIs, Zenon DEF Becomes, Is
<1>4. p \in {"A", "B"} /\ o = (IF p = "A" THEN "B" ELSE "A") /\ o \in Proc /\ o # p
  BY DEF Other, Proc
<1>5. c \in Nat /\ TakesAt(p) \in {2, 3} /\ TakesAt(p)' = TakesAt(p) /\ TakesAt(o)' = TakesAt(o)
  BY SemTypes DEF TakesAt
<1>6. IF op = "wait" THEN c = TakesAt(p) ELSE c = TakesAt(p) + 2 \/ first
  BY <1>2, SemHere DEF SemPlace, TakesAt
<1>7. Holds(o)' = Holds(o) BY <1>3, <1>4, <1>5 DEF Holds
<1>8. CASE op = "wait"
  <2>1. n = -1 /\ obj[r].val = 1 BY <1>1, <1>2, <1>8 DEF SemValues
  <2>2. Holds(p)' /\ ~(Holds(o) /\ proc[o].ref = r)
    BY <1>1, <1>2, <1>3, <1>4, <1>5, <1>6, <1>8, <2>1 DEF Holds, SemValues
  <2>3. SemValues' BY <1>1, <1>2, <1>3, <1>4, <1>7, <2>1, <2>2 DEF SemValues, Proc
  <2>4. SemFirst'
    <3>1. CASE p = "A" BY <1>3, <1>5, <1>6, <1>8, <3>1 DEF SemFirst
    <3>2. CASE p = "B" /\ pair = "svsem" /\ proc["A"].pc = 2
      <4>1. r # proc["A"].ref BY <1>1, <2>1, <3>2 DEF SemFirst
      <4>2. "A" \in Proc /\ pair \in Sharing BY DEF Proc, Sharing, Semaphores, SysV
      <4>3. Here("A").op # "get" BY <3>2, <4>2, SemHere DEF SemPlace
      <4>4. proc["A"].ref \in DOMAIN obj BY <3>2, <4>2, <4>3, SemTypes DEF RefInv
      <4> QED BY <1>1, <1>2, <1>3, <1>4, <3>2, <4>1, <4>4 DEF SemFirst
    <3>3. CASE p = "B" /\ ~(pair = "svsem" /\ proc["A"].pc = 2) BY <1>3, <1>4, <3>3 DEF SemFirst
    <3> QED BY <1>4, <3>1, <3>2, <3>3
  <2>5. SemAdjusts'
    <3>1. CASE p = "A"
      BY <1>1, <1>3, <1>4, <1>5, <1>6, <1>7, <1>8, <2>1, <3>1 DEF SemAdjusts, TakesAt,
         Semaphores
    <3>2. CASE p = "B"
      BY <1>1, <1>3, <1>4, <1>5, <1>6, <1>8, <2>1, <2>2, <3>2 DEF SemAdjusts, Holds, TakesAt
    <3> QED BY <1>4, <3>1, <3>2
  <2> QED BY <2>3, <2>4, <2>5 DEF SemInv
<1>9. CASE op = "post"
  <2>1. n = 1 /\ obj[r].val = 0 /\ ~(Holds(o) /\ proc[o].ref = r)
    <3>1. CASE Holds(p) BY <1>1, <1>2, <1>4, <1>9, <3>1 DEF SemValues
    <3>2. CASE first BY <1>1, <1>4, <1>9, <3>2 DEF SemFirst
    <3> QED BY <1>6, <1>9, <3>1, <3>2 DEF Holds
  <2>2. Holds(p)' = FALSE
    BY <1>3, <1>4, <1>5, <1>6, <1>9 DEF Holds, TakesAt
  <2>3. SemValues' BY <1>1, <1>2, <1>3, <1>4, <1>7, <2>1, <2>2 DEF SemValues, Proc
  <2>4. SemFirst'
    <3>1. CASE p = "A" BY <1>3, <1>5, <1>6, <1>9, <3>1 DEF SemFirst
    <3>2. CASE p = "B" /\ pair = "svsem" /\ proc["A"].pc = 2
      <4>1. Holds("B") BY <1>4, <1>6, <1>9, <3>2 DEF Holds
      <4>2. r # proc["A"].ref BY <1>1, <3>2, <4>1 DEF SemFirst
      <4>3. "A" \in Proc /\ pair \in Sharing BY DEF Proc, Sharing, Semaphores, SysV
      <4>4. Here("A").op # "get" BY <3>2, <4>3, SemHere DEF SemPlace
      <4>5. proc["A"].ref \in DOMAIN obj BY <3>2, <4>3, <4>4, SemTypes DEF RefInv
      <4> QED BY <1>1, <1>2, <1>3, <1>4, <2>2, <3>2, <4>2, <4>5 DEF SemFirst
    <3>3. CASE p = "B" /\ ~(pair = "svsem" /\ proc["A"].pc = 2) BY <1>3, <1>4, <3>3 DEF SemFirst
    <3> QED BY <1>4, <3>1, <3>2, <3>3
  <2>5. SemAdjusts'
    <3>1. CASE p = "A"
      BY <1>1, <1>3, <1>4, <1>5, <1>6, <1>7, <1>9, <2>1, <3>1 DEF SemAdjusts, TakesAt,
         Semaphores
    <3>2. CASE p = "B"
      <4>1. Holds("B") BY <1>4, <1>6, <1>9, <3>2 DEF Holds
      <4> QED BY <1>1, <1>3, <1>4, <2>1, <2>2, <3>2, <4>1 DEF SemAdjusts
    <3> QED BY <1>4, <3>1, <3>2
  <2> QED BY <2>3, <2>4, <2>5 DEF SemInv
<1> QED BY <1>8, <1>9

\* Nobody holds a semaphore at the first call, nor owes anything.
LEMMA SemGet ==
  ASSUME IpcType, RefInv, SemInv, pair \in Semaphores, NEW p \in Proc, UNCHANGED pair, Get(p)
  PROVE  SemInv'
<1> DEFINE c == proc[p].pc
           o == Other(p)
<1>1. SemValues /\ SemFirst /\ SemAdjusts BY DEF SemInv
<1>2. /\ c # 0 /\ Here(p).op = "get"
      /\ (Leave(p, Nil) /\ UNCHANGED faults) \/ GetsOld(p) \/ GetsNew(p)
  BY GetIs
<1>3. /\ c = 1 /\ Here(p).x \in {"excl", "bare", "create", "anonymous"}
      /\ pair = "svsem" /\ p = "A" => Here(p).x = "excl"
  BY <1>2, SemHere DEF SemPlace
<1>4. p \in {"A", "B"} /\ o = (IF p = "A" THEN "B" ELSE "A") /\ o \in Proc /\ o # p
  BY DEF Other, Proc
<1>5. /\ TakesAt(p)' \in {2, 3} /\ TakesAt(p) \in {2, 3} /\ TakesAt(o)' = TakesAt(o)
  BY DEF TakesAt
<1>6. CASE Leave(p, Nil) BY <1>6, SemLeave
<1>7. ASSUME NEW n \in Nat, Becomes(p, c + 1, n, proc[p].adj, proc[p].cur, proc[p].ends, proc[p].got),
             DOMAIN obj \subseteq DOMAIN obj', \A k \in DOMAIN obj : obj'[k] = obj[k],
             \A k \in DOMAIN obj' : k \notin DOMAIN obj => obj'[k].val \in {0, 1},
             pair = "svsem" /\ p = "A" => n \notin DOMAIN obj /\ n \in DOMAIN obj' /\ obj'[n].val = 0
      PROVE  SemInv'
  <2>0. /\ proc'[p].pc = c + 1 /\ proc'[p].ref = n /\ proc'[p].adj = proc[p].adj
        /\ \A q \in Proc : q # p => proc'[q] = proc[q]
    BY <1>7, Zenon DEF Becomes, Is
  <2>1. /\ proc'[p].pc = 2 /\ proc'[p].ref = n /\ proc'[p].adj = proc[p].adj
        /\ \A q \in Proc : q # p => proc'[q] = proc[q]
    BY <1>3, <2>0
  <2>2. Holds(p)' = FALSE /\ Holds(o)' = Holds(o) /\ Holds(p) = FALSE /\ proc'[o] = proc[o]
    BY <1>3, <1>4, <1>5, <2>1 DEF Holds
  <2>3. Holds(o) => proc[o].ref \in DOMAIN obj
    <3>1. pair \in Sharing BY DEF Sharing, Semaphores, SysV
    <3>2. Holds(o) => proc[o].pc # 0 /\ proc[o].pc # 1 BY <1>4 DEF Holds, TakesAt
    <3>3. Holds(o) => Here(o).op # "get" BY <1>4, <3>2, SemHere DEF SemPlace
    <3> QED BY <1>4, <3>1, <3>2, <3>3, SemTypes DEF RefInv
  <2>4. SemValues' BY <1>1, <1>4, <1>7, <2>1, <2>2, <2>3 DEF SemValues, Proc
  <2>5. SemFirst'
    <3>1. CASE p = "A" BY <1>4, <1>7, <2>1, <2>2, <2>3, <3>1 DEF SemFirst
    <3>2. CASE p = "B" /\ pair = "svsem" /\ proc["A"].pc = 2
      <4>3. "A" \in Proc /\ pair \in Sharing BY DEF Proc, Sharing, Semaphores, SysV
      <4>4. Here("A").op # "get" BY <3>2, <4>3, SemHere DEF SemPlace
      <4>5. proc["A"].ref \in DOMAIN obj BY <3>2, <4>3, <4>4, SemTypes DEF RefInv
      <4> QED BY <1>1, <1>4, <1>7, <2>1, <2>2, <3>2, <4>5 DEF SemFirst
    <3>3. CASE p = "B" /\ ~(pair = "svsem" /\ proc["A"].pc = 2) BY <1>4, <2>1, <3>3 DEF SemFirst
    <3> QED BY <1>4, <3>1, <3>2, <3>3
  <2>6. SemAdjusts' BY <1>1, <1>3, <1>4, <2>1, <2>2 DEF SemAdjusts
  <2> QED BY <2>4, <2>5, <2>6 DEF SemInv
<1>8. CASE GetsOld(p)
  <2>1. obj' = obj /\ name \in Nat /\ ~(pair = "svsem" /\ p = "A")
    BY <1>3, <1>8, TypeParts DEF GetsOld
  <2>2. Becomes(p, c + 1, name, proc[p].adj, proc[p].cur, proc[p].ends, proc[p].got)
    BY <1>8 DEF GetsOld
  <2> QED BY <1>7, <2>1, <2>2
<1>9. CASE GetsNew(p)
  <2> DEFINE n == Len(obj) + 1
             e == NewObject(Here(p).x)
  <2>1. obj' = Append(obj, e) /\ e \in Object BY <1>9 DEF GetsNew
  <2>2. e.val \in {0, 1} /\ (pair = "svsem" => e.val = 0) BY DEF NewObject
  <2> HIDE DEF e
  <2>3. /\ DOMAIN obj' = 1..n /\ DOMAIN obj = 1..Len(obj) /\ obj'[n] = e /\ Len(obj) \in Nat
        /\ \A k \in DOMAIN obj : obj'[k] = obj[k]
    BY <2>1, SemTypes
  <2>4. Becomes(p, c + 1, n, proc[p].adj, proc[p].cur, proc[p].ends, proc[p].got)
    BY <1>9 DEF GetsNew
  <2>5. \A k \in DOMAIN obj' : k \notin DOMAIN obj => k = n BY <2>3
  <2> HIDE DEF n
  <2>6. n \in Nat /\ n \notin DOMAIN obj /\ n \in DOMAIN obj' /\ DOMAIN obj \subseteq DOMAIN obj'
    BY <2>3 DEF n
  <2> QED BY <1>7, <2>2, <2>3, <2>4, <2>5, <2>6
<1> QED BY <1>2, <1>6, <1>8, <1>9

\* The preservation of the semaphores' invariant.
LEMMA SemNext ==
  ASSUME IpcType, RefInv, SemInv, [Next]_vars
  PROVE  SemInv'
<1>0. UNCHANGED pair BY DEF Next, Step, Start, Kill, vars
<1>1. CASE pair \notin Semaphores BY <1>0, <1>1 DEF SemInv
<1>2. CASE pair \in Semaphores /\ UNCHANGED vars
  BY <1>2 DEF vars, SemInv, SemValues, SemFirst, SemAdjusts, Holds, TakesAt
<1>3. ASSUME pair \in Semaphores, NEW p \in Proc, Step(p) PROVE SemInv'
  <2>1. proc[p].pc # 0 /\ SemPlace(pair, p, proc[p].pc, Here(p)) BY <1>3, Dispatch, SemHere
  <2>2. CASE Here(p).op = "get"
    <3>1. Get(p) BY <1>3, <2>2, Dispatch
    <3> QED BY <1>0, <1>3, <3>1, SemGet
  <2>3. CASE Here(p).op = "fork"
    <3>1. Fork(p) BY <1>3, <2>3, Dispatch
    <3>2. p = "A" /\ pair = "unnamed" /\ proc["A"].pc = 2 BY <2>1, <2>3 DEF SemPlace
    <3>3. Leave(p, Nil) \/ Forked BY <1>3, <3>1, ForkIs
    <3>4. CASE Forked
      <4>1. /\ proc'["A"].pc = 3 /\ proc'["A"].adj = proc["A"].adj
            /\ proc'["B"].pc = 1 /\ proc'["B"].adj = 0 /\ obj' = obj
        BY <3>2, <3>4 DEF Forked, Is
      <4>2. Holds("A")' = FALSE /\ Holds("B")' = FALSE BY <1>0, <3>2, <4>1 DEF Holds, TakesAt
      <4>3. SemValues /\ SemAdjusts BY <1>3 DEF SemInv
      <4>4. SemValues' BY <4>1, <4>2, <4>3 DEF SemValues, Proc
      <4>5. SemAdjusts' BY <1>0, <3>2, <4>1, <4>2, <4>3 DEF SemAdjusts
      <4>6. SemFirst' BY <1>0, <3>2 DEF SemFirst
      <4> QED BY <4>4, <4>5, <4>6 DEF SemInv
    <3> QED BY <1>0, <1>3, <3>3, <3>4, SemLeave
  <2>4. CASE Here(p).op = "wait"
    <3>1. Wait(p) \/ GiveUp(p) BY <1>3, <2>4, Dispatch
    <3>2. CASE Wait(p) BY <1>0, <1>3, <3>2, SemWaitPost DEF Wait
    <3> QED BY <1>0, <1>3, <3>1, <3>2, SemLeave DEF GiveUp
  <2>5. CASE Here(p).op = "post"
    <3>1. Post(p) \/ GiveUp(p) BY <1>3, <2>5, Dispatch
    <3>2. CASE Post(p) BY <1>0, <1>3, <3>2, SemWaitPost DEF Post
    <3> QED BY <1>0, <1>3, <3>1, <3>2, SemLeave DEF GiveUp
  <2>6. CASE Here(p).op = "exit"
    <3>1. Exit(p) BY <1>3, <2>6, Dispatch
    <3> QED BY <1>0, <1>3, <3>1, SemLeave DEF Exit
  <2>7. CASE Here(p).op \in {"remove", "unlink"}
    <3>1. Remove(p) BY <1>3, <2>7, Dispatch
    <3>2. Advance(p) BY <3>1 DEF Remove
    <3>3. DOMAIN obj' = DOMAIN obj /\ \A k \in DOMAIN obj : obj'[k].val = obj[k].val
      <4> DEFINE r == proc[p].ref
                 e == [obj[r] EXCEPT !.alive = FALSE]
      <4>1. obj' = obj \/ obj' = [obj EXCEPT ![r] = e] BY <3>1 DEF Remove
      <4>2. r \in DOMAIN obj /\ obj[r] \in Object BY <1>3, <2>1, <2>7, HasObject DEF Uses, Obj
      <4>3. e \in Object /\ e.val = obj[r].val BY <4>2 DEF Object
      <4> HIDE DEF e
      <4> QED BY <4>1, <4>2, <4>3, SetElement, SemTypes
    <3> QED BY <1>0, <1>3, <2>1, <2>7, <3>2, <3>3, SemQuiet
  <2>8. CASE Here(p).op \in {"nap", "reap"}
    <3>1. Pass(p) \/ Reap(p) BY <1>3, <2>8, Dispatch
    <3>2. Advance(p) /\ obj' = obj BY <2>8, <3>1 DEF Pass, Reap, At
    <3> QED BY <1>0, <1>3, <2>1, <2>8, <3>2, SemQuiet
  <2> QED BY <2>1, <2>2, <2>3, <2>4, <2>5, <2>6, <2>7, <2>8 DEF SemPlace
<1>4. ASSUME pair \in Semaphores, NEW p \in Proc, Start(p) PROVE SemInv'
  <2>1. SemValues /\ SemFirst /\ SemAdjusts BY <1>4 DEF SemInv
  <2>2. proc'[p].pc = 1 /\ proc'[p].adj = 0 /\ proc'[p].ref = 0
    <3>1. proc'[p] = Fresh(proc[p].runs + 1) BY <1>4, StartIs
    <3> QED BY <3>1 DEF Fresh
  <2>3. (\A q \in Proc : q # p => proc'[q] = proc[q]) /\ obj' = obj /\ proc[p].pc = 0
    BY <1>4, StartIs
  <2>4. \A q \in Proc : TakesAt(q)' = TakesAt(q) /\ TakesAt(q) \in {2, 3} BY <1>0 DEF TakesAt
  <2>5. Holds(p)' = FALSE /\ \A q \in Proc : q # p => Holds(q)' = Holds(q)
    BY <1>4, <2>2, <2>3, <2>4 DEF Holds
  <2>6. SemValues' BY <1>4, <2>1, <2>2, <2>3, <2>5 DEF SemValues, Proc
  <2>7. SemFirst' BY <1>0, <1>4, <2>1, <2>2, <2>3, <2>5 DEF SemFirst, Proc
  <2>8. SemAdjusts' BY <1>0, <1>4, <2>1, <2>2, <2>3, <2>5 DEF SemAdjusts, Proc
  <2> QED BY <2>6, <2>7, <2>8 DEF SemInv
<1>5. ASSUME pair \in Semaphores, NEW p \in Proc, Kill(p) PROVE SemInv'
  BY <1>5, SemLeave DEF Kill
<1> QED BY <1>1, <1>2, <1>3, <1>4, <1>5 DEF Next

\* Only the programs with semaphores wait for one.
LEMMA WaitCode ==
  \A r \in Pair, p \in Proc : r \notin Semaphores => \A k \in DOMAIN Code(r, p) : Code(r, p)[k].op # "wait"
<1> DEFINE Free(code) == \A k \in DOMAIN code : code[k].op # "wait"
<1>1. ASSUME NEW r \in Pair, NEW p \in Proc, r \notin Sharing PROVE Free(Code(r, p))
  BY <1>1, UsesCode DEF Uses
<1> USE DEF Op, On
<1>2. Free(SvMsgServer) /\ Free(SvMsgClient) BY DEF SvMsgServer, SvMsgClient
<1>3. Free(PosixMq1) /\ Free(PosixMq2) BY DEF PosixMq1, PosixMq2
<1>4. Free(SvShm1) /\ Free(SvShm2) BY DEF SvShm1, SvShm2
<1>5. Free(PosixShm1) /\ Free(PosixShm2) BY DEF PosixShm1, PosixShm2
<1>6. Free(Mmap("A")) /\ Free(Mmap("B")) BY DEF Mmap
<1> HIDE DEF Free
<1>7. \A r \in Sharing, p \in Proc : r \notin Semaphores => Free(Code(r, p))
  BY CodeIs, <1>2, <1>3, <1>4, <1>5, <1>6 DEF Sharing, SysV, Semaphores, Proc
<1>8. \A r \in Pair, p \in Proc : r \notin Semaphores => Free(Code(r, p)) BY <1>1, <1>7
<1> QED BY <1>8 DEF Free

\* A program in its critical section holds its semaphore.
LEMMA CriticalHolds ==
  ASSUME IpcType, RefInv, NEW p \in Proc, Critical(p)
  PROVE  pair \in Semaphores /\ Holds(p) /\ proc[p].ref \in DOMAIN obj
<1> DEFINE c == proc[p].pc
<1>1. c # 0 /\ c > 1 /\ Code(pair, p)[c - 1].op = "wait" /\ Here(p).op = "nap"
  BY DEF Critical, At
<1>2. c \in Nat /\ c \in DOMAIN Code(pair, p) /\ c - 1 \in DOMAIN Code(pair, p)
  BY <1>1, CodeWellFormed DEF IpcType, WellFormed
<1>3. pair \in Semaphores BY <1>1, <1>2, WaitCode, TypeParts
<1>4. SemPlace(pair, p, c - 1, Code(pair, p)[c - 1]) BY <1>2, <1>3, SemCode
<1>5. c - 1 = TakesAt(p) BY <1>1, <1>4 DEF SemPlace, TakesAt
<1>6. Holds(p) BY <1>2, <1>5 DEF Holds
<1>7. pair \in Sharing BY <1>3 DEF Sharing, Semaphores, SysV
<1>8. proc[p].ref \in DOMAIN obj BY <1>1, <1>7, SemTypes DEF RefInv
<1> QED BY <1>3, <1>6, <1>8

\* The invariant of the semaphores keeps the programs out of one critical section.
LEMMA CriticalFollows ==
  ASSUME IpcType, RefInv, SemInv
  PROVE  CriticalAlone
<1> SUFFICES ASSUME \A p \in Proc : Critical(p) PROVE proc["A"].ref # proc["B"].ref
  BY DEF CriticalAlone
<1>1. "A" \in Proc /\ "B" \in Proc BY DEF Proc
<1>2. pair \in Semaphores /\ Holds("A") /\ Holds("B") /\ proc["A"].ref \in DOMAIN obj
  BY <1>1, CriticalHolds
<1> QED BY <1>2 DEF SemInv, SemValues

-----------------------------------------------------------------------------
(* What is on its way. *)

\* How a process may have died.
Crash == {Nil, "SIGSEGV", "SIGBUS", "SIGPIPE"}

\* Only what is on its way in one direction of one connection changes.
Carries(n, d, v) ==
  \A m \in 1..MaxRuns, e \in Direction : chan'[m][e] = IF m = n /\ e = d THEN v ELSE chan[m][e]

\* One direction of one connection is set.
LEMMA ChannelSet ==
  ASSUME IpcType, NEW n, NEW d \in Direction, NEW v, chan' = [chan EXCEPT ![n][d] = v]
  PROVE  Carries(n, d, v)
<1>1. chan \in Channels BY TypeParts
<1> SUFFICES ASSUME NEW m \in 1..MaxRuns, NEW e \in Direction
             PROVE  chan'[m][e] = IF m = n /\ e = d THEN v ELSE chan[m][e]
  BY DEF Carries
<1>2. chan[m] \in [Direction -> Seq(Proc)] BY <1>1 DEF Channels
<1>3. chan'[m] = IF m = n THEN [chan[m] EXCEPT ![d] = v] ELSE chan[m] BY <1>1 DEF Channels
<1> QED BY <1>2, <1>3

\* What the process p does on its connection, and stays itself.
Moves(p, n, got) ==
  /\ Becomes(p, n, proc[p].ref, proc[p].adj, proc[p].cur, proc[p].ends, got)
  /\ UNCHANGED <<obj, name, backlog, faults>>

\* A message was written.
Written(p) ==
  LET d == Here(p).x
      n == proc[p].cur
  IN Moves(p, proc[p].pc + 1, proc[p].got) /\ Carries(n, d, Append(chan[n][d], p))

\* What write() does.
LEMMA WriteIs ==
  ASSUME IpcType, NEW p \in Proc, Write(p)
  PROVE  /\ proc[p].pc # 0 /\ Here(p).op = "write" /\ Here(p).x \in Direction /\ UNCHANGED faults
         /\ IF Held(<<"r", Here(p).x, proc[p].cur>>) \/ pair = "tcp" THEN Written(p) ELSE Leave(p, "SIGPIPE")
<1> DEFINE d == Here(p).x
           n == proc[p].cur
<1>1. proc[p].pc # 0 /\ Here(p).op = "write" /\ d \in Direction /\ UNCHANGED faults
  BY PlaceFacts DEF Write, At
<1>2. CASE Held(<<"r", d, n>>) \/ pair = "tcp"
  <2>1. /\ chan' = [chan EXCEPT ![n][d] = Append(chan[n][d], p)] /\ Advance(p)
        /\ UNCHANGED <<obj, name, backlog, faults>>
    BY <1>2 DEF Write
  <2>2. Carries(n, d, Append(chan[n][d], p)) BY <1>1, <2>1, ChannelSet
  <2>3. Moves(p, proc[p].pc + 1, proc[p].got) BY <2>1, AdvanceBecomes DEF Moves
  <2>4. Written(p) BY <2>2, <2>3 DEF Written
  <2> QED BY <1>1, <1>2, <2>4
<1>3. CASE ~(Held(<<"r", d, n>>) \/ pair = "tcp") BY <1>1, <1>3 DEF Write
<1> QED BY <1>2, <1>3

\* A message was read, or the end of the file.
ReadMessage(p) ==
  LET d == Here(p).x
      n == proc[p].cur
  IN /\ n \in 1..MaxRuns /\ chan[n][d] # <<>>
     /\ Moves(p, proc[p].pc + 1, Head(chan[n][d]))
     /\ Carries(n, d, Tail(chan[n][d]))

ReadEnd(p) ==
  LET d == Here(p).x
      n == proc[p].cur
  IN /\ n \in 1..MaxRuns /\ chan[n][d] = <<>> /\ ~Held(<<"w", d, n>>)
     /\ Moves(p, Here(p).to, Nil)
     /\ UNCHANGED chan

\* What read() does.
LEMMA ReadIs ==
  ASSUME IpcType, NEW p \in Proc, Read(p)
  PROVE  /\ proc[p].pc # 0 /\ Here(p).op = "read" /\ Here(p).x \in Direction /\ UNCHANGED faults
         /\ (proc[p].cur = 0 /\ Leave(p, Nil)) \/ ReadMessage(p) \/ ReadEnd(p)
<1> DEFINE d == Here(p).x
           n == proc[p].cur
<1>1. proc[p].pc # 0 /\ Here(p).op = "read" /\ d \in Direction /\ UNCHANGED faults
  BY PlaceFacts DEF Read, At
<1>2. n \in 0..MaxRuns /\ chan \in Channels BY TypeParts DEF Process
<1>3. CASE n = 0 BY <1>1, <1>3 DEF Read
<1>4. CASE n # 0 /\ chan[n][d] # <<>>
  <2>1. n \in 1..MaxRuns /\ chan[n][d] \in Seq(Proc)
    BY <1>1, <1>2, <1>4, MaxRunsAssumption DEF Channels
  <2>2. /\ Receive(p, Head(chan[n][d])) /\ chan' = [chan EXCEPT ![n][d] = Tail(chan[n][d])]
        /\ UNCHANGED <<obj, name, backlog, faults>>
    BY <1>4 DEF Read
  <2>3. Carries(n, d, Tail(chan[n][d])) BY <1>1, <2>2, ChannelSet
  <2>4. Head(chan[n][d]) \in Proc \cup {Nil} BY <1>4, <2>1
  <2>5. Moves(p, proc[p].pc + 1, Head(chan[n][d])) BY <2>2, <2>4, ReceiveBecomes DEF Moves
  <2>6. ReadMessage(p) BY <1>4, <2>1, <2>3, <2>5 DEF ReadMessage
  <2> QED BY <1>1, <2>6
<1>5. CASE n # 0 /\ chan[n][d] = <<>>
  <2>1. n \in 1..MaxRuns BY <1>2, <1>5, MaxRunsAssumption
  <2>2. /\ proc' = [proc EXCEPT ![p].pc = Here(p).to, ![p].got = Nil] /\ ~Held(<<"w", d, n>>)
        /\ UNCHANGED <<obj, name, backlog, faults, chan>>
    BY <1>5 DEF Read
  <2>3. Here(p).to \in Nat BY <1>1, PlaceFacts
  <2>4. Moves(p, Here(p).to, Nil) BY <2>2, <2>3, Becoming DEF Moves
  <2>5. ReadEnd(p) BY <1>5, <2>1, <2>2, <2>4 DEF ReadEnd
  <2> QED BY <1>1, <2>5
<1> QED BY <1>3, <1>4, <1>5

\* What is on its way when a process leaves.
LEMMA LeaveCarries ==
  ASSUME IpcType, NEW p \in Proc, NEW c, Leave(p, c)
  PROVE  /\ \/ chan' = chan
            \/ \A m \in 1..MaxRuns : chan'[m]["toA"] = <<>> /\ chan'[m]["toB"] = chan[m]["toB"]
         /\ pair \notin {"fifo", "udp"} => chan' = chan
<1>1. \/ chan' = chan
      \/ chan' = [m \in 1..MaxRuns |-> [chan[m] EXCEPT !["toA"] = <<>>]]
  BY DEF Leave
<1>2. pair \notin {"fifo", "udp"} => chan' = chan BY DEF Leave
<1>3. \A m \in 1..MaxRuns : chan[m] \in [Direction -> Seq(Proc)] BY TypeParts DEF Channels
<1>4. ASSUME chan' = [m \in 1..MaxRuns |-> [chan[m] EXCEPT !["toA"] = <<>>]], NEW m \in 1..MaxRuns
      PROVE  chan'[m]["toA"] = <<>> /\ chan'[m]["toB"] = chan[m]["toB"]
  BY <1>3, <1>4 DEF Direction
<1> QED BY <1>1, <1>2, <1>4

\* The calls that send and receive: all others leave alone what is on its way, unless
\* the process leaves.
LEMMA QuietCalls ==
  ASSUME IpcType, NEW p \in Proc, Step(p),
         Here(p).op \notin {"write", "read", "send", "recv", "recvfrom", "sendto"}
  PROVE  chan' = chan \/ \E c \in Crash : Leave(p, c)
<1>1. CASE ObjectStep(p)
  <2>1. CASE Get(p) BY <2>1 DEF Get, Crash
  <2>2. CASE GiveUp(p) BY <2>2 DEF GiveUp, Crash
  <2>3. CASE Snd(p) \/ Rcv(p) BY <2>3 DEF Snd, Rcv
  <2>4. CASE Wait(p) \/ Post(p) BY <2>4 DEF Wait, Post, SemOp
  <2>5. CASE Attach(p) BY <2>5 DEF Attach, Crash
  <2>6. CASE Size(p) \/ Peek(p) \/ Remove(p) BY <2>6 DEF Size, Peek, Remove
  <2>7. CASE Poke(p) BY <2>7 DEF Poke, Crash
  <2> QED BY <1>1, <2>1, <2>2, <2>3, <2>4, <2>5, <2>6, <2>7 DEF ObjectStep
<1>2. CASE ChannelStep(p)
  <2>1. ~(Write(p) \/ Read(p) \/ Send(p) \/ Recv(p) \/ RecvFrom(p) \/ SendTo(p))
    BY DEF Write, Read, Send, Recv, RecvFrom, SendTo, At
  <2>2. CASE Fork(p) BY <2>2 DEF Fork, Crash
  <2>3. CASE Close(p) \/ Open(p) \/ Accept(p) \/ Exec(p) \/ Reap(p) \/ Input(p) \/ Pass(p)
    BY <2>3 DEF Close, Open, Accept, Exec, Reap, Input, Pass
  <2>4. CASE Listen(p) BY <2>4 DEF Listen, Crash
  <2>5. CASE Connect(p) BY <2>5 DEF Connect, Crash
  <2>6. CASE File(p) \/ Popen(p) BY <2>6 DEF File, Popen, Crash
  <2> QED BY <1>2, <2>1, <2>2, <2>3, <2>4, <2>5, <2>6 DEF ChannelStep
<1>3. CASE Exit(p) BY <1>3 DEF Exit, Crash
<1> QED BY <1>1, <1>2, <1>3 DEF Step

\* A writes to B and B to A, except through the FIFO.
LEMMA WriteCode ==
  \A r \in Pair : r # "fifo" =>
    /\ \A k \in DOMAIN Code(r, "A") :
         /\ Code(r, "A")[k].op = "write" => Code(r, "A")[k].x = "toB"
         /\ Code(r, "A")[k].op # "send"
    /\ \A k \in DOMAIN Code(r, "B") :
         /\ Code(r, "B")[k].op = "write" => Code(r, "B")[k].x = "toA"
         /\ Code(r, "B")[k].op # "sendto"
<1> DEFINE X(code) == \A k \in DOMAIN code : (code[k].op = "write" => code[k].x = "toB") /\ code[k].op # "send"
           Y(code) == \A k \in DOMAIN code : (code[k].op = "write" => code[k].x = "toA") /\ code[k].op # "sendto"
<1>0. ASSUME NEW r \in Sharing, NEW p \in Proc PROVE X(Code(r, p)) /\ Y(Code(r, p))
  BY SharingCode DEF Uses
<1> USE DEF Op, On, To
<1>1. X(Pipe("A")) /\ Y(Pipe("B")) BY DEF Pipe
<1>2. X(TellWait("A")) /\ Y(TellWait("B")) BY DEF TellWait
<1>3. X(Coprocess("A")) BY CoprocessIs
<1>4. Y(Coprocess("B")) BY DEF Coprocess
<1>5. X(TcpServer) /\ Y(TcpClient) BY DEF TcpServer, TcpClient
<1>6. X(UdpServer) /\ Y(UdpClient) BY DEF UdpServer, UdpClient
<1>7. X(UniqueConServer) /\ Y(UniqueConClient) BY DEF UniqueConServer, UniqueConClient
<1>8. X(SendFdServer) /\ Y(SendFdClient) BY DEF SendFdServer, SendFdClient
<1> HIDE DEF X, Y
<1>9. \A r \in Pair : r # "fifo" => X(Code(r, "A")) /\ Y(Code(r, "B"))
  <2>1. \A r \in Pair : r \notin Sharing /\ r # "fifo" => X(Code(r, "A")) /\ Y(Code(r, "B"))
    BY CodeIs2, <1>1, <1>2, <1>3, <1>4, <1>5, <1>6, <1>7, <1>8 DEF Pair, SysV, Forking,
       Socket, Sharing
  <2> QED BY <1>0, <2>1 DEF Proc
<1> QED BY <1>9 DEF X, Y

\* What is on its way to a process, as a set of sequences.
Sender(d) == IF d = "toA" THEN "B" ELSE "A"

\* ChanInv, one direction at a time.
LEMMA ChanParts ==
  pair # "fifo" => (ChanInv <=> \A m \in 1..MaxRuns, d \in Direction : chan[m][d] \in Seq({Sender(d)}))
  BY DEF ChanInv, Direction, Sender

\* Every step keeps the origin of what is on its way.
LEMMA ChanNext ==
  ASSUME IpcType, ChanInv, [Next]_vars
  PROVE  ChanInv'
<1>0. UNCHANGED pair BY DEF Next, Step, Start, Kill, vars
<1>1. CASE pair = "fifo" BY <1>0, <1>1 DEF ChanInv
<1> SUFFICES ASSUME pair # "fifo" PROVE ChanInv'
  BY <1>1
<1>2. \A m \in 1..MaxRuns, d \in Direction : chan[m][d] \in Seq({Sender(d)}) BY ChanParts
<1>3. ASSUME chan' = chan PROVE ChanInv' BY <1>0, <1>3 DEF ChanInv
<1>4. ASSUME NEW p \in Proc, NEW c, Leave(p, c) PROVE ChanInv'
  <2>1. ASSUME \A m \in 1..MaxRuns : chan'[m]["toA"] = <<>> /\ chan'[m]["toB"] = chan[m]["toB"] PROVE ChanInv'
    <3>1. <<>> \in Seq({"B"}) BY EmptyIsSeq
    <3> QED BY <1>0, <2>1, <3>1 DEF ChanInv
  <2> QED BY <1>3, <1>4, <2>1, LeaveCarries
<1>5. ASSUME NEW n \in 0..MaxRuns, NEW d \in Direction, NEW v, Carries(n, d, v),
             n \in 1..MaxRuns => v \in Seq({Sender(d)})
      PROVE  ChanInv'
  <2>1. \A m \in 1..MaxRuns, e \in Direction : chan'[m][e] \in Seq({Sender(e)})
    BY <1>2, <1>5 DEF Carries
  <2> QED BY <1>0, <2>1 DEF ChanInv, Direction, Sender
<1>6. ASSUME NEW n \in 1..MaxRuns, NEW d \in Direction
      PROVE  /\ Append(chan[n][d], Sender(d)) \in Seq({Sender(d)})
             /\ chan[n][d] # <<>> => Tail(chan[n][d]) \in Seq({Sender(d)})
  <2>1. chan[n][d] \in Seq({Sender(d)}) BY <1>2
  <2> QED BY <2>1
<1>7. ASSUME NEW p \in Proc, Step(p) PROVE ChanInv'
  <2>0. /\ proc[p].pc # 0 /\ proc[p].pc \in DOMAIN Code(pair, p) /\ proc[p].cur \in 0..MaxRuns
        /\ proc[p].runs \in 1..MaxRuns /\ proc[p].runs \in 0..MaxRuns
    <3>1. proc[p].pc # 0 BY <1>7, Dispatch
    <3>2. proc[p].pc \in DOMAIN Code(pair, p) /\ proc[p].runs # 0 BY <3>1 DEF IpcType
    <3>3. proc[p].cur \in 0..MaxRuns /\ proc[p].runs \in 0..MaxRuns BY TypeParts DEF Process
    <3> QED BY <3>1, <3>2, <3>3, MaxRunsAssumption
  <2>1. CASE Here(p).op = "write"
    <3>1. Write(p) BY <1>7, <2>1, Dispatch
    <3>2. Here(p).x \in Direction /\ Sender(Here(p).x) = p
      BY <2>0, <2>1, <3>1, WriteIs, WriteCode, TypeParts DEF Here, Sender, Direction, Proc
    <3>3. CASE Written(p)
      <4>1. Carries(proc[p].cur, Here(p).x, Append(chan[proc[p].cur][Here(p).x], p))
        BY <3>3 DEF Written
      <4> QED BY <1>5, <1>6, <2>0, <3>2, <4>1
    <3> QED BY <1>4, <1>7, <3>1, <3>3, WriteIs
  <2>2. CASE Here(p).op = "read"
    <3>1. Read(p) BY <1>7, <2>2, Dispatch
    <3>2. Here(p).x \in Direction BY <1>7, <3>1, ReadIs
    <3>3. CASE ReadMessage(p) BY <1>5, <1>6, <2>0, <3>2, <3>3 DEF ReadMessage
    <3>4. CASE ReadEnd(p) BY <1>3, <3>4 DEF ReadEnd
    <3> QED BY <1>4, <1>7, <3>1, <3>3, <3>4, ReadIs
  <2>3. CASE Here(p).op = "send"
    <3>1. Send(p) BY <1>7, <2>3, Dispatch
    <3>2. p = "B" /\ "toA" \in Direction /\ Sender("toA") = "B"
      BY <2>0, <2>3, WriteCode, TypeParts DEF Here, Proc, Direction, Sender
    <3>3. CASE chan' = chan BY <1>3, <3>3
    <3>4. CASE chan' # chan
      <4>1. chan' = [chan EXCEPT ![proc[p].runs]["toA"] = Append(chan[proc[p].runs]["toA"], p)]
        BY <3>1, <3>4 DEF Send, Datagram
      <4>2. Carries(proc[p].runs, "toA", Append(chan[proc[p].runs]["toA"], p))
        BY <3>2, <4>1, ChannelSet
      <4> QED BY <1>5, <1>6, <2>0, <3>2, <4>2
    <3> QED BY <3>3, <3>4
  <2>4. CASE Here(p).op = "sendto"
    <3>1. SendTo(p) BY <1>7, <2>4, Dispatch
    <3>2. p = "A" /\ "toB" \in Direction /\ Sender("toB") = "A"
      BY <2>0, <2>4, WriteCode, TypeParts DEF Here, Proc, Direction, Sender
    <3>3. CASE chan' = chan BY <1>3, <3>3
    <3>4. CASE chan' # chan
      <4>1. chan' = [chan EXCEPT ![proc[p].cur]["toB"] = Append(chan[proc[p].cur]["toB"], p)]
        BY <3>1, <3>4 DEF SendTo, Datagram
      <4>2. Carries(proc[p].cur, "toB", Append(chan[proc[p].cur]["toB"], p))
        BY <3>2, <4>1, ChannelSet
      <4> QED BY <1>5, <1>6, <2>0, <3>2, <4>2
    <3> QED BY <3>3, <3>4
  <2>5. CASE Here(p).op = "recv"
    <3>1. Recv(p) BY <1>7, <2>5, Dispatch
    <3>2. CASE proc[p].cur = 0 BY <1>4, <1>7, <3>1, <3>2 DEF Recv
    <3>3. CASE proc[p].cur # 0
      <4>1. "toB" \in Direction /\ proc[p].cur \in 1..MaxRuns
        BY <2>0, <3>3, MaxRunsAssumption DEF Direction
      <4>2. /\ chan[proc[p].cur]["toB"] # <<>>
            /\ chan' = [chan EXCEPT ![proc[p].cur]["toB"] = Tail(chan[proc[p].cur]["toB"])]
        BY <3>1, <3>3 DEF Recv
      <4>3. Carries(proc[p].cur, "toB", Tail(chan[proc[p].cur]["toB"]))
        BY <4>1, <4>2, ChannelSet
      <4> QED BY <1>5, <1>6, <2>0, <4>1, <4>2, <4>3
    <3> QED BY <3>2, <3>3
  <2>6. CASE Here(p).op = "recvfrom"
    <3>1. RecvFrom(p) BY <1>7, <2>6, Dispatch
    <3>2. PICK n \in 1..MaxRuns : chan[n]["toA"] # <<>> /\ chan' = [chan EXCEPT ![n]["toA"] = Tail(chan[n]["toA"])]
      BY <3>1 DEF RecvFrom
    <3>3. "toA" \in Direction /\ n \in 0..MaxRuns BY MaxRunsAssumption DEF Direction
    <3>4. Carries(n, "toA", Tail(chan[n]["toA"])) BY <3>2, <3>3, ChannelSet
    <3> QED BY <1>5, <1>6, <3>2, <3>3, <3>4
  <2>7. CASE Here(p).op \notin {"write", "read", "send", "recv", "recvfrom", "sendto"}
    BY <1>3, <1>4, <1>7, <2>7, QuietCalls
  <2> QED BY <2>1, <2>2, <2>3, <2>4, <2>5, <2>6, <2>7
<1>8. ASSUME NEW p \in Proc, Start(p) PROVE ChanInv' BY <1>3, <1>8 DEF Start
<1>9. ASSUME NEW p \in Proc, Kill(p) PROVE ChanInv' BY <1>4, <1>9 DEF Kill
<1>10. CASE UNCHANGED vars BY <1>3, <1>10 DEF vars
<1> QED BY <1>7, <1>8, <1>9, <1>10 DEF Next

-----------------------------------------------------------------------------
(* Shared memory. *)

\* The calls of the programs with shared memory.
ShmPlace(r, p, k, call) ==
  /\ k \in Nat
  /\ call.op \in {"get", "fork", "attach", "size", "poke", "peek", "use", "nap", "remove",
                 "unlink", "reap", "exit"}
  /\ call.op = "get" => /\ k = 1 /\ call.x \in {"create", "trunc", "open", "anonymous"}
                        /\ call.x = "trunc" => r = "posixshm"
  /\ r = "svshm" /\ k = 1 => call.op = "get"
  /\ call.op = "poke" => p = IF r = "posixshm" THEN "B" ELSE "A"
  /\ call.op = "remove" => r = "svshm" /\ p = "A" /\ k = 5
  /\ call.op = "attach" => r = "svshm"

\* The programs with shared memory make their calls there.
LEMMA ShmCode ==
  \A r \in Memory, p \in Proc : \A k \in DOMAIN Code(r, p) : ShmPlace(r, p, k, Code(r, p)[k])
<1> DEFINE Fits(r, p, code) == \A k \in DOMAIN code : ShmPlace(r, p, k, code[k])
<1> USE DEF ShmPlace, Op, On
<1>1. Fits("svshm", "A", SvShm1) BY DEF SvShm1
<1>2. Fits("svshm", "B", SvShm2) BY DEF SvShm2
<1>3. Fits("posixshm", "A", PosixShm1) BY DEF PosixShm1
<1>4. Fits("posixshm", "B", PosixShm2) BY DEF PosixShm2
<1>5. Fits("mmap", "A", Mmap("A")) BY DEF Mmap
<1>6. Fits("mmap", "B", Mmap("B")) BY DEF Mmap
<1> HIDE DEF Fits
<1>7. \A r \in Memory, p \in Proc : Fits(r, p, Code(r, p))
  BY CodeIs, <1>1, <1>2, <1>3, <1>4, <1>5, <1>6 DEF Memory, Proc
<1> QED BY <1>7 DEF Fits

\* The call of a process with shared memory.
LEMMA ShmHere ==
  ASSUME IpcType, pair \in Memory, NEW p \in Proc, proc[p].pc # 0
  PROVE  ShmPlace(pair, p, proc[p].pc, Here(p)) /\ pair \in Sharing
  BY ShmCode DEF IpcType, Here, Memory, Sharing, SysV

\* What most steps do to the memory: the writer may write, nothing is taken away.
ShmFrame ==
  /\ DOMAIN obj' = DOMAIN obj
  /\ \A k \in DOMAIN obj :
       /\ obj'[k].text = obj[k].text \/ obj'[k].text = Writer
       /\ (obj[k].sized => obj'[k].sized) /\ (obj[k].open => obj'[k].open)
       /\ (obj[k].alive => obj'[k].alive)
  /\ name' \in {0, name} /\ UNCHANGED pair
  /\ pair = "svshm" /\ proc'["A"].pc \in 2..5 => proc["A"].pc \in 2..5 /\ proc'["A"].ref = proc["A"].ref

\* The segments that the invariant speaks of exist.
LEMMA ShmExists ==
  ASSUME IpcType, RefInv, pair \in Memory
  PROVE  /\ pair \in Sharing /\ name \in Nat
         /\ name # 0 => name \in DOMAIN obj
         /\ pair = "svshm" /\ proc["A"].pc \in 2..5 => proc["A"].ref \in DOMAIN obj
<1>1. pair \in Sharing /\ name \in Nat /\ "A" \in Proc
  BY TypeParts DEF Memory, Sharing, SysV, Proc
<1>2. name # 0 => name \in DOMAIN obj BY <1>1, SemTypes DEF RefInv
<1>3. ASSUME proc["A"].pc \in 2..5 PROVE proc["A"].ref \in DOMAIN obj
  <2>1. proc["A"].pc # 0 /\ proc["A"].pc # 1 BY <1>3
  <2>2. Here("A").op # "get" BY <1>1, <2>1, ShmHere DEF ShmPlace
  <2> QED BY <1>1, <2>1, <2>2, SemTypes DEF RefInv
<1> QED BY <1>1, <1>2, <1>3

\* Such a step keeps the invariant of the memory.
LEMMA ShmFrameKeeps ==
  ASSUME IpcType, RefInv, ShmInv, pair \in Memory, ShmFrame
  PROVE  ShmInv'
<1>1. Writer' = Writer /\ pair' = pair BY DEF ShmFrame, Writer
<1>2. \A r \in DOMAIN obj' : obj'[r].text \in {Nil, Writer} /\ (pair # "posixshm" => obj'[r].sized /\ obj'[r].open)
  BY DEF ShmInv, ShmFrame
<1>3. pair = "svshm" /\ name' # 0 => obj'[name'].alive BY ShmExists DEF ShmInv, ShmFrame
<1>4. pair = "svshm" /\ proc'["A"].pc \in 2..5 => obj'[proc'["A"].ref].alive
  BY ShmExists DEF ShmInv, ShmFrame
<1> QED BY <1>1, <1>2, <1>3, <1>4 DEF ShmInv

\* A process that leaves, and one that goes on without touching the memory.
LEMMA ShmLeave ==
  ASSUME IpcType, RefInv, ShmInv, pair \in Memory, NEW p \in Proc, NEW c \in Crash, Leave(p, c), UNCHANGED pair
  PROVE  ShmInv'
<1> DEFINE r == proc[p].ref
           v == IF obj[r].val + proc[p].adj < 0 THEN 0 ELSE obj[r].val + proc[p].adj
           e == [obj[r] EXCEPT !.val = v]
<1>1. obj' = obj \/ obj' = [obj EXCEPT ![r] = e] BY DEF Leave
<1>2. r \in DOMAIN obj => /\ e \in Object /\ e.text = obj[r].text /\ e.sized = obj[r].sized
                          /\ e.open = obj[r].open /\ e.alive = obj[r].alive
  <2> SUFFICES ASSUME r \in DOMAIN obj
               PROVE  /\ e \in Object /\ e.text = obj[r].text /\ e.sized = obj[r].sized
                      /\ e.open = obj[r].open /\ e.alive = obj[r].alive
    OBVIOUS
  <2>1. obj[r] \in Object BY SemTypes
  <2>2. v \in Int BY SemTypes
  <2> HIDE DEF v
  <2> QED BY <2>1, <2>2 DEF Object
<1> HIDE DEF e
<1>3. /\ DOMAIN obj' = DOMAIN obj
      /\ \A k \in DOMAIN obj : /\ obj'[k].text = obj[k].text /\ obj'[k].sized = obj[k].sized
                               /\ obj'[k].open = obj[k].open /\ obj'[k].alive = obj[k].alive
  BY <1>1, <1>2, SetElement, SemTypes
<1>4. name' \in {0, name} BY DEF Leave
<1>5. /\ proc'[p].pc = 0
      /\ proc'[Other(p)].pc = proc[Other(p)].pc /\ proc'[Other(p)].ref = proc[Other(p)].ref
  BY LeaveIs DEF Gone, Same, Crash
<1>6. proc'["A"].pc \in 2..5 => proc["A"].pc \in 2..5 /\ proc'["A"].ref = proc["A"].ref
  BY <1>5 DEF Other, Proc
<1>7. ShmFrame BY <1>3, <1>4, <1>6 DEF ShmFrame
<1> QED BY <1>7, ShmFrameKeeps

\* A process goes on, and may have written or given the memory its size.
LEMMA ShmMoves ==
  ASSUME IpcType, RefInv, ShmInv, pair \in Memory, UNCHANGED pair, NEW p \in Proc, proc[p].pc # 0,
         Here(p).op \notin {"get", "remove"}, name' \in {0, name},
         NEW got, Becomes(p, proc[p].pc + 1, proc[p].ref, proc[p].adj, proc[p].cur, proc[p].ends, got),
         \/ obj' = obj
         \/ /\ Here(p).op = "poke" /\ obj' = [obj EXCEPT ![proc[p].ref].text = p]
         \/ /\ Here(p).op = "size" /\ obj' = [obj EXCEPT ![proc[p].ref].sized = TRUE]
  PROVE  ShmInv'
<1> DEFINE r == proc[p].ref
           t == [obj[r] EXCEPT !.text = p]
           z == [obj[r] EXCEPT !.sized = TRUE]
<1>1. ShmPlace(pair, p, proc[p].pc, Here(p)) BY ShmHere
<1>2. Here(p).op \in {"poke", "size"} => r \in DOMAIN obj /\ obj[r] \in Object
  BY HasObject DEF Uses, Obj
<1>3. /\ DOMAIN obj' = DOMAIN obj
      /\ \A k \in DOMAIN obj :
           /\ obj'[k].text = obj[k].text \/ obj'[k].text = Writer
           /\ (obj[k].sized => obj'[k].sized) /\ (obj[k].open => obj'[k].open)
           /\ (obj[k].alive => obj'[k].alive)
  <2>1. CASE obj' = obj BY <2>1
  <2>2. CASE Here(p).op = "poke" /\ obj' = [obj EXCEPT ![r] = t]
    <3>1. /\ t \in Object /\ t.text = p /\ t.sized = obj[r].sized /\ t.open = obj[r].open
          /\ t.alive = obj[r].alive /\ r \in DOMAIN obj
      BY <1>2, <2>2 DEF Object
    <3>2. p = Writer BY <1>1, <2>2 DEF ShmPlace, Writer
    <3> HIDE DEF t, r
    <3> QED BY <2>2, <3>1, <3>2, SetElement, SemTypes
  <2>3. CASE Here(p).op = "size" /\ obj' = [obj EXCEPT ![r] = z]
    <3>1. /\ z \in Object /\ z.text = obj[r].text /\ z.sized /\ z.open = obj[r].open
          /\ z.alive = obj[r].alive /\ r \in DOMAIN obj
      BY <1>2, <2>3 DEF Object
    <3> HIDE DEF z, r
    <3> QED BY <2>3, <3>1, SetElement, SemTypes
  <2> QED BY <2>1, <2>2, <2>3
<1>4. /\ proc'[p].pc = proc[p].pc + 1 /\ proc'[p].ref = r
      /\ \A q \in Proc : q # p => proc'[q] = proc[q]
  BY Zenon DEF Becomes, Is
<1>5. pair = "svshm" /\ proc'["A"].pc \in 2..5 => proc["A"].pc \in 2..5 /\ proc'["A"].ref = proc["A"].ref
  <2>1. CASE p # "A" BY <1>4, <2>1 DEF Proc
  <2>2. CASE p = "A"
    <3>1. pair = "svshm" => proc[p].pc # 1 BY <1>1 DEF ShmPlace
    <3>2. proc[p].pc \in Nat BY SemTypes
    <3> QED BY <1>4, <2>2, <3>1, <3>2
  <2> QED BY <2>1, <2>2
<1>6. ShmFrame BY <1>3, <1>5 DEF ShmFrame
<1> QED BY <1>6, ShmFrameKeeps

\* The segment of the key is used, or a new one made.
LEMMA ShmGet ==
  ASSUME IpcType, RefInv, ShmInv, pair \in Memory, UNCHANGED pair, NEW p \in Proc, Get(p)
  PROVE  ShmInv'
<1> DEFINE c == proc[p].pc
           x == Here(p).x
<1>1. /\ c # 0 /\ Here(p).op = "get"
      /\ (Leave(p, Nil) /\ UNCHANGED faults) \/ GetsOld(p) \/ GetsNew(p)
  BY GetIs
<1>2. c = 1 /\ x \in {"create", "trunc", "open", "anonymous"} /\ (x = "trunc" => pair = "posixshm")
  BY <1>1, ShmHere DEF ShmPlace
<1>3. CASE Leave(p, Nil) BY <1>3, ShmLeave DEF Crash
<1>4. /\ pair # "svshm" \/ name = 0 \/ obj[name].alive
      /\ name # 0 => name \in DOMAIN obj /\ obj[name] \in Object
      /\ Writer' = Writer
  BY ShmExists, SemTypes DEF ShmInv, Writer
<1>5. ASSUME NEW n, Becomes(p, c + 1, n, proc[p].adj, proc[p].cur, proc[p].ends, proc[p].got),
             DOMAIN obj \subseteq DOMAIN obj',
             \A k \in DOMAIN obj' :
               obj'[k].text \in {Nil, Writer} /\ (pair # "posixshm" => obj'[k].sized /\ obj'[k].open),
             pair = "svshm" => obj'[n].alive /\ name' = n /\ \A k \in DOMAIN obj : obj'[k] = obj[k]
      PROVE  ShmInv'
  <2>1. proc'[p].ref = n /\ \A q \in Proc : q # p => proc'[q] = proc[q]
    BY <1>5, Zenon DEF Becomes, Is
  <2>2. ASSUME pair = "svshm", proc'["A"].pc \in 2..5 PROVE obj'[proc'["A"].ref].alive
    <3>1. CASE p = "A" BY <1>5, <2>1, <2>2, <3>1
    <3>2. CASE p # "A"
      <4>1. proc'["A"] = proc["A"] BY <2>1, <3>2 DEF Proc
      <4> QED BY <1>5, <2>2, <4>1, ShmExists DEF ShmInv
    <3> QED BY <3>1, <3>2
  <2> QED BY <1>4, <1>5, <2>2 DEF ShmInv
<1>6. CASE GetsOld(p)
  <2>1. Becomes(p, c + 1, name, proc[p].adj, proc[p].cur, proc[p].ends, proc[p].got)
    BY <1>6 DEF GetsOld
  <2>2. name # 0 /\ name' = name /\ (x # "trunc" => obj' = obj) BY <1>6 DEF GetsOld
  <2>3. CASE x # "trunc" BY <1>4, <1>5, <2>1, <2>2, <2>3 DEF ShmInv
  <2>4. CASE x = "trunc"
    <3> DEFINE t == [obj[name] EXCEPT !.sized = FALSE, !.text = Nil]
               u == [obj[name] EXCEPT !.sized = FALSE]
    <3>1. obj' = [obj EXCEPT ![name] = t]
      <4>1. obj' = [obj EXCEPT ![name].sized = FALSE, ![name].text = Nil]
        BY <1>6, <2>4 DEF GetsOld
      <4> QED BY <4>1, TypeParts, Zenon
    <3>2. t \in Object /\ t.text = Nil
      <4>1. u \in Object BY <1>4, <2>2, SetObject
      <4> HIDE DEF u
      <4>2. [u EXCEPT !.text = Nil] \in Object /\ [u EXCEPT !.text = Nil].text = Nil
        BY <4>1 DEF Object
      <4> QED BY <4>2, Zenon DEF u
    <3> HIDE DEF t
    <3>3. DOMAIN obj' = DOMAIN obj /\ \A k \in DOMAIN obj : obj'[k] = IF k = name THEN t ELSE obj[k]
      BY <3>1, <3>2, SetElement, SemTypes
    <3>4. \A k \in DOMAIN obj' : obj'[k].text \in {Nil, Writer} BY <3>2, <3>3 DEF ShmInv
    <3> QED BY <1>2, <1>5, <2>1, <2>4, <3>3, <3>4
  <2> QED BY <2>3, <2>4
<1>7. CASE GetsNew(p)
  <2> DEFINE n == Len(obj) + 1
             e == NewObject(x)
  <2>1. Becomes(p, c + 1, n, proc[p].adj, proc[p].cur, proc[p].ends, proc[p].got)
    BY <1>7 DEF GetsNew
  <2>2. obj' = Append(obj, e) /\ e \in Object /\ name' = IF x = "anonymous" THEN 0 ELSE n
    BY <1>7 DEF GetsNew
  <2>3. e.text = Nil /\ e.alive /\ (pair # "posixshm" => e.sized /\ e.open)
    BY <1>2 DEF NewObject
  <2>4. pair = "svshm" => x # "anonymous"
    <3>1. ASSUME pair = "svshm" PROVE x # "anonymous"
      <4>1. Here(p) \in {SvShm1[1], SvShm2[1]} BY <1>2, <3>1, CodeIs DEF Here, Proc
      <4> QED BY <4>1 DEF SvShm1, SvShm2, On
    <3> QED BY <3>1
  <2> HIDE DEF e
  <2>5. /\ DOMAIN obj' = 1..n /\ DOMAIN obj = 1..Len(obj) /\ obj'[n] = e /\ Len(obj) \in Nat
        /\ \A k \in DOMAIN obj : obj'[k] = obj[k]
    BY <2>2, SemTypes
  <2>6. /\ DOMAIN obj \subseteq DOMAIN obj'
        /\ \A k \in DOMAIN obj' : k \in DOMAIN obj \/ k = n
    BY <2>5
  <2> HIDE DEF n
  <2>7. \A k \in DOMAIN obj' :
          obj'[k].text \in {Nil, Writer} /\ (pair # "posixshm" => obj'[k].sized /\ obj'[k].open)
    BY <2>3, <2>5, <2>6 DEF ShmInv
  <2> QED BY <1>5, <2>1, <2>2, <2>3, <2>4, <2>5, <2>6, <2>7
<1> QED BY <1>1, <1>3, <1>6, <1>7

\* Every step keeps the invariant of the memory.
LEMMA ShmNext ==
  ASSUME IpcType, RefInv, ShmInv, [Next]_vars
  PROVE  ShmInv'
<1>0. UNCHANGED pair BY DEF Next, Step, Start, Kill, vars
<1>1. CASE pair \notin Memory BY <1>0, <1>1 DEF ShmInv
<1> SUFFICES ASSUME pair \in Memory PROVE ShmInv'
  BY <1>1
<1>2. CASE UNCHANGED vars BY <1>2 DEF vars, ShmInv, Writer
<1>3. ASSUME NEW p \in Proc, Step(p) PROVE ShmInv'
  <2>1. proc[p].pc # 0 /\ ShmPlace(pair, p, proc[p].pc, Here(p)) /\ pair \in Sharing
    BY <1>3, Dispatch, ShmHere
  <2>2. CASE Here(p).op = "get"
    <3>1. Get(p) BY <1>3, <2>2, Dispatch
    <3> QED BY <1>0, <1>3, <3>1, ShmGet
  <2>3. CASE Here(p).op = "fork"
    <3>1. Fork(p) BY <1>3, <2>3, Dispatch
    <3>2. p = "A" /\ (Leave(p, Nil) \/ Forked) BY <1>3, <3>1, ForkIs
    <3>3. CASE Leave(p, Nil) BY <1>0, <3>3, ShmLeave DEF Crash
    <3>4. CASE Forked
      <4>1. /\ proc'["A"].pc = proc["A"].pc + 1 /\ proc'["A"].ref = proc["A"].ref
            /\ obj' = obj /\ name' = name
        BY <3>4 DEF Forked, Is
      <4>2. proc["A"].pc \in Nat /\ (pair = "svshm" => proc["A"].pc # 1)
        BY <2>1, <2>3, <3>2, SemTypes DEF ShmPlace
      <4>3. pair = "svshm" /\ proc'["A"].pc \in 2..5 => proc["A"].pc \in 2..5
        BY <2>1, <3>2, <4>1, <4>2
      <4>4. ShmFrame BY <1>0, <4>1, <4>3 DEF ShmFrame
      <4> QED BY <4>4, ShmFrameKeeps
    <3> QED BY <3>2, <3>3, <3>4
  <2>4. CASE Here(p).op = "attach"
    <3>1. Attach(p) BY <1>3, <2>4, Dispatch
    <3>2. CASE Leave(p, "SIGSEGV") BY <1>0, <3>2, ShmLeave DEF Crash
    <3>3. CASE Advance(p) /\ UNCHANGED <<obj, name>>
      BY <1>0, <2>1, <2>4, <3>3, ShmMoves, AdvanceBecomes
    <3> QED BY <3>1, <3>2, <3>3 DEF Attach
  <2>5. CASE Here(p).op = "poke"
    <3>1. Poke(p) BY <1>3, <2>5, Dispatch
    <3>2. CASE Leave(p, "SIGBUS") BY <1>0, <3>2, ShmLeave DEF Crash
    <3>3. CASE Advance(p) /\ obj' = [obj EXCEPT ![proc[p].ref].text = p] /\ UNCHANGED name
      BY <1>0, <2>1, <2>5, <3>3, ShmMoves, AdvanceBecomes
    <3> QED BY <3>1, <3>2, <3>3 DEF Poke
  <2>6. CASE Here(p).op = "size"
    <3>1. Size(p) BY <1>3, <2>6, Dispatch
    <3>2. Advance(p) /\ obj' = [obj EXCEPT ![proc[p].ref].sized = TRUE] /\ UNCHANGED name
      BY <3>1 DEF Size
    <3> QED BY <1>0, <2>1, <2>6, <3>2, ShmMoves, AdvanceBecomes
  <2>7. CASE Here(p).op = "peek"
    <3>1. Peek(p) BY <1>3, <2>7, Dispatch
    <3>2. Obj(p) \in Object BY <2>1, <2>7, HasObject DEF Uses
    <3>3. Obj(p).text \in Proc \cup {Nil} BY <3>2 DEF Object
    <3>4. Receive(p, Obj(p).text) /\ UNCHANGED <<obj, name>> BY <3>1 DEF Peek
    <3> QED BY <1>0, <2>1, <2>7, <3>3, <3>4, ShmMoves, ReceiveBecomes
  <2>8. CASE Here(p).op \in {"use", "nap", "reap"}
    <3>1. Pass(p) \/ Reap(p) BY <1>3, <2>8, Dispatch
    <3>2. Advance(p) /\ UNCHANGED <<obj, name>> BY <2>8, <3>1 DEF Pass, Reap, At
    <3> QED BY <1>0, <2>1, <2>8, <3>2, ShmMoves, AdvanceBecomes
  <2>9. CASE Here(p).op = "unlink"
    <3>1. Remove(p) BY <1>3, <2>9, Dispatch
    <3>2. Advance(p) /\ obj' = obj /\ name' = 0 BY <2>9, <3>1 DEF Remove, At
    <3> QED BY <1>0, <2>1, <2>9, <3>2, ShmMoves, AdvanceBecomes
  <2>10. CASE Here(p).op = "remove"
    <3> DEFINE r == proc[p].ref
               e == [obj[r] EXCEPT !.alive = FALSE]
    <3>1. Remove(p) BY <1>3, <2>10, Dispatch
    <3>2. Advance(p) /\ obj' = [obj EXCEPT ![r] = e] /\ name' = IF name # r THEN name ELSE 0
      BY <2>1, <2>10, <3>1 DEF Remove, At
    <3>3. pair = "svshm" /\ p = "A" /\ proc["A"].pc = 5 BY <2>1, <2>10 DEF ShmPlace
    <3>4. r \in DOMAIN obj /\ obj[r] \in Object BY <2>1, <2>10, HasObject DEF Uses, Obj
    <3>5. e \in Object /\ e.text = obj[r].text /\ e.sized = obj[r].sized /\ e.open = obj[r].open
      BY <3>4 DEF Object
    <3>6. proc'[p].pc = proc[p].pc + 1 BY <3>2, AdvanceBecomes, Zenon DEF Becomes, Is
    <3> HIDE DEF e
    <3>7. DOMAIN obj' = DOMAIN obj /\ \A k \in DOMAIN obj : obj'[k] = IF k = r THEN e ELSE obj[k]
      BY <3>2, <3>4, <3>5, SetElement, SemTypes
    <3>8. name' # 0 => obj'[name'].alive BY <3>2, <3>3, <3>7, ShmExists DEF ShmInv
    <3>9. Writer' = Writer BY <1>0 DEF Writer
    <3>10. \A k \in DOMAIN obj' : obj'[k].text \in {Nil, Writer} /\ obj'[k].sized /\ obj'[k].open
      BY <3>3, <3>5, <3>7 DEF ShmInv
    <3> QED BY <1>0, <3>3, <3>6, <3>8, <3>9, <3>10 DEF ShmInv
  <2>11. CASE Here(p).op = "exit"
    <3>1. Exit(p) BY <1>3, <2>11, Dispatch
    <3> QED BY <1>0, <3>1, ShmLeave DEF Exit, Crash
  <2> QED
    BY <2>1, <2>2, <2>3, <2>4, <2>5, <2>6, <2>7, <2>8, <2>9, <2>10, <2>11 DEF ShmPlace
<1>4. ASSUME NEW p \in Proc, Start(p) PROVE ShmInv'
  <2>1. proc'[p] = Fresh(proc[p].runs + 1) /\ (\A q \in Proc : q # p => proc'[q] = proc[q])
        /\ UNCHANGED <<obj, name>>
    BY <1>4, StartIs
  <2>2. proc'[p].pc = 1 BY <2>1 DEF Fresh
  <2>3. proc'["A"].pc \in 2..5 => proc["A"].pc \in 2..5 /\ proc'["A"].ref = proc["A"].ref
    BY <2>1, <2>2 DEF Proc
  <2>4. ShmFrame BY <1>0, <2>1, <2>3 DEF ShmFrame
  <2> QED BY <2>4, ShmFrameKeeps
<1>5. ASSUME NEW p \in Proc, Kill(p) PROVE ShmInv' BY <1>0, <1>5, ShmLeave DEF Kill, Crash
<1> QED BY <1>2, <1>3, <1>4, <1>5 DEF Next

-----------------------------------------------------------------------------
(* Pipes. *)

\* Only the clients of connections connect.
LEMMA ConnectCode ==
  \A r \in Pair : r \notin {"tcp", "uniquecon", "sendfd"} =>
    \A k \in DOMAIN Code(r, "B") : Code(r, "B")[k].op # "connect"
<1> DEFINE X(code) == \A k \in DOMAIN code : code[k].op # "connect"
<1>0. ASSUME NEW r \in Sharing PROVE X(Code(r, "B")) BY SharingCode DEF Uses, Proc
<1> USE DEF Op, On, To
<1>1. X(Pipe("B")) /\ X(TellWait("B")) /\ X(Coprocess("B")) BY DEF Pipe, TellWait, Coprocess
<1>2. X(Fifo2) /\ X(UdpClient) BY DEF Fifo2, UdpClient
<1> HIDE DEF X
<1>3. \A r \in Pair : r \notin {"tcp", "uniquecon", "sendfd"} => X(Code(r, "B"))
  <2>1. \A r \in Pair : r \notin Sharing /\ r \notin {"tcp", "uniquecon", "sendfd"} => X(Code(r, "B"))
    BY CodeIs2, <1>1, <1>2 DEF Pair, SysV, Forking, Socket, Sharing
  <2> QED BY <1>0, <2>1
<1> QED BY <1>3 DEF X

\* The calls that change the backlog.
LEMMA QueueCalls ==
  ASSUME IpcType, NEW p \in Proc, Step(p), ~Connect(p), ~Accept(p)
  PROVE  backlog' = backlog \/ backlog' = <<>>
<1>0. ASSUME NEW c, Leave(p, c) PROVE backlog' = backlog \/ backlog' = <<>> BY <1>0 DEF Leave
<1>1. CASE ObjectStep(p)
  <2>1. CASE Get(p) BY <1>0, <2>1 DEF Get
  <2>2. CASE GiveUp(p) BY <1>0, <2>2 DEF GiveUp
  <2>3. CASE Snd(p) \/ Rcv(p) BY <2>3 DEF Snd, Rcv
  <2>4. CASE Wait(p) \/ Post(p) BY <2>4 DEF Wait, Post, SemOp
  <2>5. CASE Attach(p) BY <1>0, <2>5 DEF Attach
  <2>6. CASE Size(p) \/ Peek(p) \/ Remove(p) BY <2>6 DEF Size, Peek, Remove
  <2>7. CASE Poke(p) BY <1>0, <2>7 DEF Poke
  <2> QED BY <1>1, <2>1, <2>2, <2>3, <2>4, <2>5, <2>6, <2>7 DEF ObjectStep
<1>2. CASE ChannelStep(p)
  <2>1. CASE Fork(p) BY <1>0, <2>1 DEF Fork
  <2>2. CASE Close(p) \/ Open(p) \/ Exec(p) \/ Reap(p) \/ Input(p) \/ Pass(p)
    BY <2>2 DEF Close, Open, Exec, Reap, Input, Pass
  <2>3. CASE Listen(p) BY <1>0, <2>3 DEF Listen
  <2>4. CASE Write(p) BY <1>0, <2>4 DEF Write
  <2>5. CASE Read(p) BY <1>0, <2>5 DEF Read
  <2>6. CASE Recv(p) BY <1>0, <2>6 DEF Recv
  <2>7. CASE Send(p) \/ RecvFrom(p) \/ SendTo(p) BY <2>7 DEF Send, RecvFrom, SendTo
  <2>8. CASE File(p) \/ Popen(p) BY <1>0, <2>8 DEF File, Popen
  <2> QED BY <1>2, <2>1, <2>2, <2>3, <2>4, <2>5, <2>6, <2>7, <2>8 DEF ChannelStep
<1>3. CASE Exit(p) BY <1>0, <1>3 DEF Exit
<1> QED BY <1>1, <1>2, <1>3 DEF Step

\* Every step keeps the backlog empty where there are no connections.
LEMMA QueueNext ==
  ASSUME IpcType, QueueInv, [Next]_vars
  PROVE  QueueInv'
<1>0. UNCHANGED pair BY DEF Next, Step, Start, Kill, vars
<1> SUFFICES ASSUME pair \notin {"tcp", "uniquecon", "sendfd"} PROVE backlog' = <<>>
  BY <1>0 DEF QueueInv
<1>1. backlog = <<>> BY DEF QueueInv
<1>2. ASSUME NEW p \in Proc, Step(p) PROVE backlog' = <<>>
  <2>1. ~Connect(p)
    <3> SUFFICES ASSUME Connect(p) PROVE FALSE
      OBVIOUS
    <3>1. p = "B" /\ proc["B"].pc # 0 /\ Here("B").op = "connect" BY ConnectIs
    <3>2. proc["B"].pc \in DOMAIN Code(pair, "B") BY <3>1, PlaceFacts
    <3> QED BY <3>1, <3>2, ConnectCode, TypeParts DEF Here
  <2>2. ~Accept(p) BY <1>1 DEF Accept
  <2> QED BY <1>1, <1>2, <2>1, <2>2, QueueCalls
<1>3. ASSUME NEW p \in Proc, Start(p) PROVE backlog' = <<>> BY <1>1, <1>3 DEF Start
<1>4. ASSUME NEW p \in Proc, Kill(p) PROVE backlog' = <<>> BY <1>1, <1>4 DEF Kill, Leave
<1>5. CASE UNCHANGED vars BY <1>1, <1>5 DEF vars
<1> QED BY <1>2, <1>3, <1>4, <1>5 DEF Next

\* What a process is after a step of its own; the other one is what it was.
LEMMA BecomesIs ==
  ASSUME NEW p, NEW pc, NEW ref, NEW adj, NEW cur, NEW ends, NEW got,
         Becomes(p, pc, ref, adj, cur, ends, got)
  PROVE  /\ proc'[p].pc = pc /\ proc'[p].runs = proc[p].runs /\ proc'[p].ref = ref
         /\ proc'[p].cur = cur /\ proc'[p].ends = ends /\ proc'[p].got = got /\ proc'[p].crash = proc[p].crash
         /\ p = "A" => proc'["B"] = proc["B"]
         /\ p = "B" => proc'["A"] = proc["A"]
  BY DEF Becomes, Is, Proc

\* The descriptors that a close() of the process p closes.
Closed(p) == {<<e[1], e[2], proc[p].cur>> : e \in Here(p).x}

\* What close() does: these descriptors are gone, and nothing else.
LEMMA CloseIs ==
  ASSUME IpcType, NEW p \in Proc, Close(p)
  PROVE  LET r == proc[p] IN
         /\ r.pc # 0 /\ Here(p).op = "close"
         /\ proc'[p].pc = r.pc + 1 /\ proc'[p].runs = r.runs /\ proc'[p].cur = r.cur
         /\ proc'[p].ends = r.ends \ Closed(p) /\ proc'[p].got = r.got /\ proc'[p].crash = r.crash
         /\ p = "A" => proc'["B"] = proc["B"]
         /\ p = "B" => proc'["A"] = proc["A"]
         /\ UNCHANGED <<obj, name, chan, backlog, faults>>
<1> DEFINE v == proc[p].ends \ Closed(p)
<1>1. proc[p].pc # 0 /\ Here(p).op = "close" /\ UNCHANGED <<obj, name, chan, backlog, faults>>
  BY DEF Close, At
<1>2. v \in SUBSET End BY TypeParts DEF Process
<1>3. proc' = [proc EXCEPT ![p].pc = proc[p].pc + 1, ![p].ends = v]
  BY TypeParts, Zenon DEF Close, Closed
<1>4. proc[p].pc + 1 \in Nat BY <1>1, NextPlace
<1> HIDE DEF v
<1>5. Becomes(p, proc[p].pc + 1, proc[p].ref, proc[p].adj, proc[p].cur, v, proc[p].got)
  BY <1>2, <1>3, <1>4, Becoming
<1>6. /\ proc'[p].pc = proc[p].pc + 1 /\ proc'[p].runs = proc[p].runs /\ proc'[p].cur = proc[p].cur
      /\ proc'[p].ends = v /\ proc'[p].got = proc[p].got /\ proc'[p].crash = proc[p].crash
      /\ p = "A" => proc'["B"] = proc["B"]
      /\ p = "B" => proc'["A"] = proc["A"]
  BY <1>5, BecomesIs
<1> QED BY <1>1, <1>6 DEF v

\* sleep(), printing, jumps, execl(), waitpid() and the input only take a process further.
LEMMA JumpIs ==
  ASSUME IpcType, NEW p \in Proc, Pass(p) \/ Exec(p) \/ Input(p) \/ Reap(p)
  PROVE  LET r == proc[p]
             op == Here(p).op
         IN
         /\ r.pc # 0
         /\ \/ op \in {"nap", "use", "exec", "input", "reap"} /\ proc'[p].pc = r.pc + 1
            \/ op \in {"goto", "exec", "input"} /\ proc'[p].pc = Here(p).to
         /\ op = "reap" => proc[Other(p)].pc = 0
         /\ proc'[p].runs = r.runs /\ proc'[p].ref = r.ref /\ proc'[p].cur = r.cur
         /\ proc'[p].ends = r.ends /\ proc'[p].got = r.got /\ proc'[p].crash = r.crash
         /\ p = "A" => proc'["B"] = proc["B"]
         /\ p = "B" => proc'["A"] = proc["A"]
         /\ UNCHANGED <<obj, name, chan, backlog>>
<1>1. /\ proc[p].pc # 0 /\ UNCHANGED <<obj, name, chan, backlog>>
      /\ Here(p).op = "reap" => proc[Other(p)].pc = 0
      /\ \/ Here(p).op \in {"nap", "use", "exec", "input", "reap"} /\ Advance(p)
         \/ Here(p).op \in {"goto", "exec", "input"} /\ GoTo(p, Here(p).to)
  BY DEF Pass, Exec, Input, Reap, At
<1>2. CASE Here(p).op \in {"nap", "use", "exec", "input", "reap"} /\ Advance(p)
  <2>1. Becomes(p, proc[p].pc + 1, proc[p].ref, proc[p].adj, proc[p].cur, proc[p].ends, proc[p].got)
    BY <1>1, <1>2, AdvanceBecomes
  <2> QED BY <1>1, <1>2, <2>1, BecomesIs
<1>3. CASE Here(p).op \in {"goto", "exec", "input"} /\ GoTo(p, Here(p).to)
  <2>1. Here(p).to \in Nat BY <1>1, PlaceFacts
  <2>2. proc' = [proc EXCEPT ![p].pc = Here(p).to] BY <1>3 DEF GoTo
  <2>3. Becomes(p, Here(p).to, proc[p].ref, proc[p].adj, proc[p].cur, proc[p].ends, proc[p].got)
    BY <2>1, <2>2, Becoming
  <2> QED BY <1>1, <1>3, <2>3, BecomesIs
<1> QED BY <1>1, <1>2, <1>3

\* A call that may fail takes the process further, or ends it and leaves a trace.
LEMMA FailIs ==
  ASSUME IpcType, NEW p \in Proc, File(p) \/ Popen(p)
  PROVE  LET r == proc[p] IN
         /\ r.pc # 0 /\ Here(p).op \in {"file", "popen"}
         /\ \/ /\ proc'[p].pc = r.pc + 1 /\ proc'[p].runs = r.runs /\ proc'[p].cur = r.cur
               /\ proc'[p].ends = r.ends /\ proc'[p].got = r.got /\ proc'[p].crash = r.crash
               /\ p = "A" => proc'["B"] = proc["B"]
               /\ p = "B" => proc'["A"] = proc["A"]
               /\ UNCHANGED <<obj, name, chan, backlog, faults>>
            \/ Here(p).op = "file" /\ Leave(p, Nil) /\ "file" \in faults'
            \/ Here(p).op = "popen" /\ Leave(p, "SIGSEGV") /\ "popen" \in faults'
<1>1. proc[p].pc # 0 /\ Here(p).op \in {"file", "popen"} BY DEF File, Popen, At
<1>2. \/ Advance(p) /\ UNCHANGED <<obj, name, chan, backlog, faults>>
      \/ Here(p).op = "file" /\ Leave(p, Nil) /\ "file" \in faults'
      \/ Here(p).op = "popen" /\ Leave(p, "SIGSEGV") /\ "popen" \in faults'
  BY DEF File, Popen, At
<1>3. CASE Advance(p) /\ UNCHANGED <<obj, name, chan, backlog, faults>>
  <2>1. Becomes(p, proc[p].pc + 1, proc[p].ref, proc[p].adj, proc[p].cur, proc[p].ends, proc[p].got)
    BY <1>3, AdvanceBecomes
  <2> QED BY <1>1, <1>3, <2>1, BecomesIs
<1> QED BY <1>1, <1>2, <1>3

\* What is left when a process of a pair without connections leaves.
LEMMA LeaveAlone ==
  ASSUME IpcType, QueueInv, pair \notin {"tcp", "uniquecon", "sendfd"},
         NEW p \in Proc, NEW c \in Crash, Leave(p, c)
  PROVE  /\ proc'[p].pc = 0 /\ proc'[p].runs = proc[p].runs /\ proc'[p].ends = {} /\ proc'[p].cur = 0
         /\ Same(proc'[Other(p)], proc[Other(p)]) /\ proc'[Other(p)].cur = proc[Other(p)].cur
<1>1. backlog = <<>> BY DEF QueueInv
<1> QED BY <1>1, LeaveIs DEF Gone, Crash

\* What went wrong is not forgotten.
LEMMA FaultsGrow ==
  ASSUME [Next]_vars
  PROVE  faults \subseteq faults' /\ UNCHANGED pair
<1>0. UNCHANGED pair BY DEF Next, Step, Start, Kill, vars
<1>1. ASSUME NEW p \in Proc, ObjectStep(p) PROVE faults' = faults
  BY <1>1 DEF ObjectStep, Get, GiveUp, Snd, Rcv, Wait, Post, SemOp, Attach, Size, Poke, Peek,
     Remove
<1>2. ASSUME NEW p \in Proc, ChannelStep(p) PROVE faults \subseteq faults'
  <2>1. CASE Fork(p) \/ Close(p) \/ Write(p) \/ Read(p)
    BY <2>1 DEF Fork, Close, Write, Read
  <2>2. CASE Open(p) \/ Listen(p) \/ Connect(p) \/ Accept(p)
    BY <2>2 DEF Open, Listen, Connect, Accept
  <2>3. CASE Send(p) \/ Recv(p)
    BY <2>3 DEF Send, Recv, Datagram
  <2>4. CASE RecvFrom(p) \/ SendTo(p) \/ Exec(p) \/ Reap(p) \/ Input(p) \/ Pass(p)
    BY <2>4 DEF RecvFrom, SendTo, Exec, Reap, Input, Pass, Datagram
  <2>5. CASE File(p) \/ Popen(p) BY <2>5 DEF File, Popen
  <2> QED BY <1>2, <2>1, <2>2, <2>3, <2>4, <2>5 DEF ChannelStep
<1>3. ASSUME NEW p \in Proc, Step(p) PROVE faults \subseteq faults'
  BY <1>1, <1>2, <1>3 DEF Step, Exit
<1>4. ASSUME NEW p \in Proc, Start(p) \/ Kill(p) PROVE faults \subseteq faults'
  BY <1>4 DEF Start, Kill
<1> QED BY <1>0, <1>3, <1>4 DEF Next, vars

\* The steps of a pair while nobody is killed.
LEMMA Unkilled ==
  ASSUME [Next]_vars, KillFree'
  PROVE  /\ KillFree /\ UNCHANGED pair
         /\ (\E p \in Proc : Step(p) \/ Start(p)) \/ UNCHANGED vars
<1>1. KillFree /\ UNCHANGED pair BY FaultsGrow DEF KillFree
<1>2. \A p \in Proc : ~Kill(p) BY DEF Kill, KillFree
<1> QED BY <1>1, <1>2 DEF Next

\* A program that is started.
LEMMA Started ==
  ASSUME IpcType, NEW p \in Proc, Start(p)
  PROVE  /\ proc[p].pc = 0 /\ proc'[p].pc = 1 /\ proc'[p].runs = proc[p].runs + 1 /\ proc'[p].ends = {}
         /\ proc'[p].cur = 0 /\ proc'[p].crash = Nil /\ proc[p].runs \in Nat
         /\ p = "A" => proc'["B"] = proc["B"]
         /\ p = "B" => proc'["A"] = proc["A"]
         /\ UNCHANGED <<pair, obj, name, chan, backlog, faults>>
         /\ pair \in Forking => p = "A" /\ proc[p].runs = 0
<1>1. proc'[p] = Fresh(proc[p].runs + 1) /\ \A q \in Proc : q # p => proc'[q] = proc[q]
  BY StartIs
<1>2. /\ proc[p].pc = 0 /\ proc[p].runs \in Nat /\ UNCHANGED <<pair, obj, name, chan, backlog, faults>>
  BY StartIs
<1>3. pair \in Forking => p = "A" /\ proc[p].runs = 0 BY DEF Start
<1> QED BY <1>1, <1>2, <1>3 DEF Fresh, Proc

\* The channels a process writes to and reads from are sequences.
LEMMA ChanTypes ==
  ASSUME IpcType
  PROVE  /\ \A m \in 1..MaxRuns, d \in Direction : chan[m][d] \in Seq(Proc)
         /\ 1 \in 1..MaxRuns /\ "toA" \in Direction /\ "toB" \in Direction
<1>1. chan \in Channels BY TypeParts
<1> QED BY <1>1, MaxRunsAssumption DEF Channels, Direction

\* A sequence with one element more is not empty.
LEMMA AppendNotEmpty == ASSUME NEW S, NEW s \in Seq(S), NEW e \in S PROVE Append(s, e) # <<>>
<1>1. Len(Append(s, e)) = Len(s) + 1 /\ Len(s) \in Nat /\ Len(<<>>) = 0 OBVIOUS
<1> QED BY <1>1

\* The steps of 01_pipe.
LEMMA PipeSteps ==
  ASSUME IpcType, pair = "pipe", NEW p \in Proc, Step(p)
  PROVE  LET c == proc[p].pc
             x == Here(p).x
         IN /\ c # 0
            /\ p = "A" => \/ c = 1 /\ Fork(p)
                          \/ c = 2 /\ Close(p) /\ x = {<<"r", "toB">>}
                          \/ c = 3 /\ Write(p) /\ x = "toB"
                          \/ c = 4 /\ Exit(p)
            /\ p = "B" => \/ c = 1 /\ Close(p) /\ x = {<<"w", "toB">>}
                          \/ c = 2 /\ Read(p) /\ x = "toB" /\ Here(p).to = 3
                          \/ c = 3 /\ Pass(p) /\ Here(p).op = "use"
                          \/ c = 4 /\ Exit(p)
<1> DEFINE c == proc[p].pc
<1>1. c # 0 BY Dispatch
<1>2. c \in DOMAIN Code(pair, p) BY <1>1 DEF IpcType
<1>3. CASE p = "A"
  <2>1. Here(p) = Pipe("A")[c] /\ c \in DOMAIN Pipe("A") BY <1>2, <1>3, CodeIs2 DEF Here
  <2>2. c \in 1..4 BY <2>1 DEF Pipe
  <2> QED BY <1>3, <2>1, <2>2, Dispatch DEF Pipe, Op, On, To
<1>4. CASE p = "B"
  <2>1. Here(p) = Pipe("B")[c] /\ c \in DOMAIN Pipe("B") BY <1>2, <1>4, CodeIs2 DEF Here
  <2>2. c \in 1..4 BY <2>1 DEF Pipe
  <2> QED BY <1>4, <2>1, <2>2, Dispatch DEF Pipe, Op, On, To
<1> QED BY <1>3, <1>4 DEF Proc

\* The ends of the pipes after fork().
LEMMA PipeEndsAre ==
  /\ pair = "pipe" => PipeEnds = {<<"r", "toB", 1>>, <<"w", "toB", 1>>}
  /\ pair = "tellwait" => PipeEnds = {<<"r", "toA", 1>>, <<"w", "toA", 1>>}
  /\ pair = "coprocess" =>
       PipeEnds = {<<"r", "toA", 1>>, <<"w", "toA", 1>>, <<"r", "toB", 1>>, <<"w", "toB", 1>>}
  BY DEF PipeEnds, Pipes

\* pipe: its invariant is kept.
LEMMA PipeNext ==
  ASSUME IpcType, QueueInv, PipeInv, [Next]_vars
  PROVE  PipeInv'
<1> SUFFICES ASSUME pair = "pipe", KillFree' PROVE OneWayInv("A", {2, 3}, "B", {1, 2}, "toB")'
  BY FaultsGrow DEF PipeInv
<1> DEFINE I == OneWayInv("A", {2, 3}, "B", {1, 2}, "toB")
           a == proc["A"]
           b == proc["B"]
           q == chan[1]["toB"]
<1>1. I /\ UNCHANGED pair BY Unkilled DEF PipeInv
<1>2. "A" \in Proc /\ "B" \in Proc /\ Other("A") = "B" /\ Other("B") = "A" /\ Nil \in Crash
  BY DEF Proc, Other, Crash
<1>3. (a.pc # 0 => a.runs # 0) /\ a.runs \in Nat /\ q \in Seq(Proc)
  BY <1>2, ChanTypes, TypeParts DEF IpcType, Process
<1>4. ASSUME Step("A") PROVE I'
  <2>1. CASE a.pc = 1 /\ Fork("A")
    <3>1. CASE Leave("A", Nil)
      <4>1. a'.pc = 0 /\ a'.runs = a.runs /\ b'.pc = b.pc BY <1>2, <3>1, LeaveAlone DEF Same
      <4>2. chan' = chan BY <1>2, <3>1, LeaveCarries
      <4> QED BY <1>1, <1>3, <2>1, <4>1, <4>2 DEF OneWayInv
    <3>2. CASE Forked
      <4>1. /\ a'.pc = 2 /\ a'.runs = a.runs /\ a'.cur = 1 /\ a'.ends = PipeEnds
            /\ b'.pc = 1 /\ b'.cur = 1 /\ b'.ends = PipeEnds /\ chan' = chan
        BY <2>1, <3>2 DEF Forked, Is
      <4> QED BY <1>1, <1>3, <2>1, <4>1, PipeEndsAre DEF OneWayInv
    <3> QED BY <1>2, <2>1, <3>1, <3>2, ForkIs
  <2>2. CASE a.pc = 2 /\ Close("A") /\ Here("A").x = {<<"r", "toB">>}
    <3>1. /\ a'.pc = 3 /\ a'.runs = a.runs /\ a'.cur = a.cur /\ b' = b /\ chan' = chan
          /\ a'.ends = a.ends \ Closed("A")
      BY <1>2, <2>2, CloseIs
    <3>2. a.cur = 1 /\ <<"w", "toB", 1>> \in a.ends BY <1>1, <2>2 DEF OneWayInv
    <3>3. <<"w", "toB", 1>> \in a'.ends BY <2>2, <3>1, <3>2 DEF Closed
    <3> QED BY <1>1, <2>2, <3>1, <3>3 DEF OneWayInv
  <2>3. CASE a.pc = 3 /\ Write("A") /\ Here("A").x = "toB"
    <3>1. a.cur = 1 /\ b.cur = 1 /\ <<"r", "toB", 1>> \in b.ends BY <1>1, <2>3 DEF OneWayInv
    <3>2. Held(<<"r", "toB", 1>>) BY <1>2, <3>1 DEF Held
    <3>3. Written("A") BY <1>2, <2>3, <3>1, <3>2, WriteIs
    <3>4. a'.pc = 4 /\ a'.runs = a.runs /\ b' = b BY <2>3, <3>3, BecomesIs DEF Written, Moves
    <3>5. Carries(1, "toB", Append(q, "A")) BY <2>3, <3>1, <3>3 DEF Written
    <3>6. q' = Append(q, "A") BY <3>5, ChanTypes DEF Carries
    <3>7. Append(q, "A") # <<>> BY <1>2, <1>3, AppendNotEmpty
    <3>8. q' # <<>> BY <3>6, <3>7
    <3> QED BY <1>1, <1>3, <2>3, <3>4, <3>8 DEF OneWayInv
  <2>4. CASE a.pc = 4 /\ Exit("A")
    <3>1. /\ a'.pc = 0 /\ a'.runs = a.runs /\ b'.pc = b.pc /\ b'.cur = b.cur /\ b'.ends = b.ends
      BY <1>2, <2>4, LeaveAlone DEF Same, Exit
    <3>2. chan' = chan BY <1>2, <2>4, LeaveCarries DEF Exit
    <3> QED BY <1>1, <1>3, <2>4, <3>1, <3>2 DEF OneWayInv
  <2> QED BY <1>2, <1>4, <2>1, <2>2, <2>3, <2>4, PipeSteps
<1>5. ASSUME Step("B") PROVE I'
  <2>1. CASE b.pc = 1 /\ Close("B") /\ Here("B").x = {<<"w", "toB">>}
    <3>1. /\ b'.pc = 2 /\ b'.cur = b.cur /\ a' = a /\ chan' = chan
          /\ b'.ends = b.ends \ Closed("B")
      BY <1>2, <2>1, CloseIs
    <3>2. b.cur = 1 /\ <<"r", "toB", 1>> \in b.ends BY <1>1, <2>1 DEF OneWayInv
    <3>3. <<"r", "toB", 1>> \in b'.ends BY <2>1, <3>1, <3>2 DEF Closed
    <3> QED BY <1>1, <2>1, <3>1, <3>3 DEF OneWayInv
  <2>2. CASE b.pc = 2 /\ Read("B") /\ Here("B").x = "toB"
    <3>1. b.cur = 1 /\ (q # <<>> \/ a.pc \in {2, 3}) BY <1>1, <2>2 DEF OneWayInv
    <3>2. a.pc \in {2, 3} => Held(<<"w", "toB", 1>>) BY <1>1, <1>2 DEF Held, OneWayInv
    <3>3. ~ReadEnd("B") BY <2>2, <3>1, <3>2 DEF ReadEnd
    <3>4. ReadMessage("B") BY <1>2, <2>2, <3>1, <3>3, ReadIs
    <3>5. b'.pc = 3 /\ a' = a /\ q # <<>>
      BY <2>2, <3>1, <3>4, BecomesIs DEF ReadMessage, Moves
    <3> QED BY <1>1, <2>2, <3>5 DEF OneWayInv
  <2>3. CASE b.pc = 3 /\ Pass("B") /\ Here("B").op = "use"
    <3>1. Advance("B") /\ chan' = chan BY <2>3 DEF Pass, At
    <3>2. b'.pc = 4 /\ a' = a BY <1>2, <2>3, <3>1, AdvanceBecomes, BecomesIs
    <3> QED BY <1>1, <2>3, <3>1, <3>2 DEF OneWayInv
  <2>4. CASE b.pc = 4 /\ Exit("B")
    <3>1. b'.pc = 0 /\ a'.pc = a.pc /\ a'.runs = a.runs BY <1>2, <2>4, LeaveAlone DEF Same, Exit
    <3>2. chan' = chan BY <1>2, <2>4, LeaveCarries DEF Exit
    <3> QED BY <1>1, <2>4, <3>1, <3>2 DEF OneWayInv
  <2> QED BY <1>2, <1>5, <2>1, <2>2, <2>3, <2>4, PipeSteps
<1>6. ASSUME NEW p \in Proc, Start(p) PROVE I'
  <2>1. /\ p = "A" /\ a.runs = 0 /\ a'.pc = 1 /\ a'.runs = 1 /\ b' = b /\ chan' = chan
    BY <1>6, Started DEF Forking
  <2> QED BY <1>1, <2>1 DEF OneWayInv
<1>7. CASE UNCHANGED vars BY <1>1, <1>7 DEF OneWayInv, vars
<1> QED BY <1>4, <1>5, <1>6, <1>7, Unkilled DEF Proc

\* The steps of 03_pipe_tellwait.
LEMMA TellSteps ==
  ASSUME IpcType, pair = "tellwait", NEW p \in Proc, Step(p)
  PROVE  LET c == proc[p].pc
             x == Here(p).x
         IN /\ c # 0
            /\ p = "A" => \/ c = 1 /\ Fork(p)
                          \/ c = 2 /\ Close(p) /\ x = {<<"w", "toA">>}
                          \/ c = 3 /\ Read(p) /\ x = "toA" /\ Here(p).to = 4
                          \/ c = 4 /\ Pass(p) /\ Here(p).op = "use"
                          \/ c = 5 /\ Reap(p) /\ Here(p).op = "reap"
                          \/ c = 6 /\ Exit(p)
            /\ p = "B" => \/ c = 1 /\ Pass(p) /\ Here(p).op = "nap"
                          \/ c = 2 /\ Close(p) /\ x = {<<"r", "toA">>}
                          \/ c = 3 /\ Write(p) /\ x = "toA"
                          \/ c = 4 /\ Exit(p)
<1> DEFINE c == proc[p].pc
<1>1. c # 0 BY Dispatch
<1>2. c \in DOMAIN Code(pair, p) BY <1>1 DEF IpcType
<1>3. CASE p = "A"
  <2>1. Here(p) = TellWait("A")[c] /\ c \in DOMAIN TellWait("A") BY <1>2, <1>3, CodeIs2 DEF Here
  <2>2. c \in 1..6 BY <2>1 DEF TellWait
  <2> QED BY <1>3, <2>1, <2>2, Dispatch DEF TellWait, Op, On, To
<1>4. CASE p = "B"
  <2>1. Here(p) = TellWait("B")[c] /\ c \in DOMAIN TellWait("B") BY <1>2, <1>4, CodeIs2 DEF Here
  <2>2. c \in 1..4 BY <2>1 DEF TellWait
  <2> QED BY <1>4, <2>1, <2>2, Dispatch DEF TellWait, Op, On, To
<1> QED BY <1>3, <1>4 DEF Proc

\* tellwait: its invariant is kept.
LEMMA TellNext ==
  ASSUME IpcType, QueueInv, TellInv, [Next]_vars
  PROVE  TellInv'
<1> SUFFICES ASSUME pair = "tellwait", KillFree' PROVE OneWayInv("B", {1, 2, 3}, "A", {2, 3}, "toA")'
  BY FaultsGrow DEF TellInv
<1> DEFINE I == OneWayInv("B", {1, 2, 3}, "A", {2, 3}, "toA")
           a == proc["A"]
           b == proc["B"]
           q == chan[1]["toA"]
<1>1. I /\ UNCHANGED pair BY Unkilled DEF TellInv
<1>2. "A" \in Proc /\ "B" \in Proc /\ Other("A") = "B" /\ Other("B") = "A" /\ Nil \in Crash
  BY DEF Proc, Other, Crash
<1>3. (a.pc # 0 => a.runs # 0) /\ a.runs \in Nat /\ q \in Seq(Proc)
  BY <1>2, ChanTypes, TypeParts DEF IpcType, Process
<1>4. ASSUME Step("A") PROVE I'
  <2>1. CASE a.pc = 1 /\ Fork("A")
    <3>1. CASE Leave("A", Nil)
      <4>1. a'.pc = 0 /\ a'.runs = a.runs /\ b'.pc = b.pc BY <1>2, <3>1, LeaveAlone DEF Same
      <4>2. chan' = chan BY <1>2, <3>1, LeaveCarries
      <4> QED BY <1>1, <1>3, <2>1, <4>1, <4>2 DEF OneWayInv
    <3>2. CASE Forked
      <4>1. /\ a'.pc = 2 /\ a'.runs = a.runs /\ a'.cur = 1 /\ a'.ends = PipeEnds
            /\ b'.pc = 1 /\ b'.cur = 1 /\ b'.ends = PipeEnds /\ chan' = chan
        BY <2>1, <3>2 DEF Forked, Is
      <4> QED BY <1>1, <1>3, <2>1, <4>1, PipeEndsAre DEF OneWayInv
    <3> QED BY <1>2, <2>1, <3>1, <3>2, ForkIs
  <2>2. CASE a.pc = 2 /\ Close("A") /\ Here("A").x = {<<"w", "toA">>}
    <3>1. /\ a'.pc = 3 /\ a'.runs = a.runs /\ a'.cur = a.cur /\ b' = b /\ chan' = chan
          /\ a'.ends = a.ends \ Closed("A")
      BY <1>2, <2>2, CloseIs
    <3>2. a.cur = 1 /\ <<"r", "toA", 1>> \in a.ends BY <1>1, <2>2 DEF OneWayInv
    <3>3. <<"r", "toA", 1>> \in a'.ends BY <2>2, <3>1, <3>2 DEF Closed
    <3> QED BY <1>1, <2>2, <3>1, <3>3 DEF OneWayInv
  <2>3. CASE a.pc = 3 /\ Read("A") /\ Here("A").x = "toA"
    <3>1. a.cur = 1 /\ (q # <<>> \/ b.pc \in {1, 2, 3}) BY <1>1, <2>3 DEF OneWayInv
    <3>2. b.pc \in {1, 2, 3} => Held(<<"w", "toA", 1>>) BY <1>1, <1>2 DEF Held, OneWayInv
    <3>3. ~ReadEnd("A") BY <2>3, <3>1, <3>2 DEF ReadEnd
    <3>4. ReadMessage("A") BY <1>2, <2>3, <3>1, <3>3, ReadIs
    <3>5. a'.pc = 4 /\ a'.runs = a.runs /\ b' = b /\ q # <<>>
      BY <2>3, <3>1, <3>4, BecomesIs DEF ReadMessage, Moves
    <3> QED BY <1>1, <2>3, <3>5 DEF OneWayInv
  <2>4. CASE a.pc = 4 /\ Pass("A") /\ Here("A").op = "use"
    <3>1. a'.pc = 5 /\ a'.runs = a.runs /\ b' = b /\ chan' = chan BY <1>2, <2>4, JumpIs
    <3> QED BY <1>1, <2>4, <3>1 DEF OneWayInv
  <2>5. CASE a.pc = 5 /\ Reap("A") /\ Here("A").op = "reap"
    <3>1. a'.pc = 6 /\ a'.runs = a.runs /\ b' = b /\ chan' = chan BY <1>2, <2>5, JumpIs
    <3> QED BY <1>1, <2>5, <3>1 DEF OneWayInv
  <2>6. CASE a.pc = 6 /\ Exit("A")
    <3>1. /\ a'.pc = 0 /\ a'.runs = a.runs /\ b'.pc = b.pc /\ b'.cur = b.cur /\ b'.ends = b.ends
      BY <1>2, <2>6, LeaveAlone DEF Same, Exit
    <3>2. chan' = chan BY <1>2, <2>6, LeaveCarries DEF Exit
    <3> QED BY <1>1, <1>3, <2>6, <3>1, <3>2 DEF OneWayInv
  <2> QED BY <1>2, <1>4, <2>1, <2>2, <2>3, <2>4, <2>5, <2>6, TellSteps
<1>5. ASSUME Step("B") PROVE I'
  <2>1. CASE b.pc = 1 /\ Pass("B") /\ Here("B").op = "nap"
    <3>1. b'.pc = 2 /\ b'.cur = b.cur /\ b'.ends = b.ends /\ a' = a /\ chan' = chan
      BY <1>2, <2>1, JumpIs
    <3> QED BY <1>1, <2>1, <3>1 DEF OneWayInv
  <2>2. CASE b.pc = 2 /\ Close("B") /\ Here("B").x = {<<"r", "toA">>}
    <3>1. /\ b'.pc = 3 /\ b'.cur = b.cur /\ a' = a /\ chan' = chan
          /\ b'.ends = b.ends \ Closed("B")
      BY <1>2, <2>2, CloseIs
    <3>2. b.cur = 1 /\ <<"w", "toA", 1>> \in b.ends BY <1>1, <2>2 DEF OneWayInv
    <3>3. <<"w", "toA", 1>> \in b'.ends BY <2>2, <3>1, <3>2 DEF Closed
    <3> QED BY <1>1, <2>2, <3>1, <3>3 DEF OneWayInv
  <2>3. CASE b.pc = 3 /\ Write("B") /\ Here("B").x = "toA"
    <3>1. b.cur = 1 /\ a.cur = 1 /\ <<"r", "toA", 1>> \in a.ends BY <1>1, <2>3 DEF OneWayInv
    <3>2. Held(<<"r", "toA", 1>>) BY <1>2, <3>1 DEF Held
    <3>3. Written("B") BY <1>2, <2>3, <3>1, <3>2, WriteIs
    <3>4. b'.pc = 4 /\ a' = a BY <2>3, <3>3, BecomesIs DEF Written, Moves
    <3>5. Carries(1, "toA", Append(q, "B")) BY <2>3, <3>1, <3>3 DEF Written
    <3>6. q' = Append(q, "B") BY <3>5, ChanTypes DEF Carries
    <3>7. Append(q, "B") # <<>> BY <1>2, <1>3, AppendNotEmpty
    <3>8. q' # <<>> BY <3>6, <3>7
    <3> QED BY <1>1, <1>3, <2>3, <3>4, <3>8 DEF OneWayInv
  <2>4. CASE b.pc = 4 /\ Exit("B")
    <3>1. b'.pc = 0 /\ a'.pc = a.pc /\ a'.runs = a.runs /\ a'.cur = a.cur /\ a'.ends = a.ends
      BY <1>2, <2>4, LeaveAlone DEF Same, Exit
    <3>2. chan' = chan BY <1>2, <2>4, LeaveCarries DEF Exit
    <3> QED BY <1>1, <2>4, <3>1, <3>2 DEF OneWayInv
  <2> QED BY <1>2, <1>5, <2>1, <2>2, <2>3, <2>4, TellSteps
<1>6. ASSUME NEW p \in Proc, Start(p) PROVE I'
  <2>1. /\ p = "A" /\ a.runs = 0 /\ a'.pc = 1 /\ a'.runs = 1 /\ b' = b /\ chan' = chan
    BY <1>6, Started DEF Forking
  <2> QED BY <1>1, <2>1 DEF OneWayInv
<1>7. CASE UNCHANGED vars BY <1>1, <1>7 DEF OneWayInv, vars
<1> QED BY <1>4, <1>5, <1>6, <1>7, Unkilled DEF Proc

\* One element put in a queue that is empty, and taken out of it.
LEMMA OneElement ==
  ASSUME NEW e
  PROVE  Append(<<>>, e) = <<e>> /\ Tail(<<e>>) = <<>> /\ Head(<<e>>) = e /\ <<e>> # <<>>
  OBVIOUS

\* The steps of 09_coprocess, and of 08_add2 that it becomes.
LEMMA CoprocessSteps ==
  ASSUME IpcType, pair = "coprocess", NEW p \in Proc, Step(p)
  PROVE  LET c == proc[p].pc
             x == Here(p).x
             to == Here(p).to
         IN /\ c # 0
            /\ p = "A" => \/ c = 1 /\ Fork(p)
                          \/ c = 2 /\ Close(p) /\ x = {<<"r", "toB">>, <<"w", "toA">>}
                          \/ c = 3 /\ Exec(p) /\ Here(p).op = "exec" /\ to = 8
                          \/ c = 4 /\ Read(p) /\ x = "toA" /\ to = 10
                          \/ c = 5 /\ Pass(p) /\ Here(p).op = "use"
                          \/ c = 6 /\ Write(p) /\ x = "toB"
                          \/ c = 7 /\ Pass(p) /\ Here(p).op = "goto" /\ to = 4
                          \/ c = 8 /\ Reap(p) /\ Here(p).op = "reap"
                          \/ c = 9 /\ Write(p) /\ x = "toB"
                          \/ c = 10 /\ Exit(p)
            /\ p = "B" => \/ c = 1 /\ Close(p) /\ x = {<<"w", "toB">>, <<"r", "toA">>}
                          \/ c = 2 /\ Input(p) /\ Here(p).op = "input" /\ to = 7
                          \/ c = 3 /\ Write(p) /\ x = "toA"
                          \/ c = 4 /\ Read(p) /\ x = "toB" /\ to = 5
                          \/ c = 5 /\ Pass(p) /\ Here(p).op = "use"
                          \/ c = 6 /\ Pass(p) /\ Here(p).op = "goto" /\ to = 2
                          \/ c = 7 /\ Exit(p)
<1> DEFINE c == proc[p].pc
<1>1. c # 0 BY Dispatch
<1>2. c \in DOMAIN Code(pair, p) BY <1>1 DEF IpcType
<1>3. CASE p = "A"
  <2>1. Here(p) = Coprocess("A")[c] /\ c \in DOMAIN Coprocess("A")
    BY <1>2, <1>3, CodeIs2 DEF Here
  <2>2. c \in 1..10 BY <2>1, CoprocessIs
  <2>3. CASE c \in 1..3 BY <1>3, <2>1, <2>3, CoprocessIs, Dispatch DEF Op, On, To
  <2>4. CASE c \in 4..6 BY <1>3, <2>1, <2>4, CoprocessIs, Dispatch DEF Op, On, To
  <2>5. CASE c \in 7..10 BY <1>3, <2>1, <2>5, CoprocessIs, Dispatch DEF Op, On, To
  <2> QED BY <2>2, <2>3, <2>4, <2>5
<1>4. CASE p = "B"
  <2>1. Here(p) = Coprocess("B")[c] /\ c \in DOMAIN Coprocess("B")
    BY <1>2, <1>4, CodeIs2 DEF Here
  <2>2. c \in 1..7 BY <2>1 DEF Coprocess
  <2>3. CASE c \in 1..4 BY <1>4, <2>1, <2>3, Dispatch DEF Coprocess, Op, On, To
  <2>4. CASE c \in 5..7 BY <1>4, <2>1, <2>4, Dispatch DEF Coprocess, Op, On, To
  <2> QED BY <2>2, <2>3, <2>4
<1> QED BY <1>3, <1>4 DEF Proc

\* The coprocess: its invariant is kept.
LEMMA CoprocessNext ==
  ASSUME IpcType, QueueInv, CoprocessInv, [Next]_vars
  PROVE  CoprocessInv'
<1> SUFFICES ASSUME pair = "coprocess", KillFree' PROVE CoprocessInv'
  BY FaultsGrow DEF CoprocessInv
<1> DEFINE I == CoprocessInv
           a == proc["A"]
           b == proc["B"]
           qa == chan[1]["toA"]
           qb == chan[1]["toB"]
<1>1. I /\ UNCHANGED pair /\ KillFree /\ faults \subseteq faults' BY Unkilled, FaultsGrow
<1>2. /\ "A" \in Proc /\ "B" \in Proc /\ Other("A") = "B" /\ Other("B") = "A"
      /\ Nil \in Crash /\ "SIGPIPE" \in Crash
  BY DEF Proc, Other, Crash
<1>3. (a.pc # 0 => a.runs # 0) /\ a.runs \in Nat /\ qa \in Seq(Proc) /\ qb \in Seq(Proc)
      /\ a.pc \in Nat /\ b.pc \in Nat
  BY <1>2, ChanTypes, TypeParts, SMTT(30) DEF IpcType, Process
<1>4. ASSUME Step("A") PROVE I'
  <2>1. CASE a.pc = 1 /\ Fork("A")
    <3>1. CASE Leave("A", Nil)
      <4>1. a'.pc = 0 /\ a'.runs = a.runs /\ b'.pc = b.pc /\ b'.ends = b.ends
        BY <1>2, <3>1, LeaveAlone DEF Same
      <4>2. chan' = chan BY <1>2, <3>1, LeaveCarries
      <4> QED BY <1>1, <1>3, <2>1, <4>1, <4>2 DEF CoprocessInv
    <3>2. CASE Forked
      <4>1. /\ a'.pc = 2 /\ a'.runs = a.runs /\ a'.cur = 1 /\ a'.ends = PipeEnds
            /\ b'.pc = 1 /\ b'.cur = 1 /\ b'.ends = PipeEnds /\ chan' = chan
        BY <2>1, <3>2 DEF Forked, Is
      <4> QED BY <1>1, <1>3, <2>1, <4>1, PipeEndsAre DEF CoprocessInv
    <3> QED BY <1>2, <2>1, <3>1, <3>2, ForkIs
  <2>2. CASE a.pc = 2 /\ Close("A") /\ Here("A").x = {<<"r", "toB">>, <<"w", "toA">>}
    <3>1. /\ a'.pc = 3 /\ a'.runs = a.runs /\ a'.cur = a.cur /\ b' = b /\ chan' = chan
          /\ a'.ends = a.ends \ Closed("A")
      BY <1>2, <2>2, CloseIs
    <3>2. b.pc # 0 => {<<"r", "toA", 1>>, <<"w", "toB", 1>>} \subseteq a.ends
      BY <1>1, <2>2 DEF CoprocessInv
    <3>3. /\ <<"r", "toA", 1>> \notin Closed("A") /\ <<"w", "toB", 1>> \notin Closed("A")
          /\ <<"r", "toB", 1>> \in Closed("A")
      <4> DEFINE e == <<"r", "toB">>
      <4>1. proc["A"].cur = 1 BY <1>1, <2>2 DEF CoprocessInv
      <4>2. e \in Here("A").x /\ <<e[1], e[2], 1>> = <<"r", "toB", 1>> BY <2>2
      <4>3. <<e[1], e[2], 1>> \in Closed("A")
        <5> HIDE DEF e
        <5> QED BY <4>1, <4>2 DEF Closed
      <4>4. <<"r", "toB", 1>> \in Closed("A") BY <4>2, <4>3
      <4>5. <<"r", "toA", 1>> \notin Closed("A") /\ <<"w", "toB", 1>> \notin Closed("A")
        BY <2>2 DEF Closed
      <4> QED BY <4>4, <4>5
    <3>4. b.pc # 0 => {<<"r", "toA", 1>>, <<"w", "toB", 1>>} \subseteq a'.ends
      BY <3>1, <3>2, <3>3
    <3>5. <<"r", "toB", 1>> \notin a'.ends BY <3>1, <3>3
    <3> QED BY <1>1, <2>2, <3>1, <3>4, <3>5 DEF CoprocessInv
  <2>3. CASE a.pc = 3 /\ Exec("A") /\ Here("A").op = "exec" /\ Here("A").to = 8
    <3>1. /\ a'.pc = 4 \/ a'.pc = 8
          /\ a'.runs = a.runs /\ a'.cur = a.cur /\ a'.ends = a.ends /\ b' = b /\ chan' = chan
      BY <1>2, <2>3, JumpIs
    <3>2. a'.pc = 4 \/ "exec" \in faults'
      <4>1. Advance("A") \/ "exec" \in faults' BY <2>3 DEF Exec
      <4> QED BY <1>2, <2>3, <4>1, AdvanceBecomes, BecomesIs
    <3> QED BY <1>1, <2>3, <3>1, <3>2 DEF CoprocessInv
  <2>4. CASE a.pc = 4 /\ Read("A") /\ Here("A").x = "toA" /\ Here("A").to = 10
    <3>1. a.cur = 1 BY <1>1, <2>4 DEF CoprocessInv
    <3>2. CASE ReadMessage("A")
      <4>1. /\ a'.pc = 5 /\ a'.runs = a.runs /\ a'.cur = 1 /\ a'.ends = a.ends /\ b' = b /\ qa # <<>>
            /\ Carries(1, "toA", Tail(qa))
        BY <2>4, <3>1, <3>2, BecomesIs DEF ReadMessage, Moves
      <4>2. qa = <<"B">> /\ qb = <<>> /\ b.pc = 4 BY <1>1, <4>1 DEF CoprocessInv
      <4>3. qa' = <<>> /\ qb' = <<>> BY <4>1, <4>2, ChanTypes, OneElement DEF Carries
      <4> QED BY <1>1, <2>4, <4>1, <4>2, <4>3 DEF CoprocessInv
    <3>3. CASE ReadEnd("A")
      <4>1. /\ a'.pc = 10 /\ a'.runs = a.runs /\ a'.cur = 1 /\ a'.ends = a.ends /\ b' = b /\ chan' = chan
            /\ ~Held(<<"w", "toA", 1>>)
        BY <2>4, <3>1, <3>3, BecomesIs DEF ReadEnd, Moves
      <4>2. <<"w", "toA", 1>> \notin b.ends BY <1>2, <4>1 DEF Held
      <4>3. b.pc = 0 BY <1>1, <4>2 DEF CoprocessInv
      <4> QED BY <1>1, <2>4, <4>1, <4>3 DEF CoprocessInv
    <3> QED BY <1>2, <2>4, <3>1, <3>2, <3>3, ReadIs
  <2>5. CASE a.pc = 5 /\ Pass("A") /\ Here("A").op = "use"
    <3>1. a'.pc = 6 /\ a'.runs = a.runs /\ a'.cur = a.cur /\ a'.ends = a.ends /\ b' = b /\ chan' = chan
      BY <1>2, <2>5, JumpIs
    <3> QED BY <1>1, <2>5, <3>1 DEF CoprocessInv
  <2>6. CASE a.pc = 6 /\ Write("A") /\ Here("A").x = "toB"
    <3>1. a.cur = 1 /\ b.pc = 4 /\ <<"r", "toB", 1>> \in b.ends /\ qa = <<>> /\ qb = <<>>
      BY <1>1, <2>6 DEF CoprocessInv
    <3>2. Held(<<"r", "toB", 1>>) BY <1>2, <3>1 DEF Held
    <3>3. Written("A") BY <1>2, <2>6, <3>1, <3>2, WriteIs
    <3>4. a'.pc = 7 /\ a'.runs = a.runs /\ a'.cur = 1 /\ a'.ends = a.ends /\ b' = b
      BY <2>6, <3>1, <3>3, BecomesIs DEF Written, Moves
    <3>5. Carries(1, "toB", Append(qb, "A")) BY <2>6, <3>1, <3>3 DEF Written
    <3>6. qb' = <<"A">> /\ qa' = <<>> BY <3>1, <3>5, ChanTypes, OneElement DEF Carries
    <3> QED BY <1>1, <2>6, <3>1, <3>4, <3>6 DEF CoprocessInv
  <2>7. CASE a.pc = 7 /\ Pass("A") /\ Here("A").op = "goto" /\ Here("A").to = 4
    <3>1. a'.pc = 4 /\ a'.runs = a.runs /\ a'.cur = a.cur /\ a'.ends = a.ends /\ b' = b /\ chan' = chan
      BY <1>2, <2>7, JumpIs
    <3> QED BY <1>1, <2>7, <3>1 DEF CoprocessInv
  <2>8. CASE a.pc = 8 /\ Reap("A") /\ Here("A").op = "reap"
    <3>1. /\ a'.pc = 9 /\ a'.runs = a.runs /\ a'.cur = a.cur /\ a'.ends = a.ends
          /\ b.pc = 0 /\ b' = b /\ chan' = chan
      BY <1>2, <2>8, JumpIs
    <3> QED BY <1>1, <2>8, <3>1 DEF CoprocessInv
  <2>9. ASSUME NEW e \in Crash, Leave("A", e), a.pc \in {9, 10} PROVE I'
    <3>1. a'.pc = 0 /\ a'.runs = a.runs /\ b'.pc = b.pc /\ b'.ends = b.ends
      BY <1>2, <2>9, LeaveAlone DEF Same
    <3>2. chan' = chan BY <1>2, <2>9, LeaveCarries
    <3>3. b.pc = 0 BY <1>1, <2>9 DEF CoprocessInv
    <3> QED BY <1>1, <1>3, <2>9, <3>1, <3>2, <3>3 DEF CoprocessInv
  <2>10. CASE a.pc = 9 /\ Write("A") /\ Here("A").x = "toB"
    <3>1. a.cur = 1 /\ <<"r", "toB", 1>> \notin a.ends /\ b.ends = {} BY <1>1, <2>10 DEF CoprocessInv
    <3>2. ~Held(<<"r", "toB", 1>>) BY <3>1 DEF Held, Proc
    <3>3. Leave("A", "SIGPIPE") BY <1>2, <2>10, <3>1, <3>2, WriteIs
    <3> QED BY <1>2, <2>9, <2>10, <3>3
  <2>11. CASE a.pc = 10 /\ Exit("A") BY <1>2, <2>9, <2>11 DEF Exit
  <2> QED BY <1>2, <1>4, <2>1, <2>2, <2>3, <2>4, <2>5, <2>6, <2>7, <2>8, <2>10, <2>11,
         CoprocessSteps
<1>5. ASSUME Step("B") PROVE I'
  <2>1. CASE b.pc = 1 /\ Close("B") /\ Here("B").x = {<<"w", "toB">>, <<"r", "toA">>}
    <3>1. /\ b'.pc = 2 /\ b'.cur = b.cur /\ a' = a /\ chan' = chan
          /\ b'.ends = b.ends \ Closed("B")
      BY <1>2, <2>1, CloseIs
    <3>2. {<<"w", "toA", 1>>, <<"r", "toB", 1>>} \subseteq b.ends
      BY <1>1, <2>1 DEF CoprocessInv
    <3>3. <<"w", "toA", 1>> \notin Closed("B") /\ <<"r", "toB", 1>> \notin Closed("B")
      BY <2>1 DEF Closed
    <3>4. {<<"w", "toA", 1>>, <<"r", "toB", 1>>} \subseteq b'.ends BY <3>1, <3>2, <3>3
    <3> QED BY <1>1, <2>1, <3>1, <3>4 DEF CoprocessInv
  <2>2. CASE b.pc = 2 /\ Input("B") /\ Here("B").op = "input" /\ Here("B").to = 7
    <3>1. /\ b'.pc = 3 \/ b'.pc = 7
          /\ b'.cur = b.cur /\ b'.ends = b.ends /\ a' = a /\ chan' = chan
      BY <1>2, <2>2, JumpIs
    <3> QED BY <1>1, <2>2, <3>1 DEF CoprocessInv
  <2>3. CASE b.pc = 3 /\ Write("B") /\ Here("B").x = "toA"
    <3>1. b.cur = 1 /\ <<"r", "toA", 1>> \in a.ends /\ qa = <<>> /\ qb = <<>>
      BY <1>1, <2>3 DEF CoprocessInv
    <3>2. Held(<<"r", "toA", 1>>) BY <1>2, <3>1 DEF Held
    <3>3. Written("B") BY <1>2, <2>3, <3>1, <3>2, WriteIs
    <3>4. b'.pc = 4 /\ b'.cur = 1 /\ b'.ends = b.ends /\ a' = a
      BY <2>3, <3>1, <3>3, BecomesIs DEF Written, Moves
    <3>5. Carries(1, "toA", Append(qa, "B")) BY <2>3, <3>1, <3>3 DEF Written
    <3>6. qa' = <<"B">> /\ qb' = <<>> BY <3>1, <3>5, ChanTypes, OneElement DEF Carries
    <3> QED BY <1>1, <2>3, <3>1, <3>4, <3>6 DEF CoprocessInv
  <2>4. CASE b.pc = 4 /\ Read("B") /\ Here("B").x = "toB" /\ Here("B").to = 5
    <3>1. b.cur = 1 /\ <<"w", "toB", 1>> \in a.ends BY <1>1, <2>4 DEF CoprocessInv
    <3>2. ~ReadEnd("B") BY <1>2, <2>4, <3>1 DEF ReadEnd, Held
    <3>3. ReadMessage("B") BY <1>2, <2>4, <3>1, <3>2, ReadIs
    <3>4. /\ b'.pc = 5 /\ b'.cur = 1 /\ b'.ends = b.ends /\ a' = a /\ qb # <<>>
          /\ Carries(1, "toB", Tail(qb))
      BY <2>4, <3>1, <3>3, BecomesIs DEF ReadMessage, Moves
    <3>5. qb = <<"A">> /\ qa = <<>> BY <1>1, <3>4 DEF CoprocessInv
    <3>6. qa' = <<>> /\ qb' = <<>> BY <3>4, <3>5, ChanTypes, OneElement DEF Carries
    <3> QED BY <1>1, <2>4, <3>1, <3>4, <3>5, <3>6 DEF CoprocessInv
  <2>5. CASE b.pc = 5 /\ Pass("B") /\ Here("B").op = "use"
    <3>1. b'.pc = 6 /\ b'.cur = b.cur /\ b'.ends = b.ends /\ a' = a /\ chan' = chan
      BY <1>2, <2>5, JumpIs
    <3> QED BY <1>1, <2>5, <3>1 DEF CoprocessInv
  <2>6. CASE b.pc = 6 /\ Pass("B") /\ Here("B").op = "goto" /\ Here("B").to = 2
    <3>1. b'.pc = 2 /\ b'.cur = b.cur /\ b'.ends = b.ends /\ a' = a /\ chan' = chan
      BY <1>2, <2>6, JumpIs
    <3> QED BY <1>1, <2>6, <3>1 DEF CoprocessInv
  <2>7. CASE b.pc = 7 /\ Exit("B")
    <3>1. /\ b'.pc = 0 /\ b'.ends = {} /\ a'.pc = a.pc /\ a'.runs = a.runs
          /\ a'.cur = a.cur /\ a'.ends = a.ends
      BY <1>2, <2>7, LeaveAlone DEF Same, Exit
    <3>2. chan' = chan BY <1>2, <2>7, LeaveCarries DEF Exit
    <3> QED BY <1>1, <2>7, <3>1, <3>2 DEF CoprocessInv
  <2> QED BY <1>2, <1>5, <2>1, <2>2, <2>3, <2>4, <2>5, <2>6, <2>7, CoprocessSteps
<1>6. ASSUME NEW p \in Proc, Start(p) PROVE I'
  <2>1. /\ p = "A" /\ a.runs = 0 /\ a.pc = 0 /\ a'.pc = 1 /\ a'.runs = 1 /\ b' = b /\ chan' = chan
    BY <1>6, Started DEF Forking
  <2> QED BY <1>1, <2>1 DEF CoprocessInv
<1>7. CASE UNCHANGED vars BY <1>1, <1>7 DEF CoprocessInv, vars
<1> QED BY <1>4, <1>5, <1>6, <1>7, Unkilled DEF Proc

\* The steps of 10_fifo1 and 11_fifo2, and where they wait for each other.
LEMMA FifoSteps ==
  ASSUME IpcType, pair = "fifo", NEW p \in Proc, Step(p)
  PROVE  LET c == proc[p].pc
             x == Here(p).x
             to == Here(p).to
         IN /\ c # 0
            /\ p = "A" => \/ c = 1 /\ Open(p) /\ x = "r"
                          \/ c = 3 /\ Read(p) /\ x = "toA" /\ to = 4
                          \/ c = 4 /\ Pass(p) /\ Here(p).op = "use"
                          \/ c = 5 /\ Close(p) /\ x = {<<"r", "toA">>}
                          \/ c = 6 /\ Open(p) /\ x = "w"
                          \/ c = 8 /\ Write(p) /\ x = "toA"
                          \/ c = 9 /\ Exit(p)
            /\ p = "B" => \/ c = 1 /\ Open(p) /\ x = "w"
                          \/ c = 3 /\ Write(p) /\ x = "toA"
                          \/ c = 4 /\ Close(p) /\ x = {<<"w", "toA">>}
                          \/ c = 5 /\ Open(p) /\ x = "r"
                          \/ c = 7 /\ Read(p) /\ x = "toA" /\ to = 8
                          \/ c = 8 /\ Pass(p) /\ Here(p).op = "use"
                          \/ c = 9 /\ Exit(p)
<1> DEFINE c == proc[p].pc
<1>1. c # 0 BY Dispatch
<1>2. c \in DOMAIN Code(pair, p) BY <1>1 DEF IpcType
<1>3. CASE p = "A"
  <2>1. Here(p) = Fifo1[c] /\ c \in DOMAIN Fifo1 BY <1>2, <1>3, CodeIs2 DEF Here
  <2>2. c \in 1..9 BY <2>1 DEF Fifo1
  <2>3. CASE c \in 1..4 BY <1>3, <2>1, <2>3, Dispatch DEF Fifo1, Op, On, To
  <2>4. CASE c \in 5..9 BY <1>3, <2>1, <2>4, Dispatch DEF Fifo1, Op, On, To
  <2> QED BY <2>2, <2>3, <2>4
<1>4. CASE p = "B"
  <2>1. Here(p) = Fifo2[c] /\ c \in DOMAIN Fifo2 BY <1>2, <1>4, CodeIs2 DEF Here
  <2>2. c \in 1..9 BY <2>1 DEF Fifo2
  <2>3. CASE c \in 1..4 BY <1>4, <2>1, <2>3, Dispatch DEF Fifo2, Op, On, To
  <2>4. CASE c \in 5..9 BY <1>4, <2>1, <2>4, Dispatch DEF Fifo2, Op, On, To
  <2> QED BY <2>2, <2>3, <2>4
<1> QED BY <1>3, <1>4 DEF Proc

\* Where the programs of the FIFO wait for each other, and with which open().
LEMMA FifoPartners ==
  ASSUME IpcType, pair = "fifo"
  PROVE  /\ At("A", "partner") <=> proc["A"].pc \in {2, 7}
         /\ At("B", "partner") <=> proc["B"].pc \in {2, 6}
         /\ Code(pair, "A")[1].x = "r" /\ Code(pair, "A")[6].x = "w"
         /\ Code(pair, "B")[1].x = "w" /\ Code(pair, "B")[5].x = "r"
<1>1. \A p \in Proc : proc[p].pc # 0 => proc[p].pc \in DOMAIN Code(pair, p) BY DEF IpcType
<1>2. Code(pair, "A") = Fifo1 /\ Code(pair, "B") = Fifo2 BY CodeIs2
<1>3. At("A", "partner") <=> proc["A"].pc \in {2, 7}
  BY <1>1, <1>2 DEF At, Here, Fifo1, Op, On, To, Proc
<1>4. At("B", "partner") <=> proc["B"].pc \in {2, 6}
  BY <1>1, <1>2 DEF At, Here, Fifo2, Op, On, To, Proc
<1> QED BY <1>2, <1>3, <1>4 DEF Fifo1, Fifo2, Op, On, To

\* What open() of the FIFO does: goes on if the other end is held, and takes along a
\* partner that waits for this end.
LEMMA FifoOpen ==
  ASSUME IpcType, pair = "fifo", NEW p \in Proc, Open(p)
  PROVE  LET o == Other(p)
             mine == Here(p).x
             partner == IF mine = "r" THEN "w" ELSE "r"
         IN /\ proc'[p].pc = IF Held(<<partner, "toA", 1>>) THEN proc[p].pc + 2 ELSE proc[p].pc + 1
            /\ proc'[p].cur = 1 /\ proc'[p].ends = proc[p].ends \cup {<<mine, "toA", 1>>}
            /\ proc'[o].pc = IF At(o, "partner") /\ Code(pair, o)[proc[o].pc - 1].x = partner
                             THEN proc[o].pc + 1 ELSE proc[o].pc
            /\ proc'[o].cur = proc[o].cur /\ proc'[o].ends = proc[o].ends
            /\ chan' = chan
  BY OpenIs DEF Is

\* What is in the FIFO is lost when nobody holds an end.
LEMMA FifoLeave ==
  ASSUME IpcType, pair = "fifo", NEW p \in Proc, NEW c, Leave(p, c)
  PROVE  IF proc[Other(p)].ends = {} THEN chan'[1]["toA"] = <<>> ELSE chan' = chan
<1>1. CASE proc[Other(p)].ends = {}
  <2>1. chan' = [m \in 1..MaxRuns |-> [chan[m] EXCEPT !["toA"] = <<>>]] BY <1>1 DEF Leave
  <2>2. 1 \in 1..MaxRuns /\ chan[1] \in [Direction -> Seq(Proc)] /\ "toA" \in Direction
    BY ChanTypes, TypeParts DEF Channels
  <2> QED BY <1>1, <2>1, <2>2
<1>2. CASE proc[Other(p)].ends # {} BY <1>2 DEF Leave
<1> QED BY <1>1, <1>2

\* The FIFO: its invariant is kept.
LEMMA FifoNext ==
  ASSUME IpcType, QueueInv, FifoInv, [Next]_vars
  PROVE  FifoInv'
<1> SUFFICES ASSUME pair = "fifo", KillFree' PROVE FifoInv'
  BY FaultsGrow DEF FifoInv
<1> DEFINE I == FifoInv
           a == proc["A"]
           b == proc["B"]
           q == chan[1]["toA"]
           r == <<"r", "toA", 1>>
           w == <<"w", "toA", 1>>
<1>1. I /\ UNCHANGED pair /\ KillFree BY Unkilled
<1>2. "A" \in Proc /\ "B" \in Proc /\ Other("A") = "B" /\ Other("B") = "A" /\ Nil \in Crash
  BY DEF Proc, Other, Crash
<1>3. q \in Seq(Proc) /\ a.pc \in Nat /\ b.pc \in Nat /\ r # w
  BY <1>2, ChanTypes, TypeParts DEF Process
<1>4. /\ r \in a.ends <=> a.pc \in 2..5
      /\ w \in a.ends <=> a.pc \in 7..9
      /\ r \in b.ends <=> b.pc \in 6..9
      /\ w \in b.ends <=> b.pc \in 2..4
  BY <1>1, <1>3 DEF FifoInv, FifoEnds
<1>5. ASSUME Step("A") PROVE I'
  <2>1. CASE a.pc = 1 /\ Open("A") /\ Here("A").x = "r"
    <3>1. b.pc \in {0, 1, 2, 7, 8, 9} /\ a.ends = {} BY <1>1, <2>1 DEF FifoInv, FifoEnds
    <3>2. Held(w) <=> b.pc = 2 BY <1>2, <1>4, <2>1, <3>1 DEF Held, Proc
    <3>3. At("B", "partner") /\ Code(pair, "B")[b.pc - 1].x = "w" <=> b.pc = 2
      BY <3>1, FifoPartners
    <3>4. /\ a'.pc = IF b.pc = 2 THEN 3 ELSE 2
          /\ a'.cur = 1 /\ a'.ends = {r}
          /\ b'.pc = IF b.pc = 2 THEN 3 ELSE b.pc
          /\ b'.cur = b.cur /\ b'.ends = b.ends /\ chan' = chan
      BY <1>2, <2>1, <3>1, <3>2, <3>3, FifoOpen
    <3> QED BY <1>1, <2>1, <3>1, <3>4 DEF FifoInv, FifoEnds
  <2>2. CASE a.pc = 3 /\ Read("A") /\ Here("A").x = "toA"
    <3>0. a.cur = 1 BY <1>1, <2>2 DEF FifoInv
    <3>1. a.cur = 1 /\ b.pc \in 3..6 /\ q = (IF b.pc = 3 THEN <<>> ELSE <<"B">>)
      BY <1>1, <2>2 DEF FifoInv
    <3>2. b.pc = 3 => Held(w) BY <1>2, <1>4 DEF Held
    <3>3. ~ReadEnd("A") BY <1>3, <2>2, <3>1, <3>2, OneElement DEF ReadEnd
    <3>4. ReadMessage("A") BY <1>2, <2>2, <3>1, <3>3, ReadIs
    <3>5. a'.pc = 4 /\ a'.cur = 1 /\ a'.ends = a.ends /\ b' = b /\ q # <<>> /\ Carries(1, "toA", Tail(q))
      BY <2>2, <3>0, <3>4, BecomesIs DEF ReadMessage, Moves
    <3>6. b.pc \in 4..6 /\ q = <<"B">> BY <3>1, <3>5
    <3>7. q' = <<>> BY <3>5, <3>6, ChanTypes, OneElement DEF Carries
    <3> QED BY <1>1, <2>2, <3>5, <3>6, <3>7 DEF FifoInv, FifoEnds
  <2>3. CASE a.pc = 4 /\ Pass("A") /\ Here("A").op = "use"
    <3>1. a'.pc = 5 /\ a'.cur = a.cur /\ a'.ends = a.ends /\ b' = b /\ chan' = chan
      BY <1>2, <2>3, JumpIs
    <3> QED BY <1>1, <2>3, <3>1 DEF FifoInv, FifoEnds
  <2>4. CASE a.pc = 5 /\ Close("A") /\ Here("A").x = {<<"r", "toA">>}
    <3>1. /\ a'.pc = 6 /\ a'.cur = a.cur /\ b' = b /\ chan' = chan
          /\ a'.ends = a.ends \ Closed("A")
      BY <1>2, <2>4, CloseIs
    <3>2. a.cur = 1 /\ a.ends = {r} BY <1>1, <2>4 DEF FifoInv, FifoEnds
    <3>3. a'.ends = {} BY <2>4, <3>1, <3>2, ZenonT(20) DEF Closed
    <3> QED BY <1>1, <2>4, <3>1, <3>2, <3>3 DEF FifoInv, FifoEnds
  <2>5. CASE a.pc = 6 /\ Open("A") /\ Here("A").x = "w"
    <3>1. b.pc \in {4, 5, 6} /\ a.ends = {} BY <1>1, <2>5 DEF FifoInv, FifoEnds
    <3>2. Held(r) <=> b.pc = 6 BY <1>2, <1>4, <2>5, <3>1 DEF Held, Proc
    <3>3. At("B", "partner") /\ Code(pair, "B")[b.pc - 1].x = "r" <=> b.pc = 6
      BY <3>1, FifoPartners
    <3>4. /\ a'.pc = IF b.pc = 6 THEN 8 ELSE 7
          /\ a'.cur = 1 /\ a'.ends = {w}
          /\ b'.pc = IF b.pc = 6 THEN 7 ELSE b.pc
          /\ b'.cur = b.cur /\ b'.ends = b.ends /\ chan' = chan
      BY <1>2, <2>5, <3>1, <3>2, <3>3, FifoOpen
    <3> QED BY <1>1, <2>5, <3>1, <3>4 DEF FifoInv, FifoEnds
  <2>6. CASE a.pc = 8 /\ Write("A") /\ Here("A").x = "toA"
    <3>1. a.cur = 1 /\ b.pc = 7 /\ q = <<>> BY <1>1, <2>6 DEF FifoInv
    <3>2. Held(r) BY <1>2, <1>4, <3>1 DEF Held
    <3>3. Written("A") BY <1>2, <2>6, <3>1, <3>2, WriteIs
    <3>4. a'.pc = 9 /\ a'.cur = 1 /\ a'.ends = a.ends /\ b' = b
      BY <2>6, <3>1, <3>3, BecomesIs DEF Written, Moves
    <3>5. Carries(1, "toA", Append(q, "A")) BY <2>6, <3>1, <3>3 DEF Written
    <3>6. q' = <<"A">> BY <3>1, <3>5, ChanTypes, OneElement DEF Carries
    <3> QED BY <1>1, <2>6, <3>1, <3>4, <3>6 DEF FifoInv, FifoEnds
  <2>7. CASE a.pc = 9 /\ Exit("A")
    <3>1. a'.pc = 0 /\ a'.ends = {} /\ b'.pc = b.pc /\ b'.cur = b.cur /\ b'.ends = b.ends
      BY <1>2, <2>7, LeaveAlone DEF Same, Exit
    <3>2. IF b.ends = {} THEN q' = <<>> ELSE chan' = chan BY <1>2, <2>7, FifoLeave DEF Exit
    <3>3. b.ends = {} => b.pc # 7 BY <1>4
    <3> QED BY <1>1, <2>7, <3>1, <3>2, <3>3 DEF FifoInv, FifoEnds
  <2> QED BY <1>2, <1>5, <2>1, <2>2, <2>3, <2>4, <2>5, <2>6, <2>7, FifoSteps
<1>6. ASSUME Step("B") PROVE I'
  <2>1. CASE b.pc = 1 /\ Open("B") /\ Here("B").x = "w"
    <3>1. a.pc \in {0, 1, 2, 9} /\ b.ends = {} BY <1>1, <2>1 DEF FifoInv, FifoEnds
    <3>2. Held(r) <=> a.pc = 2 BY <1>2, <1>4, <2>1, <3>1 DEF Held, Proc
    <3>3. At("A", "partner") /\ Code(pair, "A")[a.pc - 1].x = "r" <=> a.pc = 2
      BY <3>1, FifoPartners
    <3>4. /\ b'.pc = IF a.pc = 2 THEN 3 ELSE 2
          /\ b'.cur = 1 /\ b'.ends = {w}
          /\ a'.pc = IF a.pc = 2 THEN 3 ELSE a.pc
          /\ a'.cur = a.cur /\ a'.ends = a.ends /\ chan' = chan
      BY <1>2, <2>1, <3>1, <3>2, <3>3, FifoOpen
    <3> QED BY <1>1, <2>1, <3>1, <3>4 DEF FifoInv, FifoEnds
  <2>2. CASE b.pc = 3 /\ Write("B") /\ Here("B").x = "toA"
    <3>1. b.cur = 1 /\ a.pc = 3 /\ q = <<>> BY <1>1, <2>2 DEF FifoInv
    <3>2. Held(r) BY <1>2, <1>4, <3>1 DEF Held
    <3>3. Written("B") BY <1>2, <2>2, <3>1, <3>2, WriteIs
    <3>4. b'.pc = 4 /\ b'.cur = 1 /\ b'.ends = b.ends /\ a' = a
      BY <2>2, <3>1, <3>3, BecomesIs DEF Written, Moves
    <3>5. Carries(1, "toA", Append(q, "B")) BY <2>2, <3>1, <3>3 DEF Written
    <3>6. q' = <<"B">> BY <3>1, <3>5, ChanTypes, OneElement DEF Carries
    <3> QED BY <1>1, <2>2, <3>1, <3>4, <3>6 DEF FifoInv, FifoEnds
  <2>3. CASE b.pc = 4 /\ Close("B") /\ Here("B").x = {<<"w", "toA">>}
    <3>1. /\ b'.pc = 5 /\ b'.cur = b.cur /\ a' = a /\ chan' = chan
          /\ b'.ends = b.ends \ Closed("B")
      BY <1>2, <2>3, CloseIs
    <3>2. b.cur = 1 /\ b.ends = {w} BY <1>1, <2>3 DEF FifoInv, FifoEnds
    <3>3. b'.ends = {} BY <2>3, <3>1, <3>2, ZenonT(20) DEF Closed
    <3> QED BY <1>1, <2>3, <3>1, <3>2, <3>3 DEF FifoInv, FifoEnds
  <2>4. CASE b.pc = 5 /\ Open("B") /\ Here("B").x = "r"
    <3>1. a.pc \in 3..7 /\ b.ends = {} BY <1>1, <2>4 DEF FifoInv, FifoEnds
    <3>2. Held(w) <=> a.pc = 7 BY <1>2, <1>4, <2>4, <3>1 DEF Held, Proc
    <3>3. At("A", "partner") /\ Code(pair, "A")[a.pc - 1].x = "w" <=> a.pc = 7
      BY <3>1, FifoPartners
    <3>4. /\ b'.pc = IF a.pc = 7 THEN 7 ELSE 6
          /\ b'.cur = 1 /\ b'.ends = {r}
          /\ a'.pc = IF a.pc = 7 THEN 8 ELSE a.pc
          /\ a'.cur = a.cur /\ a'.ends = a.ends /\ chan' = chan
      BY <1>2, <2>4, <3>1, <3>2, <3>3, FifoOpen
    <3> QED BY <1>1, <2>4, <3>1, <3>4 DEF FifoInv, FifoEnds
  <2>5. CASE b.pc = 7 /\ Read("B") /\ Here("B").x = "toA"
    <3>0. b.cur = 1 BY <1>1, <2>5 DEF FifoInv
    <3>1. b.cur = 1 /\ a.pc \in {0, 1, 2, 8, 9} /\ q = (IF a.pc = 8 THEN <<>> ELSE <<"A">>)
      BY <1>1, <2>5 DEF FifoInv
    <3>2. a.pc = 8 => Held(w) BY <1>2, <1>4 DEF Held
    <3>3. ~ReadEnd("B") BY <1>3, <2>5, <3>1, <3>2, OneElement DEF ReadEnd
    <3>4. ReadMessage("B") BY <1>2, <2>5, <3>1, <3>3, ReadIs
    <3>5. b'.pc = 8 /\ b'.cur = 1 /\ b'.ends = b.ends /\ a' = a /\ q # <<>> /\ Carries(1, "toA", Tail(q))
      BY <2>5, <3>0, <3>4, BecomesIs DEF ReadMessage, Moves
    <3>6. a.pc # 8 /\ q = <<"A">> BY <3>1, <3>5
    <3>7. q' = <<>> BY <3>5, <3>6, ChanTypes, OneElement DEF Carries
    <3> QED BY <1>1, <2>5, <3>1, <3>5, <3>6, <3>7 DEF FifoInv, FifoEnds
  <2>6. CASE b.pc = 8 /\ Pass("B") /\ Here("B").op = "use"
    <3>1. b'.pc = 9 /\ b'.cur = b.cur /\ b'.ends = b.ends /\ a' = a /\ chan' = chan
      BY <1>2, <2>6, JumpIs
    <3> QED BY <1>1, <2>6, <3>1 DEF FifoInv, FifoEnds
  <2>7. CASE b.pc = 9 /\ Exit("B")
    <3>1. b'.pc = 0 /\ b'.ends = {} /\ a'.pc = a.pc /\ a'.cur = a.cur /\ a'.ends = a.ends
      BY <1>2, <2>7, LeaveAlone DEF Same, Exit
    <3>2. IF a.ends = {} THEN q' = <<>> ELSE chan' = chan BY <1>2, <2>7, FifoLeave DEF Exit
    <3> QED BY <1>1, <2>7, <3>1, <3>2 DEF FifoInv, FifoEnds
  <2> QED BY <1>2, <1>6, <2>1, <2>2, <2>3, <2>4, <2>5, <2>6, <2>7, FifoSteps
<1>7. ASSUME NEW p \in Proc, Start(p) PROVE I'
  <2>1. /\ proc[p].pc = 0 /\ proc'[p].pc = 1 /\ proc'[p].ends = {} /\ chan' = chan
        /\ p = "A" => b' = b
        /\ p = "B" => a' = a
    BY <1>7, Started
  <2>2. CASE p = "A" BY <1>1, <2>1, <2>2 DEF FifoInv, FifoEnds
  <2>3. CASE p = "B" BY <1>1, <2>1, <2>3 DEF FifoInv, FifoEnds
  <2> QED BY <2>2, <2>3 DEF Proc
<1>8. CASE UNCHANGED vars BY <1>1, <1>8 DEF FifoInv, vars
<1> QED BY <1>5, <1>6, <1>7, <1>8, Unkilled DEF Proc

\* A connection more in the queue.
LEMMA QueueMore ==
  ASSUME NEW S, NEW s \in Seq(S), NEW e \in S
  PROVE  /\ DOMAIN Append(s, e) = 1..(Len(s) + 1) /\ Len(s) \in Nat /\ DOMAIN s = 1..Len(s)
         /\ Append(s, e)[Len(s) + 1] = e
         /\ \A j \in DOMAIN s : Append(s, e)[j] = s[j]
  OBVIOUS

\* The first connection out of the queue.
LEMMA QueueLess ==
  ASSUME NEW S, NEW s \in Seq(S), s # <<>>
  PROVE  /\ 1 \in DOMAIN s /\ Head(s) = s[1] /\ Head(s) \in S
         /\ \A j \in DOMAIN Tail(s) : /\ j \in Nat \ {0} /\ j + 1 \in DOMAIN s /\ Tail(s)[j] = s[j + 1]
                                      /\ 1 \in 1..((j + 1) - 1)
                                      /\ \A h \in 1..(j - 1) : h \in DOMAIN Tail(s) /\ h + 1 \in 1..((j + 1) - 1)
<1>1. Len(s) \in Nat /\ Len(s) # 0 /\ DOMAIN s = 1..Len(s) OBVIOUS
<1>2. Len(Tail(s)) = Len(s) - 1 /\ DOMAIN Tail(s) = 1..(Len(s) - 1) BY <1>1
<1>3. Head(s) = s[1] /\ Head(s) \in S OBVIOUS
<1>4. \A j \in 1..(Len(s) - 1) : Tail(s)[j] = s[j + 1] OBVIOUS
<1> QED BY <1>1, <1>2, <1>3, <1>4

\* What listen() does.
LEMMA ListenIs ==
  ASSUME IpcType, NEW p \in Proc, Listen(p), pair # "tcp"
  PROVE  /\ proc'[p].pc = proc[p].pc + 1 /\ proc'[p].runs = proc[p].runs /\ proc'[p].cur = proc[p].cur
         /\ proc'[p].ends = proc[p].ends
         /\ p = "A" => proc'["B"] = proc["B"]
         /\ p = "B" => proc'["A"] = proc["A"]
         /\ name' = 1 /\ UNCHANGED <<chan, backlog>>
<1>1. Advance(p) /\ name' = 1 /\ UNCHANGED <<chan, backlog>> BY DEF Listen
<1>2. Becomes(p, proc[p].pc + 1, proc[p].ref, proc[p].adj, proc[p].cur, proc[p].ends, proc[p].got)
  BY <1>1, AdvanceBecomes
<1> QED BY <1>1, <1>2, BecomesIs

\* What accept() does.
LEMMA AcceptIs ==
  ASSUME IpcType, NEW p \in Proc, Accept(p)
  PROVE  /\ proc'[p].pc = proc[p].pc + 1 /\ proc'[p].runs = proc[p].runs /\ proc'[p].cur = Head(backlog)
         /\ proc'[p].ends = proc[p].ends
         /\ p = "A" => proc'["B"] = proc["B"]
         /\ p = "B" => proc'["A"] = proc["A"]
         /\ backlog # <<>> /\ backlog' = Tail(backlog) /\ UNCHANGED <<chan, name>>
<1>1. /\ proc' = [proc EXCEPT ![p].pc = proc[p].pc + 1, ![p].cur = Head(backlog)]
      /\ backlog # <<>> /\ backlog' = Tail(backlog) /\ UNCHANGED <<chan, name>>
      /\ proc[p].pc # 0 /\ Here(p).op = "accept"
  BY TypeParts DEF Accept, At
<1>2. Head(backlog) \in 0..MaxRuns
  <2>1. backlog \in Seq(1..MaxRuns) BY TypeParts
  <2>2. Head(backlog) \in 1..MaxRuns BY <1>1, <2>1, QueueLess
  <2> QED BY <2>2
<1>3. proc[p].pc + 1 \in Nat BY <1>1, NextPlace
<1> DEFINE v == Head(backlog)
           n == proc[p].pc + 1
<1>4. v \in 0..MaxRuns /\ n \in Nat /\ proc' = [proc EXCEPT ![p].pc = n, ![p].cur = v]
  BY <1>1, <1>2, <1>3
<1> HIDE DEF v, n
<1>5. Becomes(p, n, proc[p].ref, proc[p].adj, v, proc[p].ends, proc[p].got) BY <1>4, Becoming
<1>6. /\ proc'[p].pc = n /\ proc'[p].runs = proc[p].runs /\ proc'[p].cur = v
      /\ proc'[p].ends = proc[p].ends
      /\ p = "A" => proc'["B"] = proc["B"]
      /\ p = "B" => proc'["A"] = proc["A"]
  BY <1>5, BecomesIs
<1> QED BY <1>1, <1>6 DEF v, n

\* What is left of the connections when the client leaves.
LEMMA ClientLeaves ==
  ASSUME IpcType, pair \in {"uniquecon", "sendfd"}, Leave("B", Nil)
  PROVE  /\ proc'["B"].pc = 0 /\ proc'["B"].runs = proc["B"].runs /\ proc'["B"].cur = 0
         /\ proc'["A"].pc = proc["A"].pc /\ proc'["A"].cur = proc["A"].cur /\ proc'["A"].ends = proc["A"].ends
         /\ UNCHANGED <<name, backlog, chan>>
<1>1. "B" \in Proc /\ Other("B") = "A" /\ Nil \in Crash BY DEF Proc, Other, Crash
<1>2. UNCHANGED <<name, backlog, chan>> BY DEF Leave
<1> QED BY <1>1, <1>2, LeaveIs DEF Gone, Same, Crash

\* What is left of the connections when the server leaves.
LEMMA ServerLeaves ==
  ASSUME IpcType, pair \in {"uniquecon", "sendfd"}, Leave("A", Nil)
  PROVE  /\ proc'["A"].pc = 0 /\ proc'["B"].pc = proc["B"].pc /\ proc'["B"].runs = proc["B"].runs
         /\ proc'["B"].ends = proc["B"].ends
         /\ proc'["B"].cur = IF \E j \in DOMAIN backlog : backlog[j] = proc["B"].cur THEN 0 ELSE proc["B"].cur
         /\ name' = 0 /\ backlog' = <<>> /\ chan' = chan
<1>1. "A" \in Proc /\ Other("A") = "B" /\ Nil \in Crash BY DEF Proc, Other, Crash
<1>2. name' = 0 /\ backlog' = <<>> /\ chan' = chan BY DEF Leave, Socket
<1> QED BY <1>1, <1>2, LeaveIs DEF Gone, Same, Crash

\* The steps of 04_uniquecon_server and 05_uniquecon_client.
LEMMA UniqueConSteps ==
  ASSUME IpcType, pair = "uniquecon", NEW p \in Proc, Step(p)
  PROVE  LET c == proc[p].pc
             x == Here(p).x
             to == Here(p).to
         IN /\ c # 0
            /\ p = "A" => \/ c = 1 /\ Listen(p)
                          \/ c = 2 /\ Accept(p)
                          \/ c = 3 /\ Read(p) /\ x = "toA" /\ to = 4
                          \/ c = 4 /\ Pass(p) /\ Here(p).op = "use"
                          \/ c = 5 /\ Pass(p) /\ Here(p).op = "goto" /\ to = 2
            /\ p = "B" => \/ c = 1 /\ Connect(p)
                          \/ c = 2 /\ Write(p) /\ x = "toA"
                          \/ c = 3 /\ Exit(p)
<1> DEFINE c == proc[p].pc
<1>1. c # 0 BY Dispatch
<1>2. c \in DOMAIN Code(pair, p) BY <1>1 DEF IpcType
<1>3. CASE p = "A"
  <2>1. Here(p) = UniqueConServer[c] /\ c \in DOMAIN UniqueConServer
    BY <1>2, <1>3, CodeIs2 DEF Here
  <2>2. c \in 1..5 BY <2>1 DEF UniqueConServer
  <2> QED BY <1>3, <2>1, <2>2, Dispatch DEF UniqueConServer, Op, On, To
<1>4. CASE p = "B"
  <2>1. Here(p) = UniqueConClient[c] /\ c \in DOMAIN UniqueConClient
    BY <1>2, <1>4, CodeIs2 DEF Here
  <2>2. c \in 1..3 BY <2>1 DEF UniqueConClient
  <2> QED BY <1>4, <2>1, <2>2, Dispatch DEF UniqueConClient, Op, On, To
<1> QED BY <1>3, <1>4 DEF Proc

\* uniquecon: its invariant is kept.
LEMMA UniqueConNext ==
  ASSUME IpcType, UniqueConInv, [Next]_vars
  PROVE  UniqueConInv'
<1> SUFFICES ASSUME pair = "uniquecon", KillFree' PROVE UniqueConInv'
  BY FaultsGrow DEF UniqueConInv
<1> DEFINE I == UniqueConInv
           a == proc["A"]
           b == proc["B"]
<1>1. I /\ UNCHANGED pair /\ KillFree BY Unkilled
<1>2. "A" \in Proc /\ "B" \in Proc /\ Other("A") = "B" /\ Other("B") = "A" /\ Nil \in Crash
  BY DEF Proc, Other, Crash
<1>3. /\ a.pc \in Nat /\ b.pc \in Nat /\ a.runs \in 0..MaxRuns /\ b.runs \in 0..MaxRuns
      /\ a.cur \in 0..MaxRuns /\ (b.pc # 0 => b.runs \in 1..MaxRuns)
      /\ \A j \in DOMAIN backlog : backlog[j] \in 1..MaxRuns
      /\ backlog \in Seq(1..MaxRuns) /\ "toA" \in Direction
  BY <1>2, TypeParts, MaxRunsAssumption, SMTT(20) DEF Process, IpcType, Direction
<1>4. ASSUME UNCHANGED <<chan, backlog>>, b'.pc = b.pc \/ (b.pc # 2 /\ b'.pc # 2), b'.runs = b.runs
      PROVE  \A k : Served(k)' <=> Served(k)
  BY <1>4 DEF Served
<1>5. ASSUME Step("A") PROVE I'
  <2>1. CASE a.pc = 1 /\ Listen("A")
    <3>1. a'.pc = 2 /\ a'.ends = a.ends /\ b' = b /\ UNCHANGED <<chan, backlog>>
      BY <1>2, <2>1, ListenIs
    <3>2. backlog = <<>> /\ b.pc # 2 BY <1>1, <2>1 DEF UniqueConInv
    <3> QED BY <1>1, <2>1, <3>1, <3>2 DEF UniqueConInv
  <2>2. CASE a.pc = 2 /\ Accept("A")
    <3>1. /\ a'.pc = 3 /\ a'.cur = Head(backlog) /\ a'.ends = a.ends /\ b' = b
          /\ backlog # <<>> /\ backlog' = Tail(backlog) /\ UNCHANGED <<chan, name>>
      BY <1>2, <2>2, AcceptIs
    <3>2. 1 \in DOMAIN backlog /\ a'.cur = backlog[1] /\ a'.cur \in 1..MaxRuns
      BY <1>3, <3>1, QueueLess
    <3>3. Served(backlog[1]) /\ InOrder(1) BY <1>1, <3>2 DEF UniqueConInv
    <3>4. \A k : Served(k)' <=> Served(k) BY <3>1 DEF Served
    <3>5. /\ a'.cur # 0 /\ Served(a.cur)'
          /\ a'.cur <= b.runs /\ (b.pc = 1 => a'.cur < b.runs)
      BY <3>2, <3>3, <3>4 DEF InOrder
    <3>6. ASSUME NEW j \in DOMAIN backlog' PROVE Served(backlog[j])' /\ InOrder(j)'
      <4>1. /\ j \in Nat \ {0} /\ j + 1 \in DOMAIN backlog /\ backlog'[j] = backlog[j + 1]
            /\ 1 \in 1..((j + 1) - 1)
            /\ \A h \in 1..(j - 1) : h + 1 \in 1..((j + 1) - 1) /\ backlog'[h] = backlog[h + 1]
        BY <1>3, <3>1, QueueLess
      <4>2. Served(backlog[j + 1]) /\ InOrder(j + 1) BY <1>1, <4>1 DEF UniqueConInv
      <4>3. backlog[1] < backlog[j + 1] BY <4>1, <4>2 DEF InOrder
      <4>4. \A h \in 1..(j - 1) : backlog'[h] < backlog'[j] BY <4>1, <4>2 DEF InOrder
      <4>5. InOrder(j)' BY <3>1, <3>2, <4>1, <4>2, <4>3, <4>4 DEF InOrder
      <4> QED BY <3>4, <4>1, <4>2, <4>5
    <3> QED BY <1>1, <2>2, <3>1, <3>5, <3>6 DEF UniqueConInv
  <2>3. CASE a.pc = 3 /\ Read("A") /\ Here("A").x = "toA"
    <3>1. a.cur \in 1..MaxRuns /\ Served(a.cur) BY <1>1, <1>3, <2>3 DEF UniqueConInv
    <3>2. ~ReadEnd("A")
      <4>1. CASE chan[a.cur]["toA"] # <<>> BY <2>3, <4>1 DEF ReadEnd
      <4>2. CASE b.pc = 2 /\ b.runs = a.cur
        <5>1. <<"w", "toA", a.cur>> \in b.ends BY <1>1, <4>2 DEF UniqueConInv
        <5> QED BY <1>2, <2>3, <5>1 DEF ReadEnd, Held
      <4> QED BY <3>1, <4>1, <4>2 DEF Served
    <3>3. ReadMessage("A") BY <1>2, <2>3, <3>1, <3>2, ReadIs
    <3>4. /\ a'.pc = 4 /\ a'.ends = a.ends /\ b' = b /\ UNCHANGED <<name, backlog>>
          /\ Carries(a.cur, "toA", Tail(chan[a.cur]["toA"]))
      BY <2>3, <3>3, BecomesIs DEF ReadMessage, Moves
    <3>5. ASSUME NEW j \in DOMAIN backlog PROVE Served(backlog[j])' /\ InOrder(j)'
      <4>1. Served(backlog[j]) /\ InOrder(j) BY <1>1 DEF UniqueConInv
      <4>2. backlog[j] \in 1..MaxRuns /\ backlog[j] # a.cur BY <1>3, <2>3, <4>1 DEF InOrder
      <4>3. chan'[backlog[j]]["toA"] = chan[backlog[j]]["toA"] BY <1>3, <3>4, <4>2 DEF Carries
      <4>4. Served(backlog[j])' BY <3>4, <4>1, <4>3 DEF Served
      <4>5. InOrder(j)' BY <3>4, <4>1 DEF InOrder
      <4> QED BY <4>4, <4>5
    <3> QED BY <1>1, <2>3, <3>4, <3>5 DEF UniqueConInv
  <2>4. CASE a.pc \in {4, 5} /\ Pass("A") /\ Here("A").op = (IF a.pc = 4 THEN "use" ELSE "goto")
             /\ (a.pc = 5 => Here("A").to = 2)
    <3>1. /\ a'.pc \in {2, 5} /\ a'.ends = a.ends /\ b' = b /\ UNCHANGED <<name, chan, backlog>>
      BY <1>2, <2>4, JumpIs
    <3>2. \A k : Served(k)' <=> Served(k) BY <1>4, <3>1
    <3>3. \A j \in DOMAIN backlog : InOrder(j)' <=> InOrder(j) BY <2>4, <3>1 DEF InOrder
    <3> QED BY <1>1, <2>4, <3>1, <3>2, <3>3 DEF UniqueConInv
  <2> QED BY <1>2, <1>5, <2>1, <2>2, <2>3, <2>4, UniqueConSteps
<1>6. ASSUME Leave("B", Nil), b.pc \in {1, 3} PROVE I'
  <2>1. /\ b'.pc = 0 /\ b'.runs = b.runs /\ a'.pc = a.pc /\ a'.cur = a.cur /\ a'.ends = a.ends
        /\ UNCHANGED <<name, backlog, chan>>
    BY <1>6, ClientLeaves
  <2>2. \A k : Served(k)' <=> Served(k) BY <1>4, <1>6, <2>1
  <2>3. \A j \in DOMAIN backlog : InOrder(j) => InOrder(j)' BY <2>1 DEF InOrder
  <2> QED BY <1>1, <2>1, <2>2, <2>3 DEF UniqueConInv
<1>7. ASSUME Step("B") PROVE I'
  <2>1. CASE b.pc = 1 /\ Connect("B")
    <3> DEFINE n == b.runs
    <3>1. CASE Leave("B", Nil) BY <1>6, <2>1, <3>1
    <3>2. CASE ~Leave("B", Nil)
      <4>1. /\ name # 0 /\ b'.pc = 2 /\ b'.runs = n /\ b'.cur = n
            /\ b'.ends = {<<"r", "toB", n>>, <<"w", "toA", n>>}
            /\ a'.pc = a.pc /\ a'.cur = a.cur /\ a'.ends = a.ends \cup {<<"r", "toA", n>>, <<"w", "toB", n>>}
            /\ backlog' = Append(backlog, n) /\ UNCHANGED <<name, chan>>
        BY <1>2, <2>1, <3>2, ConnectIs DEF Is
      <4>2. a.pc > 1 /\ n \in 1..MaxRuns BY <1>1, <1>3, <2>1, <4>1 DEF UniqueConInv
      <4>3. /\ DOMAIN backlog' = 1..(Len(backlog) + 1) /\ Len(backlog) \in Nat
            /\ DOMAIN backlog = 1..Len(backlog) /\ backlog'[Len(backlog) + 1] = n
            /\ \A j \in DOMAIN backlog : backlog'[j] = backlog[j]
        BY <1>3, <4>1, <4>2, QueueMore
      <4>4. \A k : Served(k) => Served(k)' BY <2>1, <4>1 DEF Served
      <4>5. Served(n)' BY <4>1 DEF Served
      <4>6. a.pc = 3 => a.cur < n BY <1>1, <2>1 DEF UniqueConInv
      <4>7. \A j \in DOMAIN backlog : Served(backlog[j]) /\ InOrder(j) /\ backlog[j] < n
        BY <1>1, <2>1 DEF UniqueConInv, InOrder
      <4>8. ASSUME NEW j \in DOMAIN backlog' PROVE Served(backlog[j])' /\ InOrder(j)'
        <5>1. CASE j = Len(backlog) + 1
          <6>1. \A h \in 1..(j - 1) : h \in DOMAIN backlog /\ backlog'[h] < n
            BY <4>3, <4>7, <5>1
          <6> QED BY <1>3, <4>1, <4>3, <4>5, <4>6, <5>1, <6>1 DEF InOrder
        <5>2. CASE j \in DOMAIN backlog
          <6>1. \A h \in 1..(j - 1) : h \in DOMAIN backlog /\ backlog'[h] = backlog[h]
            BY <4>3, <5>2
          <6>2. InOrder(j) /\ backlog'[j] = backlog[j] /\ backlog[j] < n BY <4>3, <4>7, <5>2
          <6>3. \A h \in 1..(j - 1) : backlog'[h] < backlog'[j] BY <6>1, <6>2 DEF InOrder
          <6>4. backlog'[j] <= n /\ (a.pc = 3 => a.cur < backlog'[j]) BY <1>3, <6>2 DEF InOrder
          <6>5. b'.runs = n /\ b'.pc # 1 /\ a'.pc = a.pc /\ a'.cur = a.cur BY <4>1
          <6>6. InOrder(j)' BY <6>3, <6>4, <6>5 DEF InOrder
          <6> QED BY <4>3, <4>4, <4>7, <5>2, <6>6
        <5> QED BY <4>3, <5>1, <5>2
      <4>9. a.pc = 3 => a.cur # 0 /\ Served(a.cur)' BY <1>1, <4>1, <4>4 DEF UniqueConInv
      <4>10. a.pc = 3 => a.cur <= n BY <1>3, <4>6
      <4>11. /\ <<"r", "toA", b'.runs>> \in a'.ends /\ <<"w", "toA", b'.runs>> \in b'.ends
             /\ b'.cur = b'.runs /\ a'.pc > 1 /\ a'.pc \notin {0, 1}
        BY <1>3, <4>1, <4>2
      <4>12. a'.pc = 3 => a'.cur # 0 /\ Served(a.cur)' /\ a'.cur <= b'.runs /\ b'.pc # 1
        BY <4>1, <4>9, <4>10
      <4> HIDE DEF n
      <4> QED BY <4>8, <4>11, <4>12 DEF UniqueConInv
    <3> QED BY <3>1, <3>2
  <2>2. CASE b.pc = 2 /\ Write("B") /\ Here("B").x = "toA"
    <3> DEFINE n == b.runs
    <3>1. /\ b.cur = n /\ n \in 1..MaxRuns /\ <<"r", "toA", n>> \in a.ends /\ a.pc \notin {0, 1}
      BY <1>1, <1>3, <2>2 DEF UniqueConInv
    <3>2. Held(<<"r", "toA", n>>) BY <1>2, <3>1 DEF Held
    <3>3. Written("B") BY <1>2, <2>2, <3>1, <3>2, WriteIs
    <3>4. /\ b'.pc = 3 /\ b'.runs = b.runs /\ a' = a /\ UNCHANGED <<name, backlog>>
          /\ Carries(n, "toA", Append(chan[n]["toA"], "B"))
      BY <2>2, <3>1, <3>3, BecomesIs DEF Written, Moves
    <3>5. chan[n]["toA"] \in Seq(Proc) BY <1>3, <3>1, ChanTypes
    <3>6. Append(chan[n]["toA"], "B") # <<>> BY <1>2, <3>5, AppendNotEmpty
    <3>7. ASSUME NEW k \in 1..MaxRuns, Served(k) PROVE Served(k)'
      <4>1. CASE k = n BY <1>3, <3>4, <3>6, <4>1 DEF Served, Carries
      <4>2. CASE k # n BY <1>3, <3>4, <3>7, <4>2 DEF Served, Carries
      <4> QED BY <4>1, <4>2
    <3>8. \A j \in DOMAIN backlog : InOrder(j) => InOrder(j)' BY <3>4 DEF InOrder
    <3>9. a.pc = 3 => a.cur \in 1..MaxRuns BY <1>1, <1>3 DEF UniqueConInv
    <3> QED BY <1>1, <1>3, <3>1, <3>4, <3>7, <3>8, <3>9 DEF UniqueConInv
  <2>3. CASE b.pc = 3 /\ Exit("B") BY <1>6, <2>3 DEF Exit
  <2> QED BY <1>2, <1>7, <2>1, <2>2, <2>3, UniqueConSteps
<1>8. ASSUME Start("A") PROVE I'
  <2>1. a.pc = 0 /\ a'.pc = 1 /\ b' = b /\ UNCHANGED <<name, chan, backlog>>
    BY <1>2, <1>8, Started
  <2>2. backlog = <<>> /\ b.pc # 2 /\ name = 0 BY <1>1, <2>1 DEF UniqueConInv
  <2> QED BY <2>1, <2>2 DEF UniqueConInv
<1>9. ASSUME Start("B") PROVE I'
  <2>1. b.pc = 0 /\ b'.pc = 1 /\ b'.runs = b.runs + 1 /\ a' = a /\ UNCHANGED <<name, chan, backlog>>
    BY <1>2, <1>9, Started
  <2>2. \A k : Served(k) => Served(k)' BY <2>1 DEF Served
  <2>3. \A j \in DOMAIN backlog : InOrder(j) => InOrder(j)' BY <1>3, <2>1 DEF InOrder
  <2> QED BY <1>1, <1>3, <2>1, <2>2, <2>3 DEF UniqueConInv
<1>10. CASE UNCHANGED vars BY <1>1, <1>10 DEF UniqueConInv, Served, InOrder, vars
<1> QED BY <1>5, <1>7, <1>8, <1>9, <1>10, Unkilled DEF Proc

\* The steps of 06_sendfd_server and 07_sendfd_client.
LEMMA SendFdSteps ==
  ASSUME IpcType, pair = "sendfd", NEW p \in Proc, Step(p)
  PROVE  LET c == proc[p].pc
             x == Here(p).x
             to == Here(p).to
         IN /\ c # 0
            /\ p = "A" => \/ c = 1 /\ Listen(p)
                          \/ c = 2 /\ Accept(p)
                          \/ c = 3 /\ File(p) /\ Here(p).op = "file"
                          \/ c = 4 /\ Write(p) /\ x = "toB"
                          \/ c = 5 /\ Exit(p)
            /\ p = "B" => \/ c = 1 /\ Connect(p)
                          \/ c = 2 /\ Read(p) /\ x = "toB" /\ to = 3
                          \/ c = 3 /\ Pass(p) /\ Here(p).op = "use"
                          \/ c = 4 /\ Exit(p)
<1> DEFINE c == proc[p].pc
<1>1. c # 0 BY Dispatch
<1>2. c \in DOMAIN Code(pair, p) BY <1>1 DEF IpcType
<1>3. CASE p = "A"
  <2>1. Here(p) = SendFdServer[c] /\ c \in DOMAIN SendFdServer BY <1>2, <1>3, CodeIs2 DEF Here
  <2>2. c \in 1..5 BY <2>1 DEF SendFdServer
  <2> QED BY <1>3, <2>1, <2>2, Dispatch DEF SendFdServer, Op, On, To
<1>4. CASE p = "B"
  <2>1. Here(p) = SendFdClient[c] /\ c \in DOMAIN SendFdClient BY <1>2, <1>4, CodeIs2 DEF Here
  <2>2. c \in 1..4 BY <2>1 DEF SendFdClient
  <2> QED BY <1>4, <2>1, <2>2, Dispatch DEF SendFdClient, Op, On, To
<1> QED BY <1>3, <1>4 DEF Proc

\* sendfd: its invariant is kept.
LEMMA SendFdNext ==
  ASSUME IpcType, SendFdInv, [Next]_vars
  PROVE  SendFdInv'
<1> SUFFICES ASSUME pair = "sendfd", KillFree' PROVE SendFdInv'
  BY FaultsGrow DEF SendFdInv
<1> DEFINE I == SendFdInv
           a == proc["A"]
           b == proc["B"]
           k == b.cur
           q(m) == chan[m]["toB"]
<1>1. I /\ UNCHANGED pair /\ KillFree /\ faults \subseteq faults' BY Unkilled, FaultsGrow
<1>2. "A" \in Proc /\ "B" \in Proc /\ Other("A") = "B" /\ Other("B") = "A" /\ Nil \in Crash
  BY DEF Proc, Other, Crash
<1>3. /\ a.pc \in Nat /\ b.pc \in Nat /\ b.runs \in 0..MaxRuns /\ k \in 0..MaxRuns
      /\ (b.pc # 0 => b.runs \in 1..MaxRuns)
      /\ backlog \in Seq(1..MaxRuns) /\ "toB" \in Direction
      /\ \A m \in 1..MaxRuns : q(m) \in Seq(Proc)
  BY <1>2, TypeParts, ChanTypes, MaxRunsAssumption DEF Process, IpcType, Direction
<1>4. ASSUME Step("A") PROVE I'
  <2>1. CASE a.pc = 1 /\ Listen("A")
    <3>1. a'.pc = 2 /\ a'.ends = a.ends /\ b' = b /\ UNCHANGED <<chan, backlog>>
      BY <1>2, <2>1, ListenIs
    <3>2. backlog = <<>> BY <1>1, <2>1 DEF SendFdInv
    <3> QED BY <1>1, <2>1, <3>1, <3>2 DEF SendFdInv
  <2>2. CASE a.pc = 2 /\ Accept("A")
    <3>1. /\ a'.pc = 3 /\ a'.cur = Head(backlog) /\ a'.ends = a.ends /\ b' = b
          /\ backlog # <<>> /\ backlog' = Tail(backlog) /\ UNCHANGED <<chan, name>>
      BY <1>2, <2>2, AcceptIs
    <3>2. b.pc = 2 /\ k # 0 /\ backlog = <<k>> /\ q(k) = <<>> BY <1>1, <3>1 DEF SendFdInv
    <3>3. a'.cur = k /\ backlog' = <<>> BY <3>1, <3>2, OneElement
    <3> QED BY <1>1, <2>2, <3>1, <3>2, <3>3 DEF SendFdInv
  <2>3. CASE a.pc = 3 /\ File("A") /\ Here("A").op = "file"
    <3>1. CASE Leave("A", Nil) /\ "file" \in faults'
      <4>1. /\ a'.pc = 0 /\ b'.pc = b.pc /\ b'.runs = b.runs /\ b'.ends = b.ends
            /\ b'.cur = IF \E j \in DOMAIN backlog : backlog[j] = k THEN 0 ELSE k
            /\ name' = 0 /\ backlog' = <<>> /\ chan' = chan
        BY <3>1, ServerLeaves
      <4>2. backlog = <<>> BY <1>1, <2>3 DEF SendFdInv
      <4>3. b'.cur = k BY <4>1, <4>2
      <4> QED BY <1>1, <2>3, <3>1, <4>1, <4>3 DEF SendFdInv
    <3>2. CASE /\ a'.pc = 4 /\ a'.cur = a.cur /\ a'.ends = a.ends /\ b' = b
               /\ UNCHANGED <<name, chan, backlog>>
      BY <1>1, <2>3, <3>2 DEF SendFdInv
    <3> QED BY <1>2, <2>3, <3>1, <3>2, FailIs
  <2>4. CASE a.pc = 4 /\ Write("A") /\ Here("A").x = "toB"
    <3>1. a.cur = k /\ k # 0 /\ b.pc = 2 /\ backlog = <<>> /\ k = b.runs /\ <<"r", "toB", k>> \in b.ends
      BY <1>1, <2>4 DEF SendFdInv
    <3>2. Held(<<"r", "toB", k>>) BY <1>2, <3>1 DEF Held
    <3>3. Written("A") BY <1>2, <2>4, <3>1, <3>2, WriteIs
    <3>4. /\ a'.pc = 5 /\ b' = b /\ UNCHANGED <<name, backlog>> /\ Carries(k, "toB", Append(q(k), "A"))
      BY <2>4, <3>1, <3>3, BecomesIs DEF Written, Moves
    <3>5. k \in 1..MaxRuns /\ q(k) \in Seq(Proc) BY <1>3, <3>1, MaxRunsAssumption
    <3>6. Append(q(k), "A") # <<>> BY <1>2, <3>5, AppendNotEmpty
    <3>7. chan'[k]["toB"] # <<>> /\ \A m \in 1..MaxRuns : m # k => chan'[m]["toB"] = q(m)
      BY <1>3, <3>4, <3>5, <3>6 DEF Carries
    <3>8. \A m \in 1..MaxRuns : chan'[m]["toB"] # <<>> => m <= b.runs
      <4>1. \A m \in 1..MaxRuns : q(m) # <<>> => m <= b.runs BY <1>1 DEF SendFdInv
      <4> QED BY <1>3, <3>1, <3>7, <4>1
    <3> QED BY <1>1, <2>4, <3>1, <3>4, <3>7, <3>8 DEF SendFdInv
  <2>5. CASE a.pc = 5 /\ Exit("A")
    <3>1. /\ a'.pc = 0 /\ b'.pc = b.pc /\ b'.runs = b.runs /\ b'.ends = b.ends
          /\ b'.cur = IF \E j \in DOMAIN backlog : backlog[j] = k THEN 0 ELSE k
          /\ name' = 0 /\ backlog' = <<>> /\ chan' = chan
      BY <2>5, ServerLeaves DEF Exit
    <3>2. CASE backlog = <<>>
      <4>1. b'.cur = k BY <3>1, <3>2
      <4> QED BY <1>1, <2>5, <3>1, <3>2, <4>1 DEF SendFdInv
    <3>3. CASE backlog # <<>>
      <4>1. backlog = <<k>> BY <1>1, <3>3 DEF SendFdInv
      <4>2. b'.cur = 0 BY <3>1, <4>1
      <4> QED BY <1>1, <2>5, <3>1, <4>2 DEF SendFdInv
    <3> QED BY <3>2, <3>3
  <2> QED BY <1>2, <1>4, <2>1, <2>2, <2>3, <2>4, <2>5, SendFdSteps
<1>5. ASSUME Leave("B", Nil), b.pc # 2 \/ k = 0 PROVE I'
  <2>1. /\ b'.pc = 0 /\ b'.runs = b.runs /\ b'.cur = 0 /\ a'.pc = a.pc /\ a'.cur = a.cur /\ a'.ends = a.ends
        /\ UNCHANGED <<name, backlog, chan>>
    BY <1>5, ClientLeaves
  <2>2. backlog = <<>> /\ a.pc \notin {3, 4} BY <1>1, <1>5 DEF SendFdInv
  <2> QED BY <1>1, <2>1, <2>2 DEF SendFdInv
<1>6. ASSUME Step("B") PROVE I'
  <2>1. CASE b.pc = 1 /\ Connect("B")
    <3> DEFINE n == b.runs
    <3>1. CASE Leave("B", Nil) BY <1>5, <2>1, <3>1
    <3>2. CASE ~Leave("B", Nil)
      <4>1. /\ name # 0 /\ b'.pc = 2 /\ b'.runs = n /\ b'.cur = n
            /\ b'.ends = {<<"r", "toB", n>>, <<"w", "toA", n>>}
            /\ a'.pc = a.pc /\ a'.ends = a.ends \cup {<<"r", "toA", n>>, <<"w", "toB", n>>}
            /\ backlog' = Append(backlog, n) /\ UNCHANGED <<name, chan>>
        BY <1>2, <2>1, <3>2, ConnectIs DEF Is
      <4>2. a.pc > 1 /\ a.pc \notin {3, 4} /\ backlog = <<>> /\ n \in 1..MaxRuns
        BY <1>1, <1>3, <2>1, <4>1 DEF SendFdInv
      <4>3. backlog' = <<n>> /\ backlog' # <<>> BY <4>1, <4>2, OneElement
      <4>4. \A m \in 1..MaxRuns : q(m) # <<>> => m < n BY <1>1, <2>1 DEF SendFdInv
      <4>5. q(n) = <<>> /\ n # 0 BY <1>3, <4>2, <4>4
      <4>6. \A m \in 1..MaxRuns : q(m) # <<>> => m <= n BY <1>3, <4>4
      <4> HIDE DEF n
      <4> QED BY <4>1, <4>2, <4>3, <4>5, <4>6 DEF SendFdInv
    <3> QED BY <3>1, <3>2
  <2>2. CASE b.pc = 2 /\ Read("B") /\ Here("B").x = "toB" /\ Here("B").to = 3
    <3>1. CASE k = 0 /\ Leave("B", Nil) BY <1>5, <3>1
    <3>2. CASE ReadMessage("B")
      <4>1. /\ k \in 1..MaxRuns /\ q(k) # <<>> /\ b'.pc = 3 /\ b'.runs = b.runs /\ b'.cur = k
            /\ a' = a /\ UNCHANGED <<name, backlog>> /\ Carries(k, "toB", Tail(q(k)))
        BY <2>2, <3>2, BecomesIs DEF ReadMessage, Moves
      <4>2. a.pc \notin {3, 4} /\ backlog = <<>> BY <1>1, <4>1 DEF SendFdInv
      <4>3. \A m \in 1..MaxRuns : m # k => chan'[m]["toB"] = q(m) BY <1>3, <4>1 DEF Carries
      <4>4. \A m \in 1..MaxRuns : chan'[m]["toB"] # <<>> => m <= b.runs
        <5>1. \A m \in 1..MaxRuns : q(m) # <<>> => m <= b.runs BY <1>1 DEF SendFdInv
        <5> QED BY <4>1, <4>3, <5>1
      <4> QED BY <1>1, <4>1, <4>2, <4>4 DEF SendFdInv
    <3>3. CASE ReadEnd("B")
      <4>0. k \in 1..MaxRuns /\ q(k) = <<>> /\ ~Held(<<"w", "toB", k>>)
        BY <2>2, <3>3 DEF ReadEnd
      <4>1. k # 0 /\ q(k) = <<>> /\ ~Held(<<"w", "toB", k>>) BY <4>0, MaxRunsAssumption
      <4>2. <<"w", "toB", k>> \notin a.ends BY <1>2, <4>1 DEF Held
      <4>3. a.pc \notin {3, 4} /\ backlog = <<>> BY <1>1, <2>2, <4>1, <4>2 DEF SendFdInv
      <4>4. b'.pc = 3 /\ b'.runs = b.runs /\ b'.cur = k /\ a' = a /\ UNCHANGED <<name, chan, backlog>>
        BY <2>2, <3>3, BecomesIs DEF ReadEnd, Moves
      <4> QED BY <1>1, <2>2, <4>3, <4>4 DEF SendFdInv
    <3> QED BY <1>2, <2>2, <3>1, <3>2, <3>3, ReadIs
  <2>3. CASE b.pc = 3 /\ Pass("B") /\ Here("B").op = "use"
    <3>1. /\ b'.pc = 4 /\ b'.runs = b.runs /\ b'.cur = k /\ a' = a /\ UNCHANGED <<name, chan, backlog>>
      BY <1>2, <2>3, JumpIs
    <3> QED BY <1>1, <2>3, <3>1 DEF SendFdInv
  <2>4. CASE b.pc = 4 /\ Exit("B") BY <1>5, <2>4 DEF Exit
  <2> QED BY <1>2, <1>6, <2>1, <2>2, <2>3, <2>4, SendFdSteps
<1>7. ASSUME Start("A") PROVE I'
  <2>1. a.pc = 0 /\ a'.pc = 1 /\ b' = b /\ UNCHANGED <<name, chan, backlog>>
    BY <1>2, <1>7, Started
  <2>2. backlog = <<>> /\ name = 0 BY <1>1, <2>1 DEF SendFdInv
  <2> QED BY <1>1, <2>1, <2>2 DEF SendFdInv
<1>8. ASSUME Start("B") PROVE I'
  <2>1. /\ b.pc = 0 /\ b'.pc = 1 /\ b'.runs = b.runs + 1 /\ b'.cur = 0 /\ a' = a
        /\ UNCHANGED <<name, chan, backlog>>
    BY <1>2, <1>8, Started
  <2>2. backlog = <<>> /\ a.pc \notin {3, 4} BY <1>1, <2>1 DEF SendFdInv
  <2>3. \A m \in 1..MaxRuns : q(m) # <<>> => m <= b.runs BY <1>1 DEF SendFdInv
  <2>4. \A m \in 1..MaxRuns : q(m) # <<>> => m <= b.runs + 1 /\ m < b.runs + 1 BY <1>3, <2>3
  <2> QED BY <1>1, <2>1, <2>2, <2>4 DEF SendFdInv
<1>9. CASE UNCHANGED vars BY <1>1, <1>9 DEF SendFdInv, vars
<1> QED BY <1>4, <1>6, <1>7, <1>8, <1>9, Unkilled DEF Proc

-----------------------------------------------------------------------------
(* What the programs use, and how they crash. *)

\* The process q goes on at n.
Goes(q, n) ==
  /\ proc'[q].pc = n /\ proc'[q].crash = proc[q].crash
  /\ \A p \in Proc : p # q => proc'[p] = proc[p]

\* The process q leaves; c is how it died.
Left(q, c) ==
  /\ proc'[q].pc = 0 /\ proc'[q].crash = c
  /\ \A p \in Proc : p # q =>
       proc'[p].pc = proc[p].pc /\ proc'[p].got = proc[p].got /\ proc'[p].crash = proc[p].crash

\* A process that becomes another one at pc goes on there.
LEMMA GoesOn ==
  ASSUME NEW q, NEW pc, NEW ref, NEW adj, NEW cur, NEW ends, NEW got,
         Becomes(q, pc, ref, adj, cur, ends, got)
  PROVE  Goes(q, pc)
  BY DEF Becomes, Is, Goes

\* A process that leaves has left.
LEMMA Leaving ==
  ASSUME IpcType, NEW q \in Proc, NEW c \in Crash, Leave(q, c)
  PROVE  Left(q, c)
<1>1. Gone(proc'[q], proc[q], c) /\ Same(proc'[Other(q)], proc[Other(q)]) BY LeaveIs DEF Crash
<1> QED BY <1>1, Others DEF Gone, Same, Left

\* The updates with which the calls let a process go on.
LEMMA Moving ==
  ASSUME IpcType, NEW q \in Proc, proc[q].pc # 0, Here(q).op \notin {"exit", "goto"}, NEW v,
         LET n == proc[q].pc + 1 IN
         \/ proc' = [proc EXCEPT ![q].pc = n]
         \/ v \in 0..MaxRuns /\ proc' = [proc EXCEPT ![q].pc = n, ![q].cur = v]
         \/ v \in Proc \cup {Nil} /\ proc' = [proc EXCEPT ![q].pc = n, ![q].got = v]
  PROVE  Goes(q, proc[q].pc + 1)
<1>1. proc[q].pc + 1 \in Nat BY NextPlace
<1>2. \E ref, adj, cur, ends, got : Becomes(q, proc[q].pc + 1, ref, adj, cur, ends, got)
  BY <1>1, Becoming, ZenonT(20)
<1> QED BY <1>2, GoesOn

\* What a step does to the processes.
StepKind(q) ==
  \/ Here(q).op \notin {"exit", "goto"} /\ Goes(q, proc[q].pc + 1)
  \/ Here(q).op \in {"goto", "exec", "input", "read"} /\ Goes(q, Here(q).to)
  \/ Left(q, Nil)
  \/ Left(q, "SIGSEGV") /\ Attach(q) /\ Refused(q)
  \/ Left(q, "SIGSEGV") /\ Here(q).op = "popen" /\ "popen" \in faults'
  \/ Left(q, "SIGBUS") /\ Poke(q) /\ ~Obj(q).sized
  \/ Left(q, "SIGPIPE") /\ Write(q) /\ ~(Held(<<"r", Here(q).x, proc[q].cur>>) \/ pair = "tcp")
  \/ Open(q)
  \/ Fork(q) /\ Forked
  \/ Connect(q) /\ ~Leave(q, Nil)

\* The calls on objects are of these kinds.
LEMMA ObjectKinds ==
  ASSUME IpcType, RefInv, NEW q \in Proc, ObjectStep(q)
  PROVE  proc[q].pc # 0 /\ StepKind(q)
<1> DEFINE n == proc[q].pc + 1
<1>0. Nil \in Crash /\ "SIGSEGV" \in Crash /\ "SIGBUS" \in Crash BY DEF Crash
<1>1. CASE Get(q)
  <2>1. CASE GetsOld(q) BY <1>1, <2>1, GetIs, GoesOn DEF GetsOld, StepKind
  <2>2. CASE GetsNew(q) BY <1>1, <2>2, GetIs, GoesOn DEF GetsNew, StepKind
  <2>3. CASE Leave(q, Nil) BY <1>0, <1>1, <2>3, GetIs, Leaving DEF StepKind
  <2> QED BY <1>1, <2>1, <2>2, <2>3, GetIs
<1>2. CASE GiveUp(q) BY <1>0, <1>2, Leaving DEF GiveUp, At, StepKind
<1>3. CASE Snd(q)
  <2>1. proc[q].pc # 0 /\ Here(q).op = "snd" /\ Advance(q) BY <1>3 DEF Snd, At
  <2>2. Goes(q, n) BY <2>1, AdvanceBecomes, GoesOn
  <2> QED BY <2>1, <2>2 DEF StepKind
<1>4. CASE Rcv(q)
  <2>1. proc[q].pc # 0 /\ Here(q).op = "rcv" /\ Receive(q, Head(Obj(q).q)) /\ Obj(q).q # <<>>
    BY <1>4 DEF Rcv, At
  <2>2. Head(Obj(q).q) \in Proc \cup {Nil}
    <3>1. Obj(q) \in Object BY <2>1, HasObject DEF Uses
    <3>2. Obj(q).q \in Seq(Proc) BY <3>1 DEF Object
    <3> QED BY <2>1, <3>2
  <2>3. Goes(q, n) BY <2>1, <2>2, ReceiveBecomes, GoesOn
  <2> QED BY <2>1, <2>3 DEF StepKind
<1>5. ASSUME NEW op \in {"wait", "post"}, NEW m \in {-1, 1}, SemOp(q, op, m)
      PROVE  proc[q].pc # 0 /\ StepKind(q)
  <2>1. proc[q].pc # 0 /\ Here(q).op = op /\ Goes(q, n) BY <1>5, SemOpIs, GoesOn
  <2> QED BY <1>5, <2>1 DEF StepKind
<1>6. CASE Wait(q) \/ Post(q) BY <1>5, <1>6 DEF Wait, Post
<1>7. CASE Attach(q)
  <2>1. proc[q].pc # 0 /\ Here(q).op = "attach" BY <1>7 DEF Attach, At
  <2>2. CASE Refused(q)
    <3>1. Leave(q, "SIGSEGV") BY <1>7, <2>2 DEF Attach
    <3>2. Left(q, "SIGSEGV") BY <1>0, <3>1, Leaving
    <3> QED BY <1>7, <2>1, <2>2, <3>2 DEF StepKind
  <2>3. CASE ~Refused(q)
    <3>1. Goes(q, n) BY <1>7, <2>3, AdvanceBecomes, GoesOn DEF Attach
    <3> QED BY <2>1, <3>1 DEF StepKind
  <2> QED BY <2>2, <2>3
<1>8. CASE Size(q)
  <2>1. proc[q].pc # 0 /\ Here(q).op = "size" /\ Advance(q) BY <1>8 DEF Size, At
  <2>2. Goes(q, n) BY <2>1, AdvanceBecomes, GoesOn
  <2> QED BY <2>1, <2>2 DEF StepKind
<1>9. CASE Poke(q)
  <2>1. proc[q].pc # 0 /\ Here(q).op = "poke" BY <1>9 DEF Poke, At
  <2>2. CASE ~Obj(q).sized
    <3>1. Leave(q, "SIGBUS") BY <1>9, <2>2 DEF Poke
    <3>2. Left(q, "SIGBUS") BY <1>0, <3>1, Leaving
    <3> QED BY <1>9, <2>1, <2>2, <3>2 DEF StepKind
  <2>3. CASE Obj(q).sized
    <3>1. Goes(q, n) BY <1>9, <2>3, AdvanceBecomes, GoesOn DEF Poke
    <3> QED BY <2>1, <3>1 DEF StepKind
  <2> QED BY <2>2, <2>3
<1>10. CASE Peek(q)
  <2>1. proc[q].pc # 0 /\ Here(q).op = "peek" /\ Receive(q, Obj(q).text) BY <1>10 DEF Peek, At
  <2>2. Obj(q).text \in Proc \cup {Nil}
    <3>1. Obj(q) \in Object BY <2>1, HasObject DEF Uses
    <3> QED BY <3>1 DEF Object
  <2>3. Goes(q, n) BY <2>1, <2>2, ReceiveBecomes, GoesOn
  <2> QED BY <2>1, <2>3 DEF StepKind
<1>11. CASE Remove(q)
  <2>1. proc[q].pc # 0 /\ Here(q).op \in {"remove", "unlink"} /\ Advance(q)
    BY <1>11 DEF Remove, At
  <2>2. Goes(q, n) BY <2>1, AdvanceBecomes, GoesOn
  <2> QED BY <2>1, <2>2 DEF StepKind
<1> QED BY <1>1, <1>2, <1>3, <1>4, <1>6, <1>7, <1>8, <1>9, <1>10, <1>11 DEF ObjectStep

\* The calls on pipes, FIFOs and sockets are of these kinds.
LEMMA ChannelKinds ==
  ASSUME IpcType, NEW q \in Proc, ChannelStep(q)
  PROVE  proc[q].pc # 0 /\ StepKind(q)
<1> DEFINE n == proc[q].pc + 1
           k == proc[q].cur
<1>0. /\ Nil \in Crash /\ "SIGPIPE" \in Crash /\ "SIGSEGV" \in Crash /\ k \in 0..MaxRuns
      /\ proc[q].runs \in 0..MaxRuns /\ chan \in Channels
  BY TypeParts DEF Crash, Process
<1>1. CASE Fork(q)
  <2>1. q = "A" /\ proc[q].pc # 0 BY <1>1, ForkIs
  <2>2. CASE Leave(q, Nil) BY <1>0, <2>1, <2>2, Leaving DEF StepKind
  <2>3. CASE ~Leave(q, Nil) BY <1>1, <2>1, <2>3, ForkIs DEF StepKind
  <2> QED BY <2>2, <2>3
<1>2. CASE Close(q)
  <2>1. /\ proc[q].pc # 0 /\ Here(q).op = "close" /\ proc'[q].pc = n /\ proc'[q].crash = proc[q].crash
        /\ q = "A" => proc'["B"] = proc["B"]
        /\ q = "B" => proc'["A"] = proc["A"]
    BY <1>2, CloseIs
  <2>2. Goes(q, n) BY <2>1 DEF Goes, Proc
  <2> QED BY <2>1, <2>2 DEF StepKind
<1>3. CASE Write(q)
  <2>1. proc[q].pc # 0 /\ Here(q).op = "write" BY <1>3, WriteIs
  <2>2. CASE Written(q)
    <3>1. Goes(q, n) BY <2>2, GoesOn DEF Written, Moves
    <3> QED BY <2>1, <3>1 DEF StepKind
  <2>3. CASE Leave(q, "SIGPIPE") /\ ~(Held(<<"r", Here(q).x, k>>) \/ pair = "tcp")
    <3>1. Left(q, "SIGPIPE") BY <1>0, <2>3, Leaving
    <3> QED BY <1>3, <2>1, <2>3, <3>1 DEF StepKind
  <2> QED BY <1>3, <2>2, <2>3, WriteIs
<1>4. CASE Read(q)
  <2>1. proc[q].pc # 0 /\ Here(q).op = "read" BY <1>4, ReadIs
  <2>2. CASE Leave(q, Nil) BY <1>0, <2>1, <2>2, Leaving DEF StepKind
  <2>3. CASE ReadMessage(q)
    <3>1. Goes(q, n) BY <2>3, GoesOn DEF ReadMessage, Moves
    <3> QED BY <2>1, <3>1 DEF StepKind
  <2>4. CASE ReadEnd(q)
    <3>1. Goes(q, Here(q).to) BY <2>4, GoesOn DEF ReadEnd, Moves
    <3> QED BY <2>1, <3>1 DEF StepKind
  <2> QED BY <1>4, <2>2, <2>3, <2>4, ReadIs
<1>5. CASE Open(q) BY <1>5 DEF Open, At, StepKind
<1>6. CASE Listen(q)
  <2>1. proc[q].pc # 0 /\ Here(q).op = "listen" BY <1>6 DEF Listen, At
  <2>2. CASE Leave(q, Nil) BY <1>0, <2>1, <2>2, Leaving DEF StepKind
  <2>3. CASE Advance(q)
    <3>1. Goes(q, n) BY <2>3, AdvanceBecomes, GoesOn
    <3> QED BY <2>1, <3>1 DEF StepKind
  <2> QED BY <1>6, <2>2, <2>3 DEF Listen
<1>7. CASE Connect(q)
  <2>1. proc[q].pc # 0 BY <1>7 DEF Connect, At
  <2>2. CASE Leave(q, Nil) BY <1>0, <2>1, <2>2, Leaving DEF StepKind
  <2>3. CASE ~Leave(q, Nil) BY <1>7, <2>1, <2>3 DEF StepKind
  <2> QED BY <2>2, <2>3
<1>8. CASE Accept(q)
  <2>1. /\ proc[q].pc # 0 /\ Here(q).op = "accept" /\ backlog # <<>>
        /\ proc' = [proc EXCEPT ![q].pc = n, ![q].cur = Head(backlog)]
    BY <1>8, TypeParts DEF Accept, At
  <2>2. Head(backlog) \in 0..MaxRuns
    <3>1. backlog \in Seq(1..MaxRuns) BY TypeParts
    <3>2. Head(backlog) \in 1..MaxRuns BY <2>1, <3>1, QueueLess
    <3> QED BY <3>2
  <2>3. Goes(q, n) BY <2>1, <2>2, Moving
  <2> QED BY <2>1, <2>3 DEF StepKind
<1>9. CASE Send(q)
  <2>1. /\ proc[q].pc # 0 /\ Here(q).op = "send"
        /\ \/ proc' = [proc EXCEPT ![q].pc = n]
           \/ proc' = [proc EXCEPT ![q].pc = n, ![q].cur = proc[q].runs]
    BY <1>9 DEF Send, At, Advance, GoTo
  <2>2. Goes(q, n) BY <1>0, <2>1, Moving
  <2> QED BY <2>1, <2>2 DEF StepKind
<1>10. CASE Recv(q)
  <2>1. proc[q].pc # 0 /\ Here(q).op = "recv" BY <1>10 DEF Recv, At
  <2>2. CASE Leave(q, Nil) BY <1>0, <2>1, <2>2, Leaving DEF StepKind
  <2>3. CASE k # 0 /\ chan[k]["toB"] # <<>> /\ Receive(q, Head(chan[k]["toB"]))
    <3>1. k \in 1..MaxRuns /\ "toB" \in Direction BY <1>0, <2>3, MaxRunsAssumption DEF Direction
    <3>2. Head(chan[k]["toB"]) \in Proc
      <4>1. chan[k]["toB"] \in Seq(Proc) BY <3>1, ChanTypes
      <4> QED BY <2>3, <4>1
    <3>3. Goes(q, n) BY <2>3, <3>2, ReceiveBecomes, GoesOn
    <3> QED BY <2>1, <3>3 DEF StepKind
  <2> QED BY <1>10, <2>2, <2>3 DEF Recv
<1>11. CASE RecvFrom(q)
  <2>1. PICK m \in 1..MaxRuns :
          /\ chan[m]["toA"] # <<>>
          /\ proc' = [proc EXCEPT ![q].pc = n, ![q].cur = m, ![q].got = Head(chan[m]["toA"])]
    BY <1>11, TypeParts DEF RecvFrom
  <2>2. proc[q].pc # 0 /\ Here(q).op = "recvfrom" BY <1>11 DEF RecvFrom, At
  <2>3. Head(chan[m]["toA"]) \in Proc \cup {Nil}
    <3>1. chan[m]["toA"] \in Seq(Proc) BY ChanTypes
    <3> QED BY <2>1, <3>1
  <2>4. n \in Nat /\ m \in 0..MaxRuns BY <2>2, NextPlace, MaxRunsAssumption
  <2> DEFINE v == Head(chan[m]["toA"])
  <2>5. v \in Proc \cup {Nil} /\ proc' = [proc EXCEPT ![q].pc = n, ![q].cur = m, ![q].got = v]
    BY <2>1, <2>3
  <2> HIDE DEF n, v
  <2>6. Becomes(q, n, proc[q].ref, proc[q].adj, m, proc[q].ends, v) BY <2>4, <2>5, Becoming
  <2>7. Goes(q, n) BY <2>4, <2>5, <2>6, GoesOn
  <2> QED BY <2>2, <2>7 DEF StepKind, n
<1>12. CASE SendTo(q)
  <2>1. proc[q].pc # 0 /\ Here(q).op = "sendto" /\ Advance(q) BY <1>12 DEF SendTo, At
  <2>2. Goes(q, n) BY <2>1, AdvanceBecomes, GoesOn
  <2> QED BY <2>1, <2>2 DEF StepKind
<1>13. CASE Pass(q) \/ Exec(q) \/ Input(q) \/ Reap(q)
  <2>1. /\ proc[q].pc # 0 /\ proc'[q].crash = proc[q].crash
        /\ \/ Here(q).op \in {"nap", "use", "exec", "input", "reap"} /\ proc'[q].pc = n
           \/ Here(q).op \in {"goto", "exec", "input"} /\ proc'[q].pc = Here(q).to
        /\ q = "A" => proc'["B"] = proc["B"]
        /\ q = "B" => proc'["A"] = proc["A"]
    BY <1>13, JumpIs
  <2>2. Goes(q, proc'[q].pc) BY <2>1 DEF Goes, Proc
  <2> QED BY <2>1, <2>2 DEF StepKind
<1>14. CASE File(q) \/ Popen(q)
  <2>1. proc[q].pc # 0 /\ Here(q).op \in {"file", "popen"} BY <1>14, FailIs
  <2>2. CASE Leave(q, Nil) BY <1>0, <2>1, <2>2, Leaving DEF StepKind
  <2>3. CASE Leave(q, "SIGSEGV") /\ Here(q).op = "popen" /\ "popen" \in faults'
    BY <1>0, <2>1, <2>3, Leaving DEF StepKind
  <2>4. CASE /\ proc'[q].pc = n /\ proc'[q].crash = proc[q].crash
             /\ q = "A" => proc'["B"] = proc["B"]
             /\ q = "B" => proc'["A"] = proc["A"]
    <3>1. Goes(q, n) BY <2>4 DEF Goes, Proc
    <3> QED BY <2>1, <3>1 DEF StepKind
  <2> QED BY <1>14, <2>2, <2>3, <2>4, FailIs
<1> QED
  BY <1>1, <1>2, <1>3, <1>4, <1>5, <1>6, <1>7, <1>8, <1>9, <1>10, <1>11, <1>12,
     <1>13, <1>14 DEF ChannelStep

\* All calls are of these kinds.
LEMMA StepKinds ==
  ASSUME IpcType, RefInv, NEW q \in Proc, Step(q)
  PROVE  proc[q].pc # 0 /\ StepKind(q)
<1>1. CASE Exit(q)
  <2>1. proc[q].pc # 0 /\ Leave(q, Nil) /\ Nil \in Crash BY <1>1 DEF Exit, At, Crash
  <2>2. Left(q, Nil) BY <2>1, Leaving
  <2> QED BY <2>1, <2>2 DEF StepKind
<1> QED BY <1>1, ObjectKinds, ChannelKinds DEF Step

\* The calls with which a program gets what it uses.
Receives == {"rcv", "peek", "read", "recv", "recvfrom"}

\* A program reads 08_add2's answer, or the server's time, until the end of the file.
ReadsOn(r, p) == (r = "coprocess" /\ p = "A") \/ (r = "tcp" /\ p = "B")

\* A call that uses something comes right after one that received it.
Ordered(r, p, code) ==
  \A k \in DOMAIN code :
    /\ code[k].op = "use" => k > 1 /\ code[k - 1].op \in Receives /\ (k > 2 => code[k - 2].op # "open")
    /\ code[k].op \in {"goto", "exec", "input"} => code[code[k].to].op # "use"
    /\ code[k].op \in {"attach", "poke", "peek"} => r \in Memory
    /\ code[k].op = "rcv" => r \in {"svmsg", "posixmq"}
    /\ code[k].op = "popen" => r \in {"tcp", "udp"} /\ p = "A"
    /\ code[k].op = "peek" => p = IF r = "posixshm" THEN "A" ELSE "B"
    /\ code[k].op \in {"read", "write"} => r \notin Sharing \cup {"udp"}
    /\ code[k].op \in {"recv", "recvfrom"} => r = "udp" /\ p = IF code[k].op = "recv" THEN "B" ELSE "A"
    /\ code[k].op = "read" /\ r # "fifo" => code[k].x = IF p = "A" THEN "toA" ELSE "toB"
    /\ code[k].op = "read" /\ ReadsOn(r, p) => code[code[k].to].op # "use"

\* The programs keep to this order.
LEMMA CodeOrdered == \A r \in Pair, p \in Proc : Ordered(r, p, Code(r, p))
<1> USE DEF Ordered, Receives, ReadsOn, Memory, Sharing, SysV, Op, On, To
<1>1. Ordered("svmsg", "A", SvMsgServer) /\ Ordered("svmsg", "B", SvMsgClient)
  BY DEF SvMsgServer, SvMsgClient
<1>2. Ordered("posixmq", "A", PosixMq1) /\ Ordered("posixmq", "B", PosixMq2)
  BY DEF PosixMq1, PosixMq2
<1>3. Ordered("svsem", "A", SvSem1) /\ Ordered("svsem", "B", SvSem2) BY DEF SvSem1, SvSem2
<1>4. Ordered("posixsem", "A", PosixSem1) /\ Ordered("posixsem", "B", PosixSem2)
  BY DEF PosixSem1, PosixSem2
<1>5. Ordered("unnamed", "A", Unnamed("A")) /\ Ordered("unnamed", "B", Unnamed("B"))
  BY DEF Unnamed
<1>6. Ordered("svshm", "A", SvShm1) /\ Ordered("svshm", "B", SvShm2) BY DEF SvShm1, SvShm2
<1>7. Ordered("posixshm", "A", PosixShm1) /\ Ordered("posixshm", "B", PosixShm2)
  BY DEF PosixShm1, PosixShm2
<1>8. Ordered("mmap", "A", Mmap("A")) /\ Ordered("mmap", "B", Mmap("B")) BY DEF Mmap
<1>9. Ordered("pipe", "A", Pipe("A")) /\ Ordered("pipe", "B", Pipe("B")) BY DEF Pipe
<1>10. Ordered("tellwait", "A", TellWait("A")) /\ Ordered("tellwait", "B", TellWait("B"))
  BY DEF TellWait
<1>11. Ordered("coprocess", "A", Coprocess("A")) BY CoprocessIs
<1>12. Ordered("coprocess", "B", Coprocess("B")) BY DEF Coprocess
<1>13. Ordered("fifo", "A", Fifo1) /\ Ordered("fifo", "B", Fifo2) BY DEF Fifo1, Fifo2
<1>14. Ordered("tcp", "A", TcpServer) /\ Ordered("tcp", "B", TcpClient)
  BY DEF TcpServer, TcpClient
<1>15. Ordered("udp", "A", UdpServer) /\ Ordered("udp", "B", UdpClient)
  BY DEF UdpServer, UdpClient
<1>16. Ordered("uniquecon", "A", UniqueConServer) /\ Ordered("uniquecon", "B", UniqueConClient)
  BY DEF UniqueConServer, UniqueConClient
<1>17. Ordered("sendfd", "A", SendFdServer) /\ Ordered("sendfd", "B", SendFdClient)
  BY DEF SendFdServer, SendFdClient
<1> HIDE DEF Ordered
<1> QED
  BY CodeIs, CodeIs2, <1>1, <1>2, <1>3, <1>4, <1>5, <1>6, <1>7, <1>8, <1>9, <1>10, <1>11,
     <1>12, <1>13, <1>14, <1>15, <1>16, <1>17
  DEF Pair, SysV, Forking, Socket, Proc

\* Unless it received something, a step leaves a program where it was, or where it uses nothing.
Stays(p) == proc'[p].pc = proc[p].pc /\ proc'[p].got = proc[p].got

\* A program comes to use something only from a call that receives.
LEMMA Landing ==
  ASSUME IpcType, RefInv, NEW q \in Proc, Step(q), NEW p \in Proc, At(p, "use")'
  PROVE  Stays(p) \/ (p = q /\ proc[p].pc # 0 /\ Here(p).op \in Receives)
<1> DEFINE c == proc[p].pc
           code == Code(pair, p)
<1>1. UNCHANGED pair /\ proc[q].pc # 0 /\ StepKind(q) BY StepKinds DEF Step
<1>2. code[proc'[p].pc].op = "use" /\ proc'[p].pc # 0 BY <1>1 DEF At, Here
<1>3. Ordered(pair, p, code) /\ 1 \in DOMAIN code
  BY CodeOrdered, CodeWellFormed, TypeParts DEF WellFormed
<1>4. proc'[p].pc # 1 BY <1>2, <1>3 DEF Ordered
<1>5. c # 0 => c \in DOMAIN code /\ c \in Nat BY TypeParts DEF IpcType, Process
<1>6. ASSUME c # 0, proc'[p].pc = c + 1, Here(p).op \notin {"exit", "goto"} PROVE Here(p).op \in Receives
  <2>1. c + 1 \in DOMAIN code BY <1>6, NextPlace
  <2>2. code[(c + 1) - 1].op \in Receives BY <1>2, <1>3, <1>6, <2>1 DEF Ordered
  <2>3. (c + 1) - 1 = c BY <1>5, <1>6
  <2> QED BY <2>2, <2>3 DEF Here
<1>7. ASSUME c # 0, proc'[p].pc = c + 2, Here(p).op = "open" PROVE FALSE
  <2>1. c + 2 \in DOMAIN code /\ c > 0
    BY <1>3, <1>5, <1>7, CodeWellFormed, TypeParts DEF WellFormed, Here
  <2>2. (c + 2) - 2 = c /\ c + 2 > 2 BY <1>5, <1>7
  <2>3. code[(c + 2) - 2].op # "open" BY <1>2, <1>3, <1>7, <2>1, <2>2 DEF Ordered
  <2> QED BY <1>7, <2>2, <2>3 DEF Here
<1>8. ASSUME c # 0, proc'[p].pc = Here(p).to, Here(p).op \in {"goto", "exec", "input"} PROVE FALSE
  BY <1>2, <1>3, <1>5, <1>8 DEF Ordered, Here
<1>9. CASE p # q
  <2>1. CASE \E n : Goes(q, n) BY <1>9, <2>1 DEF Goes, Stays
  <2>2. CASE \E e : Left(q, e) BY <1>9, <2>2 DEF Left, Stays
  <2>3. CASE Open(q)
    <3> DEFINE o == Other(q)
    <3>1. p = o BY <1>9, Others
    <3>2. /\ proc'[o].pc = proc[o].pc \/ (At(o, "partner") /\ proc'[o].pc = proc[o].pc + 1)
          /\ proc'[o].got = proc[o].got
      BY <2>3, OpenIs DEF Is
    <3> HIDE DEF o
    <3>3. /\ proc'[p].pc = proc[p].pc \/ (At(p, "partner") /\ proc'[p].pc = c + 1)
          /\ proc'[p].got = proc[p].got
      BY <3>1, <3>2
    <3>4. ASSUME At(p, "partner"), proc'[p].pc = c + 1 PROVE FALSE
      BY <1>6, <3>4 DEF At, Receives
    <3> QED BY <3>3, <3>4 DEF Stays
  <2>4. CASE Fork(q) /\ Forked
    <3>1. q = "A" BY <2>4, ForkIs
    <3> QED BY <1>4, <1>9, <2>4, <3>1 DEF Forked, Is, Proc
  <2>5. CASE Connect(q) /\ ~Leave(q, Nil)
    <3>1. q = "B" /\ proc'["A"].pc = proc["A"].pc /\ proc'["A"].got = proc["A"].got
      BY <2>5, ConnectIs DEF Is
    <3> QED BY <1>9, <3>1 DEF Stays, Proc
  <2> QED BY <1>1, <2>1, <2>2, <2>3, <2>4, <2>5 DEF StepKind
<1>10. CASE p = q
  <2>1. CASE Here(q).op \notin {"exit", "goto"} /\ Goes(q, c + 1)
    BY <1>1, <1>6, <1>10, <2>1 DEF Goes
  <2>2. CASE Here(q).op \in {"goto", "exec", "input", "read"} /\ Goes(q, Here(q).to)
    BY <1>1, <1>8, <1>10, <2>2 DEF Goes, Receives
  <2>3. CASE \E e : Left(q, e) BY <1>2, <1>10, <2>3 DEF Left
  <2>4. CASE Open(q)
    <3>1. proc'[p].pc = c + 1 \/ proc'[p].pc = c + 2 BY <1>10, <2>4, OpenIs DEF Is
    <3>2. Here(p).op = "open" BY <1>10, <2>4 DEF Open, At
    <3> QED BY <1>1, <1>6, <1>7, <1>10, <3>1, <3>2 DEF Receives
  <2>5. CASE Fork(q) /\ Forked
    <3>1. q = "A" /\ Here(q).op = "fork" /\ proc'["A"].pc = proc["A"].pc + 1
      BY <2>5, ForkIs DEF Forked, Is
    <3> QED BY <1>1, <1>6, <1>10, <3>1 DEF Receives
  <2>6. CASE Connect(q) /\ ~Leave(q, Nil)
    <3>1. q = "B" /\ Here("B").op = "connect" /\ proc'["B"].pc = proc["B"].pc + 1
      BY <2>6, ConnectIs DEF Is
    <3> QED BY <1>1, <1>6, <1>10, <3>1 DEF Receives
  <2> QED BY <1>1, <1>10, <2>1, <2>2, <2>3, <2>4, <2>5, <2>6 DEF StepKind
<1> QED BY <1>9, <1>10

\* Where the programs read and write.
ReadAt(r, p, k, x) ==
  \/ r = "pipe" /\ p = "B" /\ k = 2 /\ x = "toB"
  \/ r = "tellwait" /\ p = "A" /\ k = 3 /\ x = "toA"
  \/ r = "coprocess" /\ p = "A" /\ k = 4 /\ x = "toA"
  \/ r = "coprocess" /\ p = "B" /\ k = 4 /\ x = "toB"
  \/ r = "fifo" /\ p = "A" /\ k = 3 /\ x = "toA"
  \/ r = "fifo" /\ p = "B" /\ k = 7 /\ x = "toA"
  \/ r = "tcp" /\ p = "B" /\ k = 2 /\ x = "toB"
  \/ r = "uniquecon" /\ p = "A" /\ k = 3 /\ x = "toA"
  \/ r = "sendfd" /\ p = "B" /\ k = 2 /\ x = "toB"

WriteAt(r, p, k, x) ==
  \/ r = "pipe" /\ p = "A" /\ k = 3 /\ x = "toB"
  \/ r = "tellwait" /\ p = "B" /\ k = 3 /\ x = "toA"
  \/ r = "coprocess" /\ p = "A" /\ k \in {6, 9} /\ x = "toB"
  \/ r = "coprocess" /\ p = "B" /\ k = 3 /\ x = "toA"
  \/ r = "fifo" /\ p = "A" /\ k = 8 /\ x = "toA"
  \/ r = "fifo" /\ p = "B" /\ k = 3 /\ x = "toA"
  \/ r = "tcp" /\ p = "A" /\ k = 4 /\ x = "toB"
  \/ r = "uniquecon" /\ p = "B" /\ k = 2 /\ x = "toA"
  \/ r = "sendfd" /\ p = "A" /\ k = 4 /\ x = "toB"

\* The calls of one program are where ReadAt and WriteAt say.
Talks(r, p, code) ==
  \A k \in DOMAIN code :
    /\ code[k].op = "read" => ReadAt(r, p, k, code[k].x)
    /\ code[k].op = "write" => WriteAt(r, p, k, code[k].x)

\* A program that reads or writes is at one of these places.
LEMMA CodeTalks == \A r \in Pair, p \in Proc : Talks(r, p, Code(r, p))
<1> USE DEF Talks, ReadAt, WriteAt, Op, On, To
<1>1. Talks("svmsg", "A", SvMsgServer) /\ Talks("svmsg", "B", SvMsgClient)
  BY DEF SvMsgServer, SvMsgClient
<1>2. Talks("posixmq", "A", PosixMq1) /\ Talks("posixmq", "B", PosixMq2)
  BY DEF PosixMq1, PosixMq2
<1>3. Talks("svsem", "A", SvSem1) /\ Talks("svsem", "B", SvSem2) BY DEF SvSem1, SvSem2
<1>4. Talks("posixsem", "A", PosixSem1) /\ Talks("posixsem", "B", PosixSem2)
  BY DEF PosixSem1, PosixSem2
<1>5. Talks("unnamed", "A", Unnamed("A")) /\ Talks("unnamed", "B", Unnamed("B")) BY DEF Unnamed
<1>6. Talks("svshm", "A", SvShm1) /\ Talks("svshm", "B", SvShm2) BY DEF SvShm1, SvShm2
<1>7. Talks("posixshm", "A", PosixShm1) /\ Talks("posixshm", "B", PosixShm2)
  BY DEF PosixShm1, PosixShm2
<1>8. Talks("mmap", "A", Mmap("A")) /\ Talks("mmap", "B", Mmap("B")) BY DEF Mmap
<1>9. Talks("pipe", "A", Pipe("A")) /\ Talks("pipe", "B", Pipe("B")) BY DEF Pipe
<1>10. Talks("tellwait", "A", TellWait("A")) /\ Talks("tellwait", "B", TellWait("B"))
  BY DEF TellWait
<1>11. Talks("coprocess", "A", Coprocess("A")) BY CoprocessIs
<1>12. Talks("coprocess", "B", Coprocess("B")) BY DEF Coprocess
<1>13. Talks("fifo", "A", Fifo1) /\ Talks("fifo", "B", Fifo2) BY DEF Fifo1, Fifo2
<1>14. Talks("tcp", "A", TcpServer) /\ Talks("tcp", "B", TcpClient) BY DEF TcpServer, TcpClient
<1>15. Talks("udp", "A", UdpServer) /\ Talks("udp", "B", UdpClient) BY DEF UdpServer, UdpClient
<1>16. Talks("uniquecon", "A", UniqueConServer) /\ Talks("uniquecon", "B", UniqueConClient)
  BY DEF UniqueConServer, UniqueConClient
<1>17. Talks("sendfd", "A", SendFdServer) /\ Talks("sendfd", "B", SendFdClient)
  BY DEF SendFdServer, SendFdClient
<1> HIDE DEF Talks
<1> QED
  BY CodeIs, CodeIs2, <1>1, <1>2, <1>3, <1>4, <1>5, <1>6, <1>7, <1>8, <1>9, <1>10, <1>11,
     <1>12, <1>13, <1>14, <1>15, <1>16, <1>17
  DEF Pair, SysV, Forking, Socket, Proc

\* The invariants of the pairs that read and write.
TalkInv == PipeInv /\ TellInv /\ CoprocessInv /\ FifoInv /\ UniqueConInv /\ SendFdInv

\* Unless somebody was killed, or 06_sendfd_server could not make its file, a program that
\* must get a message never reads the end of the file instead.
LEMMA NoEnd ==
  ASSUME IpcType, TalkInv, KillFree, NEW p \in Proc, proc[p].pc # 0, Here(p).op = "read", ReadEnd(p),
         ~ReadsOn(pair, p), ~(pair = "sendfd" /\ "file" \in faults)
  PROVE  FALSE
<1> DEFINE a == proc["A"]
           b == proc["B"]
           c == proc[p].pc
           x == Here(p).x
           n == proc[p].cur
<1>1. ReadAt(pair, p, c, x) BY CodeTalks, PlaceFacts, TypeParts DEF Talks, Here
<1>2. n # 0 /\ chan[n][x] = <<>> /\ ~Held(<<"w", x, n>>) BY MaxRunsAssumption DEF ReadEnd
<1>3. "A" \in Proc /\ "B" \in Proc BY DEF Proc
<1>4. <<"w", x, n>> \notin a.ends /\ <<"w", x, n>> \notin b.ends BY <1>2, <1>3 DEF Held
<1>5. CASE pair = "pipe"
  <2>1. p = "B" /\ b.pc = 2 /\ x = "toB" BY <1>1, <1>5 DEF ReadAt
  <2> QED BY <1>2, <1>4, <1>5, <2>1 DEF TalkInv, PipeInv, OneWayInv
<1>6. CASE pair = "tellwait"
  <2>1. p = "A" /\ a.pc = 3 /\ x = "toA" BY <1>1, <1>6 DEF ReadAt
  <2> QED BY <1>2, <1>4, <1>6, <2>1 DEF TalkInv, TellInv, OneWayInv
<1>7. CASE pair = "coprocess"
  <2>1. p = "B" /\ b.pc = 4 /\ x = "toB" BY <1>1, <1>7 DEF ReadAt, ReadsOn
  <2> QED BY <1>2, <1>4, <1>7, <2>1 DEF TalkInv, CoprocessInv
<1>8. CASE pair = "fifo"
  <2>1. x = "toA" /\ ((p = "A" /\ a.pc = 3) \/ (p = "B" /\ b.pc = 7)) BY <1>1, <1>8 DEF ReadAt
  <2>2. CASE p = "A" /\ a.pc = 3
    <3>1. n = 1 /\ b.pc \in 3..6 /\ chan[1]["toA"] = (IF b.pc \in 4..6 THEN <<"B">> ELSE <<>>)
      BY <1>8, <2>2 DEF TalkInv, FifoInv
    <3>2. b.pc = 3
      <4>1. chan[1]["toA"] = <<>> BY <1>2, <2>1, <3>1
      <4>2. <<"B">> # <<>> BY OneElement
      <4>3. b.pc \notin 4..6 BY <3>1, <4>1, <4>2
      <4> QED BY <3>1, <4>3
    <3>3. <<"w", "toA", 1>> \in b.ends BY <1>8, <3>2 DEF TalkInv, FifoInv, FifoEnds
    <3> QED BY <1>4, <2>1, <3>1, <3>3
  <2>3. CASE p = "B" /\ b.pc = 7
    <3>1. n = 1 /\ chan[1]["toA"] = (IF a.pc # 8 THEN <<"A">> ELSE <<>>)
      BY <1>8, <2>3 DEF TalkInv, FifoInv
    <3>2. a.pc = 8
      <4>1. chan[1]["toA"] = <<>> BY <1>2, <2>1, <3>1
      <4>2. <<"A">> # <<>> BY OneElement
      <4> QED BY <3>1, <4>1, <4>2
    <3>3. <<"w", "toA", 1>> \in a.ends BY <1>8, <3>2 DEF TalkInv, FifoInv, FifoEnds
    <3> QED BY <1>4, <2>1, <3>1, <3>3
  <2> QED BY <2>1, <2>2, <2>3
<1>9. CASE pair = "tcp" BY <1>1, <1>9 DEF ReadAt, ReadsOn
<1>10. CASE pair = "uniquecon"
  <2>1. p = "A" /\ a.pc = 3 /\ x = "toA" BY <1>1, <1>10 DEF ReadAt
  <2>2. Served(n) BY <1>10, <2>1 DEF TalkInv, UniqueConInv
  <2>3. b.pc = 2 /\ b.runs = n BY <1>2, <2>1, <2>2 DEF Served
  <2> QED BY <1>4, <1>10, <2>1, <2>3 DEF TalkInv, UniqueConInv
<1>11. CASE pair = "sendfd"
  <2>1. p = "B" /\ b.pc = 2 /\ x = "toB" BY <1>1, <1>11 DEF ReadAt
  <2> QED BY <1>2, <1>4, <1>11, <2>1 DEF TalkInv, SendFdInv
<1> QED BY <1>1, <1>5, <1>6, <1>7, <1>8, <1>9, <1>10, <1>11 DEF ReadAt

\* Unless somebody was killed, what is written has a reader, except with TCP and when a
\* parent of the coprocess prints that could not become 08_add2.
LEMMA NoSignal ==
  ASSUME IpcType, TalkInv, KillFree, NEW p \in Proc, proc[p].pc # 0, Here(p).op = "write",
         ~(Held(<<"r", Here(p).x, proc[p].cur>>) \/ pair = "tcp")
  PROVE  pair = "coprocess" /\ p = "A" /\ "exec" \in faults
<1> DEFINE a == proc["A"]
           b == proc["B"]
           c == proc[p].pc
           x == Here(p).x
           n == proc[p].cur
<1>1. WriteAt(pair, p, c, x) BY CodeTalks, PlaceFacts, TypeParts DEF Talks, Here
<1>2. "A" \in Proc /\ "B" \in Proc BY DEF Proc
<1>3. <<"r", x, n>> \notin a.ends /\ <<"r", x, n>> \notin b.ends BY <1>2 DEF Held
<1>4. CASE pair = "pipe"
  <2>1. p = "A" /\ a.pc = 3 /\ x = "toB" BY <1>1, <1>4 DEF WriteAt
  <2> QED BY <1>3, <1>4, <2>1 DEF TalkInv, PipeInv, OneWayInv
<1>5. CASE pair = "tellwait"
  <2>1. p = "B" /\ b.pc = 3 /\ x = "toA" BY <1>1, <1>5 DEF WriteAt
  <2> QED BY <1>3, <1>5, <2>1 DEF TalkInv, TellInv, OneWayInv
<1>6. CASE pair = "coprocess"
  <2>1. CASE p = "A" /\ a.pc = 6 /\ x = "toB" BY <1>3, <1>6, <2>1 DEF TalkInv, CoprocessInv
  <2>2. CASE p = "B" /\ b.pc = 3 /\ x = "toA" BY <1>3, <1>6, <2>2 DEF TalkInv, CoprocessInv
  <2>3. CASE p = "A" /\ a.pc = 9 BY <1>6, <2>3 DEF TalkInv, CoprocessInv
  <2> QED BY <1>1, <1>6, <2>1, <2>2, <2>3 DEF WriteAt
<1>7. CASE pair = "fifo"
  <2>1. CASE p = "A" /\ a.pc = 8 /\ x = "toA" BY <1>3, <1>7, <2>1 DEF TalkInv, FifoInv, FifoEnds
  <2>2. CASE p = "B" /\ b.pc = 3 /\ x = "toA" BY <1>3, <1>7, <2>2 DEF TalkInv, FifoInv, FifoEnds
  <2> QED BY <1>1, <1>7, <2>1, <2>2 DEF WriteAt
<1>8. CASE pair = "uniquecon"
  <2>1. p = "B" /\ b.pc = 2 /\ x = "toA" BY <1>1, <1>8 DEF WriteAt
  <2> QED BY <1>3, <1>8, <2>1 DEF TalkInv, UniqueConInv
<1>9. CASE pair = "sendfd"
  <2>1. p = "A" /\ a.pc = 4 /\ x = "toB" BY <1>1, <1>9 DEF WriteAt
  <2>2. b.pc = 2 /\ b.cur = n /\ n # 0 BY <1>9, <2>1 DEF TalkInv, SendFdInv
  <2> QED BY <1>3, <1>9, <2>1, <2>2 DEF TalkInv, SendFdInv
<1> QED BY <1>1, <1>4, <1>5, <1>6, <1>7, <1>8, <1>9 DEF WriteAt

\* What UsesTheOthers says of one program.
Meant(p) ==
  \/ proc[p].got = Other(p)
  \/ pair \in {"svmsg", "posixmq"} /\ proc[p].got = p
  \/ pair \in {"svshm", "posixshm", "mmap"} /\ proc[p].got = Nil
  \/ "killed" \in faults /\ (proc[p].got = Nil \/ pair = "fifo")
  \/ "file" \in faults /\ pair = "sendfd" /\ p = "B" /\ proc[p].got = Nil

\* The head of a sequence of the elements of a set.
LEMMA HeadIn == ASSUME NEW S, NEW s \in Seq(S), s # <<>> PROVE Head(s) \in S
OBVIOUS

\* What a program has received and uses next is what it may use.
LEMMA ReceivesMeant ==
  ASSUME IpcType, RefInv, ShmInv, ChanInv, TalkInv, NEW p \in Proc, Step(p),
         Here(p).op \in Receives, At(p, "use")'
  PROVE  Meant(p)'
<1> DEFINE code == Code(pair, p)
           c == proc[p].pc
           n == proc[p].cur
<1>1. UNCHANGED pair /\ faults \subseteq faults' /\ c # 0
  <2>1. UNCHANGED pair BY DEF Step
  <2>2. [Next]_vars BY DEF Next
  <2> QED BY <2>1, <2>2, FaultsGrow, Dispatch
<1>2. code[proc'[p].pc].op = "use" /\ proc'[p].pc # 0 BY <1>1 DEF At, Here
<1>3. Ordered(pair, p, code) /\ c \in DOMAIN code BY <1>1, CodeOrdered, PlaceFacts, TypeParts
<1>4. \A e \in Crash : ~Leave(p, e) BY <1>2, Leaving DEF Left
<1>5. Nil \in Crash BY DEF Crash
<1>6. CASE Here(p).op = "rcv"
  <2>1. pair \in {"svmsg", "posixmq"} BY <1>3, <1>6 DEF Ordered, Here
  <2>2. Rcv(p) BY <1>4, <1>5, <1>6, Dispatch DEF GiveUp
  <2>3. Head(Obj(p).q) \in Proc
    <3>1. Obj(p) \in Object BY <1>1, <1>6, HasObject DEF Uses
    <3>2. Obj(p).q \in Seq(Proc) /\ Obj(p).q # <<>> BY <2>2, <3>1 DEF Object, Rcv
    <3> QED BY <3>2, HeadIn
  <2>4. proc'[p].got \in Proc
    <3>1. Receive(p, Head(Obj(p).q)) BY <2>2 DEF Rcv
    <3> QED BY <2>3, <3>1, ReceiveBecomes, BecomesIs
  <2> QED BY <1>1, <2>1, <2>4 DEF Meant, Proc, Other
<1>7. CASE Here(p).op = "peek"
  <2>1. pair \in Memory /\ p = (IF pair = "posixshm" THEN "A" ELSE "B")
    BY <1>3, <1>7 DEF Ordered, Here
  <2>2. Receive(p, Obj(p).text) BY <1>7, Dispatch DEF Peek
  <2>3. Obj(p) \in Object /\ proc[p].ref \in DOMAIN obj BY <1>1, <1>7, HasObject DEF Uses
  <2>4. Obj(p).text \in {Nil, Writer} BY <2>1, <2>3 DEF ShmInv, Obj
  <2>5. proc'[p].got = Obj(p).text
    <3>1. Obj(p).text \in Proc \cup {Nil} BY <2>3 DEF Object
    <3> QED BY <2>2, <3>1, ReceiveBecomes, BecomesIs
  <2> QED BY <1>1, <2>1, <2>4, <2>5 DEF Meant, Memory, Writer, Other
<1>8. CASE Here(p).op = "read"
  <2> DEFINE x == Here(p).x
  <2>1. pair \notin Sharing \cup {"udp"} /\ (pair # "fifo" => x = IF p = "A" THEN "toA" ELSE "toB")
    BY <1>3, <1>8 DEF Ordered, Here
  <2>2. ReadMessage(p) \/ ReadEnd(p) BY <1>4, <1>5, <1>8, Dispatch, ReadIs
  <2>3. CASE ReadMessage(p)
    <3>1. n \in 1..MaxRuns /\ chan[n][x] # <<>> /\ proc'[p].got = Head(chan[n][x])
      BY <2>3, BecomesIs DEF ReadMessage, Moves
    <3>2. CASE pair # "fifo"
      <4>1. chan[n][x] \in Seq({Other(p)}) BY <2>1, <3>1, <3>2 DEF ChanInv, Proc, Other
      <4>2. Head(chan[n][x]) \in {Other(p)} BY <3>1, <4>1, HeadIn
      <4> QED BY <1>1, <3>1, <4>2 DEF Meant
    <3>3. CASE pair = "fifo" /\ ~KillFree BY <1>1, <3>3 DEF Meant, KillFree
    <3>4. CASE pair = "fifo" /\ KillFree
      <4>1. ReadAt(pair, p, c, x) BY <1>3, <1>8, CodeTalks, TypeParts DEF Talks, Here
      <4>2. CASE p = "A" /\ c = 3 /\ x = "toA"
        <5>1. n = 1 /\ chan[1]["toA"] = (IF proc["B"].pc \in 4..6 THEN <<"B">> ELSE <<>>)
          BY <3>4, <4>2 DEF TalkInv, FifoInv
        <5>2. Head(chan[n][x]) = "B" BY <3>1, <4>2, <5>1, OneElement
        <5> QED BY <1>1, <3>1, <4>2, <5>2 DEF Meant, Other
      <4>3. CASE p = "B" /\ c = 7 /\ x = "toA"
        <5>1. n = 1 /\ chan[1]["toA"] = (IF proc["A"].pc # 8 THEN <<"A">> ELSE <<>>)
          BY <3>4, <4>3 DEF TalkInv, FifoInv
        <5>2. Head(chan[n][x]) = "A" BY <3>1, <4>3, <5>1, OneElement
        <5> QED BY <1>1, <3>1, <4>3, <5>2 DEF Meant, Other
      <4> QED BY <3>4, <4>1, <4>2, <4>3 DEF ReadAt
    <3> QED BY <3>2, <3>3, <3>4
  <2>4. CASE ReadEnd(p)
    <3>1. proc'[p].got = Nil /\ proc'[p].pc = Here(p).to BY <2>4, BecomesIs DEF ReadEnd, Moves
    <3>2. CASE ~KillFree BY <1>1, <3>1, <3>2 DEF Meant, KillFree
    <3>3. CASE KillFree /\ ~(pair = "sendfd" /\ "file" \in faults)
      <4>1. ReadsOn(pair, p) BY <1>1, <1>8, <2>4, <3>3, NoEnd
      <4>2. code[Here(p).to].op # "use" BY <1>3, <1>8, <4>1 DEF Ordered, Here
      <4> QED BY <1>2, <3>1, <4>2
    <3>4. CASE pair = "sendfd" /\ "file" \in faults
      <4>1. ReadAt(pair, p, c, x) BY <1>3, <1>8, CodeTalks, TypeParts DEF Talks, Here
      <4>2. p = "B" BY <3>4, <4>1 DEF ReadAt
      <4> QED BY <1>1, <3>1, <3>4, <4>2 DEF Meant
    <3> QED BY <3>2, <3>3, <3>4
  <2> QED BY <2>2, <2>3, <2>4
<1>9. CASE Here(p).op = "recv"
  <2>1. pair = "udp" /\ p = "B" BY <1>3, <1>9 DEF Ordered, Here
  <2>2. n # 0 /\ chan[n]["toB"] # <<>> /\ Receive(p, Head(chan[n]["toB"]))
    BY <1>4, <1>5, <1>9, Dispatch DEF Recv
  <2>3. n \in 1..MaxRuns BY <2>2, TypeParts, MaxRunsAssumption DEF Process
  <2>4. chan[n]["toB"] \in Seq({"A"}) BY <2>1, <2>3 DEF ChanInv
  <2>5. Head(chan[n]["toB"]) \in {"A"} BY <2>2, <2>4, HeadIn
  <2>6. proc'[p].got = "A"
    <3>1. Head(chan[n]["toB"]) \in Proc \cup {Nil} BY <2>5 DEF Proc
    <3> QED BY <2>2, <2>5, <3>1, ReceiveBecomes, BecomesIs
  <2> QED BY <2>1, <2>6 DEF Meant, Other
<1>10. CASE Here(p).op = "recvfrom"
  <2>1. pair = "udp" /\ p = "A" BY <1>3, <1>10 DEF Ordered, Here
  <2>2. PICK m \in 1..MaxRuns :
          /\ chan[m]["toA"] # <<>>
          /\ proc' = [proc EXCEPT ![p].pc = c + 1, ![p].cur = m, ![p].got = Head(chan[m]["toA"])]
    BY <1>10, Dispatch, TypeParts DEF RecvFrom
  <2>3. chan[m]["toA"] \in Seq({"B"}) BY <2>1 DEF ChanInv
  <2>4. Head(chan[m]["toA"]) \in {"B"} BY <2>2, <2>3, HeadIn
  <2>5. proc'[p].got = "B" BY <2>2, <2>4, TypeParts
  <2> QED BY <2>1, <2>5 DEF Meant, Other
<1> QED BY <1>6, <1>7, <1>8, <1>9, <1>10 DEF Receives

\* What the programs use: the invariant is kept.
LEMMA UsesNext ==
  ASSUME IpcType, RefInv, ShmInv, ChanInv, TalkInv, UsesTheOthers, [Next]_vars
  PROVE  UsesTheOthers'
<1> SUFFICES ASSUME NEW p \in Proc, At(p, "use")' PROVE Meant(p)' BY DEF UsesTheOthers, Meant
<1>1. UNCHANGED pair /\ faults \subseteq faults' BY FaultsGrow
<1>2. ASSUME Stays(p) PROVE Meant(p)'
  <2>1. At(p, "use") BY <1>1, <1>2 DEF At, Here, Stays
  <2>2. Meant(p) BY <2>1 DEF UsesTheOthers, Meant
  <2> QED BY <1>1, <1>2, <2>2 DEF Meant, Stays
<1>3. ASSUME NEW q \in Proc, Step(q) PROVE Meant(p)' BY <1>2, <1>3, Landing, ReceivesMeant
<1>4. ASSUME NEW q \in Proc, Start(q) PROVE Meant(p)'
  <2>1. CASE p = q
    <3>1. proc'[p].pc = 1 BY <1>4, <2>1, Started
    <3>2. Code(pair, p)[1].op = "use" BY <1>1, <3>1 DEF At, Here
    <3>3. Ordered(pair, p, Code(pair, p)) /\ 1 \in DOMAIN Code(pair, p)
      BY CodeOrdered, CodeWellFormed, TypeParts DEF WellFormed
    <3> QED BY <3>2, <3>3 DEF Ordered
  <2>2. CASE p # q
    <3>1. proc'[p] = proc[p] BY <1>4, <2>2, StartIs
    <3> QED BY <1>2, <3>1 DEF Stays
  <2> QED BY <2>1, <2>2
<1>5. ASSUME NEW q \in Proc, Kill(q) PROVE Meant(p)'
  <2>1. Left(q, Nil) BY <1>5, Leaving DEF Kill, Crash
  <2>2. p # q BY <2>1 DEF Left, At
  <2> QED BY <1>2, <2>1, <2>2 DEF Left, Stays
<1>6. CASE UNCHANGED vars BY <1>2, <1>6 DEF vars, Stays
<1> QED BY <1>3, <1>4, <1>5, <1>6 DEF Next

\* A program crashes only where CrashExplained allows it.
LEMMA CrashNext ==
  ASSUME IpcType, RefInv, ShmInv, TalkInv, CrashExplained, [Next]_vars
  PROVE  CrashExplained'
<1> DEFINE Explained(p) ==
             \/ "killed" \in faults
             \/ p = "B" /\ pair \in {"svshm", "posixshm"}
             \/ p = "A" /\ pair = "coprocess" /\ "exec" \in faults /\ proc[p].crash = "SIGPIPE"
             \/ p = "A" /\ pair \in {"tcp", "udp"} /\ "popen" \in faults /\ proc[p].crash = "SIGSEGV"
<1> SUFFICES ASSUME NEW p \in Proc, proc'[p].crash # Nil PROVE Explained(p)'
  BY DEF CrashExplained
<1>1. UNCHANGED pair /\ faults \subseteq faults' BY FaultsGrow
<1>2. ASSUME proc'[p].crash = proc[p].crash PROVE Explained(p)' BY <1>1, <1>2 DEF CrashExplained
<1>3. ASSUME NEW q \in Proc, Step(q) PROVE Explained(p)'
  <2>1. proc[q].pc # 0 /\ StepKind(q) BY <1>3, StepKinds
  <2>2. ASSUME NEW n, Goes(q, n) PROVE Explained(p)' BY <1>2, <2>2 DEF Goes
  <2>3. ASSUME NEW c, Left(q, c), p # q \/ c = Nil PROVE Explained(p)' BY <1>2, <2>3 DEF Left
  <2>4. CASE p = q /\ Attach(q) /\ Refused(q)
    <3>1. Here(p).op = "attach" BY <2>4 DEF Attach, At
    <3>2. pair \in Memory
      <4>1. Ordered(pair, p, Code(pair, p)) /\ proc[p].pc \in DOMAIN Code(pair, p)
        BY <2>1, <2>4, CodeOrdered, PlaceFacts, TypeParts
      <4> QED BY <3>1, <4>1 DEF Ordered, Here
    <3>3. pair = "svshm" BY <2>1, <2>4, <3>1, <3>2, ShmHere DEF ShmPlace
    <3>4. proc[p].ref \in DOMAIN obj BY <2>1, <2>4, <3>1, HasObject DEF Uses
    <3>5. Obj(p).open BY <3>2, <3>3, <3>4 DEF ShmInv, Obj
    <3>6. ~Obj(p).alive BY <2>4, <3>5 DEF Refused
    <3>7. p # "A"
      <4>1. ASSUME p = "A" PROVE proc[p].pc \in 2..5
        <5>1. Here(p) = SvShm1[proc[p].pc] /\ proc[p].pc \in DOMAIN SvShm1
          BY <2>1, <2>4, <3>3, <4>1, CodeIs, PlaceFacts DEF Here
        <5> QED BY <3>1, <5>1 DEF SvShm1, Op, On
      <4>2. pair \in Memory /\ pair = "svshm" /\ proc["A"].pc \in 2..5 => obj[proc["A"].ref].alive
        BY DEF ShmInv
      <4> QED BY <3>2, <3>3, <3>6, <4>1, <4>2 DEF Obj
    <3> QED BY <1>1, <3>3, <3>7 DEF Proc
  <2>5. CASE p = q /\ Poke(q) /\ ~Obj(q).sized
    <3>1. Here(p).op = "poke" BY <2>5 DEF Poke, At
    <3>2. pair \in Memory
      <4>1. Ordered(pair, p, Code(pair, p)) /\ proc[p].pc \in DOMAIN Code(pair, p)
        BY <2>1, <2>5, CodeOrdered, PlaceFacts, TypeParts
      <4> QED BY <3>1, <4>1 DEF Ordered, Here
    <3>3. proc[p].ref \in DOMAIN obj BY <2>1, <2>5, <3>1, HasObject DEF Uses
    <3>4. pair = "posixshm" BY <2>5, <3>2, <3>3 DEF ShmInv, Obj
    <3>5. p = "B" BY <2>1, <2>5, <3>1, <3>2, <3>4, ShmHere DEF ShmPlace
    <3> QED BY <1>1, <3>4, <3>5
  <2>6. CASE /\ p = q /\ Left(q, "SIGPIPE") /\ Write(q)
             /\ ~(Held(<<"r", Here(q).x, proc[q].cur>>) \/ pair = "tcp")
    <3>1. Here(q).op = "write" BY <2>6 DEF Write, At
    <3>2. ~KillFree \/ (pair = "coprocess" /\ q = "A" /\ "exec" \in faults)
      BY <2>1, <2>6, <3>1, NoSignal
    <3> QED BY <1>1, <2>6, <3>2 DEF KillFree, Left
  <2>10. CASE p = q /\ Left(q, "SIGSEGV") /\ Here(q).op = "popen" /\ "popen" \in faults'
    <3>1. Ordered(pair, p, Code(pair, p)) /\ proc[p].pc \in DOMAIN Code(pair, p)
      BY <2>1, <2>10, CodeOrdered, PlaceFacts, TypeParts
    <3>2. pair \in {"tcp", "udp"} /\ p = "A" BY <2>10, <3>1 DEF Ordered, Here
    <3> QED BY <1>1, <2>10, <3>2 DEF Left
  <2>7. CASE Open(q)
    <3>1. proc'[q].crash = proc[q].crash /\ proc'[Other(q)].crash = proc[Other(q)].crash
      BY <2>7, OpenIs DEF Is
    <3> QED BY <1>2, <3>1, Others
  <2>8. CASE Fork(q) /\ Forked
    <3>1. proc'["A"].crash = proc["A"].crash /\ proc'["B"].crash = Nil BY <2>8 DEF Forked, Is
    <3> QED BY <1>2, <3>1 DEF Proc
  <2>9. CASE Connect(q) /\ ~Leave(q, Nil)
    <3>1. proc'["A"].crash = proc["A"].crash /\ proc'["B"].crash = proc["B"].crash
      BY <2>9, ConnectIs DEF Is
    <3> QED BY <1>2, <3>1 DEF Proc
  <2> QED BY <2>1, <2>2, <2>3, <2>4, <2>5, <2>6, <2>7, <2>8, <2>9, <2>10 DEF StepKind
<1>4. ASSUME NEW q \in Proc, Start(q) PROVE Explained(p)'
  <2>1. p # q => proc'[p] = proc[p] BY <1>4, StartIs
  <2>2. proc'[q].crash = Nil BY <1>4, Started
  <2> QED BY <1>2, <2>1, <2>2
<1>5. ASSUME NEW q \in Proc, Kill(q) PROVE Explained(p)' BY <1>5 DEF Kill
<1>6. CASE UNCHANGED vars BY <1>2, <1>6 DEF vars
<1> QED BY <1>3, <1>4, <1>5, <1>6 DEF Next

-----------------------------------------------------------------------------
(* The theorems. *)

\* The inductive invariant holds when nothing runs.
LEMMA InitInv == ASSUME Init PROVE IInv
<1> DEFINE r == [pc |-> 0, runs |-> 0, ref |-> 0, adj |-> 0, cur |-> 0, ends |-> {}, got |-> Nil, crash |-> Nil]
<1>1. \A p \in Proc : proc[p] = r BY DEF Init, Fresh
<1>2. "A" \in Proc /\ "B" \in Proc BY DEF Proc
<1>3. proc["A"] = r /\ proc["B"] = r BY <1>1, <1>2
<1>4. \A k \in 1..MaxRuns : chan[k]["toA"] = <<>> /\ chan[k]["toB"] = <<>> BY DEF Init
<1>5. 1 \in 1..MaxRuns BY MaxRunsAssumption
<1>6. IpcType
  <2>1. r \in Process BY MaxRunsAssumption DEF Process
  <2>2. proc \in [Proc -> Process] BY <2>1 DEF Init, Fresh
  <2>3. chan \in Channels
    <3>1. [d \in Direction |-> <<>>] \in [Direction -> Seq(Proc)] BY EmptyIsSeq
    <3> QED BY <3>1 DEF Init, Channels, Direction
  <2>4. obj \in Seq(Object) /\ backlog \in Seq(1..MaxRuns) BY EmptyIsSeq DEF Init
  <2>5. /\ pair \in Pair /\ root \in BOOLEAN /\ name \in Nat
        /\ faults \subseteq {"killed", "lost", "exec", "file", "popen"}
    BY DEF Init
  <2> HIDE DEF r
  <2>6. \A p \in Proc : proc[p].pc = 0 BY <1>1 DEF r
  <2> QED BY <2>2, <2>3, <2>4, <2>5, <2>6 DEF IpcType
<1>7. Len(obj) = 0 /\ DOMAIN obj = {} /\ name = 0 /\ backlog = <<>> /\ DOMAIN backlog = {} /\ faults = {}
  BY DEF Init
<1>8. /\ \A p \in Proc : proc[p].pc = 0 /\ proc[p].ref = 0 /\ proc[p].adj = 0 /\ proc[p].crash = Nil
      /\ proc["A"].pc = 0 /\ proc["B"].pc = 0 /\ proc["A"].runs = 0 /\ proc["B"].runs = 0
      /\ proc["A"].adj = 0 /\ proc["B"].adj = 0
      /\ proc["A"].ends = {} /\ proc["B"].ends = {} /\ proc["A"].cur = 0 /\ proc["B"].cur = 0
  BY <1>1, <1>3
<1> HIDE DEF r
<1>9. RefInv BY <1>7, <1>8 DEF RefInv
<1>10. SemInv
  <2>1. ~Holds("A") /\ ~Holds("B") BY <1>8 DEF Holds, TakesAt
  <2> QED BY <1>7, <1>8, <2>1 DEF SemInv, SemValues, SemFirst, SemAdjusts
<1>11. ShmInv BY <1>7, <1>8 DEF ShmInv
<1>12. ChanInv BY <1>4, EmptyIsSeq DEF ChanInv
<1>13. QueueInv BY <1>7 DEF QueueInv
<1>14. PipeInv /\ TellInv BY <1>4, <1>5, <1>8 DEF PipeInv, TellInv, OneWayInv
<1>15. CoprocessInv BY <1>4, <1>5, <1>8 DEF CoprocessInv
<1>16. FifoInv BY <1>4, <1>5, <1>8 DEF FifoInv, FifoEnds
<1>17. UniqueConInv BY <1>7, <1>8 DEF UniqueConInv
<1>18. SendFdInv BY <1>4, <1>7, <1>8 DEF SendFdInv
<1>19. UsesTheOthers BY <1>8 DEF UsesTheOthers, At
<1>20. CrashExplained BY <1>8 DEF CrashExplained
<1> QED
  BY <1>6, <1>9, <1>10, <1>11, <1>12, <1>13, <1>14, <1>15, <1>16, <1>17, <1>18, <1>19,
     <1>20 DEF IInv

\* Every step keeps the inductive invariant.
LEMMA NextInv == ASSUME IInv, [Next]_vars PROVE IInv'
<1>1. IpcType' /\ RefInv' BY TypeNext, RefNext DEF IInv
<1>2. SemInv' /\ ShmInv' /\ ChanInv' /\ QueueInv'
  BY SemNext, ShmNext, ChanNext, QueueNext DEF IInv
<1>3. PipeInv' /\ TellInv' /\ CoprocessInv' BY PipeNext, TellNext, CoprocessNext DEF IInv
<1>4. FifoInv' /\ UniqueConInv' /\ SendFdInv' BY FifoNext, UniqueConNext, SendFdNext DEF IInv
<1>5. UsesTheOthers' /\ CrashExplained' BY UsesNext, CrashNext DEF IInv, TalkInv
<1> QED BY <1>1, <1>2, <1>3, <1>4, <1>5 DEF IInv

\* The inductive invariant holds throughout.
THEOREM Inductive == Spec => []IInv
<1>1. Init => IInv BY InitInv
<1>2. IInv /\ [Next]_vars => IInv' BY NextInv
<1> QED BY <1>1, <1>2, PTL DEF Spec

\* The two processes, the objects, the connections and the name keep their types: in
\* particular a process that runs is at one of its program's calls.
THEOREM TypeCorrect == Spec => []IpcType
<1>1. IInv => IpcType BY DEF IInv
<1> QED BY <1>1, Inductive, PTL

\* The two programs are never in their critical sections with the same semaphore,
\* however often they are started and killed (14_svsem_1:30, 21_posixsem_named_1:18).
THEOREM CriticalSection == Spec => []CriticalAlone
<1>1. IInv => CriticalAlone BY CriticalFollows DEF IInv
<1> QED BY <1>1, Inductive, PTL

\* What a program uses is what the other one sent, with the exceptions that
\* UsesTheOthers lists, for all sixteen pairs.
THEOREM UsesWhatWasSent == Spec => []UsesTheOthers
<1>1. IInv => UsesTheOthers BY DEF IInv
<1> QED BY <1>1, Inductive, PTL

\* Unless somebody was killed, those who can crash are the second program of the two pairs
\* with named shared memory, which uses a segment that is removed or has no size yet
\* (17_svshm_2:30, 25_posixshm_2:23), the parent of the coprocess whose execl() failed
\* (09_coprocess:37) and a time server whose popen() failed (05_timeserver1:67, 85).
THEOREM CrashesExplained == Spec => []CrashExplained
<1>1. IInv => CrashExplained BY DEF IInv
<1> QED BY <1>1, Inductive, PTL

=====
