-------------------------------- MODULE Ipc ---------------------------------
(***************************************************************************)
(* The pairs of communicating programs of 15.ipc1, 16.socket and 17.uds.   *)
(* A pair is a first program "A" (server, parent) and a second one "B"     *)
(* (client, child), each a sequence of the calls it makes; there is one    *)
(* action per call.  The pairs are                                         *)
(*   svmsg 12 and 13      posixmq 19 and 20    svsem 14 and 15             *)
(*   posixsem 21 and 22   svshm 16 and 17      posixshm 24 and 25          *)
(*   fifo 10 and 11       pipe 01              tellwait 03                 *)
(*   coprocess 09 and 08  mmap 18              unnamed 23   (15.ipc1)      *)
(*   tcp and udp 05 and 04 (16.socket)                                     *)
(*   uniquecon 04 and 05  sendfd 06 and 07     (17.uds)                    *)
(* The programs are started by hand, in any order and again, and may be    *)
(* killed at any moment; pipe, tellwait, coprocess, mmap and unnamed are   *)
(* one program that forks.  A sleep() is a step: it orders nothing.        *)
(***************************************************************************)
EXTENDS Naturals, Integers, Sequences

CONSTANT MaxRuns  \* bound: how many times each program is started

ASSUME MaxRunsAssumption == MaxRuns \in Nat \ {0}

Proc == {"A", "B"}
Other(p) == IF p = "A" THEN "B" ELSE "A"
Nil == "nothing"

SysV == {"svmsg", "svsem", "svshm"}
Forking == {"pipe", "tellwait", "coprocess", "mmap", "unnamed"}
Socket == {"tcp", "udp", "uniquecon", "sendfd"}
Pair == SysV \cup Forking \cup Socket \cup {"posixmq", "posixsem", "posixshm", "fifo"}

\* A call, its argument, and where an end of file or a failure leads.
Op(name) == [op |-> name, x |-> Nil, to |-> 0]
On(name, x) == [op |-> name, x |-> x, to |-> 0]
To(name, x, n) == [op |-> name, x |-> x, to |-> n]

-----------------------------------------------------------------------------
(* The programs.  "use" is where a program uses what it received: it prints *)
(* it or makes its answer of it.                                            *)

SvMsgServer == <<On("get", "excl"), Op("rcv"), Op("use"), Op("snd"), Op("remove"), Op("exit")>>
SvMsgClient == <<On("get", "open"), Op("snd"), Op("rcv"), Op("use"), Op("remove"), Op("exit")>>

PosixMq1 == <<On("get", "create"), Op("rcv"), Op("use"), Op("snd"), Op("nap"), Op("unlink"), Op("exit")>>
PosixMq2 == <<On("get", "open"), Op("snd"), Op("rcv"), Op("use"), Op("exit")>>

\* Mutant: the semaphore is not initialised to 1.
SvSem1_NotInitialised == <<On("get", "excl"), Op("wait"), Op("nap"), Op("post"), Op("nap"), Op("remove"), Op("exit")>>

SvSem1 == <<On("get", "excl"), Op("post"), Op("wait"), Op("nap"), Op("post"), Op("nap"), Op("remove"), Op("exit")>>

\* semget() gets no mode: a set that is created here is accessible to root only.
SvSem2 == <<On("get", "bare"), Op("wait"), Op("nap"), Op("post"), Op("exit")>>

PosixSem1 == <<On("get", "create"), Op("wait"), Op("nap"), Op("post"), Op("nap"), Op("unlink"), Op("exit")>>
PosixSem2 == <<On("get", "create"), Op("wait"), Op("nap"), Op("post"), Op("exit")>>

Unnamed(p) ==
  IF p = "A" THEN <<On("get", "anonymous"), Op("fork"), Op("wait"), Op("nap"), Op("post"), Op("reap"), Op("exit")>>
             ELSE <<Op("nap"), Op("wait"), Op("nap"), Op("post"), Op("exit")>>

SvShm1 == <<On("get", "create"), Op("attach"), Op("poke"), Op("nap"), Op("remove"), Op("exit")>>

\* Mutant: the second program removes the segment too.
SvShm2_Removes == <<On("get", "create"), Op("attach"), Op("peek"), Op("use"), Op("remove"), Op("exit")>>

SvShm2 == <<On("get", "create"), Op("attach"), Op("peek"), Op("use"), Op("exit")>>

PosixShm1 == <<On("get", "trunc"), Op("size"), Op("nap"), Op("peek"), Op("use"), Op("unlink"), Op("exit")>>
PosixShm2 == <<On("get", "open"), Op("poke"), Op("exit")>>

Mmap(p) ==
  IF p = "A" THEN <<On("get", "anonymous"), Op("fork"), Op("poke"), Op("reap"), Op("exit")>>
             ELSE <<Op("nap"), Op("peek"), Op("use"), Op("exit")>>

Pipe(p) ==
  IF p = "A" THEN <<Op("fork"), On("close", {<<"r", "toB">>}), On("write", "toB"), Op("exit")>>
             ELSE <<On("close", {<<"w", "toB">>}), To("read", "toB", 3), Op("use"), Op("exit")>>

\* Mutant: the parent does not wait for the child.
TellWait_NoWait(p) ==
  IF p = "A" THEN <<Op("fork"), On("close", {<<"w", "toA">>}), Op("use"), Op("reap"), Op("exit")>>
             ELSE <<Op("nap"), On("close", {<<"r", "toA">>}), On("write", "toA"), Op("exit")>>

TellWait(p) ==
  IF p = "A" THEN <<Op("fork"), On("close", {<<"w", "toA">>}), To("read", "toA", 4), Op("use"), Op("reap"), Op("exit")>>
             ELSE <<Op("nap"), On("close", {<<"r", "toA">>}), On("write", "toA"), Op("exit")>>

Add2 == <<To("read", "toA", 10), Op("use"), On("write", "toB"), To("goto", Nil, 4)>>

\* The parent becomes 08_add2, or stays itself if execl() fails: then what it prints
\* in the end goes to the pipe that is its standard output.
Coprocess(p) ==
  IF p = "A" THEN <<Op("fork"), On("close", {<<"r", "toB">>, <<"w", "toA">>}), To("exec", Nil, 8)>>
                    \o Add2 \o <<Op("reap"), On("write", "toB"), Op("exit")>>
             ELSE <<On("close", {<<"w", "toB">>, <<"r", "toA">>}), To("input", Nil, 7),
                    On("write", "toA"), To("read", "toB", 5), Op("use"), To("goto", Nil, 2), Op("exit")>>

\* One FIFO for both directions.
Fifo1 == <<On("open", "r"), Op("partner"), To("read", "toA", 4), Op("use"), On("close", {<<"r", "toA">>}),
           On("open", "w"), Op("partner"), On("write", "toA"), Op("exit")>>
Fifo2 == <<On("open", "w"), Op("partner"), On("write", "toA"), On("close", {<<"w", "toA">>}),
           On("open", "r"), Op("partner"), To("read", "toA", 8), Op("use"), Op("exit")>>

TcpServer == <<Op("listen"), Op("accept"), Op("popen"), On("write", "toB"), Op("exit")>>
TcpClient == <<Op("connect"), To("read", "toB", 4), Op("use"), Op("exit")>>

UdpServer == <<Op("listen"), Op("recvfrom"), Op("use"), Op("popen"), On("sendto", "toB"), Op("exit")>>
UdpClient == <<On("send", "toA"), Op("recv"), Op("use"), Op("exit")>>

UniqueConServer == <<Op("listen"), Op("accept"), To("read", "toA", 4), Op("use"), To("goto", Nil, 2)>>
UniqueConClient == <<Op("connect"), On("write", "toA"), Op("exit")>>

\* The descriptor comes with a message of no bytes, so recvmsg() returns 0 with it as
\* it does at the end of the file.
SendFdServer == <<Op("listen"), Op("accept"), Op("file"), On("write", "toB"), Op("exit")>>
SendFdClient == <<Op("connect"), To("read", "toB", 3), Op("use"), Op("exit")>>

Code(pair, p) ==
  LET Two(first, second) == IF p = "A" THEN first ELSE second IN
  CASE pair = "svmsg"     -> Two(SvMsgServer, SvMsgClient)
    [] pair = "posixmq"   -> Two(PosixMq1, PosixMq2)
    [] pair = "svsem"     -> Two(SvSem1, SvSem2)
    [] pair = "posixsem"  -> Two(PosixSem1, PosixSem2)
    [] pair = "unnamed"   -> Unnamed(p)
    [] pair = "svshm"     -> Two(SvShm1, SvShm2)
    [] pair = "posixshm"  -> Two(PosixShm1, PosixShm2)
    [] pair = "mmap"      -> Mmap(p)
    [] pair = "pipe"      -> Pipe(p)
    [] pair = "tellwait"  -> TellWait(p)
    [] pair = "coprocess" -> Coprocess(p)
    [] pair = "fifo"      -> Two(Fifo1, Fifo2)
    [] pair = "tcp"       -> Two(TcpServer, TcpClient)
    [] pair = "udp"       -> Two(UdpServer, UdpClient)
    [] pair = "uniquecon" -> Two(UniqueConServer, UniqueConClient)
    [] pair = "sendfd"    -> Two(SendFdServer, SendFdClient)

-----------------------------------------------------------------------------
VARIABLES
  pair,    \* which pair
  root,    \* the user is root
  proc,    \* the two processes
  obj,     \* the queues, semaphores or segments made so far
  name,    \* the one the common name or key stands for, 0 if none; 1 for a bound socket
  chan,    \* the pipes, the FIFO, and the connection of each client: who wrote what is in it
  backlog, \* connections not accepted yet
  faults   \* what went wrong so far: "killed", "lost", "exec", "file", "popen"

vars == <<pair, root, proc, obj, name, chan, backlog, faults>>

\* Next call (0: does not run), times started, object in use and the adjustment that
\* SEM_UNDO will make, connection in use, open ends, what it received, how it died.
Fresh(n) == [pc |-> 1, runs |-> n, ref |-> 0, adj |-> 0, cur |-> 0, ends |-> {}, got |-> Nil, crash |-> Nil]

NewObject(how) ==
  [q |-> <<>>, val |-> IF pair \in {"posixsem", "unnamed"} THEN 1 ELSE 0, text |-> Nil,
   sized |-> how # "trunc", alive |-> TRUE, open |-> how # "bare"]

Init ==
  /\ pair \in Pair /\ root \in BOOLEAN
  /\ proc = [p \in Proc |-> [Fresh(0) EXCEPT !.pc = 0]]
  /\ obj = <<>> /\ name = 0
  /\ chan = [n \in 1..MaxRuns |-> [d \in {"toA", "toB"} |-> <<>>]]
  /\ backlog = <<>> /\ faults = {}

-----------------------------------------------------------------------------
Here(p) == Code(pair, p)[proc[p].pc]
At(p, op) == proc[p].pc # 0 /\ Here(p).op = op
Obj(p) == obj[proc[p].ref]
Held(e) == \E p \in Proc : e \in proc[p].ends

GoTo(p, n) == proc' = [proc EXCEPT ![p].pc = n]
Advance(p) == GoTo(p, proc[p].pc + 1)
Receive(p, from) == proc' = [proc EXCEPT ![p].pc = @ + 1, ![p].got = from]

\* The process ends: its semaphore operations are undone, though no value gets below
\* 0; its ends of pipes and sockets are closed; what was sent to a socket is dropped,
\* and a connection that was not accepted is reset (cur is 0).
Leave(p, crash) ==
  /\ proc' = [proc EXCEPT ![p] = [Fresh(@.runs) EXCEPT !.pc = 0, !.crash = crash],
                          ![Other(p)].cur = IF p = "A" /\ \E i \in DOMAIN backlog : backlog[i] = @ THEN 0 ELSE @]
  /\ obj' = IF proc[p].adj = 0 THEN obj
            ELSE [obj EXCEPT ![proc[p].ref].val = IF @ + proc[p].adj < 0 THEN 0 ELSE @ + proc[p].adj]
  /\ name' = IF pair \in Socket /\ p = "A" THEN 0 ELSE name
  /\ backlog' = IF p = "A" THEN <<>> ELSE backlog
  /\ chan' = CASE pair = "fifo" /\ proc[Other(p)].ends = {} -> [n \in 1..MaxRuns |-> [chan[n] EXCEPT !["toA"] = <<>>]]
              [] pair = "udp" /\ p = "A" -> [n \in 1..MaxRuns |-> [chan[n] EXCEPT !["toA"] = <<>>]]
              [] OTHER -> chan

Exit(p) == At(p, "exit") /\ Leave(p, Nil) /\ UNCHANGED faults

-----------------------------------------------------------------------------
(* Objects with a name or a key. *)

\* Mutant: IPC_EXCL is missing.
Get_NotExclusive(p) ==
  /\ At(p, "get")
  /\ IF name # 0
       THEN /\ obj' = IF Here(p).x = "trunc" THEN [obj EXCEPT ![name].sized = FALSE, ![name].text = Nil] ELSE obj
            /\ proc' = [proc EXCEPT ![p].pc = @ + 1, ![p].ref = name]
            /\ UNCHANGED <<name, chan, backlog, faults>>
       ELSE IF Here(p).x = "open"
       THEN Leave(p, Nil) /\ UNCHANGED faults
       ELSE /\ obj' = Append(obj, NewObject(Here(p).x))
            /\ name' = IF Here(p).x = "anonymous" THEN 0 ELSE Len(obj')
            /\ proc' = [proc EXCEPT ![p].pc = @ + 1, ![p].ref = Len(obj')]
            /\ UNCHANGED <<chan, backlog, faults>>

\* msgget(), mq_open(), semget(), sem_open(), shmget(), shm_open(), mmap(): the object
\* of that name, or a new one.
Get(p) ==
  /\ At(p, "get")
  /\ IF name # 0 /\ Here(p).x # "excl"
       THEN /\ obj' = IF Here(p).x = "trunc" THEN [obj EXCEPT ![name].sized = FALSE, ![name].text = Nil] ELSE obj
            /\ proc' = [proc EXCEPT ![p].pc = @ + 1, ![p].ref = name]
            /\ UNCHANGED <<name, chan, backlog, faults>>
       ELSE IF name # 0 \/ Here(p).x = "open"
       THEN Leave(p, Nil) /\ UNCHANGED faults
       ELSE /\ obj' = Append(obj, NewObject(Here(p).x))
            /\ name' = IF Here(p).x = "anonymous" THEN 0 ELSE Len(obj')
            /\ proc' = [proc EXCEPT ![p].pc = @ + 1, ![p].ref = Len(obj')]
            /\ UNCHANGED <<chan, backlog, faults>>

\* A System V object that has been removed, or whose mode allows nothing, is refused.
Refused(p) == ~Obj(p).alive \/ (~Obj(p).open /\ ~root)

GiveUp(p) ==
  /\ At(p, "snd") \/ At(p, "rcv") \/ At(p, "wait") \/ At(p, "post")
  /\ Refused(p)
  /\ Leave(p, Nil)
  /\ UNCHANGED faults

\* mq_maxmsg is 3.
Snd(p) ==
  /\ At(p, "snd") /\ ~Refused(p)
  /\ pair = "posixmq" => Len(Obj(p).q) < 3
  /\ obj' = [obj EXCEPT ![proc[p].ref].q = Append(@, p)]
  /\ Advance(p)
  /\ UNCHANGED <<name, chan, backlog, faults>>

Rcv(p) ==
  /\ At(p, "rcv") /\ ~Refused(p) /\ Obj(p).q # <<>>
  /\ obj' = [obj EXCEPT ![proc[p].ref].q = Tail(@)]
  /\ Receive(p, Head(Obj(p).q))
  /\ UNCHANGED <<name, chan, backlog, faults>>

\* SEM_UNDO is in sem_flg of 14 and 15.
SemOp(p, op, n) ==
  /\ At(p, op) /\ ~Refused(p)
  /\ Obj(p).val + n >= 0
  /\ obj' = [obj EXCEPT ![proc[p].ref].val = @ + n]
  /\ proc' = [proc EXCEPT ![p].pc = @ + 1, ![p].adj = IF pair = "svsem" THEN @ - n ELSE @]
  /\ UNCHANGED <<name, chan, backlog, faults>>

Wait(p) == SemOp(p, "wait", -1)
Post(p) == SemOp(p, "post", 1)

\* shmat() fails for a segment removed meanwhile; its result is used all the same.
Attach(p) ==
  /\ At(p, "attach")
  /\ IF Refused(p) THEN Leave(p, "SIGSEGV")
                   ELSE Advance(p) /\ UNCHANGED <<obj, name, chan, backlog>>
  /\ UNCHANGED faults

\* ftruncate() gives the object of shm_open() its size: until then memory mapped from
\* it cannot be touched.
Size(p) ==
  /\ At(p, "size")
  /\ obj' = [obj EXCEPT ![proc[p].ref].sized = TRUE]
  /\ Advance(p)
  /\ UNCHANGED <<name, chan, backlog, faults>>

Poke(p) ==
  /\ At(p, "poke")
  /\ IF ~Obj(p).sized THEN Leave(p, "SIGBUS")
       ELSE /\ obj' = [obj EXCEPT ![proc[p].ref].text = p]
            /\ Advance(p)
            /\ UNCHANGED <<name, chan, backlog>>
  /\ UNCHANGED faults

Peek(p) == At(p, "peek") /\ Receive(p, Obj(p).text) /\ UNCHANGED <<obj, name, chan, backlog, faults>>

\* IPC_RMID destroys a queue or a semaphore under its users; shm_unlink(), mq_unlink()
\* and sem_unlink() only take the name away.
Remove(p) ==
  /\ At(p, "remove") \/ At(p, "unlink")
  /\ obj' = IF At(p, "remove") THEN [obj EXCEPT ![proc[p].ref].alive = FALSE] ELSE obj
  /\ name' = IF At(p, "remove") /\ name # proc[p].ref THEN name ELSE 0
  /\ Advance(p)
  /\ UNCHANGED <<chan, backlog, faults>>

ObjectStep(p) ==
  Get(p) \/ GiveUp(p) \/ Snd(p) \/ Rcv(p) \/ Wait(p) \/ Post(p) \/ Attach(p) \/ Size(p)
    \/ Poke(p) \/ Peek(p) \/ Remove(p)

-----------------------------------------------------------------------------
(* Pipes, FIFOs and sockets. *)

\* The pipes that both processes have open after fork().
Pipes == CASE pair = "pipe" -> {"toB"} [] pair = "tellwait" -> {"toA"} [] pair = "coprocess" -> {"toA", "toB"} [] OTHER -> {}

Fork(p) ==
  /\ At(p, "fork")
  /\ \/ /\ LET ends == {<<e, d, 1>> : e \in {"r", "w"}, d \in Pipes} IN
            proc' = [proc EXCEPT !["A"].pc = @ + 1, !["A"].cur = 1, !["A"].ends = ends,
                                 !["B"] = [Fresh(1) EXCEPT !.ref = proc["A"].ref, !.cur = 1, !.ends = ends]]
        /\ UNCHANGED <<obj, name, chan, backlog>>
     \/ Leave(p, Nil)
  /\ UNCHANGED faults

Close(p) ==
  /\ At(p, "close")
  /\ proc' = [proc EXCEPT ![p].pc = @ + 1, ![p].ends = @ \ {<<e[1], e[2], proc[p].cur>> : e \in Here(p).x}]
  /\ UNCHANGED <<obj, name, chan, backlog, faults>>

\* Without a reader left SIGPIPE kills the writer, except that TCP finds out later.
Write(p) ==
  /\ At(p, "write")
  /\ LET d == Here(p).x  n == proc[p].cur IN
     IF Held(<<"r", d, n>>) \/ pair = "tcp"
       THEN chan' = [chan EXCEPT ![n][d] = Append(@, p)] /\ Advance(p) /\ UNCHANGED <<obj, name, backlog>>
       ELSE Leave(p, "SIGPIPE")
  /\ UNCHANGED faults

Read(p) ==
  /\ At(p, "read")
  /\ LET d == Here(p).x  n == proc[p].cur IN
     IF n = 0 THEN Leave(p, Nil)
       ELSE /\ \/ /\ chan[n][d] # <<>>
                  /\ Receive(p, Head(chan[n][d]))
                  /\ chan' = [chan EXCEPT ![n][d] = Tail(@)]
               \/ /\ chan[n][d] = <<>> /\ ~Held(<<"w", d, n>>)
                  /\ proc' = [proc EXCEPT ![p].pc = Here(p).to, ![p].got = Nil]
                  /\ UNCHANGED chan
            /\ UNCHANGED <<obj, name, backlog>>
  /\ UNCHANGED faults

\* open() of the FIFO: goes on if the other end is open, or being opened, and then the
\* other process goes on too; otherwise it waits for its partner.
Open(p) ==
  /\ At(p, "open")
  /\ LET mine == Here(p).x
         partner == IF mine = "r" THEN "w" ELSE "r"
         o == Other(p)
         waits == At(o, "partner") /\ Code(pair, o)[proc[o].pc - 1].x = partner
     IN proc' = [proc EXCEPT
          ![p].pc = IF Held(<<partner, "toA", 1>>) THEN @ + 2 ELSE @ + 1,
          ![p].cur = 1,
          ![p].ends = @ \cup {<<mine, "toA", 1>>},
          ![o].pc = IF waits THEN @ + 1 ELSE @]
  /\ UNCHANGED <<obj, name, chan, backlog, faults>>

\* bind(), and listen() for a stream.  The port of a TCP server that has closed its
\* connection cannot be bound for a while.
Listen(p) ==
  /\ At(p, "listen")
  /\ \/ name' = 1 /\ Advance(p) /\ UNCHANGED <<obj, chan, backlog>>
     \/ pair = "tcp" /\ proc[p].runs > 1 /\ Leave(p, Nil)
  /\ UNCHANGED faults

\* connect() succeeds before accept(): the connection waits in the backlog.
Connect(p) ==
  /\ At(p, "connect")
  /\ LET n == proc[p].runs IN
     IF name = 0 THEN Leave(p, Nil)
       ELSE /\ proc' = [proc EXCEPT ![p].pc = @ + 1, ![p].cur = n,
                          ![p].ends = {<<"r", "toB", n>>, <<"w", "toA", n>>},
                          !["A"].ends = @ \cup {<<"r", "toA", n>>, <<"w", "toB", n>>}]
            /\ backlog' = Append(backlog, n)
            /\ UNCHANGED <<obj, name, chan>>
  /\ UNCHANGED faults

Accept(p) ==
  /\ At(p, "accept") /\ backlog # <<>>
  /\ proc' = [proc EXCEPT ![p].pc = @ + 1, ![p].cur = Head(backlog)]
  /\ backlog' = Tail(backlog)
  /\ UNCHANGED <<obj, name, chan, faults>>

\* A datagram arrives or is lost.
Datagram(p, n, d) ==
  \/ chan' = [chan EXCEPT ![n][d] = Append(@, p)] /\ UNCHANGED faults
  \/ faults' = faults \cup {"lost"} /\ UNCHANGED chan

\* With no server bound to the port the error comes back, and recv() reports it.
Send(p) ==
  /\ At(p, "send")
  /\ IF name = 0 THEN Advance(p) /\ UNCHANGED <<chan, faults>>
       ELSE /\ proc' = [proc EXCEPT ![p].pc = @ + 1, ![p].cur = proc[p].runs]
            /\ Datagram(p, proc[p].runs, "toA")
  /\ UNCHANGED <<obj, name, backlog>>

Recv(p) ==
  /\ At(p, "recv")
  /\ \/ proc[p].cur = 0 /\ Leave(p, Nil)
     \/ /\ proc[p].cur # 0 /\ chan[proc[p].cur]["toB"] # <<>>
        /\ Receive(p, Head(chan[proc[p].cur]["toB"]))
        /\ chan' = [chan EXCEPT ![proc[p].cur]["toB"] = Tail(@)]
        /\ UNCHANGED <<obj, name, backlog>>
  /\ UNCHANGED faults

RecvFrom(p) ==
  /\ At(p, "recvfrom")
  /\ \E n \in 1..MaxRuns :
       /\ chan[n]["toA"] # <<>>
       /\ proc' = [proc EXCEPT ![p].pc = @ + 1, ![p].cur = n, ![p].got = Head(chan[n]["toA"])]
       /\ chan' = [chan EXCEPT ![n]["toA"] = Tail(@)]
  /\ UNCHANGED <<obj, name, backlog, faults>>

\* sendto(); after an answer that could not be sent the server ends as after any other.
SendTo(p) == At(p, "sendto") /\ Advance(p) /\ Datagram(p, proc[p].cur, "toB") /\ UNCHANGED <<obj, name, backlog>>

\* execl() replaces the program, or fails.
Exec(p) ==
  /\ At(p, "exec")
  /\ \/ Advance(p) /\ UNCHANGED faults
     \/ GoTo(p, Here(p).to) /\ faults' = faults \cup {"exec"}
  /\ UNCHANGED <<obj, name, chan, backlog>>

\* open(), write() and read() of the file whose descriptor is sent: the program ends if
\* one of them fails.
File(p) ==
  /\ At(p, "file")
  /\ \/ Advance(p) /\ UNCHANGED <<obj, name, chan, backlog, faults>>
     \/ Leave(p, Nil) /\ faults' = faults \cup {"file"}

\* popen() of uptime, which prints a line.  Its result is not checked: if it fails,
\* fgets() reads from NULL.
Popen(p) ==
  /\ At(p, "popen")
  /\ \/ Advance(p) /\ UNCHANGED <<obj, name, chan, backlog, faults>>
     \/ Leave(p, "SIGSEGV") /\ faults' = faults \cup {"popen"}

\* waitpid()
Reap(p) == At(p, "reap") /\ proc[Other(p)].pc = 0 /\ Advance(p) /\ UNCHANGED <<obj, name, chan, backlog, faults>>

\* A line from the standard input, or its end.
Input(p) == At(p, "input") /\ (Advance(p) \/ GoTo(p, Here(p).to)) /\ UNCHANGED <<obj, name, chan, backlog, faults>>

\* sleep(), printing, and the jump back of a loop.
Pass(p) ==
  /\ \/ (At(p, "nap") \/ At(p, "use")) /\ Advance(p)
     \/ At(p, "goto") /\ GoTo(p, Here(p).to)
  /\ UNCHANGED <<obj, name, chan, backlog, faults>>

ChannelStep(p) ==
  Fork(p) \/ Close(p) \/ Write(p) \/ Read(p) \/ Open(p) \/ Listen(p) \/ Connect(p) \/ Accept(p)
    \/ Send(p) \/ Recv(p) \/ RecvFrom(p) \/ SendTo(p) \/ Exec(p) \/ File(p) \/ Popen(p)
    \/ Reap(p) \/ Input(p) \/ Pass(p)

Step(p) == (ObjectStep(p) \/ ChannelStep(p) \/ Exit(p)) /\ UNCHANGED <<pair, root>>

-----------------------------------------------------------------------------
\* Somebody starts a program, or kills one.
Start(p) ==
  /\ proc[p].pc = 0 /\ proc[p].runs < MaxRuns
  /\ pair \in Forking => p = "A" /\ proc[p].runs = 0
  /\ proc' = [proc EXCEPT ![p] = Fresh(@.runs + 1)]
  /\ UNCHANGED <<pair, root, obj, name, chan, backlog, faults>>

Kill(p) ==
  /\ proc[p].pc # 0
  /\ Leave(p, Nil)
  /\ faults' = faults \cup {"killed"}
  /\ UNCHANGED <<pair, root>>

Next == \E p \in Proc : Step(p) \/ Start(p) \/ Kill(p)

\* A process that can go on is scheduled; the user's next line, or its end, comes.
Spec == Init /\ [][Next]_vars /\ \A p \in Proc : WF_vars(Step(p))

-----------------------------------------------------------------------------
Critical(p) == At(p, "nap") /\ proc[p].pc > 1 /\ Code(pair, p)[proc[p].pc - 1].op = "wait"

\* The two programs are in their critical sections at once only with two different
\* semaphores (A removed or unlinked the first one and was started again): neither a
\* kill, with or without SEM_UNDO, nor the order in which they are started makes the
\* value of one semaphore too large (14_svsem_1:30, 21_posixsem_named_1:18).
CriticalAlone == (\A p \in Proc : Critical(p)) => proc["A"].ref # proc["B"].ref

\* What a program uses is what the other one sent.  The exceptions: a queue used in
\* both directions gives a program its own message (13_svmsg_client:24,
\* 20_posixmq_2:22); shared memory is ordered by sleep() only and may be empty
\* (16_svshm_1:35, 18_mmap:21, 24_posixshm_1:27); the end of the file after a kill is
\* not told from a message, and lets a FIFO program read its own words (11_fifo2:20);
\* and 07_sendfd_client:43 does not tell it from a descriptor either when the server
\* has failed to make the file (06_sendfd_server:42 to 50 and 71).
UsesTheOthers ==
  \A p \in Proc : At(p, "use") =>
    \/ proc[p].got = Other(p)
    \/ pair \in {"svmsg", "posixmq"} /\ proc[p].got = p
    \/ pair \in {"svshm", "posixshm", "mmap"} /\ proc[p].got = Nil
    \/ "killed" \in faults /\ (proc[p].got = Nil \/ pair = "fifo")
    \/ "file" \in faults /\ pair = "sendfd" /\ p = "B" /\ proc[p].got = Nil

\* Who crashes though nobody was killed: the second program when the first removes the
\* segment between its shmget() and shmat() (17_svshm_2:28) or has not given the memory
\* its size yet (24_posixshm_1:18, 25_posixshm_2:23); the parent of the coprocess, by
\* SIGPIPE, when execl() failed and its child has ended (09_coprocess:37); and a time
\* server whose popen() failed (05_timeserver1:67 and 85).
CrashExplained ==
  \A p \in Proc : proc[p].crash # Nil =>
    \/ "killed" \in faults
    \/ p = "B" /\ pair \in {"svshm", "posixshm"}
    \/ p = "A" /\ pair = "coprocess" /\ "exec" \in faults /\ proc[p].crash = "SIGPIPE"
    \/ p = "A" /\ pair \in {"tcp", "udp"} /\ "popen" \in faults /\ proc[p].crash = "SIGSEGV"

\* The client's datagram went with the socket of a server that has ended, or was read
\* by one that popen() has ended.
Unanswered ==
  LET n == proc["B"].cur IN
  pair = "udp" /\ n # 0 /\ proc["A"].cur # n /\ chan[n]["toA"] = <<>> /\ chan[n]["toB"] = <<>>

\* Unless somebody is killed, a datagram lost or 08_add2 missing, no call of a second
\* program waits for ever, not even when its server ends for a failed call.  The
\* exceptions: the semaphore set that 15_svsem_2 creates itself is never initialised
\* (15_svsem_2:20); a datagram that reaches the server after its one recvfrom(), or
\* whose server popen() ends, is not answered (05_timeserver1:79 and 85); a FIFO waits
\* for the other program to be started.
SecondReturns ==
  \A i \in 1..9 :
    (proc["B"].pc = i)
      ~> (\/ proc["B"].pc # i
          \/ faults \cap {"killed", "lost", "exec"} # {}
          \/ pair = "svsem" /\ root /\ proc["B"].ref # 0 /\ ~Obj("B").open
          \/ Unanswered
          \/ pair = "fifo" /\ proc["A"].pc = 0)
=============================================================================
