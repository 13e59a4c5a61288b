------------------------------ MODULE Signals -------------------------------
(***************************************************************************)
(* The programs of 10.signals that are one process and its signals.  They  *)
(* are the same few system calls in different orders, so a program is a    *)
(* sequence of operations for main() and one for each handler, and there   *)
(* is one action per operation:                                            *)
(*   sigusr 01   sigcld 03   sleep1 04   sleep2 05   read1 06   read2 07   *)
(*   critical 09   mask 10 and 11   suspend1 12   suspend2 13   abort 15   *)
(*   sleep 17   sigtstp 18, and intro, 01.intro/08_signal                  *)
(* abort() and the sleep functions are called by a program that may have   *)
(* blocked the signal, set an alarm, or installed a handler of its own.    *)
(* Time is not modelled: an alarm goes off some time after it was set.     *)
(***************************************************************************)
EXTENDS Naturals, Sequences

CONSTANTS
  MaxSent,   \* bound: how many signals others send to the process
  MaxCalls   \* bound: how many times a sleep function is called

ASSUME BoundsAssumption == MaxSent \in Nat /\ MaxCalls \in Nat \ {0}

Signal == {"ABRT", "ALRM", "CHLD", "INT", "QUIT", "TSTP", "USR1", "USR2"}

Program == {"intro", "sigusr", "sigcld", "sleep1", "sleep2", "read1", "read2", "critical",
            "mask", "suspend1", "suspend2", "abort", "sleep", "sigtstp"}

\* An operation, the signals it is about, and where it may jump to.
Op(name) == [op |-> name, s |-> {}, to |-> 0]
On(name, s) == [op |-> name, s |-> {s}, to |-> 0]
To(name, n) == [op |-> name, s |-> {}, to |-> n]

-----------------------------------------------------------------------------
(* The programs. *)

Intro == <<On("install", "INT"), To("read", 2), Op("exit")>>

SigUsr == <<On("install", "USR1"), On("install", "USR2"), Op("pause"), To("goto", 3)>>

SigCld(ctx) ==
  IF ctx = "main" THEN <<On("install", "CHLD"), Op("fork"), Op("pause"), Op("exit")>>
                  ELSE <<On("install", "CHLD"), Op("reap")>>

Sleep1(ctx) ==
  IF ctx = "main" THEN <<On("install", "ALRM"), Op("alarm"), Op("pause"), Op("cancel"), Op("again")>>
                  ELSE <<>>

\* Mutant: the alarm is set before setjmp().
Sleep2_AlarmFirst(ctx) ==
  IF ctx = "main" THEN <<On("install", "ALRM"), Op("alarm"), To("setjmp", 5), Op("pause"), Op("cancel"), Op("again")>>
                  ELSE <<Op("longjmp")>>

Sleep2(ctx) ==
  IF ctx = "main" THEN <<On("install", "ALRM"), To("setjmp", 5), Op("alarm"), Op("pause"), Op("cancel"), Op("again")>>
                  ELSE <<Op("longjmp")>>

\* The caller's handler is restored, and its mask is not.
Sleep(ctx) ==
  IF ctx = "main" THEN <<On("install", "ALRM"), On("block", "ALRM"), Op("alarm"), On("suspend_old", "ALRM"),
                         Op("cancel"), On("uninstall", "ALRM"), Op("again")>>
                  ELSE <<>>

Read1(ctx) ==
  IF ctx = "main" THEN <<On("install", "ALRM"), Op("alarm"), To("read", 4), Op("cancel"), Op("exit")>>
                  ELSE <<>>

Read2(ctx) ==
  IF ctx = "main" THEN <<On("install", "ALRM"), To("setjmp", 6), Op("alarm"), To("read", 5), Op("cancel"), Op("exit")>>
                  ELSE <<Op("longjmp")>>

\* The two sleep(5) of 09_critical are steps that take their time.
Critical(ctx) ==
  IF ctx = "main" THEN <<On("install", "QUIT"), On("block", "QUIT"), Op("nap"), Op("restore"), Op("nap"), Op("exit")>>
                  ELSE <<>>

\* canjump is the flag; the busy loop of sig_usr1 is a step that takes its time.
Mask(ctx) ==
  CASE ctx = "main" -> <<On("install", "USR1"), On("install", "ALRM"), To("sigsetjmp", 7), Op("set"),
                         Op("pause"), To("goto", 5), Op("exit")>>
    [] ctx = "USR1" -> <<To("unless", 5), Op("alarm"), Op("nap"), Op("longjmp")>>
    [] OTHER        -> <<>>

Suspend1(ctx) ==
  IF ctx = "main" THEN <<On("install", "INT"), On("block", "INT"), On("suspend", "QUIT"), Op("restore"),
                         Op("pause"), Op("exit")>>
                  ELSE <<>>

\* quit_flag is the flag; SIGQUIT is never blocked.
Suspend2(ctx) ==
  CASE ctx = "main" -> <<On("install", "INT"), On("install", "QUIT"), On("block", "INT"), To("unless", 6),
                         To("goto", 8), Op("suspend"), To("goto", 4), Op("restore"), Op("exit")>>
    [] ctx = "QUIT" -> <<Op("set")>>
    [] OTHER        -> <<>>

\* `if (action.sa_handler = SIG_IGN)' always holds, so the disposition becomes the
\* default one; `if (action.sa_handler = SIG_DFL)' never holds: nothing is flushed.
Abort == <<On("default", "ABRT"), On("all_but", "ABRT"), On("kill", "ABRT"),
           On("default", "ABRT"), On("all_but", "ABRT"), On("kill", "ABRT"), Op("exit")>>

\* Mutant: the handler is not installed again.
SigTstp_NotAgain(ctx) ==
  IF ctx = "main" THEN <<On("install", "TSTP"), To("read", 2), Op("exit")>>
                  ELSE <<On("unblock", "TSTP"), On("default", "TSTP"), On("kill", "TSTP")>>

SigTstp(ctx) ==
  IF ctx = "main" THEN <<On("install", "TSTP"), To("read", 2), Op("exit")>>
                  ELSE <<On("unblock", "TSTP"), On("default", "TSTP"), On("kill", "TSTP"), On("install", "TSTP")>>

\* ctx is "main", a signal (its handler in the program), or "caller": a handler that
\* belongs to the caller of abort() or of a sleep function, and just returns.
Code(prog, ctx) ==
  IF ctx = "caller" THEN <<>> ELSE
  CASE prog = "intro"      -> IF ctx = "main" THEN Intro ELSE <<>>
    [] prog = "sigusr"     -> IF ctx = "main" THEN SigUsr ELSE <<>>
    [] prog = "sigcld"     -> SigCld(ctx)
    [] prog = "sleep1"     -> Sleep1(ctx)
    [] prog = "sleep2"     -> Sleep2(ctx)
    [] prog = "sleep"      -> Sleep(ctx)
    [] prog = "read1"      -> Read1(ctx)
    [] prog = "read2"      -> Read2(ctx)
    [] prog = "critical"   -> Critical(ctx)
    [] prog = "mask"       -> Mask(ctx)
    [] prog = "suspend1"   -> Suspend1(ctx)
    [] prog = "suspend2"   -> Suspend2(ctx)
    [] prog = "abort"      -> Abort
    [] prog = "sigtstp"    -> SigTstp(ctx)

Sleeper == {"sleep", "sleep1", "sleep2"}

\* What others may send, and send to a sleeper: a signal that its caller catches.
Foreign(prog) ==
  CASE prog = "sigusr"                   -> {"USR1", "USR2"}
    [] prog \in Sleeper \cup {"intro"}   -> {"INT"}
    [] prog = "critical"                 -> {"QUIT"}
    [] prog = "mask"                     -> {"USR1"}
    [] prog \in {"suspend1", "suspend2"} -> {"INT", "QUIT"}
    [] prog = "abort"                    -> {"ABRT"}
    [] prog = "sigtstp"                  -> {"TSTP"}
    [] OTHER                             -> {}

\* Members of struct sigaction that are installed without having been set: any
\* signals in sa_mask, SA_RESETHAND and SA_NODEFER in sa_flags (10, 11, 12, 13, 17);
\* only sa_mask in 18.  signal() and memset() leave nothing to chance.
Garbage(prog) ==
  CASE prog \in {"mask", "sleep"} ->
         [mask : SUBSET (Foreign(prog) \cup {"ALRM"}), reset : BOOLEAN, nodefer : BOOLEAN]
    [] prog \in {"suspend1", "suspend2"} ->
         [mask : SUBSET Foreign(prog), reset : BOOLEAN, nodefer : BOOLEAN]
    [] prog = "sigtstp" -> [mask : SUBSET {"TSTP"}, reset : {FALSE}, nodefer : {FALSE}]
    [] OTHER -> [mask : {{}}, reset : {FALSE}, nodefer : {FALSE}]

-----------------------------------------------------------------------------
VARIABLES
  prog,     \* the program that runs
  caller,   \* what the caller of abort() or sleep() had done about SIGABRT or SIGALRM
  sa,       \* the members of struct sigaction the program leaves to chance
  mode,     \* "runs", "stopped", "done", "dead", "undefined": longjmp() without a jmp_buf
  stack,    \* main() and the handlers on top of it: what runs, next operation, mask to return to
  waiting,  \* "no", or blocked in "pause", "suspend" or "read"
  sig,      \* the process' signals: mask, held by sigsuspend(), pending, dispositions, alarm
  mem       \* flag, jmp_buf (0: not valid), saved masks, child, and what the properties recall

conf == <<prog, caller, sa>>
vars == <<prog, caller, sa, mode, stack, waiting, sig, mem>>

\* The signal whose state the program finds as its caller left it.
Callers(p) == IF p = "abort" THEN {"ABRT"} ELSE IF p \in Sleeper THEN {"ALRM"} ELSE {}

Init ==
  /\ prog \in Program
  /\ caller \in [disp : IF Callers(prog) = {} THEN {"default"} ELSE {"default", "ignore", "caller"},
                 blocked : SUBSET Callers(prog),
                 alarm : IF prog \in Sleeper THEN BOOLEAN ELSE {FALSE}]
  /\ sa \in Garbage(prog)
  /\ mode = "runs" /\ waiting = "no"
  /\ stack = <<[ctx |-> "main", at |-> 1, ret |-> {}]>>
  /\ sig = [mask |-> caller.blocked, held |-> {}, pend |-> {}, alarm |-> caller.alarm,
            disp |-> [s \in Signal |-> IF s \in Callers(prog) THEN caller.disp
                                      ELSE IF prog \in Sleeper /\ s = "INT" THEN "caller"
                                      ELSE "default"]]
  /\ mem = [flag |-> FALSE, jmp |-> 0, jmpMask |-> {}, saves |-> FALSE, oldMask |-> {},
            child |-> "none", call |-> 1, sent |-> 0, lost |-> {}]

-----------------------------------------------------------------------------
(* The operations.  An unblocked pending signal is delivered before the     *)
(* program goes on.                                                         *)

Top == stack[Len(stack)]
Deliverable == sig.pend \ sig.mask
Running == mode = "runs" /\ waiting = "no" /\ Deliverable = {}
Cur == Code(prog, Top.ctx)[Top.at]
S == CHOOSE s \in Cur.s : TRUE

At(op) == Running /\ Top.at <= Len(Code(prog, Top.ctx)) /\ Cur.op = op

GoTo(n) == stack' = [stack EXCEPT ![Len(stack)].at = n]
Advance == GoTo(Top.at + 1) /\ UNCHANGED <<conf, mode, waiting>>

\* signal() or sigaction() with a function of the program.
Install == At("install") /\ sig' = [sig EXCEPT !.disp[S] = "own"] /\ Advance /\ UNCHANGED mem

\* sigaction() with old_action, and with SIG_DFL.
Uninstall == At("uninstall") /\ sig' = [sig EXCEPT !.disp[S] = caller.disp] /\ Advance /\ UNCHANGED mem
Default == At("default") /\ sig' = [sig EXCEPT !.disp[S] = "default"] /\ Advance /\ UNCHANGED mem

\* sigprocmask(SIG_BLOCK, ...) keeps the old mask.
Block ==
  /\ At("block")
  /\ sig' = [sig EXCEPT !.mask = @ \cup {S}]
  /\ mem' = [mem EXCEPT !.oldMask = sig.mask]
  /\ Advance

Unblock == At("unblock") /\ sig' = [sig EXCEPT !.mask = @ \ {S}] /\ Advance /\ UNCHANGED mem
Restore == At("restore") /\ sig' = [sig EXCEPT !.mask = mem.oldMask] /\ Advance /\ UNCHANGED mem

\* Mutant: sigdelset() is missing.
AllBut_All == At("all_but") /\ sig' = [sig EXCEPT !.mask = Signal] /\ Advance /\ UNCHANGED mem

AllBut == At("all_but") /\ sig' = [sig EXCEPT !.mask = Signal \ {S}] /\ Advance /\ UNCHANGED mem

\* alarm(n) replaces an alarm set earlier; alarm(0) leaves a pending SIGALRM pending.
SetAlarm == At("alarm") /\ sig' = [sig EXCEPT !.alarm = TRUE] /\ Advance /\ UNCHANGED mem
Cancel == At("cancel") /\ sig' = [sig EXCEPT !.alarm = FALSE] /\ Advance /\ UNCHANGED mem

\* pause() and read() block.
Wait(op) == At(op) /\ waiting' = op /\ UNCHANGED <<conf, mode, stack, sig, mem>>

\* sigsuspend(): with only the signals of the operation blocked, or with all of the
\* old mask but those.  The mask it replaces comes back when it returns.
SuspendWith(op, m) ==
  /\ At(op)
  /\ waiting' = "suspend"
  /\ sig' = [sig EXCEPT !.mask = m, !.held = sig.mask]
  /\ UNCHANGED <<conf, mode, stack, mem>>

\* Mutant: sigdelset() is missing.
Suspend_WithOldMask == SuspendWith("suspend", Cur.s) \/ SuspendWith("suspend_old", mem.oldMask)

Suspend == SuspendWith("suspend", Cur.s) \/ SuspendWith("suspend_old", mem.oldMask \ Cur.s)

\* setjmp() and sigsetjmp(), which saves the mask, return 0.
SetJmp ==
  /\ At("setjmp") \/ At("sigsetjmp")
  /\ mem' = [mem EXCEPT !.jmp = Cur.to, !.saves = Cur.op = "sigsetjmp", !.jmpMask = sig.mask]
  /\ Advance
  /\ UNCHANGED sig

\* longjmp() leaves all handlers.  The mask stays as the handler had it if setjmp()
\* did not save it.
LongJmp ==
  /\ At("longjmp")
  /\ IF mem.jmp = 0
       THEN mode' = "undefined" /\ UNCHANGED <<stack, sig>>
       ELSE /\ stack' = <<[stack[1] EXCEPT !.at = mem.jmp]>>
            /\ sig' = IF mem.saves THEN [sig EXCEPT !.mask = mem.jmpMask] ELSE sig
            /\ UNCHANGED mode
  /\ UNCHANGED <<conf, waiting, mem>>

SetFlag == At("set") /\ mem' = [mem EXCEPT !.flag = TRUE] /\ Advance /\ UNCHANGED sig

\* A jump: always, or if the flag is not set.
Jump ==
  /\ At("goto") \/ At("unless")
  /\ GoTo(IF Cur.op = "goto" \/ ~mem.flag THEN Cur.to ELSE Top.at + 1)
  /\ UNCHANGED <<conf, mode, waiting, sig, mem>>

KillSelf == At("kill") /\ sig' = [sig EXCEPT !.pend = @ \cup {S}] /\ Advance /\ UNCHANGED mem

\* fork(): main() returns if it fails.
Fork ==
  /\ At("fork")
  /\ \/ mem' = [mem EXCEPT !.child = "runs"] /\ Advance
     \/ mode' = "done" /\ UNCHANGED <<conf, stack, waiting, mem>>
  /\ UNCHANGED sig

\* waitpid(-1) in the handler.
Reap ==
  /\ At("reap") /\ mem.child # "runs"
  /\ mem' = [mem EXCEPT !.child = "none"]
  /\ Advance
  /\ UNCHANGED sig

\* sleep(5), or a loop that takes seconds.
Nap == At("nap") /\ Advance /\ UNCHANGED <<sig, mem>>

\* The sleep function returns and is called again: its jmp_buf is not valid any more.
Again ==
  /\ At("again") /\ mem.call < MaxCalls
  /\ GoTo(1)
  /\ mem' = [mem EXCEPT !.call = @ + 1, !.jmp = 0, !.lost = {}]
  /\ UNCHANGED <<conf, mode, waiting, sig>>

Exit ==
  /\ At("exit") \/ (At("again") /\ mem.call = MaxCalls)
  /\ mode' = "done"
  /\ UNCHANGED <<conf, stack, waiting, sig, mem>>

\* Mutant: the mask of the handler stays.
HandlerReturn_KeepsMask ==
  /\ Running /\ Len(stack) > 1 /\ Top.at > Len(Code(prog, Top.ctx))
  /\ stack' = SubSeq(stack, 1, Len(stack) - 1)
  /\ UNCHANGED <<conf, mode, waiting, sig, mem>>

\* A handler returns: the mask is again what it was before, or what sigsuspend() held.
HandlerReturn ==
  /\ Running /\ Len(stack) > 1 /\ Top.at > Len(Code(prog, Top.ctx))
  /\ sig' = [sig EXCEPT !.mask = Top.ret]
  /\ stack' = SubSeq(stack, 1, Len(stack) - 1)
  /\ UNCHANGED <<conf, mode, waiting, mem>>

Step ==
  \/ Install \/ Uninstall \/ Default \/ Block \/ Unblock \/ Restore \/ AllBut
  \/ SetAlarm \/ Cancel \/ Wait("pause") \/ Wait("read") \/ Suspend
  \/ SetJmp \/ LongJmp \/ SetFlag \/ Jump \/ KillSelf \/ Fork \/ Reap \/ Nap
  \/ Again \/ Exit \/ HandlerReturn

-----------------------------------------------------------------------------
(* The others. *)

Alive == mode \in {"runs", "stopped"}

Raise(s) == sig' = [sig EXCEPT !.pend = @ \cup {s}, !.alarm = @ /\ s # "ALRM"]

Send ==
  /\ Alive /\ mem.sent < MaxSent
  /\ \E s \in Foreign(prog) : Raise(s)
  /\ mem' = [mem EXCEPT !.sent = @ + 1]
  /\ UNCHANGED <<conf, mode, stack, waiting>>

Continue == mode = "stopped" /\ mode' = "runs" /\ UNCHANGED <<conf, stack, waiting, sig, mem>>

Fire == Alive /\ sig.alarm /\ Raise("ALRM") /\ UNCHANGED <<conf, mode, stack, waiting, mem>>

ChildExits ==
  /\ Alive /\ mem.child = "runs"
  /\ Raise("CHLD")
  /\ mem' = [mem EXCEPT !.child = "zombie"]
  /\ UNCHANGED <<conf, mode, stack, waiting>>

\* read() returns with data, or at the end of the file.
Input ==
  /\ mode = "runs" /\ waiting = "read" /\ Deliverable = {}
  /\ waiting' = "no"
  /\ GoTo(Cur.to) \/ GoTo(Top.at + 1)
  /\ UNCHANGED <<conf, mode, sig, mem>>

\* The default action: SIGCHLD is discarded, SIGTSTP stops, the others kill.
TakeDefault(s) ==
  /\ sig.disp[s] = "default"
  /\ mode' = CASE s = "CHLD" -> mode [] s = "TSTP" -> "stopped" [] OTHER -> "dead"
  /\ sig' = [sig EXCEPT !.pend = @ \ {s}]
  /\ UNCHANGED <<stack, waiting, mem>>

Ignore(s) ==
  /\ sig.disp[s] = "ignore"
  /\ sig' = [sig EXCEPT !.pend = @ \ {s}]
  /\ UNCHANGED <<mode, stack, waiting, mem>>

AboutToWait == waiting = "no" /\ Code(prog, "main")[stack[1].at].op \in {"pause", "suspend", "suspend_old"}

\* A handler runs on top of what it interrupts: pause() and sigsuspend() will have
\* returned, read() will be restarted.  The signal is blocked meanwhile, and those of
\* sa_mask; SA_NODEFER and SA_RESETHAND if the program left them set.
Catch(s) ==
  LET own == sig.disp[s] = "own" IN
  /\ sig.disp[s] \in {"own", "caller"}
  /\ sig' = [sig EXCEPT
       !.pend = @ \ {s},
       !.mask = @ \cup (IF own THEN sa.mask \cup (IF sa.nodefer THEN {} ELSE {s}) ELSE {s}),
       !.held = {},
       !.disp[s] = IF own /\ sa.reset THEN "default" ELSE @]
  /\ stack' = Append([stack EXCEPT ![Len(stack)].at = IF waiting \in {"pause", "suspend"} THEN @ + 1 ELSE @],
                     [ctx |-> IF own THEN s ELSE "caller", at |-> 1,
                      ret |-> IF waiting = "suspend" THEN sig.held ELSE sig.mask])
  /\ mem' = [mem EXCEPT !.lost = IF AboutToWait THEN @ \cup {s} ELSE @]
  /\ waiting' = "no"
  /\ UNCHANGED mode

Deliver ==
  /\ mode = "runs"
  /\ \E s \in Deliverable : TakeDefault(s) \/ Ignore(s) \/ Catch(s)
  /\ UNCHANGED conf

Next == Step \/ Send \/ Continue \/ Fire \/ ChildExits \/ Input \/ Deliver

\* The process is scheduled, alarms go off, children end, signals are delivered.
\* Nobody has to send anything, type anything or continue a stopped process.
Fairness == WF_vars(Step) /\ WF_vars(Fire) /\ WF_vars(ChildExits) /\ WF_vars(Deliver)

Spec == Init /\ [][Next]_vars /\ Fairness

-----------------------------------------------------------------------------
Over == mode # "runs"

\* Each program that waits for something sure to come gets to its end.  A call of
\* sleep() always returns.  sleep1() and sleep2() return if SIGALRM is not blocked
\* when they are called (which the longjmp() of 05_sleep2:10 leaves it), and sleep1()
\* if its alarm does not go off before pause() (04_sleep1:13).  A child that exits,
\* an alarm during read() and a second signal after quit_flag end 03, 07 and 13,
\* unless the signal came just before the call it should have interrupted (03:25,
\* 13:32).
EveryWaitEnds ==
  /\ \A c \in 1..MaxCalls :
       (/\ prog \in Sleeper /\ mem.call = c /\ stack[1].at = 1
        /\ prog = "sleep" \/ "ALRM" \notin sig.mask)
         ~> (mem.call > c \/ Over \/ (prog = "sleep1" /\ "ALRM" \in mem.lost))
  /\ (prog \in {"abort", "critical", "read2"}) ~> Over
  /\ (prog = "sigcld") ~> (Over \/ "CHLD" \in mem.lost)
  /\ (prog = "suspend2" /\ mem.flag) ~> (Over \/ "QUIT" \in mem.lost)
  /\ (prog = "mask" /\ mem.flag /\ Len(stack) > 1 /\ stack[2] = [ctx |-> "USR1", at |-> 1, ret |-> {}]) ~> Over

\* sig_alarm2() jumps without a valid jmp_buf (05_sleep2:16) only if the caller had
\* set an alarm of its own: neither an early return nor a late alarm of one call
\* makes the next one do so.  The jumps of 07 and 10 always find theirs.
JumpIsValid == mode = "undefined" => prog = "sleep2" /\ caller.alarm

\* main() has blocked s and not restored the mask yet.
Protected(s) ==
  LET code == Code(prog, "main") IN
  \E i \in 1..(stack[1].at - 1) :
    code[i] = On("block", s) /\ \A j \in i..(stack[1].at - 1) : code[j].op # "restore"

\* The "correct way to protect a critical region" (12_suspend1:33): between the
\* sigprocmask() that blocks a signal and the one that restores the mask, main() is
\* interrupted by the signal only in sigsuspend(), not before and not after it.
HandlersOnlyInSuspend ==
  [][\A s \in Signal :
       (Len(stack) = 1 /\ Len(stack') = 2 /\ stack'[2].ctx = s /\ Protected(s)) => waiting = "suspend"]_vars

\* abort() never gets past its first kill(): lines 34 to 47, and with them the
\* exit of line 47 that "should never get here" (line 46), are not reached, whatever
\* the caller did with SIGABRT and whenever others send it.
NeverPastFirstKill == prog = "abort" => stack[1].at < 5

\* Whenever 18_sigtstp is back in its read loop, however many SIGTSTP came while the
\* handler had the default action in place, the handler is there for the next one.
HandlerBack ==
  prog = "sigtstp" /\ Len(stack) = 1 /\ stack[1].at > 1 => sig.disp["TSTP"] = "own"

\* What line 33 of 15_abort says: "caller has its own handler to caught SIGABRT is we
\* can get here".  Such a caller does not die of the first kill(), when nobody else
\* sends SIGABRT.  The assignment in line 16 has replaced the handler by then.
CallerCatchesAbort ==
  prog = "abort" /\ caller.disp = "caller" /\ mode = "dead" => stack[1].at > 4
=============================================================================
