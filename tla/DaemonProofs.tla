---------------------------- MODULE DaemonProofs ----------------------------
(***************************************************************************)
(* For any number of launches and signals: at most one daemon is past      *)
(* lockf(), LOCK_FILE is about that one, and SIGHUP and SIGTERM end a      *)
(* daemon only where the code lets them.                                   *)
(***************************************************************************)
EXTENDS Daemon, TLAPS

\* What a process has done with the lock is what the kernel knows about it.
LockHeld == \A p \in Proc : Running(p) <=> lockOwner = p

\* The process is past write().
Written(p) == pc[p] \in {"hup_default", "block", "create", "hup_handler",
                         "term_handler", "pause", "dead"}

\* A launch whose pid is in LOCK_FILE is past write(): it will not touch it again.
FileWriter == \A p \in Proc : file = p => Written(p)

IInv == TypeOK /\ LockHeld /\ LockFileNamesHolder /\ FileWriter

\* The initial states satisfy the invariant: nobody has the lock.
LEMMA InitIInv == Init => IInv
  BY ProcAssumption, MaxSignalsAssumption
  DEF Init, IInv, TypeOK, LockHeld, LockFileNamesHolder, Running, Startup,
      Program, Signal, Other, FileWriter

\* The end of a process frees the lock if it had it and nobody else's.
LEMMA DieIInv ==
  ASSUME IInv, NEW p \in Proc,
         NEW why \in {"error", "running", "exit", "SIGKILL"} \cup Signal,
         Die(p, why)
  PROVE  IInv'
<1>1. TypeOK'
  BY MaxSignalsAssumption DEF IInv, TypeOK, Die, Startup
<1>2. LockHeld'
  BY ProcAssumption DEF IInv, TypeOK, LockHeld, Running, Die, Other
<1>3. LockFileNamesHolder'
  BY DEF IInv, TypeOK, LockFileNamesHolder, Running, Die
<1>4. FileWriter'
  BY DEF IInv, TypeOK, FileWriter, Written, Die
<1> QED BY <1>1, <1>2, <1>3, <1>4 DEF IInv

\* Steps that stay on one side of lockf() and touch neither lock nor file.
LEMMA QuietIInv ==
  ASSUME IInv, NEW p \in Proc, TypeOK', UNCHANGED lockVars,
         \A q \in Proc : Running(q)' <=> Running(q),
         \A q \in Proc : Written(q) => Written(q)',
         \A q \in Proc : Running(q) /\ pc'[q] # "truncate" => pc[q] # "truncate"
  PROVE  IInv'
<1>1. LockHeld' BY DEF IInv, LockHeld, lockVars
<1>2. LockFileNamesHolder' BY DEF IInv, LockFileNamesHolder, lockVars, TypeOK
<1>3. FileWriter' BY DEF IInv, FileWriter, lockVars, TypeOK
<1> QED BY <1>1, <1>2, <1>3 DEF IInv

\* Every step of every process preserves the invariant.
LEMMA NextIInv == IInv /\ [Next]_vars => IInv'
<1> SUFFICES ASSUME IInv, [Next]_vars PROVE IInv' OBVIOUS
<1>1. CASE UNCHANGED vars
  BY <1>1 DEF IInv, TypeOK, LockHeld, LockFileNamesHolder, Running, vars,
     FileWriter, Written, procVars, lockVars
<1>2. CASE Next
  <2> PICK p \in Proc : \/ Main(p)
                        \/ \E s \in Signal : SigWait(p, s) \/ Send(p, s) \/ Deliver(p, s)
                        \/ Kill(p)
    BY <1>2 DEF Next
  <2> USE DEF At, Goto
  <2>1. CASE IgnoreHup(p)
    <3>1. TypeOK' BY <2>1 DEF IgnoreHup, IInv, TypeOK, Startup, lockVars
    <3> QED BY <3>1, <2>1, QuietIInv DEF IgnoreHup, Running, Written, IInv, TypeOK
  <2>2. CASE Fork(p)
    <3>1. CASE Die(p, "error") BY <3>1, DieIInv
    <3>2. CASE ~Die(p, "error")
      <4>1. TypeOK' BY <2>2, <3>2 DEF Fork, IInv, TypeOK, Startup, lockVars
      <4> QED BY <4>1, <2>2, <3>2, QuietIInv DEF Fork, Running, Written, IInv, TypeOK
    <3> QED BY <3>1, <3>2
  <2>3. CASE Setup(p)
    <3>1. CASE Die(p, "error") BY <3>1, DieIInv
    <3>2. CASE ~Die(p, "error")
      <4>1. TypeOK' BY <2>3, <3>2 DEF Setup, IInv, TypeOK, Startup, lockVars, procVars
      <4> QED BY <4>1, <2>3, <3>2, QuietIInv DEF Setup, Running, Written, IInv, TypeOK
    <3> QED BY <3>1, <3>2
  <2>4. CASE OpenLockFile(p)
    <3>1. CASE Die(p, "error") BY <3>1, DieIInv
    <3>2. CASE ~Die(p, "error")
      <4>1. TypeOK' BY <2>4, <3>2 DEF OpenLockFile, IInv, TypeOK, Startup, lockVars, procVars
      <4> QED BY <4>1, <2>4, <3>2, QuietIInv DEF OpenLockFile, Running, Written, IInv, TypeOK
    <3> QED BY <3>1, <3>2
  <2>5. CASE TryLock(p)
    <3>1. CASE Die(p, "running") BY <3>1, DieIInv
    <3>2. CASE ~Die(p, "running")
      <4>1. TypeOK' BY <2>5, <3>2 DEF TryLock, IInv, TypeOK, Startup, procVars
      <4>2. LockHeld'
        BY <2>5, <3>2, ProcAssumption
        DEF TryLock, IInv, LockHeld, Running, TypeOK, Other
      <4>3. LockFileNamesHolder'
        BY <2>5, <3>2, ProcAssumption
        DEF TryLock, IInv, LockHeld, LockFileNamesHolder, Running, TypeOK, Other
      <4>4. FileWriter'
        BY <2>5, <3>2 DEF TryLock, IInv, FileWriter, Written, TypeOK
      <4> QED BY <4>1, <4>2, <4>3, <4>4 DEF IInv
    <3> QED BY <3>1, <3>2
  <2>6. CASE Truncate(p)
    <3>1. TypeOK' BY <2>6 DEF Truncate, IInv, TypeOK, Startup, procVars
    <3>2. LockHeld' BY <2>6 DEF Truncate, IInv, LockHeld, Running, TypeOK
    <3>3. LockFileNamesHolder'
      BY <2>6 DEF Truncate, IInv, LockFileNamesHolder, Running, TypeOK
    <3>4. FileWriter'
      BY <2>6, ProcAssumption DEF Truncate, FileWriter, Other
    <3> QED BY <3>1, <3>2, <3>3, <3>4 DEF IInv
  <2>7. CASE WritePid(p)
    <3>1. AfterLock(p) \in {"pause", "hup_default", "hup_handler"}
      BY DEF AfterLock, IInv, TypeOK, Program
    <3>2. TypeOK' BY <2>7, <3>1 DEF WritePid, IInv, TypeOK, Startup, procVars
    <3>3. LockHeld' BY <2>7, <3>1 DEF WritePid, IInv, LockHeld, Running, TypeOK
    <3>4. LockFileNamesHolder'
      BY <2>7, <3>1 DEF WritePid, IInv, LockHeld, LockFileNamesHolder, Running, TypeOK
    <3>5. FileWriter'
      BY <2>7, <3>1 DEF WritePid, IInv, FileWriter, Written, TypeOK
    <3> QED BY <3>2, <3>3, <3>4, <3>5 DEF IInv
  <2>8. CASE HupDefault(p)
    <3>1. TypeOK' BY <2>8 DEF HupDefault, IInv, TypeOK, Startup, lockVars
    <3> QED BY <3>1, <2>8, QuietIInv DEF HupDefault, Running, Written, IInv, TypeOK
  <2>9. CASE BlockAll(p)
    <3>1. TypeOK' BY <2>9 DEF BlockAll, IInv, TypeOK, Startup, lockVars
    <3> QED BY <3>1, <2>9, QuietIInv DEF BlockAll, Running, Written, IInv, TypeOK
  <2>10. CASE CreateThread(p)
    <3>1. TypeOK' BY <2>10 DEF CreateThread, IInv, TypeOK, Startup, lockVars
    <3> QED BY <3>1, <2>10, QuietIInv DEF CreateThread, Running, Written, IInv, TypeOK
  <2>11. CASE HupHandler(p)
    <3>1. TypeOK' BY <2>11 DEF HupHandler, IInv, TypeOK, Startup, lockVars
    <3> QED BY <3>1, <2>11, QuietIInv DEF HupHandler, Running, Written, IInv, TypeOK
  <2>12. CASE TermHandler(p)
    <3>1. TypeOK' BY <2>12 DEF TermHandler, IInv, TypeOK, Startup, lockVars
    <3> QED BY <3>1, <2>12, QuietIInv DEF TermHandler, Running, Written, IInv, TypeOK
  <2>13. CASE LeaveReread(p)
    <3>1. TypeOK' BY <2>13 DEF LeaveReread, IInv, TypeOK, lockVars
    <3> QED BY <3>1, <2>13, QuietIInv DEF LeaveReread, Running, Written, IInv, TypeOK
  <2>14. ASSUME NEW s \in Signal, SigWait(p, s) PROVE IInv'
    <3>1. CASE Die(p, "exit") BY <3>1, DieIInv
    <3>2. CASE ~Die(p, "exit")
      <4>1. TypeOK' BY <2>14, <3>2 DEF SigWait, IInv, TypeOK, lockVars
      <4> QED BY <4>1, <2>14, <3>2, QuietIInv DEF SigWait, Running, Written, IInv, TypeOK
    <3> QED BY <3>1, <3>2
  <2>15. ASSUME NEW s \in Signal, Send(p, s) PROVE IInv'
    <3>1. budget[p] - 1 \in Nat
      BY <2>15 DEF Send, IInv, TypeOK
    <3>2. TypeOK' BY <2>15, <3>1 DEF Send, IInv, TypeOK, lockVars
    <3> QED BY <3>2, <2>15, QuietIInv DEF Send, Running, Written, IInv, TypeOK
  <2>16. ASSUME NEW s \in Signal, Deliver(p, s) PROVE IInv'
    <3>1. CASE EnterReread(p)
      <4>1. TypeOK' BY <3>1 DEF EnterReread, IInv, TypeOK, lockVars, Signal
      <4> QED BY <4>1, <3>1, QuietIInv DEF EnterReread, Running, Written, IInv, TypeOK
    <3>2. CASE Die(p, "exit") BY <3>2, DieIInv
    <3>3. CASE Die(p, s) BY <3>3, DieIInv
    <3> QED BY <2>16, <3>1, <3>2, <3>3 DEF Deliver
  <2>17. CASE Kill(p) BY <2>17, DieIInv DEF Kill
  <2> QED
    BY <2>1, <2>2, <2>3, <2>4, <2>5, <2>6, <2>7, <2>8, <2>9, <2>10, <2>11,
       <2>12, <2>13, <2>14, <2>15, <2>16, <2>17 DEF Main
<1> QED BY <1>1, <1>2

\* The inductive invariant holds in every reachable state.
THEOREM Invariance == Spec => []IInv
  BY InitIInv, NextIInv, PTL DEF Spec

\* The variables of the three daemons keep their types.
THEOREM TypeCorrect == Spec => []TypeOK
<1>1. IInv => TypeOK BY DEF IInv
<1> QED BY <1>1, Invariance, PTL

\* already_running() lets at most one launch past lockf().
THEOREM OneDaemon == Spec => []SingleDaemon
<1>1. IInv => SingleDaemon BY DEF IInv, LockHeld, SingleDaemon
<1> QED BY <1>1, Invariance, PTL

\* A daemon past ftruncate() finds its own pid in LOCK_FILE, or nothing.
THEOREM FileNamesHolder == Spec => []LockFileNamesHolder
<1>1. IInv => LockFileNamesHolder BY DEF IInv
<1> QED BY <1>1, Invariance, PTL

\* The pid a running daemon has written is not touched by any other launch.
THEOREM PidIsKept == Spec => PidKept
<1> DEFINE Keep == \A p \in Proc : file = p /\ Running(p) /\ Running(p)' => file' = p
<1>1. IInv /\ [Next]_vars => [Keep]_vars
  <2> SUFFICES ASSUME IInv, Next, NEW q \in Proc, file = q, Running(q), Running(q)'
               PROVE  file' = q
    OBVIOUS
  <2> PICK p \in Proc : \/ Main(p)
                        \/ \E s \in Signal : SigWait(p, s) \/ Send(p, s) \/ Deliver(p, s)
                        \/ Kill(p)
    BY DEF Next
  <2>1. CASE Truncate(p)
    <3>1. Running(p) BY <2>1 DEF Truncate, At, Running
    <3>2. p = q BY <3>1 DEF IInv, LockHeld
    <3> QED BY <2>1, <3>2 DEF Truncate, At, IInv, FileWriter, Written
  <2>2. CASE WritePid(p)
    <3>1. Running(p) BY <2>2 DEF WritePid, At, Running
    <3>2. p = q BY <3>1 DEF IInv, LockHeld
    <3> QED BY <2>2, <3>2 DEF WritePid
  <2>3. CASE ~Truncate(p) /\ ~WritePid(p)
    BY <2>3 DEF Main, IgnoreHup, Fork, Setup, OpenLockFile, TryLock, HupDefault,
       BlockAll, CreateThread, HupHandler, TermHandler, LeaveReread, SigWait,
       Send, Deliver, EnterReread, Kill, Die, lockVars
  <2> QED BY <2>1, <2>2, <2>3
<1> QED BY <1>1, Invariance, PTL DEF Spec, PidKept

-----------------------------------------------------------------------------
\* From daemonize() until the program sets SIGHUP for itself.
HupIgnored(p) ==
  \/ pc[p] \in {"fork", "setup", "open", "lock", "truncate", "write",
               "hup_default", "hup_handler"}
  \/ pc[p] = "pause" /\ prog[p] = "daemonize"

\* 02_reread1 is past pthread_sigmask().
AllBlocked(p) == pc[p] = "create" \/ (pc[p] = "pause" /\ prog[p] = "reread1")

\* 03_reread2 is past sigaction(SIGHUP).
HupCaught(p) == pc[p] = "term_handler" \/ (pc[p] = "pause" /\ prog[p] = "reread2")

\* What a process knows of its signals at each of its system calls.
SignalsOf(p) ==
  /\ pc[p] \in {"hup_default", "block", "create"} => prog[p] = "reread1"
  /\ pc[p] \in {"hup_handler", "term_handler"} => prog[p] = "reread2"
  /\ HupIgnored(p) => hup[p] = "ignore" /\ "SIGHUP" \notin pending[p]
  /\ AllBlocked(p) => blocked[p] = Signal
  /\ HupCaught(p) <=> hup[p] = "reread"
  /\ thread[p] => prog[p] = "reread1"
  /\ rereading[p] => HupCaught(p) /\ prog[p] = "reread2" /\ "SIGTERM" \in blocked[p]
  /\ pc[p] = "dead" => pending[p] = {}

\* The same of all of them.
SignalInv == \A p \in Proc : SignalsOf(p)

\* No signal has been sent yet, none is ignored, and nobody runs a handler.
LEMMA InitSignals == Init => SignalInv
  BY DEF Init, SignalInv, SignalsOf, HupIgnored, AllBlocked, HupCaught

\* A step of one process is no step of another.
LEMMA OthersSignals ==
  ASSUME TypeOK, NEW p \in Proc, NEW q \in Proc, q # p, SignalsOf(q),
         Main(p) \/ (\E s \in Signal : SigWait(p, s) \/ Send(p, s) \/ Deliver(p, s))
                 \/ Kill(p)
  PROVE  /\ SignalsOf(q)'
         /\ cause'[q] = cause[q] /\ pc'[q] = pc[q]
<1>1. /\ prog' = prog /\ pc'[q] = pc[q] /\ hup'[q] = hup[q] /\ blocked'[q] = blocked[q]
      /\ pending'[q] = pending[q] /\ thread'[q] = thread[q]
      /\ rereading'[q] = rereading[q] /\ cause'[q] = cause[q]
  BY DEF TypeOK, Main, IgnoreHup, Fork, Setup, OpenLockFile, TryLock, Truncate, WritePid,
     HupDefault, BlockAll, CreateThread, HupHandler, TermHandler, LeaveReread, SigWait,
     Send, Deliver, EnterReread, Kill, Die, Goto, procVars
<1> QED BY <1>1 DEF SignalsOf, HupIgnored, AllBlocked, HupCaught

\* A dead process has no signals.
LEMMA DieSignals ==
  ASSUME TypeOK, NEW p \in Proc, NEW why, Die(p, why)
  PROVE  SignalsOf(p)'
  BY DEF TypeOK, Die, SignalsOf, HupIgnored, AllBlocked, HupCaught

\* Every step of a process keeps what it knows of its signals.
LEMMA StepSignals ==
  ASSUME TypeOK, NEW p \in Proc, SignalsOf(p),
         Main(p) \/ (\E s \in Signal : SigWait(p, s) \/ Send(p, s) \/ Deliver(p, s))
                 \/ Kill(p)
  PROVE  SignalsOf(p)'
<1> USE DEF TypeOK, At, Goto, SignalsOf, HupIgnored, AllBlocked, HupCaught
<1>1. CASE \E why : Die(p, why) BY <1>1, DieSignals
<1>2. CASE ~\E why : Die(p, why)
  <2>1. CASE IgnoreHup(p) BY <2>1 DEF IgnoreHup
  <2>2. CASE Fork(p) BY <1>2, <2>2 DEF Fork
  <2>3. CASE Setup(p) \/ OpenLockFile(p) BY <1>2, <2>3 DEF Setup, OpenLockFile, procVars
  <2>4. CASE TryLock(p) BY <1>2, <2>4 DEF TryLock, procVars
  <2>5. CASE Truncate(p) BY <2>5 DEF Truncate, procVars
  <2>6. CASE WritePid(p) BY <2>6 DEF WritePid, AfterLock, Program, procVars
  <2>7. CASE HupDefault(p) BY <2>7 DEF HupDefault
  <2>8. CASE BlockAll(p) BY <2>8 DEF BlockAll
  <2>9. CASE CreateThread(p)
    <3>1. thread'[p] => prog[p] = "reread1" BY <2>9 DEF CreateThread
    <3> QED BY <2>9, <3>1 DEF CreateThread
  <2>10. CASE HupHandler(p) BY <2>10 DEF HupHandler
  <2>11. CASE TermHandler(p) BY <2>11 DEF TermHandler
  <2>12. CASE LeaveReread(p) BY <2>12 DEF LeaveReread
  <2>13. ASSUME NEW s \in Signal, SigWait(p, s) PROVE SignalsOf(p)'
    BY <1>2, <2>13 DEF SigWait
  <2>14. ASSUME NEW s \in Signal, Send(p, s) PROVE SignalsOf(p)' BY <2>14 DEF Send
  <2>15. ASSUME NEW s \in Signal, Deliver(p, s) PROVE SignalsOf(p)'
    BY <1>2, <2>15 DEF Deliver, EnterReread, Signal
  <2>16. CASE Kill(p) BY <1>2, <2>16 DEF Kill
  <2> QED BY <2>1, <2>2, <2>3, <2>4, <2>5, <2>6, <2>7, <2>8, <2>9, <2>10, <2>11, <2>12,
             <2>13, <2>14, <2>15, <2>16 DEF Main
<1> QED BY <1>1, <1>2

\* Every step keeps what each process knows of its signals.
LEMMA NextSignals == TypeOK /\ SignalInv /\ [Next]_vars => SignalInv'
<1> SUFFICES ASSUME TypeOK, SignalInv, [Next]_vars, NEW q \in Proc PROVE SignalsOf(q)'
  BY DEF SignalInv
<1>1. CASE UNCHANGED vars
  BY <1>1 DEF SignalInv, SignalsOf, HupIgnored, AllBlocked, HupCaught, vars, procVars
<1>2. CASE Next BY <1>2, OthersSignals, StepSignals DEF Next, SignalInv
<1> QED BY <1>1, <1>2

\* SIGHUP ends a daemon only where DeathsExplained says, and SIGTERM does not cut a
\* reread() of 03_reread2 short, for any number of launches and signals.
THEOREM DeathsAreExplained == Spec => DeathsExplained
<1> DEFINE Explained(p) ==
             /\ cause[p] = "none" /\ cause'[p] = "SIGHUP" =>
                  \/ pc[p] = "sigaction"
                  \/ prog[p] = "reread1" /\ pc[p] = "block"
             /\ rereading[p] /\ pc'[p] = "dead" => cause'[p] \notin {"exit", "SIGTERM"}
<1>1. TypeOK /\ SignalInv /\ [Next]_vars => [\A p \in Proc : Explained(p)]_vars
  <2> SUFFICES ASSUME TypeOK, SignalInv, Next, NEW q \in Proc PROVE Explained(q)
    OBVIOUS
  <2> PICK p \in Proc : \/ Main(p)
                        \/ \E s \in Signal : SigWait(p, s) \/ Send(p, s) \/ Deliver(p, s)
                        \/ Kill(p)
    BY DEF Next
  <2>1. SignalsOf(q) BY DEF SignalInv
  <2>2. CASE q # p
    <3>1. cause'[q] = cause[q] /\ pc'[q] = pc[q] BY <2>1, <2>2, OthersSignals
    <3> QED BY <2>1, <3>1 DEF SignalsOf, HupCaught
  <2>3. CASE q = p
    <3> USE DEF TypeOK
    <3>1. CASE Main(p)
      <4>1. cause'[p] \in {cause[p], "error", "running"} /\ (rereading[p] => pc'[p] = pc[p])
        BY <3>1 DEF Main, At, Goto, IgnoreHup, Fork, Setup, OpenLockFile, TryLock, Truncate,
           WritePid, HupDefault, BlockAll, CreateThread, HupHandler, TermHandler,
           LeaveReread, Die, procVars
      <4> QED BY <2>1, <2>3, <4>1 DEF SignalsOf, HupCaught
    <3>2. ASSUME NEW s \in Signal, SigWait(p, s) PROVE Explained(p)
      <4>1. ~rereading[p] BY <2>1, <2>3, <3>2 DEF SignalsOf, SigWait
      <4>2. cause'[p] \in {cause[p], "exit"} BY <3>2 DEF SigWait, Die
      <4> QED BY <4>1, <4>2
    <3>3. ASSUME NEW s \in Signal, Send(p, s) PROVE Explained(p)
      BY <2>1, <2>3, <3>3 DEF Send, SignalsOf, HupCaught
    <3>4. ASSUME NEW s \in Signal, Deliver(p, s) PROVE Explained(p)
      <4>1. CASE EnterReread(p)
        BY <2>1, <2>3, <4>1 DEF EnterReread, SignalsOf, HupCaught
      <4>2. CASE s = "SIGTERM"
        <5>1. ~rereading[p] BY <2>1, <2>3, <3>4, <4>2 DEF Deliver, SignalsOf
        <5>2. cause'[p] \in {cause[p], "exit", "SIGTERM"}
          BY <3>4, <4>2 DEF Deliver, EnterReread, Die
        <5> QED BY <5>1, <5>2
      <4>3. CASE s = "SIGHUP" /\ hup[p] # "reread"
        <5>1. "SIGHUP" \in pending[p] \ blocked[p] BY <3>4, <4>3 DEF Deliver
        <5>2. ~HupIgnored(p) /\ ~AllBlocked(p) /\ ~HupCaught(p) /\ pc[p] # "dead"
          BY <2>1, <2>3, <4>3, <5>1 DEF SignalsOf, Signal
        <5>3. pc[p] \in {"sigaction", "block"}
          BY <5>2 DEF HupIgnored, AllBlocked, HupCaught, Startup, Program
        <5>4. cause'[p] = "SIGHUP" BY <3>4, <4>3 DEF Deliver, Die
        <5> QED BY <2>1, <2>3, <5>3, <5>4 DEF SignalsOf
      <4>4. CASE s \notin {"SIGHUP", "SIGTERM"}
        BY <3>4, <4>4 DEF Deliver, Die, Signal
      <4>5. CASE s = "SIGHUP" /\ hup[p] = "reread"
        BY <3>4, <4>1, <4>5 DEF Deliver
      <4> QED BY <4>2, <4>3, <4>4, <4>5
    <3>5. CASE Kill(p) BY <2>3, <3>5 DEF Kill, Die
    <3> QED BY <2>3, <3>1, <3>2, <3>3, <3>4, <3>5
  <2> QED BY <2>2, <2>3
<1>2. Init /\ [][Next]_vars => [](TypeOK /\ SignalInv)
  <2>1. IInv /\ SignalInv /\ [Next]_vars => (IInv /\ SignalInv)'
    BY NextIInv, NextSignals DEF IInv
  <2>2. IInv => TypeOK BY DEF IInv
  <2> QED BY InitIInv, InitSignals, <2>1, <2>2, PTL
<1> QED BY <1>1, <1>2, PTL DEF Spec, DeathsExplained
=============================================================================
