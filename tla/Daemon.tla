------------------------------- MODULE Daemon -------------------------------
(***************************************************************************)
(* The three daemons of 13.deamons: 01_daemonize ("daemonize"),            *)
(* 02_reread1 ("reread1", a thread takes the signals with sigwait) and     *)
(* 03_reread2 ("reread2", signal handlers).  All three turn themselves     *)
(* into daemons with the same daemonize() and make themselves the only     *)
(* instance with the same already_running() on the same LOCK_FILE, so an   *)
(* instance of one program also excludes instances of the others.          *)
(*                                                                         *)
(* One element of Proc is one launch of one of the programs; after fork()  *)
(* it stands for the child.  Anybody may send it a signal, SIGKILL         *)
(* included, between any two of its system calls.                          *)
(***************************************************************************)
EXTENDS Naturals

CONSTANTS
  Proc,       \* the launched processes; an element is also the pid it writes
  MaxSignals  \* bound: how many signals the environment sends to each process

\* What LOCK_FILE can hold besides a pid of Proc, and the absent lock owner.
Other == {"empty", "stale", "none"}

ASSUME ProcAssumption == Proc \cap Other = {}
ASSUME MaxSignalsAssumption == MaxSignals \in [Proc -> Nat]

Program == {"daemonize", "reread1", "reread2"}
Signal == {"SIGHUP", "SIGINT", "SIGTERM", "SIGUSR1"}

VARIABLES
  prog,       \* which of the three programs a process runs
  pc,         \* the next system call of the main thread
  hup, term,  \* disposition of SIGHUP and of SIGTERM
  blocked,    \* signal mask (of both threads, in reread1)
  pending,    \* signals sent and not yet delivered or taken by sigwait
  thread,     \* reread1: the sigwait thread runs thread_function
  rereading,  \* reread2: the handler reread() is running
  budget,     \* signals that may still be sent to the process
  cause,      \* why the process ended
  lockOwner,  \* the process holding the lockf() lock on LOCK_FILE
  file        \* content of LOCK_FILE: a pid, "empty", or an older pid "stale"

procVars == <<hup, term, blocked, pending, thread, rereading, budget, cause>>
lockVars == <<lockOwner, file>>
vars == <<prog, pc, procVars, lockVars>>

Startup == {"sigaction", "fork", "setup", "open", "lock", "truncate", "write",
            "hup_default", "block", "create", "hup_handler", "term_handler"}

TypeOK ==
  /\ prog \in [Proc -> Program]
  /\ pc \in [Proc -> Startup \cup {"pause", "dead"}]
  /\ hup \in [Proc -> {"default", "ignore", "reread"}]
  /\ term \in [Proc -> {"default", "term"}]
  /\ blocked \in [Proc -> SUBSET Signal]
  /\ pending \in [Proc -> SUBSET Signal]
  /\ thread \in [Proc -> BOOLEAN]
  /\ rereading \in [Proc -> BOOLEAN]
  /\ budget \in [Proc -> Nat]
  /\ cause \in [Proc -> {"none", "error", "running", "exit"}
                          \cup Signal \cup {"SIGKILL"}]
  /\ lockOwner \in Proc \cup {"none"}
  /\ file \in Proc \cup {"empty", "stale"}

\* LOCK_FILE may be left over from a daemon that is gone.
Init ==
  /\ prog \in [Proc -> Program]
  /\ pc = [p \in Proc |-> "sigaction"]
  /\ hup = [p \in Proc |-> "default"]
  /\ term = [p \in Proc |-> "default"]
  /\ blocked = [p \in Proc |-> {}]
  /\ pending = [p \in Proc |-> {}]
  /\ thread = [p \in Proc |-> FALSE]
  /\ rereading = [p \in Proc |-> FALSE]
  /\ budget = MaxSignals
  /\ cause = [p \in Proc |-> "none"]
  /\ lockOwner = "none"
  /\ file \in {"empty", "stale"}

-----------------------------------------------------------------------------
\* The main thread makes the system call `at' unless a handler has interrupted it.
At(p, at) == pc[p] = at /\ ~rereading[p]

Goto(p, to) == pc' = [pc EXCEPT ![p] = to]

\* The process ends: the kernel drops its lockf() lock and forgets its signals.
Die(p, why) ==
  /\ pc' = [pc EXCEPT ![p] = "dead"]
  /\ cause' = [cause EXCEPT ![p] = why]
  /\ pending' = [pending EXCEPT ![p] = {}]
  /\ rereading' = [rereading EXCEPT ![p] = FALSE]
  /\ thread' = [thread EXCEPT ![p] = FALSE]
  /\ lockOwner' = IF lockOwner = p THEN "none" ELSE lockOwner
  /\ hup' = [hup EXCEPT ![p] = "default"]
  /\ term' = [term EXCEPT ![p] = "default"]
  /\ blocked' = [blocked EXCEPT ![p] = {}]
  /\ budget' = [budget EXCEPT ![p] = 0]
  /\ UNCHANGED <<prog, file>>

\* The first call after already_running() has returned 0.
AfterLock(p) ==
  IF prog[p] = "daemonize" THEN "pause"
  ELSE IF prog[p] = "reread1" THEN "hup_default" ELSE "hup_handler"

-----------------------------------------------------------------------------
(* daemonize() *)

\* SIGHUP is ignored before the fork; ignoring a signal discards it if pending.
IgnoreHup(p) ==
  /\ At(p, "sigaction")
  /\ hup' = [hup EXCEPT ![p] = "ignore"]
  /\ pending' = [pending EXCEPT ![p] = @ \ {"SIGHUP"}]
  /\ Goto(p, "fork")
  /\ UNCHANGED <<prog, term, blocked, thread, rereading, budget, cause, lockVars>>

\* The parent exits, the child goes on with the parent's dispositions and no
\* pending signal.  When fork() fails daemonize() returns and so does main().
Fork(p) ==
  /\ At(p, "fork")
  /\ \/ /\ pending' = [pending EXCEPT ![p] = {}]
        /\ Goto(p, "setup")
        /\ UNCHANGED <<prog, hup, term, blocked, thread, rereading, budget, cause, lockVars>>
     \/ Die(p, "error")

\* setsid, chdir, close every descriptor, 0 1 2 on /dev/null.
Setup(p) ==
  /\ At(p, "setup")
  /\ \/ Goto(p, "open") /\ UNCHANGED <<prog, procVars, lockVars>>
     \/ Die(p, "error")

(* already_running() *)

OpenLockFile(p) ==
  /\ At(p, "open")
  /\ \/ Goto(p, "lock") /\ UNCHANGED <<prog, procVars, lockVars>>
     \/ Die(p, "error")

\* Mutant: the result of lockf() is not looked at.
TryLock_Unchecked(p) ==
  /\ At(p, "lock")
  /\ lockOwner' = IF lockOwner = "none" THEN p ELSE lockOwner
  /\ Goto(p, "truncate")
  /\ UNCHANGED <<prog, procVars, file>>

\* Mutant: F_LOCK instead of F_TLOCK, the second daemon waits for the first.
TryLock_Waits(p) ==
  /\ At(p, "lock")
  /\ lockOwner = "none"
  /\ lockOwner' = p
  /\ Goto(p, "truncate")
  /\ UNCHANGED <<prog, procVars, file>>

\* lockf(fd, F_TLOCK, 0) does not wait: a second daemon exits at once.
TryLock(p) ==
  /\ At(p, "lock")
  /\ \/ /\ lockOwner = "none"
        /\ lockOwner' = p
        /\ Goto(p, "truncate")
        /\ UNCHANGED <<prog, procVars, file>>
     \/ /\ lockOwner # "none"
        /\ Die(p, "running")

\* Mutant: no ftruncate(), the write alone is trusted to replace the old pid.
Truncate_Missing(p) ==
  /\ At(p, "truncate")
  /\ Goto(p, "write")
  /\ UNCHANGED <<prog, procVars, lockVars>>

Truncate(p) ==
  /\ At(p, "truncate")
  /\ file' = "empty"
  /\ Goto(p, "write")
  /\ UNCHANGED <<prog, procVars, lockOwner>>

\* The result of write() is not checked: on a full disk the file stays empty.
WritePid(p) ==
  /\ At(p, "write")
  /\ file' \in {p, file}
  /\ Goto(p, AfterLock(p))
  /\ UNCHANGED <<prog, procVars, lockOwner>>

-----------------------------------------------------------------------------
(* 02_reread1: SIGHUP back to its default, every signal blocked, a thread *)

HupDefault(p) ==
  /\ At(p, "hup_default")
  /\ hup' = [hup EXCEPT ![p] = "default"]
  /\ Goto(p, "block")
  /\ UNCHANGED <<prog, term, blocked, pending, thread, rereading, budget, cause, lockVars>>

BlockAll(p) ==
  /\ At(p, "block")
  /\ blocked' = [blocked EXCEPT ![p] = Signal]
  /\ Goto(p, "create")
  /\ UNCHANGED <<prog, hup, term, pending, thread, rereading, budget, cause, lockVars>>

\* The result of pthread_create() is not checked: the thread may be missing.
CreateThread(p) ==
  /\ At(p, "create")
  /\ thread' \in {[thread EXCEPT ![p] = started] : started \in BOOLEAN}
  /\ Goto(p, "pause")
  /\ UNCHANGED <<prog, hup, term, blocked, pending, rereading, budget, cause, lockVars>>

\* Mutant: the case SIGTERM is missing from the switch.
SigWait_NoTerm(p, s) ==
  /\ thread[p] /\ s \in pending[p]
  /\ \/ s = "SIGINT" /\ Die(p, "exit")
     \/ /\ s # "SIGINT"
        /\ pending' = [pending EXCEPT ![p] = @ \ {s}]
        /\ UNCHANGED <<prog, pc, hup, term, blocked, thread, rereading, budget, cause, lockVars>>

\* One iteration of thread_function: SIGINT and SIGTERM end the process, SIGHUP
\* rereads (nothing), any other signal is dropped.
SigWait(p, s) ==
  /\ thread[p] /\ s \in pending[p]
  /\ \/ s \in {"SIGINT", "SIGTERM"} /\ Die(p, "exit")
     \/ /\ s \notin {"SIGINT", "SIGTERM"}
        /\ pending' = [pending EXCEPT ![p] = @ \ {s}]
        /\ UNCHANGED <<prog, pc, hup, term, blocked, thread, rereading, budget, cause, lockVars>>

-----------------------------------------------------------------------------
(* 03_reread2: a handler for SIGHUP, then a handler for SIGTERM, then pause() *)

HupHandler(p) ==
  /\ At(p, "hup_handler")
  /\ hup' = [hup EXCEPT ![p] = "reread"]
  /\ Goto(p, "term_handler")
  /\ UNCHANGED <<prog, term, blocked, pending, thread, rereading, budget, cause, lockVars>>

TermHandler(p) ==
  /\ At(p, "term_handler")
  /\ term' = [term EXCEPT ![p] = "term"]
  /\ Goto(p, "pause")
  /\ UNCHANGED <<prog, hup, blocked, pending, thread, rereading, budget, cause, lockVars>>

\* Mutant: SIGTERM is not added to sa_mask.
EnterReread_NoMask(p) ==
  /\ rereading' = [rereading EXCEPT ![p] = TRUE]
  /\ blocked' = [blocked EXCEPT ![p] = @ \cup {"SIGHUP"}]
  /\ pending' = [pending EXCEPT ![p] = @ \ {"SIGHUP"}]
  /\ UNCHANGED <<prog, pc, hup, term, thread, budget, cause, lockVars>>

\* The handler runs with SIGHUP itself and sa_mask = {SIGTERM} blocked.
EnterReread(p) ==
  /\ rereading' = [rereading EXCEPT ![p] = TRUE]
  /\ blocked' = [blocked EXCEPT ![p] = @ \cup {"SIGHUP", "SIGTERM"}]
  /\ pending' = [pending EXCEPT ![p] = @ \ {"SIGHUP"}]
  /\ UNCHANGED <<prog, pc, hup, term, thread, budget, cause, lockVars>>

\* reread() returns: the kernel restores the mask, which reread2 keeps empty.
LeaveReread(p) ==
  /\ rereading[p]
  /\ rereading' = [rereading EXCEPT ![p] = FALSE]
  /\ blocked' = [blocked EXCEPT ![p] = {}]
  /\ UNCHANGED <<prog, pc, hup, term, pending, thread, budget, cause, lockVars>>

-----------------------------------------------------------------------------
(* Signals *)

\* A signal the process ignores is discarded when it is sent.
Send(p, s) ==
  /\ pc[p] # "dead"
  /\ budget[p] > 0
  /\ budget' = [budget EXCEPT ![p] = @ - 1]
  /\ pending' = [pending EXCEPT ![p] =
                   IF s = "SIGHUP" /\ hup[p] = "ignore" THEN @ ELSE @ \cup {s}]
  /\ UNCHANGED <<prog, pc, hup, term, blocked, thread, rereading, cause, lockVars>>

\* The kernel delivers an unblocked signal: term() calls exit(1), the default
\* action of each of these signals is to terminate.
Deliver(p, s) ==
  /\ s \in pending[p] \ blocked[p]
  /\ \/ s = "SIGHUP" /\ hup[p] = "reread" /\ EnterReread(p)
     \/ s = "SIGTERM" /\ term[p] = "term" /\ Die(p, "exit")
     \/ /\ ~(s = "SIGHUP" /\ hup[p] = "reread")
        /\ ~(s = "SIGTERM" /\ term[p] = "term")
        /\ Die(p, s)

Kill(p) == pc[p] # "dead" /\ Die(p, "SIGKILL")

-----------------------------------------------------------------------------
\* The next step of the main thread.
Main(p) ==
  \/ IgnoreHup(p) \/ Fork(p) \/ Setup(p)
  \/ OpenLockFile(p) \/ TryLock(p) \/ Truncate(p) \/ WritePid(p)
  \/ HupDefault(p) \/ BlockAll(p) \/ CreateThread(p)
  \/ HupHandler(p) \/ TermHandler(p) \/ LeaveReread(p)

Next ==
  \E p \in Proc :
    \/ Main(p)
    \/ \E s \in Signal : SigWait(p, s) \/ Send(p, s) \/ Deliver(p, s)
    \/ Kill(p)

\* The scheduler runs every thread that can run and the kernel delivers what is
\* pending and unblocked; nobody has to send anything.
Fairness ==
  \A p \in Proc :
    /\ WF_vars(Main(p))
    /\ WF_vars(\E s \in Signal : SigWait(p, s))
    /\ WF_vars(\E s \in Signal : Deliver(p, s))

Spec == Init /\ [][Next]_vars /\ Fairness

-----------------------------------------------------------------------------
\* The process has returned 0 from lockf() and is alive.
Running(p) == pc[p] \in {"truncate", "write", "pause"}
                          \cup {"hup_default", "block", "create"}
                          \cup {"hup_handler", "term_handler"}

\* Purpose of already_running(): of all the launches of the three programs, at
\* most one is ever past lockf(), whatever dies when.
SingleDaemon == \A p, q \in Proc : Running(p) /\ Running(q) => p = q

\* LOCK_FILE is only written under the lock: once the holder has truncated it, it
\* holds the holder's pid or, after the unchecked write() failed, nothing; never
\* the pid of an earlier holder, not even one killed between the two calls.
LockFileNamesHolder ==
  \A p \in Proc :
    Running(p) /\ pc[p] # "truncate" => file \in {p, "empty"}

\* What the daemon has written stays in LOCK_FILE as long as it runs: a launch that
\* opens the file (O_RDWR without O_TRUNC) and finds it locked leaves it alone.
PidKept ==
  [][\A p \in Proc : file = p /\ Running(p) /\ Running(p)' => file' = p]_vars

\* Which signals may end a daemon, and where.  SIGHUP does so only before
\* daemonize() ignores it (line 40) or, in 02_reread1, in the window between its
\* reset to SIG_DFL (line 94) and pthread_sigmask (line 96).  SIGTERM does not cut
\* a reread() short: 03_reread2 puts it in the sa_mask of that handler (line 76).
DeathsExplained ==
  [][\A p \in Proc :
       /\ cause[p] = "none" /\ cause'[p] = "SIGHUP" =>
            \/ pc[p] = "sigaction"
            \/ prog[p] = "reread1" /\ pc[p] = "block"
       /\ rereading[p] /\ pc'[p] = "dead" => cause'[p] \notin {"exit", "SIGTERM"}]_vars

\* Every launch either becomes the daemon or exits; none waits for another one.
StartupSettles == \A p \in Proc : <>(pc[p] \in {"pause", "dead"})

\* A daemon in pause() obeys SIGTERM, except a reread1 whose unchecked
\* pthread_create() failed: it has every signal blocked and nobody to take them.
TermStops ==
  \A p \in Proc :
    (/\ pc[p] = "pause" /\ "SIGTERM" \in pending[p]
     /\ prog[p] = "reread1" => thread[p]) ~> pc[p] = "dead"
=============================================================================
