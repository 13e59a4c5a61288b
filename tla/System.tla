------------------------------- MODULE System -------------------------------
(***************************************************************************)
(* The two implementations of system(): 10.signals/16_system ("system",    *)
(* with signal handling, called once by a main() that also has a SIGCHLD   *)
(* handler) and 08.proccontrol/09_systest ("systest", fork, exec and       *)
(* waitpid only, called four times).  The parent is the caller, the child  *)
(* the command of the current call.  The terminal sends SIGINT or SIGQUIT  *)
(* to both at any moment.                                                  *)
(*                                                                         *)
(* sigaction() and sigprocmask() with these arguments do not fail, so      *)
(* their error returns are left out.  No handler can interrupt waitpid()   *)
(* (the only one is sig_child, and SIGCHLD is blocked then), so the retry  *)
(* on EINTR is a stuttering step.                                          *)
(***************************************************************************)
EXTENDS Naturals

CONSTANT MaxInterrupts  \* bound: how often a key is pressed at the terminal

ASSUME MaxInterruptsAssumption == MaxInterrupts \in Nat

Key == {"SIGINT", "SIGQUIT"}

\* How many times main() calls system(): 16_system:104, 09_systest:16,21,26,31.
Calls == [system |-> 1, systest |-> 4]

VARIABLES
  prog,        \* "system" or "systest"
  entry,       \* on entry: the caller's dispositions and whether SIGCHLD is blocked
  autoreap,    \* a dead child leaves no zombie: see Init
  calls,       \* calls of system() that main() has made
  pc,          \* the parent's next system call
  handling,    \* the parent runs sig_child
  disp,        \* the parent's dispositions of SIGINT and SIGQUIT
  chldBlocked, \* SIGCHLD is in the parent's mask
  chldPending, \* SIGCHLD is pending
  child,       \* the child's next step; "none", "zombie" or "gone" when it has none
  childDisp,   \* the child's dispositions of SIGINT and SIGQUIT
  childBlocked,\* SIGCHLD is in the child's mask
  ended,       \* how the last child ended
  status,      \* what system() returns
  failed,      \* fork() failed in the current call
  interrupts   \* keys pressed

parentVars == <<calls, pc, handling, disp, chldBlocked, status, failed>>
childVars == <<child, childDisp, childBlocked, ended>>
fixed == <<prog, entry, autoreap>>
vars == <<fixed, parentVars, chldPending, childVars, interrupts>>

Disposition == [Key -> {"default", "ignore"}]
Alive == {"res_int", "res_quit", "res_mask", "exec", "running"}

\* "exited": the command ran and exited; 127 and 255: /bin/sh could not be run.
Ending == {"none", "exited", "127", "255"} \cup Key

TypeOK ==
  /\ prog \in DOMAIN Calls
  /\ entry \in [disp : Disposition, blocked : BOOLEAN]
  /\ autoreap \in BOOLEAN
  /\ calls \in 0..Calls[prog]
  /\ pc \in {"main", "ign_int", "ign_quit", "block", "fork", "wait", "res_int",
             "res_quit", "res_mask", "return", "done", "killed"}
  /\ handling \in BOOLEAN
  /\ disp \in Disposition /\ childDisp \in Disposition
  /\ chldBlocked \in BOOLEAN /\ chldPending \in BOOLEAN /\ childBlocked \in BOOLEAN
  /\ child \in Alive \cup {"none", "zombie", "gone"}
  /\ ended \in Ending
  /\ status \in Ending \cup {"-1"}
  /\ failed \in BOOLEAN
  /\ interrupts \in 0..MaxInterrupts

\* A background job starts with SIGINT and SIGQUIT ignored.  autoreap: in
\* 16_system main() leaves sa_flags of its action uninitialised (lines 98-100), and
\* SA_NOCLDWAIT may be in it; 09_systest may inherit an ignored SIGCHLD.
Init ==
  /\ prog \in DOMAIN Calls
  /\ entry \in [disp : Disposition, blocked : BOOLEAN]
  /\ autoreap \in BOOLEAN
  /\ calls = 0 /\ pc = "main" /\ handling = FALSE
  /\ disp = entry.disp /\ chldBlocked = entry.blocked
  /\ chldPending = FALSE
  /\ child = "none" /\ childDisp = entry.disp /\ childBlocked = entry.blocked
  /\ ended = "none" /\ status = "none" /\ failed = FALSE
  /\ interrupts = 0

-----------------------------------------------------------------------------
(* The caller.  A handler that runs has stopped the code it interrupted. *)

At(at) == pc = at /\ ~handling

\* main() calls system().
Call ==
  /\ At("main")
  /\ calls' = calls + 1
  /\ pc' = IF prog = "system" THEN "ign_int" ELSE "fork"
  /\ UNCHANGED <<fixed, handling, disp, chldBlocked, status, failed, chldPending, childVars, interrupts>>

\* sigaction(s, &ignored, &saved)
Ignore(s, at, next) ==
  /\ At(at)
  /\ disp' = [disp EXCEPT ![s] = "ignore"]
  /\ pc' = next
  /\ UNCHANGED <<fixed, calls, handling, chldBlocked, status, failed, chldPending, childVars, interrupts>>

IgnoreInt == Ignore("SIGINT", "ign_int", "ign_quit")

\* Mutant: SIGQUIT is not ignored.
IgnoreQuit_Missing ==
  /\ At("ign_quit")
  /\ pc' = "block"
  /\ UNCHANGED <<fixed, calls, handling, disp, chldBlocked, status, failed, chldPending, childVars, interrupts>>

IgnoreQuit == Ignore("SIGQUIT", "ign_quit", "block")

\* Mutant: SIGCHLD is not blocked.
BlockChld_Missing ==
  /\ At("block")
  /\ pc' = "fork"
  /\ UNCHANGED <<fixed, calls, handling, disp, chldBlocked, status, failed, chldPending, childVars, interrupts>>

BlockChld ==
  /\ At("block")
  /\ chldBlocked' = TRUE
  /\ pc' = "fork"
  /\ UNCHANGED <<fixed, calls, handling, disp, status, failed, chldPending, childVars, interrupts>>

\* The child inherits the dispositions and the mask of the parent.
Fork ==
  /\ At("fork")
  /\ child' = IF prog = "system" THEN "res_int" ELSE "exec"
  /\ childDisp' = disp /\ childBlocked' = chldBlocked
  /\ ended' = "none"
  /\ pc' = "wait"
  /\ UNCHANGED <<fixed, calls, handling, disp, chldBlocked, status, failed, chldPending, interrupts>>

\* system() returns -1 at once; 16_system leaves what it has changed so far.
ForkFails ==
  /\ At("fork")
  /\ status' = "-1" /\ failed' = TRUE
  /\ pc' = "return"
  /\ UNCHANGED <<fixed, calls, handling, disp, chldBlocked, chldPending, childVars, interrupts>>

\* Mutant: every failure of waitpid() is retried, not only EINTR.
WaitPid_RetriesAll ==
  /\ At("wait")
  /\ child = "zombie"
  /\ status' = ended /\ child' = "gone"
  /\ pc' = IF prog = "system" THEN "res_int" ELSE "return"
  /\ UNCHANGED <<fixed, calls, handling, disp, chldBlocked, failed, chldPending, childDisp, childBlocked, ended, interrupts>>

\* waitpid(pid, ...) blocks while the child lives; without a child to wait for it
\* fails with ECHILD and the status is -1.
WaitPid ==
  /\ At("wait")
  /\ \/ child = "zombie" /\ status' = ended /\ child' = "gone"
     \/ child = "gone" /\ status' = "-1" /\ UNCHANGED child
  /\ pc' = IF prog = "system" THEN "res_int" ELSE "return"
  /\ UNCHANGED <<fixed, calls, handling, disp, chldBlocked, failed, chldPending, childDisp, childBlocked, ended, interrupts>>

\* sigaction(s, &saved, NULL)
Restore(s, at, next) ==
  /\ At(at)
  /\ disp' = [disp EXCEPT ![s] = entry.disp[s]]
  /\ pc' = next
  /\ UNCHANGED <<fixed, calls, handling, chldBlocked, status, failed, chldPending, childVars, interrupts>>

RestoreInt == Restore("SIGINT", "res_int", "res_quit")

RestoreQuit == Restore("SIGQUIT", "res_quit", "res_mask")

RestoreMask ==
  /\ At("res_mask")
  /\ chldBlocked' = entry.blocked
  /\ pc' = "return"
  /\ UNCHANGED <<fixed, calls, handling, disp, status, failed, chldPending, childVars, interrupts>>

\* main() gives up after a negative result and after its last call.
Return ==
  /\ At("return")
  /\ pc' = IF status = "-1" \/ calls = Calls[prog] THEN "done" ELSE "main"
  /\ UNCHANGED <<fixed, calls, handling, disp, chldBlocked, status, failed, chldPending, childVars, interrupts>>

Parent ==
  \/ Call \/ IgnoreInt \/ IgnoreQuit \/ BlockChld \/ Fork \/ ForkFails \/ WaitPid
  \/ RestoreInt \/ RestoreQuit \/ RestoreMask \/ Return

\* SIGCHLD is delivered.  Only 16_system has a handler; elsewhere it is discarded.
DeliverChld ==
  /\ chldPending /\ ~chldBlocked /\ ~handling /\ pc \notin {"done", "killed"}
  /\ chldPending' = FALSE
  /\ handling' = (prog = "system")
  /\ UNCHANGED <<fixed, calls, pc, disp, chldBlocked, status, failed, childVars, interrupts>>

\* sig_child(): waitpid(-1, ...) takes any dead child, waits for a living one, and
\* gives up with ECHILD when there is none.
HandlerWait ==
  /\ handling /\ pc # "killed"
  /\ child \notin Alive
  /\ child' = IF child = "zombie" THEN "gone" ELSE child
  /\ handling' = FALSE
  /\ UNCHANGED <<fixed, calls, pc, disp, chldBlocked, status, failed, chldPending, childDisp, childBlocked, ended, interrupts>>

-----------------------------------------------------------------------------
(* The command *)

\* Mutant: the child does not restore SIGQUIT before it runs the command.
ChildRestore_IntOnly ==
  /\ child \in {"res_int", "res_quit", "res_mask"}
  /\ \/ /\ child = "res_int" /\ child' = "res_quit"
        /\ childDisp' = [childDisp EXCEPT !["SIGINT"] = entry.disp["SIGINT"]]
        /\ UNCHANGED childBlocked
     \/ /\ child = "res_quit" /\ child' = "res_mask"
        /\ UNCHANGED <<childDisp, childBlocked>>
     \/ /\ child = "res_mask" /\ child' = "exec"
        /\ childBlocked' = entry.blocked
        /\ UNCHANGED childDisp
  /\ UNCHANGED <<fixed, parentVars, chldPending, ended, interrupts>>

\* 16_system: what the caller had, one call after the other, before the exec.
ChildRestore ==
  /\ child \in {"res_int", "res_quit", "res_mask"}
  /\ \/ /\ child = "res_int" /\ child' = "res_quit"
        /\ childDisp' = [childDisp EXCEPT !["SIGINT"] = entry.disp["SIGINT"]]
        /\ UNCHANGED childBlocked
     \/ /\ child = "res_quit" /\ child' = "res_mask"
        /\ childDisp' = [childDisp EXCEPT !["SIGQUIT"] = entry.disp["SIGQUIT"]]
        /\ UNCHANGED childBlocked
     \/ /\ child = "res_mask" /\ child' = "exec"
        /\ childBlocked' = entry.blocked
        /\ UNCHANGED childDisp
  /\ UNCHANGED <<fixed, parentVars, chldPending, ended, interrupts>>

\* The child ends; the kernel keeps a zombie, unless told not to, and sends SIGCHLD.
ChildEnds(how) ==
  /\ ended' = how
  /\ child' = IF autoreap THEN "gone" ELSE "zombie"
  /\ chldPending' = TRUE

\* execl("/bin/sh", ...); when it fails 16_system exits with -1 (255), 09_systest
\* with 127.
Exec ==
  /\ child = "exec"
  /\ \/ child' = "running" /\ UNCHANGED <<ended, chldPending>>
     \/ ChildEnds(IF prog = "system" THEN "255" ELSE "127")
  /\ UNCHANGED <<fixed, parentVars, childDisp, childBlocked, interrupts>>

CommandExits ==
  /\ child = "running"
  /\ ChildEnds("exited")
  /\ UNCHANGED <<fixed, parentVars, childDisp, childBlocked, interrupts>>

Child == ChildRestore \/ Exec \/ CommandExits

\* A key is pressed: the signal goes to the whole foreground process group.
Interrupt(s) ==
  /\ pc \notin {"done", "killed"}
  /\ interrupts < MaxInterrupts
  /\ interrupts' = interrupts + 1
  /\ pc' = IF disp[s] = "default" THEN "killed" ELSE pc
  /\ IF child \in Alive /\ childDisp[s] = "default"
       THEN ChildEnds(s)
       ELSE UNCHANGED <<child, ended, chldPending>>
  /\ UNCHANGED <<fixed, calls, handling, disp, chldBlocked, status, failed, childDisp, childBlocked>>

Next == Parent \/ DeliverChld \/ HandlerWait \/ Child \/ \E s \in Key : Interrupt(s)

\* Both processes are scheduled, the command ends and signals are delivered.
Fairness ==
  WF_vars(Parent) /\ WF_vars(DeliverChld) /\ WF_vars(HandlerWait) /\ WF_vars(Child)

Spec == Init /\ [][Next]_vars /\ Fairness

-----------------------------------------------------------------------------
\* system() has waited and returns the status of its own command: blocking SIGCHLD
\* keeps sig_child, whose waitpid(-1) takes any child, from reaping it first.  (With
\* SA_NOCLDWAIT or an ignored SIGCHLD there is no status to get and it is -1.)
StatusIsTheCommands ==
  pc \in {"res_int", "res_quit", "res_mask", "return"} /\ ~failed =>
    status = IF autoreap THEN "-1" ELSE ended

\* 16_system: a key that ends the command does not end its caller: SIGINT and
\* SIGQUIT cannot kill the caller while a child of it lives or is not reaped.
CallerOutlivesCommand ==
  [][prog = "system" /\ pc # "killed" /\ pc' = "killed" =>
       child \in {"none", "gone"}]_vars

\* 16_system: the command runs with the signals of the caller, not with the ones
\* system() has set for itself, and the caller has them back when system() returns;
\* except that a failed fork() (lines 32-34) returns with both keys ignored and
\* SIGCHLD blocked.
SignalsAsTheCallerHadThem ==
  /\ child = "running" => childDisp = entry.disp /\ childBlocked = entry.blocked
  /\ pc = "return" /\ ~failed => disp = entry.disp /\ chldBlocked = entry.blocked

\* Every call of system() returns, so main() ends, if no key kills it.
CallsReturn == <>(pc \in {"done", "killed"})
=============================================================================
