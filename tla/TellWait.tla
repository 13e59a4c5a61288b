------------------------------ MODULE TellWait ------------------------------
(***************************************************************************)
(* Parent and child that take turns with SIGUSR1: 10.signals/14_tell_wait  *)
(* in its two builds (PARENT_FIRST 0, "child_first", and PARENT_FIRST 1,   *)
(* "parent_first"), 14.advio/02_deadlock ("deadlock", one byte of a file   *)
(* locked by each and then the other's byte wanted) and                    *)
(* 14.advio/04_mandatory ("mandatory", both want the whole file).          *)
(*                                                                         *)
(* tell_wait() blocks SIGUSR1 before fork(); a tell is kill(SIGUSR1), a    *)
(* wait is `while (!flag) sigsuspend(&empty)'.  The four programs are the  *)
(* same system calls in different orders, so a program is a sequence of    *)
(* operations for each role and there is one action per operation.  Locks  *)
(* are taken with F_SETLK, which never waits.                              *)
(***************************************************************************)
EXTENDS Naturals, Sequences

Role == {"parent", "child"}
Peer(r) == IF r = "parent" THEN "child" ELSE "parent"
Program == {"child_first", "parent_first", "deadlock", "mandatory"}

\* Bytes of the file that the two processes may lock.
Byte == {0, 1}

Op(name) == [op |-> name, bytes |-> {}]
Lk(bytes) == [op |-> "lock", bytes |-> bytes]

\* tell_wait(), fork(), and the end of main(), common to all.
Start == <<Op("tell_wait"), Op("fork")>>
End == <<Op("exit")>>

\* wait_parent() and wait_child() of 14_tell_wait; the loop, then the two
\* statements after it.
WaitAndReset == <<Op("wait"), Op("clear"), Op("restore")>>

\* 14_tell_wait.c, main().
TellWaitMain(parentFirst, r) ==
  CASE r = "parent" -> Start \o (IF parentFirst THEN <<Op("tell")>> ELSE WaitAndReset) \o End
    [] r = "child"  -> (IF parentFirst THEN WaitAndReset ELSE <<Op("tell")>>) \o End

\* Mutant: each process tells the other before it has taken its own lock.
DeadlockMain_TellsFirst(r) ==
  CASE r = "parent" -> Start \o <<Op("tell"), Lk({1}), Op("wait"), Op("restore"), Lk({0})>> \o End
    [] r = "child"  -> <<Op("tell"), Lk({0}), Op("wait"), Op("restore"), Lk({1})>> \o End

\* Mutant: both processes wait before they tell.
DeadlockMain_WaitsFirst(r) ==
  CASE r = "parent" -> Start \o <<Lk({1}), Op("wait"), Op("tell"), Op("restore"), Lk({0})>> \o End
    [] r = "child"  -> <<Lk({0}), Op("wait"), Op("tell"), Op("restore"), Lk({1})>> \o End

\* 02_deadlock.c, main(): each locks its byte, tells, waits, wants the other's
\* byte.  wait() does not reset the flag.
DeadlockMain(r) ==
  CASE r = "parent" -> Start \o <<Lk({1}), Op("tell"), Op("wait"), Op("restore"), Lk({0})>> \o End
    [] r = "child"  -> <<Lk({0}), Op("tell"), Op("wait"), Op("restore"), Lk({1})>> \o End

\* 04_mandatory.c, main(): the child keeps the whole file locked while the parent
\* tries to lock it, and waits with one bare sigsuspend().
MandatoryMain(r) ==
  CASE r = "parent" -> Start \o <<Op("wait"), Op("clear"), Lk(Byte), Op("tell"), Op("restore")>> \o End
    [] r = "child"  -> <<Lk(Byte), Op("tell"), Op("suspend"), Op("restore")>> \o End

Code(program, r) ==
  CASE program = "child_first"  -> TellWaitMain(FALSE, r)
    [] program = "parent_first" -> TellWaitMain(TRUE, r)
    [] program = "deadlock"     -> DeadlockMain(r)
    [] program = "mandatory"    -> MandatoryMain(r)

VARIABLES
  prog,     \* the program that runs
  old,      \* whether SIGUSR1 was blocked when the program was started (old_mask)
  place,    \* index of the next operation; 0: not forked yet, Len + 1: gone
  step,     \* inside a wait: flag found 0 ("checked"), in sigsuspend ("suspended")
  blocked,  \* SIGUSR1 is in the signal mask
  pending,  \* SIGUSR1 is pending
  flag,     \* the flag the handler sets
  holds     \* bytes the process has locked

turnsVars == <<prog, old, place, step, blocked, pending, flag, holds>>
sigVars == <<blocked, pending, flag>>

TypeOK ==
  /\ prog \in Program
  /\ old \in BOOLEAN
  /\ \A r \in Role : place[r] \in 0..(Len(Code(prog, r)) + 1)
  /\ step \in [Role -> {"run", "checked", "suspended"}]
  /\ blocked \in [Role -> BOOLEAN]
  /\ pending \in [Role -> BOOLEAN]
  /\ flag \in [Role -> {0, 1}]
  /\ holds \in [Role -> SUBSET Byte]

TurnsInit ==
  /\ prog \in Program
  /\ old \in BOOLEAN
  /\ place = [r \in Role |-> IF r = "parent" THEN 1 ELSE 0]
  /\ step = [r \in Role |-> "run"]
  /\ blocked = [r \in Role |-> old]
  /\ pending = [r \in Role |-> FALSE]
  /\ flag = [r \in Role |-> 0]
  /\ holds = [r \in Role |-> {}]

-----------------------------------------------------------------------------
Gone(r) == place[r] = Len(Code(prog, r)) + 1
Alive(r) == place[r] > 0 /\ ~Gone(r)
Current(r) == Code(prog, r)[place[r]]
At(r, name) == Alive(r) /\ Current(r).op = name
Advance(r) == place' = [place EXCEPT ![r] = @ + 1]

\* The process ends: its locks are released.
Leave(r) ==
  /\ place' = [place EXCEPT ![r] = Len(Code(prog, r)) + 1]
  /\ holds' = [holds EXCEPT ![r] = {}]
  /\ step' = [step EXCEPT ![r] = "run"]

\* Mutant: tell_wait() installs the handler and does not block the signal.
TellWait_NoBlock(r) ==
  /\ At(r, "tell_wait")
  /\ Advance(r)
  /\ UNCHANGED <<prog, old, step, blocked, pending, flag, holds>>

\* tell_wait(): before fork() nobody can send the signal, so the order of its
\* two system calls, which differs between the files, cannot be seen, and the
\* handler is there whenever a signal is.
TellWait(r) ==
  /\ At(r, "tell_wait")
  /\ blocked' = [blocked EXCEPT ![r] = TRUE]
  /\ Advance(r)
  /\ UNCHANGED <<prog, old, step, pending, flag, holds>>

\* The child starts with the parent's mask and flag, and with no pending
\* signal and no lock.
Fork(r) ==
  /\ At(r, "fork")
  /\ place' = [place EXCEPT ![r] = @ + 1, ![Peer(r)] = 1]
  /\ blocked' = [blocked EXCEPT ![Peer(r)] = blocked[r]]
  /\ flag' = [flag EXCEPT ![Peer(r)] = flag[r]]
  /\ UNCHANGED <<prog, old, step, pending, holds>>

ForkFails(r) ==
  /\ At(r, "fork")
  /\ Leave(r)
  /\ UNCHANGED <<prog, old, sigVars>>

\* lock_a_byte() and lockfile(): F_SETLK; a refusal is only reported.
Lock(r) ==
  /\ At(r, "lock")
  /\ holds' = IF holds[Peer(r)] \cap Current(r).bytes = {}
                THEN [holds EXCEPT ![r] = @ \cup Current(r).bytes]
                ELSE holds
  /\ Advance(r)
  /\ UNCHANGED <<prog, old, step, sigVars>>

\* kill(pid, SIGUSR1); getppid() of an orphan names init, not the parent.
Tell(r) ==
  /\ At(r, "tell")
  /\ pending' = IF Gone(Peer(r)) THEN pending ELSE [pending EXCEPT ![Peer(r)] = TRUE]
  /\ Advance(r)
  /\ UNCHANGED <<prog, old, step, blocked, flag, holds>>

\* Mutant: while (flag) instead of while (!flag).
CheckFlag_Inverted(r) ==
  /\ At(r, "wait") /\ step[r] = "run"
  /\ \/ flag[r] = 0 /\ Advance(r) /\ UNCHANGED step
     \/ flag[r] = 1 /\ step' = [step EXCEPT ![r] = "checked"] /\ UNCHANGED place
  /\ UNCHANGED <<prog, old, sigVars, holds>>

\* The condition of `while (!flag)'.
CheckFlag(r) ==
  /\ At(r, "wait") /\ step[r] = "run"
  /\ \/ flag[r] = 1 /\ Advance(r) /\ UNCHANGED step
     \/ flag[r] = 0 /\ step' = [step EXCEPT ![r] = "checked"] /\ UNCHANGED place
  /\ UNCHANGED <<prog, old, sigVars, holds>>

\* sigsuspend(&empty): SIGUSR1 is unblocked for as long as the call lasts.
Suspend(r) ==
  /\ \/ At(r, "wait") /\ step[r] = "checked"
     \/ At(r, "suspend") /\ step[r] = "run"
  /\ step' = [step EXCEPT ![r] = "suspended"]
  /\ UNCHANGED <<prog, old, place, sigVars, holds>>

\* sig_usr1() / usr_handler() runs, in sigsuspend(), which then returns, or
\* wherever the process is when the signal is not blocked.
Deliver(r) ==
  /\ Alive(r) /\ pending[r]
  /\ step[r] = "suspended" \/ ~blocked[r]
  /\ pending' = [pending EXCEPT ![r] = FALSE]
  /\ flag' = [flag EXCEPT ![r] = 1]
  /\ step' = [step EXCEPT ![r] = IF @ = "suspended" THEN "run" ELSE @]
  /\ place' = [place EXCEPT ![r] = IF At(r, "suspend") /\ step[r] = "suspended" THEN @ + 1 ELSE @]
  /\ UNCHANGED <<prog, old, blocked, holds>>

ClearFlag(r) ==
  /\ At(r, "clear")
  /\ flag' = [flag EXCEPT ![r] = 0]
  /\ Advance(r)
  /\ UNCHANGED <<prog, old, step, blocked, pending, holds>>

RestoreMask(r) ==
  /\ At(r, "restore")
  /\ blocked' = [blocked EXCEPT ![r] = old]
  /\ Advance(r)
  /\ UNCHANGED <<prog, old, step, pending, flag, holds>>

Exit(r) ==
  /\ At(r, "exit")
  /\ Leave(r)
  /\ UNCHANGED <<prog, old, sigVars>>

\* What a process does by itself, except that its fork() need not fail.
Run(r) ==
  \/ TellWait(r) \/ Fork(r) \/ ForkFails(r) \/ Lock(r) \/ Tell(r)
  \/ CheckFlag(r) \/ Suspend(r) \/ ClearFlag(r) \/ RestoreMask(r) \/ Exit(r)

TurnsNext == \E r \in Role : Run(r) \/ Deliver(r)

\* Both processes are scheduled and a deliverable signal is delivered.
Fairness == \A r \in Role : WF_turnsVars(Run(r)) /\ WF_turnsVars(Deliver(r))

TurnsSpec == TurnsInit /\ [][TurnsNext]_turnsVars /\ Fairness

-----------------------------------------------------------------------------
\* Whether r has made its tell.
Told(r) == \E i \in 1..(place[r] - 1) : Code(prog, r)[i].op = "tell"

\* wait_parent(), wait_child() and the sigsuspend() of 04_mandatory:36 return only
\* after the other process has called its tell function.
WaitsForTheTell ==
  \A r \in Role :
    (\E i \in 1..(place[r] - 1) : Code(prog, r)[i].op \in {"wait", "suspend"})
      => Told(Peer(r)) \/ place["child"] = 0

\* The handlers run only inside sigsuspend(): the printf() in sig_usr1 of
\* 02_deadlock:59 can never interrupt a printf() of main().
HandlerOnlyInSuspend ==
  [][\A r \in Role : pending[r] /\ ~pending'[r] => step[r] = "suspended"]_turnsVars

\* The locks do what the programs are written to show, in every schedule.  In
\* 02_deadlock a process gets the other's byte only when the other has exited (each
\* refusal stands for the deadlock of F_SETLKW); in 04_mandatory the child still
\* holds the file when the parent tries, so the parent is refused.
LocksRefused ==
  [][/\ prog = "deadlock" =>
          \A r \in Role : holds'[r] = Byte /\ holds[r] # Byte => Gone(Peer(r))
     /\ prog = "mandatory" => holds'["parent"] = {}]_turnsVars

\* A SIGUSR1 that arrives between the test of the flag and sigsuspend() is not
\* lost, and nobody waits for a process that waits: both processes exit.
BothExit == <>(Gone("parent") /\ (place["child"] = 0 \/ Gone("child")))
=============================================================================
