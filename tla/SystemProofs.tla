---------------------------- MODULE SystemProofs ----------------------------
(***************************************************************************)
(* For any number of keys pressed: system() returns the status of its own  *)
(* command, the command and the caller have the caller's signals, and no   *)
(* key ends the caller before its command is reaped.                       *)
(***************************************************************************)
EXTENDS System, TLAPS

\* The parent is between its first and its last call on the mask (16_system:27-69).
Shielded == {"fork", "wait", "res_int", "res_quit", "res_mask"}

\* The child lives or is a zombie only while system() waits for it, and is reaped
\* behind the back of system() only by the kernel.
ChildInv ==
  /\ child \in Alive \cup {"zombie"} => pc \in {"wait", "killed"}
  /\ pc = "wait" => child # "none"
  /\ child = "zombie" => ~autoreap
  /\ pc = "wait" /\ child = "gone" => autoreap

\* sig_child runs only in 16_system, and never between sigprocmask() and its undoing.
HandlerInv ==
  /\ handling => prog = "system" /\ pc \notin Shielded
  /\ prog = "system" /\ pc \in Shielded => chldBlocked

\* After a failed fork() main() makes no further call.
FailedInv == failed => status = "-1" /\ pc \in {"return", "done", "killed"}

\* 16_system: which signals the caller has changed so far, and which it has restored.
CallerSignals ==
  prog = "system" =>
    /\ pc \in {"main", "ign_int"} => disp = entry.disp
    /\ pc \in {"main", "ign_int", "ign_quit", "block"} => chldBlocked = entry.blocked
    /\ pc \in {"ign_quit", "block", "fork", "wait", "res_int"} => disp["SIGINT"] = "ignore"
    /\ pc \in {"block", "fork", "wait", "res_int", "res_quit"} => disp["SIGQUIT"] = "ignore"
    /\ pc \in {"res_quit", "res_mask", "return"} /\ ~failed =>
         disp["SIGINT"] = entry.disp["SIGINT"]
    /\ pc \in {"res_mask", "return"} /\ ~failed => disp["SIGQUIT"] = entry.disp["SIGQUIT"]
    /\ pc = "return" /\ ~failed => chldBlocked = entry.blocked

\* 16_system: which signals the child has restored; 09_systest changes none.
ChildSignals ==
  /\ prog = "systest" => /\ disp = entry.disp /\ chldBlocked = entry.blocked
                         /\ pc \in {"main", "fork", "wait", "return", "done", "killed"}
                         /\ child \notin {"res_int", "res_quit", "res_mask"}
  /\ child \in {"res_quit", "res_mask", "exec", "running"} =>
       childDisp["SIGINT"] = entry.disp["SIGINT"]
  /\ child \in {"res_mask", "exec", "running"} =>
       childDisp["SIGQUIT"] = entry.disp["SIGQUIT"]
  /\ child \in {"exec", "running"} => childBlocked = entry.blocked

\* main() calls system() at most as often as it is written to.
CallsInv == pc = "main" => calls # Calls[prog]

\* Where the processes are, and what has become of the child.
ControlInv == ChildInv /\ HandlerInv /\ FailedInv /\ CallsInv /\ StatusIsTheCommands

IInv == TypeOK /\ ControlInv /\ CallerSignals /\ ChildSignals

-----------------------------------------------------------------------------
\* Two dispositions are the same when they agree on both keys.
LEMMA DispositionEqual ==
  ASSUME NEW d \in Disposition, NEW e \in Disposition,
         d["SIGINT"] = e["SIGINT"], d["SIGQUIT"] = e["SIGQUIT"]
  PROVE  d = e
  BY DEF Disposition, Key

\* sigaction() changes the disposition of one key and not of the other.
LEMMA DispositionUpdate ==
  ASSUME NEW d \in Disposition, NEW s \in Key, NEW v \in {"default", "ignore"}
  PROVE  /\ [d EXCEPT ![s] = v] \in Disposition
         /\ [d EXCEPT ![s] = v][s] = v
         /\ \A t \in Key \ {s} : [d EXCEPT ![s] = v][t] = d[t]
  BY DEF Disposition

\* How often each program calls system().
LEMMA CallsValues ==
  DOMAIN Calls = {"system", "systest"} /\ Calls["system"] = 1 /\ Calls["systest"] = 4
  BY DEF Calls

\* What the caller had is a disposition of each key and a Boolean.
LEMMA EntryType ==
  ASSUME TypeOK
  PROVE  /\ entry.disp \in Disposition /\ entry.blocked \in BOOLEAN
         /\ \A s \in Key : entry.disp[s] \in {"default", "ignore"}
  BY DEF TypeOK, Disposition

\* On entry nothing has been changed and there is no child.
LEMMA InitIInv == Init => IInv
<1> SUFFICES ASSUME Init PROVE IInv OBVIOUS
<1>1. entry.disp \in Disposition /\ entry.blocked \in BOOLEAN BY DEF Init
<1>2. TypeOK
  <2>1. /\ chldBlocked \in BOOLEAN /\ childBlocked \in BOOLEAN /\ chldPending \in BOOLEAN
        /\ handling \in BOOLEAN /\ failed \in BOOLEAN
    BY <1>1 DEF Init
  <2>2. disp \in Disposition /\ childDisp \in Disposition BY <1>1 DEF Init
  <2>3. calls \in 0..Calls[prog] /\ interrupts \in 0..MaxInterrupts
    BY MaxInterruptsAssumption, CallsValues DEF Init
  <2> QED BY <2>1, <2>2, <2>3 DEF Init, TypeOK, Alive, Ending
<1>3. ControlInv
  BY CallsValues
  DEF Init, ControlInv, ChildInv, HandlerInv, FailedInv, CallsInv, StatusIsTheCommands,
      Shielded, Alive
<1>4. CallerSignals /\ ChildSignals BY DEF Init, CallerSignals, ChildSignals
<1> QED BY <1>2, <1>3, <1>4 DEF IInv

\* Every system call of either process, every delivery and every key preserves the
\* invariant.
LEMMA NextIInv == IInv /\ [Next]_vars => IInv'
<1> SUFFICES ASSUME IInv, [Next]_vars PROVE IInv' OBVIOUS
<1> USE DEF IInv, At, fixed, parentVars, childVars
<1>1. CASE Call
  <2>1. TypeOK'
    BY <1>1, CallsValues
    DEF TypeOK, ControlInv, CallsInv, Call
  <2>2. ControlInv'
    BY <1>1
    DEF TypeOK, Call, ControlInv, ChildInv, HandlerInv, FailedInv, CallsInv,
        StatusIsTheCommands, Shielded, Alive
  <2>3. (CallerSignals /\ ChildSignals)'
    BY <1>1
    DEF TypeOK, Call, CallerSignals, ChildSignals, ControlInv, FailedInv
  <2> QED BY <2>1, <2>2, <2>3
<1>2. CASE IgnoreInt
  <2>1. TypeOK'
    BY <1>2, DispositionUpdate
    DEF TypeOK, IgnoreInt, Ignore, Key
  <2>2. ControlInv'
    BY <1>2
    DEF TypeOK, IgnoreInt, Ignore, ControlInv, ChildInv, HandlerInv, FailedInv, CallsInv,
        StatusIsTheCommands, Shielded, Alive
  <2>3. disp'["SIGINT"] = "ignore" /\ disp'["SIGQUIT"] = disp["SIGQUIT"]
    BY <1>2 DEF TypeOK, IgnoreInt, Ignore, Disposition, Key
  <2>4. (CallerSignals /\ ChildSignals)'
    BY <1>2, <2>3
    DEF TypeOK, IgnoreInt, Ignore, CallerSignals, ChildSignals, ControlInv, FailedInv, Key
  <2> QED BY <2>1, <2>2, <2>4
<1>3. CASE IgnoreQuit
  <2>1. TypeOK'
    BY <1>3, DispositionUpdate
    DEF TypeOK, IgnoreQuit, Ignore, Key
  <2>2. ControlInv'
    BY <1>3
    DEF TypeOK, IgnoreQuit, Ignore, ControlInv, ChildInv, HandlerInv, FailedInv, CallsInv,
        StatusIsTheCommands, Shielded, Alive
  <2>3. disp'["SIGQUIT"] = "ignore" /\ disp'["SIGINT"] = disp["SIGINT"]
    BY <1>3 DEF TypeOK, IgnoreQuit, Ignore, Disposition, Key
  <2>4. (CallerSignals /\ ChildSignals)'
    BY <1>3, <2>3
    DEF TypeOK, IgnoreQuit, Ignore, CallerSignals, ChildSignals, ControlInv, FailedInv, Key
  <2> QED BY <2>1, <2>2, <2>4
<1>4. CASE BlockChld
  <2>1. TypeOK'
    BY <1>4
    DEF TypeOK, BlockChld
  <2>2. ControlInv'
    BY <1>4
    DEF TypeOK, BlockChld, ControlInv, ChildInv, HandlerInv, FailedInv, CallsInv,
        StatusIsTheCommands, Shielded, Alive
  <2>3. (CallerSignals /\ ChildSignals)'
    BY <1>4
    DEF TypeOK, BlockChld, CallerSignals, ChildSignals, ControlInv, FailedInv
  <2> QED BY <2>1, <2>2, <2>3
<1>5. CASE Fork
  <2>1. TypeOK'
    BY <1>5
    DEF TypeOK, Fork, Alive, Ending
  <2>2. ControlInv'
    BY <1>5
    DEF TypeOK, Fork, ControlInv, ChildInv, HandlerInv, FailedInv, CallsInv,
        StatusIsTheCommands, Shielded, Alive
  <2>3. (CallerSignals /\ ChildSignals)'
    BY <1>5, CallsValues
    DEF TypeOK, Fork, CallerSignals, ChildSignals, ControlInv, FailedInv, HandlerInv,
        Shielded, Alive
  <2> QED BY <2>1, <2>2, <2>3
<1>6. CASE ForkFails
  <2>1. TypeOK'
    BY <1>6
    DEF TypeOK, ForkFails, Alive, Ending
  <2>2. ControlInv'
    BY <1>6
    DEF TypeOK, ForkFails, ControlInv, ChildInv, HandlerInv, FailedInv, CallsInv,
        StatusIsTheCommands, Shielded, Alive
  <2>3. (CallerSignals /\ ChildSignals)'
    BY <1>6
    DEF TypeOK, ForkFails, CallerSignals, ChildSignals, ControlInv, FailedInv, Alive
  <2> QED BY <2>1, <2>2, <2>3
<1>7. CASE WaitPid
  <2>1. TypeOK'
    BY <1>7
    DEF TypeOK, WaitPid, Alive, Ending
  <2>2. ControlInv'
    BY <1>7
    DEF TypeOK, WaitPid, ControlInv, ChildInv, HandlerInv, FailedInv, CallsInv,
        StatusIsTheCommands, Shielded, Alive
  <2>3. (CallerSignals /\ ChildSignals)'
    BY <1>7
    DEF TypeOK, WaitPid, CallerSignals, ChildSignals, ControlInv, FailedInv, Alive
  <2> QED BY <2>1, <2>2, <2>3
<1>8. CASE RestoreInt
  <2>1. TypeOK'
    BY <1>8, EntryType, DispositionUpdate
    DEF TypeOK, RestoreInt, Restore, Alive, Key
  <2>2. ControlInv'
    BY <1>8
    DEF TypeOK, RestoreInt, Restore, ControlInv, ChildInv, HandlerInv, FailedInv, CallsInv,
        StatusIsTheCommands, Shielded, Alive
  <2>3. disp'["SIGINT"] = entry.disp["SIGINT"] /\ disp'["SIGQUIT"] = disp["SIGQUIT"]
    BY <1>8 DEF TypeOK, RestoreInt, Restore, Disposition, Key
  <2>4. (CallerSignals /\ ChildSignals)'
    BY <1>8, <2>3
    DEF TypeOK, RestoreInt, Restore, CallerSignals, ChildSignals, ControlInv, FailedInv, Key,
        Alive
  <2> QED BY <2>1, <2>2, <2>4
<1>9. CASE RestoreQuit
  <2>1. TypeOK'
    BY <1>9, EntryType, DispositionUpdate
    DEF TypeOK, RestoreQuit, Restore, Alive, Key
  <2>2. ControlInv'
    BY <1>9
    DEF TypeOK, RestoreQuit, Restore, ControlInv, ChildInv, HandlerInv, FailedInv, CallsInv,
        StatusIsTheCommands, Shielded, Alive
  <2>3. disp'["SIGQUIT"] = entry.disp["SIGQUIT"] /\ disp'["SIGINT"] = disp["SIGINT"]
    BY <1>9 DEF TypeOK, RestoreQuit, Restore, Disposition, Key
  <2>4. (CallerSignals /\ ChildSignals)'
    BY <1>9, <2>3
    DEF TypeOK, RestoreQuit, Restore, CallerSignals, ChildSignals, ControlInv, FailedInv,
        Key, Alive
  <2> QED BY <2>1, <2>2, <2>4
<1>10. CASE RestoreMask
  <2>1. TypeOK'
    BY <1>10, EntryType
    DEF TypeOK, RestoreMask, Alive
  <2>2. ControlInv'
    BY <1>10
    DEF TypeOK, RestoreMask, ControlInv, ChildInv, HandlerInv, FailedInv, CallsInv,
        StatusIsTheCommands, Shielded, Alive
  <2>3. (CallerSignals /\ ChildSignals)'
    BY <1>10
    DEF TypeOK, RestoreMask, CallerSignals, ChildSignals, ControlInv, FailedInv, Alive
  <2> QED BY <2>1, <2>2, <2>3
<1>11. CASE Return
  <2>1. TypeOK'
    BY <1>11
    DEF TypeOK, Return, Alive
  <2>2. ControlInv'
    BY <1>11
    DEF TypeOK, Return, ControlInv, ChildInv, HandlerInv, FailedInv, CallsInv,
        StatusIsTheCommands, Shielded, Alive
  <2>3. (CallerSignals /\ ChildSignals)'
    BY <1>11, DispositionEqual, EntryType
    DEF TypeOK, Return, CallerSignals, ChildSignals, ControlInv, FailedInv, Alive
  <2> QED BY <2>1, <2>2, <2>3
<1>12. CASE DeliverChld
  <2>1. TypeOK'
    BY <1>12
    DEF TypeOK, DeliverChld, Alive
  <2>2. ControlInv'
    BY <1>12
    DEF TypeOK, DeliverChld, ControlInv, ChildInv, HandlerInv, FailedInv, CallsInv,
        StatusIsTheCommands, Shielded, Alive
  <2>3. (CallerSignals /\ ChildSignals)'
    BY <1>12
    DEF TypeOK, DeliverChld, CallerSignals, ChildSignals, ControlInv, FailedInv, Alive
  <2> QED BY <2>1, <2>2, <2>3
<1>13. CASE HandlerWait
  <2>1. TypeOK'
    BY <1>13
    DEF TypeOK, HandlerWait, Alive
  <2>2. ControlInv'
    BY <1>13
    DEF TypeOK, HandlerWait, ControlInv, ChildInv, HandlerInv, FailedInv, CallsInv,
        StatusIsTheCommands, Shielded, Alive
  <2>3. (CallerSignals /\ ChildSignals)'
    BY <1>13
    DEF TypeOK, HandlerWait, CallerSignals, ChildSignals, ControlInv, FailedInv, Alive
  <2> QED BY <2>1, <2>2, <2>3
<1>14. CASE ChildRestore
  <2>1. TypeOK'
    <3>1. childBlocked' \in BOOLEAN /\ child' \in Alive
      BY <1>14, EntryType DEF TypeOK, ChildRestore, Alive
    <3>2. childDisp' \in Disposition
      <4>1. [childDisp EXCEPT !["SIGINT"] = entry.disp["SIGINT"]] \in Disposition
        BY EntryType, DispositionUpdate DEF TypeOK, Key
      <4>2. [childDisp EXCEPT !["SIGQUIT"] = entry.disp["SIGQUIT"]] \in Disposition
        BY EntryType, DispositionUpdate DEF TypeOK, Key
      <4> QED BY <1>14, <4>1, <4>2 DEF TypeOK, ChildRestore
    <3> QED BY <1>14, <3>1, <3>2 DEF TypeOK, ChildRestore
  <2>2. ControlInv'
    BY <1>14
    DEF TypeOK, ChildRestore, ControlInv, ChildInv, HandlerInv, FailedInv, CallsInv,
        StatusIsTheCommands, Shielded, Alive
  <2>3. /\ child = "res_int" => childDisp'["SIGINT"] = entry.disp["SIGINT"]
        /\ child = "res_quit" => /\ childDisp'["SIGINT"] = childDisp["SIGINT"]
                                /\ childDisp'["SIGQUIT"] = entry.disp["SIGQUIT"]
    BY <1>14 DEF TypeOK, ChildRestore, Disposition, Key
  <2>4. (CallerSignals /\ ChildSignals)'
    BY <1>14, <2>3
    DEF TypeOK, ChildRestore, CallerSignals, ChildSignals, ControlInv, FailedInv, Key, Alive
  <2> QED BY <2>1, <2>2, <2>4
<1>15. CASE Exec
  <2>1. TypeOK'
    <3>1. child' \in Alive \cup {"none", "zombie", "gone"} /\ chldPending' \in BOOLEAN
      BY <1>15 DEF TypeOK, Exec, ChildEnds, Alive
    <3>2. ended' \in Ending BY <1>15 DEF TypeOK, Exec, ChildEnds, Ending
    <3> QED BY <1>15, <3>1, <3>2 DEF TypeOK, Exec
  <2>2. ControlInv'
    BY <1>15
    DEF TypeOK, Exec, ChildEnds, ControlInv, ChildInv, HandlerInv, FailedInv, CallsInv,
        StatusIsTheCommands, Shielded, Alive
  <2>3. (CallerSignals /\ ChildSignals)'
    BY <1>15
    DEF TypeOK, Exec, ChildEnds, CallerSignals, ChildSignals, ControlInv, FailedInv, Alive
  <2> QED BY <2>1, <2>2, <2>3
<1>16. CASE CommandExits
  <2>1. TypeOK'
    BY <1>16
    DEF TypeOK, CommandExits, ChildEnds, Alive, Ending
  <2>2. ControlInv'
    BY <1>16
    DEF TypeOK, CommandExits, ChildEnds, ControlInv, ChildInv, HandlerInv, FailedInv,
        CallsInv, StatusIsTheCommands, Shielded, Alive
  <2>3. (CallerSignals /\ ChildSignals)'
    BY <1>16
    DEF TypeOK, CommandExits, ChildEnds, CallerSignals, ChildSignals, ControlInv, FailedInv,
        Alive
  <2> QED BY <2>1, <2>2, <2>3
<1>17. ASSUME NEW s \in Key, Interrupt(s) PROVE IInv'
  <2>1. TypeOK'
    <3>1. child' \in Alive \cup {"none", "zombie", "gone"} /\ chldPending' \in BOOLEAN
      BY <1>17 DEF TypeOK, Interrupt, ChildEnds, Alive
    <3>2. ended' \in Ending BY <1>17 DEF TypeOK, Interrupt, ChildEnds, Ending
    <3>3. interrupts' \in 0..MaxInterrupts
      BY <1>17, MaxInterruptsAssumption DEF TypeOK, Interrupt
    <3> QED BY <1>17, <3>1, <3>2, <3>3 DEF TypeOK, Interrupt
  <2>2. ControlInv'
    BY <1>17
    DEF TypeOK, Interrupt, ChildEnds, ControlInv, ChildInv, HandlerInv, FailedInv, CallsInv,
        StatusIsTheCommands, Shielded, Alive
  <2>3. (CallerSignals /\ ChildSignals)'
    BY <1>17
    DEF TypeOK, Interrupt, ChildEnds, CallerSignals, ChildSignals, Alive
  <2> QED BY <2>1, <2>2, <2>3
<1>18. CASE UNCHANGED vars
  BY <1>18
  DEF vars, TypeOK, ControlInv, ChildInv, HandlerInv, FailedInv, CallsInv,
      StatusIsTheCommands, CallerSignals, ChildSignals
<1> QED
  BY <1>1, <1>2, <1>3, <1>4, <1>5, <1>6, <1>7, <1>8, <1>9, <1>10, <1>11, <1>12, <1>13, <1>14,
     <1>15, <1>16, <1>17, <1>18
  DEF Next, Parent, Child

\* The types of the variables of both programs.
THEOREM SystemTypeCorrect == Spec => []TypeOK
<1>1. Spec => []IInv BY InitIInv, NextIInv, PTL DEF Spec
<1>2. IInv => TypeOK BY DEF IInv
<1> QED BY <1>1, <1>2, PTL

\* The status that system() returns is that of its own command, for any number of
\* keys: sig_child never takes it away (16_system:27,55).
THEOREM SystemStatusIsTheCommands == Spec => []StatusIsTheCommands
<1>1. Spec => []IInv BY InitIInv, NextIInv, PTL DEF Spec
<1>2. IInv => StatusIsTheCommands BY DEF IInv, ControlInv
<1> QED BY <1>1, <1>2, PTL

\* The command runs with the caller's signals and the caller gets them back
\* (16_system:36-47, 61-72).
THEOREM SystemSignalsAsTheCallerHadThem == Spec => []SignalsAsTheCallerHadThem
<1>1. Spec => []IInv BY InitIInv, NextIInv, PTL DEF Spec
<1>2. IInv => SignalsAsTheCallerHadThem
  <2> SUFFICES ASSUME IInv PROVE SignalsAsTheCallerHadThem OBVIOUS
  <2>1. child = "running" => childDisp = entry.disp /\ childBlocked = entry.blocked
    BY EntryType, DispositionEqual DEF IInv, ChildSignals, TypeOK
  <2>2. pc = "return" /\ ~failed => disp = entry.disp /\ chldBlocked = entry.blocked
    BY EntryType, DispositionEqual, CallsValues
    DEF IInv, CallerSignals, ChildSignals, TypeOK
  <2> QED BY <2>1, <2>2 DEF SignalsAsTheCallerHadThem
<1> QED BY <1>1, <1>2, PTL

\* No key ends the caller while its command lives or is not reaped (16_system:14-21).
THEOREM SystemCallerOutlivesCommand == Spec => CallerOutlivesCommand
<1> DEFINE Outlives ==
      prog = "system" /\ pc # "killed" /\ pc' = "killed" => child \in {"none", "gone"}
<1>1. Spec => []IInv BY InitIInv, NextIInv, PTL DEF Spec
<1>2. ASSUME IInv, Next PROVE Outlives
  <2>1. ASSUME NEW s \in Key, Interrupt(s) PROVE Outlives
    <3> SUFFICES ASSUME prog = "system", pc # "killed", pc' = "killed",
                        child \notin {"none", "gone"}
                 PROVE  FALSE
      OBVIOUS
    <3>1. disp[s] = "default" BY <2>1 DEF Interrupt
    <3>2. pc = "wait" BY <1>2 DEF IInv, TypeOK, ControlInv, ChildInv
    <3> QED BY <1>2, <3>1, <3>2 DEF IInv, CallerSignals, Key
  <2>2. CASE Parent
    BY <2>2
    DEF Parent, Call, IgnoreInt, IgnoreQuit, Ignore, BlockChld, Fork, ForkFails, WaitPid,
        RestoreInt, RestoreQuit, Restore, RestoreMask, Return
  <2>3. CASE DeliverChld \/ HandlerWait \/ Child
    BY <2>3
    DEF DeliverChld, HandlerWait, Child, ChildRestore, Exec, CommandExits, parentVars
  <2> QED BY <1>2, <2>1, <2>2, <2>3 DEF Next
<1>3. IInv /\ [Next]_vars => [Outlives]_vars BY <1>2
<1> QED BY <1>1, <1>3, PTL DEF Spec, CallerOutlivesCommand
=============================================================================
