--------------------------- MODULE SignalsProofs ----------------------------
(***************************************************************************)
(* For the programs that are one process and its signals: abort() does not *)
(* get past its first kill(), 18_sigtstp has its handler back whenever it  *)
(* reads, no program but sleep2() jumps without a jmp_buf, and a signal    *)
(* that main() has blocked interrupts it in sigsuspend() only.             *)
(* A program is a constant of its behaviour, so the inductive invariant    *)
(* has one part for each program that one of the properties is about.      *)
(***************************************************************************)
EXTENDS Signals, SequenceTheorems, TLAPS

\* Whose code may be on the stack: that of main(), of a handler of the program, or of
\* a handler that the caller had installed.
Context == Signal \cup {"main", "caller"}

\* A frame of the stack: the operation it is at, and the mask to return to.
Frame == [ctx : Context, at : Nat \ {0}, ret : SUBSET Signal]

\* What sigaction() may have made of a signal.
Disposition == {"default", "ignore", "own", "caller"}

\* The program, its caller, and what it leaves to chance.
ConfOK ==
  /\ prog \in Program
  /\ caller \in [disp : Disposition, blocked : SUBSET Signal, alarm : BOOLEAN]
  /\ caller.alarm => prog \in Sleeper
  /\ sa \in Garbage(prog)

\* Below the handlers there is main(), and nowhere else.
StackOK ==
  /\ stack \in Seq(Frame) /\ stack # <<>>
  /\ \A i \in 1..Len(stack) : stack[i].ctx = "main" <=> i = 1

\* The signals of the process.
SigOK ==
  sig \in [mask : SUBSET Signal, held : SUBSET Signal, pend : SUBSET Signal,
           alarm : BOOLEAN, disp : [Signal -> Disposition]]

\* The variables of the program.
MemOK ==
  mem \in [flag : BOOLEAN, jmp : Nat, jmpMask : SUBSET Signal, saves : BOOLEAN,
           oldMask : SUBSET Signal, child : {"none", "runs", "zombie"}, call : Nat,
           sent : Nat, lost : SUBSET Signal]

\* The operations that wait in a given way.
Calls(w) == IF w = "suspend" THEN {"suspend", "suspend_old"} ELSE {w}

\* A process that waits is at the call it waits in.
CallOK ==
  waiting # "no" => Top.at <= Len(Code(prog, Top.ctx)) /\ Cur.op \in Calls(waiting)

\* The types of all variables.
Typed ==
  /\ ConfOK /\ StackOK /\ SigOK /\ MemOK /\ CallOK
  /\ mode \in {"runs", "stopped", "done", "dead", "undefined"}
  /\ waiting \in {"no", "pause", "suspend", "read"}

\* main() does not run off its end, nor does longjmp() lead there.
MainInv == stack[1].at <= Len(Code(prog, "main")) /\ mem.jmp <= Len(Code(prog, "main"))

\* abort(): only a handler of the caller can run, and only before line 18 has made the
\* default action that of SIGABRT; from the first kill() on the signal is pending and
\* not blocked until it kills.
AbortInv ==
  prog = "abort" =>
    /\ waiting = "no" /\ mode \in {"runs", "dead"}
    /\ ~sig.alarm /\ mem.child = "none" /\ sig.pend \subseteq {"ABRT"}
    /\ sig.disp["ABRT"] # "own"
    /\ \A i \in 2..Len(stack) : stack[i].ctx = "caller"
    /\ stack[1].at \in 1..4
    /\ stack[1].at > 1 => Len(stack) = 1 /\ sig.disp["ABRT"] = "default"
    /\ stack[1].at > 2 => "ABRT" \notin sig.mask
    /\ stack[1].at = 4 /\ mode = "runs" => "ABRT" \in sig.pend

\* 18_sigtstp: the handler is installed, or main() has not done it yet, or the handler
\* that is to install it again runs.
TstpInv ==
  prog = "sigtstp" =>
    /\ \A s \in Signal \ {"TSTP"} : sig.disp[s] = "default"
    /\ \A i \in 2..Len(stack) : stack[i].ctx = "TSTP"
    /\ stack[1].at \in 1..3
    /\ waiting \in {"no", "read"}
    /\ waiting = "read" => Len(stack) = 1 /\ stack[1].at = 2
    /\ \/ sig.disp["TSTP"] = "own"
       \/ sig.disp["TSTP"] = "default" /\ Len(stack) = 1 /\ stack[1].at = 1
       \/ sig.disp["TSTP"] = "default" /\ Len(stack) > 1 /\ Top.at \in {3, 4}

\* 07_read2: the alarm is set when the jmp_buf is valid.
ReadJumpInv ==
  prog = "read2" =>
    /\ mem.child = "none"
    /\ \/ mem.jmp = 6
       \/ /\ ~sig.alarm /\ sig.pend = {} /\ waiting = "no"
          /\ Len(stack) = 1 /\ stack[1].at <= 2

\* 10_mask: canjump is set when the jmp_buf is valid, and the handler looks at it.
MaskJumpInv ==
  prog = "mask" =>
    \/ mem.jmp = 7
    \/ /\ ~mem.flag /\ waiting = "no" /\ stack[1].at <= 3
       /\ \A i \in 2..Len(stack) : stack[i].ctx = "USR1" => stack[i].at \notin 2..4

\* sleep2() without an alarm of the caller: while the jmp_buf is not valid no alarm is
\* set, and a SIGALRM left over from an earlier call is blocked for good.
SleepJumpInv ==
  prog = "sleep2" /\ ~caller.alarm =>
    /\ mem.child = "none" /\ sig.pend \subseteq {"INT", "ALRM"}
    /\ sig.disp["INT"] = "caller"
    /\ stack[1].at \in 1..6
    /\ waiting \in {"no", "pause"}
    /\ waiting = "pause" => Len(stack) = 1 /\ stack[1].at = 4
    /\ stack[1].at \in {1, 2, 6} => ~sig.alarm
    /\ \/ mem.jmp = 5
       \/ /\ ~sig.alarm /\ waiting = "no" /\ stack[1].at \in {1, 2}
          /\ \A i \in 2..Len(stack) : stack[i].ctx = "caller"
          /\ "ALRM" \in sig.pend =>
               "ALRM" \in sig.mask /\ \A i \in 2..Len(stack) : "ALRM" \in stack[i].ret

\* The programs that block a signal to protect a region of main().
Blocker == {"sleep", "critical", "suspend1", "suspend2"}

\* The signal that program p blocks.
Blocked(p) == CASE p = "sleep" -> "ALRM" [] p = "critical" -> "QUIT" [] OTHER -> "INT"

\* The operation of main() that blocks it.
BlockAt(p) == IF p = "suspend2" THEN 3 ELSE 2

\* The sigsuspend() of main(), 0 if it has none.
SuspendAt(p) ==
  CASE p = "sleep" -> 4 [] p = "suspend1" -> 3 [] p = "suspend2" -> 6 [] OTHER -> 0

\* The operation that restores the mask (sleep() does not, and returns after 7).
RestoreAt(p) == CASE p = "sleep" -> 7 [] p = "suspend2" -> 8 [] OTHER -> 4

\* main() is between the two.
Inside == BlockAt(prog) < stack[1].at /\ stack[1].at <= RestoreAt(prog)

\* Between the two the signal is blocked, or will be as soon as sigsuspend() or the
\* handler on top of main() has returned.
ProtectInv ==
  prog \in Blocker =>
    /\ waiting # "no" => Len(stack) = 1
    /\ waiting \in {"no", "pause", "suspend"}
    /\ waiting = "suspend" => stack[1].at = SuspendAt(prog)
    /\ waiting = "pause" => stack[1].at > RestoreAt(prog)
    /\ Inside => Blocked(prog) \in (IF Len(stack) > 1 THEN stack[2].ret
                                    ELSE IF waiting = "suspend" THEN sig.held ELSE sig.mask)

\* The inductive invariant.
IInv ==
  /\ Typed /\ MainInv /\ AbortInv /\ TstpInv
  /\ ReadJumpInv /\ MaskJumpInv /\ SleepJumpInv /\ JumpIsValid
  /\ ProtectInv

-----------------------------------------------------------------------------
(* The programs. *)

\* What is known of operation i of a program: if it is about a signal it names one, if
\* it jumps it leads somewhere in main(), which does not run off its end; only three
\* programs call longjmp(), never from main(); and main() blocks where BlockAt says.
Known(p, c, i) ==
  LET o == Code(p, c)[i] IN
  /\ o.s \subseteq Signal /\ o.to \in Nat /\ o.to <= Len(Code(p, "main"))
  /\ c = "main" => i < Len(Code(p, "main")) \/ o.op \in {"exit", "goto", "again"}
  /\ o.op \in {"install", "uninstall", "default", "block", "unblock", "all_but", "kill"} =>
       \E x \in Signal : o.s = {x}
  /\ o.op \in {"goto", "unless", "read"} => o.to > 0
  /\ o.op = "longjmp" =>
       c # "main" /\ (p \in {"sleep2", "read2"} \/ (p = "mask" /\ c = "USR1" /\ i = 4))
  /\ c = "main" /\ o.op = "block" => p \in Blocker /\ i = BlockAt(p) /\ o.s = {Blocked(p)}

\* All of that, program by program.
LEMMA CodeKnown ==
  ASSUME NEW p \in Program, NEW c \in Context
  PROVE  \A i \in 1..Len(Code(p, c)) : Known(p, c, i)
<1> USE DEF Known, Code, On, Op, To, Signal, Context
<1>0. CASE c = "caller" BY <1>0
<1>1. CASE p = "intro" BY <1>1 DEF Intro
<1>2. CASE p = "sigusr" BY <1>2 DEF SigUsr
<1>3. CASE p = "sigcld" BY <1>3 DEF SigCld
<1>4. CASE p = "sleep1" BY <1>4 DEF Sleep1
<1>5. CASE p = "sleep2" BY <1>5 DEF Sleep2
<1>6. CASE p = "sleep" BY <1>6 DEF Sleep, Blocker, BlockAt, Blocked
<1>7. CASE p = "read1" BY <1>7 DEF Read1
<1>8. CASE p = "read2" BY <1>8 DEF Read2
<1>9. CASE p = "critical" BY <1>9 DEF Critical, Blocker, BlockAt, Blocked
<1>10. CASE p = "mask" BY <1>10 DEF Mask
<1>11. CASE p = "suspend1" BY <1>11 DEF Suspend1, Blocker, BlockAt, Blocked
<1>12. CASE p = "suspend2" BY <1>12 DEF Suspend2, Blocker, BlockAt, Blocked
<1>13. CASE p = "abort" BY <1>13 DEF Abort
<1>14. CASE p = "sigtstp" BY <1>14 DEF SigTstp
<1> QED BY <1>0, <1>1, <1>2, <1>3, <1>4, <1>5, <1>6, <1>7, <1>8, <1>9, <1>10,
           <1>11, <1>12, <1>13, <1>14 DEF Program

\* A program is a sequence.
LEMMA CodeLength ==
  ASSUME NEW p \in Program, NEW c \in Context
  PROVE  Len(Code(p, c)) \in Nat
  BY DEF Program, Code, Intro, SigUsr, SigCld, Sleep1, Sleep2, Sleep, Read1, Read2, Critical,
     Mask, Suspend1, Suspend2, Abort, SigTstp

-----------------------------------------------------------------------------
(* The stack. *)

\* The stack st after its topmost frame has gone to operation n.
Moved(st, n) == [st EXCEPT ![Len(st)].at = n]

\* Frames of one stack, but for where they are, those of another.
SameFrames(st, new) ==
  \A i \in 1..Len(st) : new[i].ctx = st[i].ctx /\ new[i].ret = st[i].ret

\* Going to another operation changes nothing else of the stack.
LEMMA MovedIs ==
  ASSUME NEW st \in Seq(Frame), st # <<>>, NEW n \in Nat \ {0}
  PROVE  /\ Moved(st, n) \in Seq(Frame) /\ Len(Moved(st, n)) = Len(st)
         /\ SameFrames(st, Moved(st, n))
         /\ \A i \in 1..Len(st) : Moved(st, n)[i].at = IF i = Len(st) THEN n ELSE st[i].at
<1>1. Len(st) \in Nat /\ Len(st) > 0 BY EmptySeq, LenProperties
<1>2. \A i \in 1..Len(st) : st[i] \in Frame BY ElementOfSeq
<1>3. /\ Len(Moved(st, n)) = Len(st)
      /\ \A i \in 1..Len(st) :
           Moved(st, n)[i] = IF i = Len(st) THEN [st[i] EXCEPT !.at = n] ELSE st[i]
  BY <1>1 DEF Moved
<1>4. \A i \in 1..Len(st) : [st[i] EXCEPT !.at = n] \in Frame BY <1>2 DEF Frame
<1>5. Moved(st, n) \in Seq(Frame) BY <1>1, <1>2, <1>4 DEF Moved
<1> QED BY <1>2, <1>3, <1>5 DEF SameFrames, Frame

\* A handler on top.
LEMMA PushIs ==
  ASSUME NEW st \in Seq(Frame), NEW f \in Frame
  PROVE  /\ Append(st, f) \in Seq(Frame) /\ Len(Append(st, f)) = Len(st) + 1
         /\ \A i \in 1..Len(st) : Append(st, f)[i] = st[i]
         /\ Append(st, f)[Len(st) + 1] = f
  BY AppendProperties

\* The topmost handler has returned.
LEMMA PopIs ==
  ASSUME NEW st \in Seq(Frame), Len(st) > 1
  PROVE  LET new == SubSeq(st, 1, Len(st) - 1) IN
         /\ new \in Seq(Frame) /\ Len(new) = Len(st) - 1
         /\ \A i \in 1..(Len(st) - 1) : new[i] = st[i]
<1> DEFINE n == Len(st) - 1
<1>1. n \in Nat /\ n > 0 BY LenProperties
<1>2. \A i \in 1..n : st[i] \in Frame BY <1>1, LenProperties, ElementOfSeq
<1> HIDE DEF n
<1>3. /\ SubSeq(st, 1, n) \in Seq(Frame)
      /\ Len(SubSeq(st, 1, n)) = IF 1 <= n THEN n - 1 + 1 ELSE 0
      /\ \A i \in 1..(n - 1 + 1) : SubSeq(st, 1, n)[i] = st[1 + i - 1]
  BY <1>1, <1>2, SubSeqProperties
<1>4. /\ SubSeq(st, 1, n) \in Seq(Frame) /\ Len(SubSeq(st, 1, n)) = n
      /\ \A i \in 1..n : SubSeq(st, 1, n)[i] = st[i]
  BY <1>1, <1>3
<1> QED BY <1>4 DEF n

\* main() and the topmost frame.
LEMMA StackTyped ==
  ASSUME StackOK
  PROVE  /\ Len(stack) \in Nat /\ Len(stack) > 0
         /\ \A i \in 1..Len(stack) : stack[i] \in Frame
         /\ stack[1] \in Frame /\ stack[1].ctx = "main"
         /\ Top \in Frame /\ (Top.ctx = "main" <=> Len(stack) = 1)
         /\ Len(stack) = 1 => Top = stack[1]
<1>1. Len(stack) \in Nat /\ Len(stack) > 0 BY EmptySeq, LenProperties DEF StackOK
<1>2. \A i \in 1..Len(stack) : stack[i] \in Frame BY ElementOfSeq DEF StackOK
<1>3. \A i \in 1..Len(stack) : stack[i].ctx = "main" <=> i = 1 BY DEF StackOK
<1>4. 1 \in 1..Len(stack) /\ Len(stack) \in 1..Len(stack) BY <1>1
<1>5. stack[1] \in Frame /\ stack[1].ctx = "main" BY <1>2, <1>3, <1>4
<1>6. Top \in Frame BY <1>2, <1>4 DEF Top
<1>7. Top.ctx = "main" <=> Len(stack) = 1 BY <1>3, <1>4 DEF Top
<1> QED BY <1>1, <1>2, <1>5, <1>6, <1>7 DEF Top

\* The stack is not empty.
LEMMA Handled ==
  ASSUME StackOK, Len(stack) # 1
  PROVE  Len(stack) > 1
<1> DEFINE n == Len(stack)
<1>1. n \in Nat /\ n > 0 BY StackTyped
<1>2. n # 1 OBVIOUS
<1> HIDE DEF n
<1>3. n > 1 BY <1>1, <1>2
<1> QED BY <1>3 DEF n

\* A process that is not in main() is in a handler on top of it.
LEMMA InHandler ==
  ASSUME Typed, Len(stack) # 1
  PROVE  Len(stack) > 1 /\ Len(stack) \in 2..Len(stack) /\ Top.ctx # "main"
<1>1. StackOK BY DEF Typed
<1>2. Len(stack) \in Nat /\ Len(stack) > 0 BY <1>1, StackTyped
<1>3. Top.ctx = "main" <=> Len(stack) = 1 BY <1>1, StackTyped
<1>4. Len(stack) > 1 BY <1>1, Handled
<1> QED BY <1>2, <1>3, <1>4

\* The topmost frame goes to operation n.
LEMMA GoToIs ==
  ASSUME StackOK, NEW n \in Nat \ {0}, GoTo(n)
  PROVE  /\ StackOK' /\ Len(stack') = Len(stack)
         /\ SameFrames(stack, stack')
         /\ \A i \in 1..Len(stack) : stack'[i].at = IF i = Len(stack) THEN n ELSE stack[i].at
<1>1. stack' = Moved(stack, n) BY DEF GoTo, Moved
<1>2. stack \in Seq(Frame) /\ stack # <<>> BY DEF StackOK
<1>3. /\ stack' \in Seq(Frame) /\ Len(stack') = Len(stack)
      /\ SameFrames(stack, stack')
      /\ \A i \in 1..Len(stack) : stack'[i].at = IF i = Len(stack) THEN n ELSE stack[i].at
  BY <1>1, <1>2, MovedIs
<1>4. stack' # <<>> BY <1>3, StackTyped, EmptySeq
<1>5. \A i \in 1..Len(stack') : stack'[i].ctx = "main" <=> i = 1
  BY <1>3 DEF StackOK, SameFrames
<1> QED BY <1>3, <1>4, <1>5 DEF StackOK

\* The topmost handler returns.
LEMMA ReturnIs ==
  ASSUME StackOK, Len(stack) > 1, stack' = SubSeq(stack, 1, Len(stack) - 1)
  PROVE  /\ StackOK' /\ Len(stack') = Len(stack) - 1
         /\ \A i \in 1..Len(stack') : stack'[i] = stack[i]
<1>1. /\ stack' \in Seq(Frame) /\ Len(stack') = Len(stack) - 1
      /\ \A i \in 1..(Len(stack) - 1) : stack'[i] = stack[i]
  BY PopIs DEF StackOK
<1>2. stack' # <<>>
  <2>1. Len(stack') # 0 BY <1>1, StackTyped
  <2>2. Len(<<>>) = 0 BY EmptySeq
  <2> QED BY <2>1, <2>2, Zenon
<1>3. \A i \in 1..Len(stack') : i \in 1..Len(stack) /\ stack'[i] = stack[i]
  BY <1>1, StackTyped
<1>4. \A i \in 1..Len(stack') : stack'[i].ctx = "main" <=> i = 1 BY <1>3 DEF StackOK
<1> QED BY <1>1, <1>2, <1>3, <1>4 DEF StackOK

\* longjmp() leaves main() alone.
LEMMA JumpIs ==
  ASSUME StackOK, NEW n \in Nat \ {0}, stack' = <<[stack[1] EXCEPT !.at = n]>>
  PROVE  /\ StackOK' /\ Len(stack') = 1 /\ stack'[1].ctx = "main" /\ stack'[1].at = n
<1>1. stack[1] \in Frame /\ stack[1].ctx = "main" BY StackTyped
<1>2. [stack[1] EXCEPT !.at = n] \in Frame BY <1>1 DEF Frame
<1>3. stack' \in Seq(Frame) /\ Len(stack') = 1 /\ stack'[1] = [stack[1] EXCEPT !.at = n]
  BY <1>2
<1>4. stack'[1].ctx = "main" /\ stack'[1].at = n BY <1>1, <1>3 DEF Frame
<1>5. \A i \in 1..Len(stack') : stack'[i].ctx = "main" <=> i = 1 BY <1>3, <1>4
<1> QED BY <1>3, <1>4, <1>5, EmptySeq DEF StackOK

\* What a handler that catches s returns to.
Handler(s) ==
  [ctx |-> IF sig.disp[s] = "own" THEN s ELSE "caller", at |-> 1,
   ret |-> IF waiting = "suspend" THEN sig.held ELSE sig.mask]

\* A handler starts on top of what it interrupts.
LEMMA CatchIs ==
  ASSUME StackOK, SigOK, NEW s \in Signal, Catch(s)
  PROVE  /\ StackOK' /\ Len(stack') = Len(stack) + 1
         /\ SameFrames(stack, stack')
         /\ \A i \in 1..Len(stack) :
              stack'[i].at = IF i = Len(stack) /\ waiting \in {"pause", "suspend"}
                               THEN stack[i].at + 1 ELSE stack[i].at
         /\ stack'[Len(stack) + 1] = Handler(s)
<1> DEFINE n == IF waiting \in {"pause", "suspend"} THEN Top.at + 1 ELSE Top.at
           m == Moved(stack, n)
<1>1. n \in Nat \ {0} BY StackTyped DEF Frame
<1>2. stack \in Seq(Frame) /\ stack # <<>> BY DEF StackOK
<1>3. m \in Seq(Frame) /\ Len(m) = Len(stack) /\ SameFrames(stack, m)
      /\ \A i \in 1..Len(stack) : m[i].at = IF i = Len(stack) THEN n ELSE stack[i].at
  <2> HIDE DEF n
  <2> QED BY <1>1, <1>2, MovedIs
<1>4. Handler(s) \in Frame
  <2>1. s \in Context /\ "caller" \in Context BY DEF Context
  <2>2. sig.held \in SUBSET Signal /\ sig.mask \in SUBSET Signal BY DEF SigOK
  <2> QED BY <2>1, <2>2 DEF Handler, Frame
<1>5. stack' = Append(m, Handler(s)) BY DEF Catch, Handler, Moved, Top
<1>6. Handler(s).ctx # "main" BY DEF Handler, Signal
<1> HIDE DEF m
<1>7. /\ stack' \in Seq(Frame) /\ Len(stack') = Len(stack) + 1
      /\ \A i \in 1..Len(stack) : stack'[i] = m[i]
      /\ stack'[Len(stack) + 1] = Handler(s)
  BY <1>3, <1>4, <1>5, PushIs
<1>8. stack' # <<>> BY <1>7, StackTyped, EmptySeq
<1>9. SameFrames(stack, stack') BY <1>3, <1>7 DEF SameFrames
<1>10. \A i \in 1..Len(stack') : stack'[i].ctx = "main" <=> i = 1
  <2> SUFFICES ASSUME NEW i \in 1..Len(stack')
               PROVE  stack'[i].ctx = "main" <=> i = 1
    OBVIOUS
  <2>1. CASE i = Len(stack) + 1 BY <1>6, <1>7, <2>1, StackTyped
  <2>2. CASE i \in 1..Len(stack) BY <1>9, <2>2 DEF SameFrames, StackOK
  <2> QED BY <1>7, <2>1, <2>2, StackTyped
<1>11. \A i \in 1..Len(stack) :
         stack'[i].at = IF i = Len(stack) /\ waiting \in {"pause", "suspend"}
                          THEN stack[i].at + 1 ELSE stack[i].at
  BY <1>3, <1>7 DEF Top
<1> QED BY <1>7, <1>8, <1>9, <1>10, <1>11 DEF StackOK

-----------------------------------------------------------------------------
(* The types. *)

\* The operation the process is at.
LEMMA AtKnown ==
  ASSUME Typed, NEW op, At(op)
  PROVE  /\ Running /\ Cur.op = op /\ Known(prog, Top.ctx, Top.at)
         /\ Top.at \in 1..Len(Code(prog, Top.ctx))
         /\ Cur.s \subseteq Signal /\ Cur.to \in Nat /\ Cur.to <= Len(Code(prog, "main"))
         /\ op \in {"goto", "unless", "read"} => Cur.to > 0
         /\ op \in {"install", "uninstall", "default", "block", "unblock", "all_but", "kill"} =>
              S \in Signal /\ Cur.s = {S}
<1>1. Top.ctx \in Context /\ Top.at \in Nat \ {0} BY StackTyped DEF Typed, Frame
<1>2. Running /\ Cur.op = op /\ Top.at <= Len(Code(prog, Top.ctx)) BY DEF At
<1>3. Len(Code(prog, Top.ctx)) \in Nat
  <2>1. prog \in Program BY DEF Typed, ConfOK
  <2> QED BY <1>1, <2>1, CodeLength
<1>4. Top.at \in 1..Len(Code(prog, Top.ctx)) BY <1>1, <1>2, <1>3
<1>5. Known(prog, Top.ctx, Top.at) BY <1>1, <1>4, CodeKnown DEF Typed, ConfOK
<1>6. ASSUME op \in {"install", "uninstall", "default", "block", "unblock", "all_but", "kill"}
      PROVE  S \in Signal /\ Cur.s = {S}
  <2>1. PICK x \in Signal : Cur.s = {x} BY <1>2, <1>5, <1>6 DEF Known, Cur
  <2>2. S = x BY <2>1 DEF S
  <2> QED BY <2>1, <2>2
<1> QED BY <1>2, <1>4, <1>5, <1>6 DEF Known, Cur

\* An operation after which the process goes on with the next one.
LEMMA AdvanceIs ==
  ASSUME Typed, Running, Advance
  PROVE  /\ StackOK' /\ ConfOK' /\ CallOK' /\ UNCHANGED <<prog, caller, sa, mode, waiting>>
         /\ Len(stack') = Len(stack) /\ SameFrames(stack, stack')
         /\ \A i \in 1..Len(stack) :
              stack'[i].at = IF i = Len(stack) THEN Top.at + 1 ELSE stack[i].at
<1>1. Top.at + 1 \in Nat \ {0} BY StackTyped DEF Typed, Frame
<1>2. GoTo(Top.at + 1) /\ UNCHANGED <<prog, caller, sa, mode, waiting>>
  BY DEF Advance, conf
<1>3. ConfOK' /\ CallOK' BY <1>2 DEF Typed, ConfOK, CallOK, Running
<1> QED BY <1>1, <1>2, <1>3, GoToIs DEF Typed

\* The signals after a step of the process.
LEMMA StepSig ==
  ASSUME Typed, Step
  PROVE  SigOK'
<1> USE DEF Typed, SigOK, MemOK, ConfOK
<1>1. CASE Install
  <2>1. S \in Signal BY <1>1, AtKnown DEF Install
  <2> QED BY <1>1, <2>1 DEF Install, Disposition
<1>2. CASE Uninstall
  <2>1. S \in Signal BY <1>2, AtKnown DEF Uninstall
  <2> QED BY <1>2, <2>1 DEF Uninstall
<1>3. CASE Default
  <2>1. S \in Signal BY <1>3, AtKnown DEF Default
  <2> QED BY <1>3, <2>1 DEF Default, Disposition
<1>4. CASE Block
  <2>1. S \in Signal BY <1>4, AtKnown DEF Block
  <2> QED BY <1>4, <2>1 DEF Block
<1>5. CASE Unblock \/ Restore \/ AllBut BY <1>5 DEF Unblock, Restore, AllBut
<1>6. CASE SetAlarm \/ Cancel BY <1>6 DEF SetAlarm, Cancel
<1>7. CASE Suspend
  <2>1. Cur.s \subseteq Signal BY <1>7, AtKnown DEF Suspend, SuspendWith
  <2>2. PICK m \in SUBSET Signal : sig' = [sig EXCEPT !.mask = m, !.held = sig.mask]
    BY <1>7, <2>1 DEF Suspend, SuspendWith, MemOK
  <2> QED BY <2>2 DEF SigOK
<1>8. CASE LongJmp BY <1>8 DEF LongJmp
<1>9. CASE KillSelf
  <2>1. S \in Signal BY <1>9, AtKnown DEF KillSelf
  <2> QED BY <1>9, <2>1 DEF KillSelf
<1>10. CASE HandlerReturn
  <2>1. Top.ret \in SUBSET Signal BY StackTyped DEF Frame
  <2> QED BY <1>10, <2>1 DEF HandlerReturn
<1>11. CASE UNCHANGED sig BY <1>11
<1> QED BY <1>1, <1>2, <1>3, <1>4, <1>5, <1>6, <1>7, <1>8, <1>9, <1>10, <1>11
        DEF Step, Wait, SetJmp, SetFlag, Jump, Fork, Reap, Nap, Again, Exit

\* The variables of the program after a step of the process.
LEMMA StepMem ==
  ASSUME Typed, Step
  PROVE  MemOK'
<1> USE DEF Typed, SigOK, MemOK
<1>1. CASE Block BY <1>1 DEF Block
<1>2. CASE SetJmp
  <2>1. Cur.to \in Nat BY <1>2, AtKnown DEF SetJmp
  <2> DEFINE b == Cur.op = "sigsetjmp"
  <2>2. mem' = [mem EXCEPT !.jmp = Cur.to, !.saves = b, !.jmpMask = sig.mask]
    BY <1>2 DEF SetJmp
  <2>3. b \in BOOLEAN OBVIOUS
  <2> HIDE DEF b
  <2> QED BY <2>1, <2>2, <2>3
<1>3. CASE SetFlag BY <1>3 DEF SetFlag
<1>4. CASE Fork BY <1>4 DEF Fork, Advance
<1>5. CASE Reap BY <1>5 DEF Reap
<1>6. CASE Again
  <2> DEFINE n == mem.call + 1
             e == SUBSET Signal
  <2>1. n \in Nat /\ 0 \in Nat /\ {} \in e OBVIOUS
  <2>2. mem' = [mem EXCEPT !.call = n, !.jmp = 0, !.lost = {}] BY <1>6 DEF Again
  <2> HIDE DEF n
  <2> QED BY <2>1, <2>2
<1>7. CASE UNCHANGED mem BY <1>7
<1> QED BY <1>1, <1>2, <1>3, <1>4, <1>5, <1>6, <1>7
        DEF Step, Install, Uninstall, Default, Unblock, Restore, AllBut, SetAlarm, Cancel,
            Wait, Suspend, SuspendWith, LongJmp, Jump, KillSelf, Nap, Exit, HandlerReturn

\* The stack, and what the process waits for, after a step of the process.
LEMMA StepStack ==
  ASSUME Typed, Step
  PROVE  /\ ConfOK' /\ StackOK' /\ CallOK'
         /\ mode' \in {"runs", "stopped", "done", "dead", "undefined"}
         /\ waiting' \in {"no", "pause", "suspend", "read"}
<1> DEFINE Goal == /\ ConfOK' /\ StackOK' /\ CallOK'
                   /\ mode' \in {"runs", "stopped", "done", "dead", "undefined"}
                   /\ waiting' \in {"no", "pause", "suspend", "read"}
<1> SUFFICES Goal OBVIOUS
<1>1. ASSUME Running, Advance PROVE Goal
  BY <1>1, AdvanceIs DEF Typed
<1>2. ASSUME StackOK', Running, UNCHANGED <<conf, waiting>>,
             mode' \in {mode, "done", "undefined"}
      PROVE  Goal
  BY <1>2 DEF Typed, ConfOK, CallOK, Running, conf
<1>3. ASSUME UNCHANGED <<conf, mode, stack>>, waiting' \in {"pause", "suspend", "read"},
             \E op \in Calls(waiting') : At(op)
      PROVE  Goal
  <2>1. ConfOK' /\ StackOK' BY <1>3 DEF Typed, ConfOK, StackOK, conf
  <2>2. Top' = Top /\ Cur' = Cur BY <1>3 DEF Top, Cur, conf
  <2>3. CallOK' BY <1>3, <2>2 DEF CallOK, At, conf
  <2> QED BY <1>3, <2>1, <2>3 DEF Typed
<1>4. Top.at \in Nat \ {0} BY StackTyped DEF Typed, Frame
<1> HIDE DEF Goal
<1>5. CASE \/ Install \/ Uninstall \/ Default \/ Block \/ Unblock \/ Restore \/ AllBut
           \/ SetAlarm \/ Cancel \/ SetJmp \/ SetFlag \/ KillSelf \/ Reap \/ Nap
  BY <1>1, <1>5 DEF At, Install, Uninstall, Default, Block, Unblock, Restore, AllBut,
     SetAlarm, Cancel, SetJmp, SetFlag, KillSelf, Reap, Nap
<1>6. CASE Wait("pause") \/ Wait("read") \/ Suspend
  BY <1>3, <1>6 DEF Wait, Suspend, SuspendWith, Calls
<1>7. CASE LongJmp
  <2>1. Running /\ UNCHANGED <<conf, waiting>> /\ mode' \in {mode, "undefined"}
    BY <1>7 DEF LongJmp, At
  <2>2. CASE mem.jmp = 0
    <3>1. StackOK' BY <1>7, <2>2 DEF LongJmp, Typed, StackOK
    <3> QED BY <1>2, <2>1, <3>1
  <2>3. CASE mem.jmp # 0
    <3>1. mem.jmp \in Nat \ {0} BY <2>3 DEF Typed, MemOK
    <3>2. stack' = <<[stack[1] EXCEPT !.at = mem.jmp]>> BY <1>7, <2>3 DEF LongJmp
    <3>3. StackOK' BY <3>1, <3>2, JumpIs DEF Typed
    <3> QED BY <1>2, <2>1, <3>3
  <2> QED BY <2>2, <2>3
<1>8. CASE Jump
  <2> DEFINE n == IF Cur.op = "goto" \/ ~mem.flag THEN Cur.to ELSE Top.at + 1
  <2>1. Running /\ Cur.to \in Nat /\ Cur.to > 0 BY <1>8, AtKnown DEF Jump
  <2>2. n \in Nat \ {0} BY <1>4, <2>1
  <2>3. GoTo(n) /\ UNCHANGED <<conf, mode, waiting>> BY <1>8 DEF Jump
  <2> HIDE DEF n
  <2>4. StackOK' BY <2>2, <2>3, GoToIs DEF Typed
  <2> QED BY <1>2, <2>1, <2>3, <2>4
<1>9. CASE Fork
  <2>1. Running BY <1>9 DEF Fork, At
  <2>2. CASE Advance BY <1>1, <2>1, <2>2
  <2>3. CASE mode' = "done" /\ UNCHANGED <<conf, stack, waiting>>
    <3>1. StackOK' BY <2>3 DEF Typed, StackOK
    <3> QED BY <1>2, <2>1, <2>3, <3>1
  <2> QED BY <1>9, <2>2, <2>3 DEF Fork
<1>10. CASE Again
  <2>1. StackOK' BY <1>10, GoToIs DEF Again, Typed
  <2> QED BY <1>2, <1>10, <2>1 DEF Again, At
<1>11. CASE Exit
  <2>1. StackOK' BY <1>11 DEF Exit, Typed, StackOK
  <2> QED BY <1>2, <1>11, <2>1 DEF Exit, At
<1>12. CASE HandlerReturn
  <2>1. StackOK' BY <1>12, ReturnIs DEF HandlerReturn, Typed
  <2> QED BY <1>2, <1>12, <2>1 DEF HandlerReturn
<1> QED BY <1>5, <1>6, <1>7, <1>8, <1>9, <1>10, <1>11, <1>12 DEF Step

\* What others do: the stack stays, and so does everything else but what is pending.
LEMMA OthersTyped ==
  ASSUME Typed, Send \/ Continue \/ Fire \/ ChildExits
  PROVE  /\ Typed' /\ UNCHANGED <<prog, caller, sa, stack, waiting>>
         /\ sig'.mask = sig.mask /\ sig'.held = sig.held /\ sig'.disp = sig.disp
         /\ mem'.jmp = mem.jmp /\ mem'.flag = mem.flag
<1>1. UNCHANGED <<prog, caller, sa, stack, waiting>>
  BY DEF Send, Continue, Fire, ChildExits, conf
<1>2. ConfOK' /\ StackOK' /\ CallOK'
  BY <1>1 DEF Typed, ConfOK, StackOK, CallOK, Top, Cur
<1>3. ASSUME NEW s \in Signal, Raise(s)
      PROVE  SigOK' /\ sig'.mask = sig.mask /\ sig'.held = sig.held /\ sig'.disp = sig.disp
  <2> DEFINE b == sig.alarm /\ s # "ALRM"
             q == sig.pend \cup {s}
  <2>1. sig' = [sig EXCEPT !.pend = q, !.alarm = b] BY <1>3 DEF Raise
  <2>2. b \in BOOLEAN /\ q \in SUBSET Signal BY DEF Typed, SigOK
  <2> HIDE DEF b, q
  <2> QED BY <2>1, <2>2 DEF Typed, SigOK
<1>4. Foreign(prog) \subseteq Signal BY DEF Typed, ConfOK, Foreign, Signal
<1>5. CASE Send
  <2>1. PICK s \in Signal : Raise(s) BY <1>4, <1>5 DEF Send
  <2>2. MemOK' /\ mem'.jmp = mem.jmp /\ mem'.flag = mem.flag /\ mode' = mode
    BY <1>5 DEF Send, Typed, MemOK
  <2> QED BY <1>1, <1>2, <1>3, <2>1, <2>2 DEF Typed
<1>6. CASE Continue BY <1>1, <1>2, <1>6 DEF Continue, Typed, SigOK, MemOK
<1>7. CASE Fire
  <2>1. Raise("ALRM") /\ UNCHANGED <<mem, mode>> BY <1>7 DEF Fire
  <2>2. "ALRM" \in Signal BY DEF Signal
  <2> QED BY <1>1, <1>2, <1>3, <2>1, <2>2 DEF Typed, MemOK
<1>8. CASE ChildExits
  <2>1. Raise("CHLD") /\ mode' = mode BY <1>8 DEF ChildExits
  <2>2. "CHLD" \in Signal BY DEF Signal
  <2>3. MemOK' /\ mem'.jmp = mem.jmp /\ mem'.flag = mem.flag
    BY <1>8 DEF ChildExits, Typed, MemOK
  <2> QED BY <1>1, <1>2, <1>3, <2>1, <2>2, <2>3 DEF Typed
<1> QED BY <1>5, <1>6, <1>7, <1>8

\* read() returns: the topmost frame goes on.
LEMMA InputTyped ==
  ASSUME Typed, Input
  PROVE  /\ Typed' /\ waiting = "read" /\ waiting' = "no"
         /\ UNCHANGED <<prog, caller, sa, mode, sig, mem>>
         /\ Len(stack') = Len(stack) /\ SameFrames(stack, stack')
         /\ \A i \in 1..(Len(stack) - 1) : stack'[i].at = stack[i].at
         /\ stack'[Len(stack)].at \in {Cur.to, Top.at + 1}
<1>1. Top.ctx \in Context /\ Top.at \in Nat \ {0} BY StackTyped DEF Typed, Frame
<1>2. Top.at <= Len(Code(prog, Top.ctx)) /\ Cur.op = "read"
  BY DEF Input, Typed, CallOK, Calls
<1>3. prog \in Program BY DEF Typed, ConfOK
<1>4. Top.at \in 1..Len(Code(prog, Top.ctx)) BY <1>1, <1>2, <1>3, CodeLength
<1>5. Known(prog, Top.ctx, Top.at) BY <1>1, <1>3, <1>4, CodeKnown
<1>6. Cur.to \in Nat \ {0} BY <1>2, <1>5 DEF Known, Cur
<1>7. PICK n \in {Cur.to, Top.at + 1} : GoTo(n) BY DEF Input
<1>8. n \in Nat \ {0} BY <1>1, <1>6, <1>7
<1>9. /\ StackOK' /\ Len(stack') = Len(stack) /\ SameFrames(stack, stack')
      /\ \A i \in 1..Len(stack) : stack'[i].at = IF i = Len(stack) THEN n ELSE stack[i].at
  BY <1>7, <1>8, GoToIs DEF Typed
<1>10. waiting = "read" /\ waiting' = "no" /\ UNCHANGED <<prog, caller, sa, mode, sig, mem>>
  BY DEF Input, conf
<1>11. Typed' BY <1>9, <1>10 DEF Typed, ConfOK, SigOK, MemOK, CallOK
<1>12. Len(stack) \in Nat /\ Len(stack) > 0 BY StackTyped DEF Typed
<1> QED BY <1>7, <1>9, <1>10, <1>11, <1>12

\* sa_mask holds signals, whatever they are.
LEMMA GarbageTyped ==
  ASSUME ConfOK
  PROVE  sa.mask \subseteq Signal
  BY DEF ConfOK, Garbage, Foreign, Program, Signal

\* A signal is delivered.
LEMMA DeliverTyped ==
  ASSUME Typed, Deliver
  PROVE  Typed'
<1>1. PICK s \in Deliverable : TakeDefault(s) \/ Ignore(s) \/ Catch(s) BY DEF Deliver
<1>2. s \in Signal BY DEF Deliverable, Typed, SigOK
<1>3. UNCHANGED <<prog, caller, sa>> BY DEF Deliver, conf
<1>4. ConfOK' BY <1>3 DEF Typed, ConfOK
<1>5. CASE TakeDefault(s) \/ Ignore(s)
  <2>1. UNCHANGED <<stack, waiting, mem>> /\ mode' \in {mode, "stopped", "dead"}
    BY <1>5 DEF TakeDefault, Ignore
  <2>2. SigOK' BY <1>5 DEF TakeDefault, Ignore, Typed, SigOK
  <2>3. StackOK' /\ CallOK' /\ MemOK'
    BY <1>3, <2>1 DEF Typed, StackOK, CallOK, MemOK, Top, Cur
  <2> QED BY <1>4, <2>1, <2>2, <2>3 DEF Typed
<1>6. CASE Catch(s)
  <2>1. waiting' = "no" /\ mode' = mode BY <1>6 DEF Catch
  <2>2. StackOK' BY <1>2, <1>6, CatchIs DEF Typed
  <2>3. SigOK'
    <3> DEFINE p == sig.pend \ {s}
               m == sig.mask \cup (IF sig.disp[s] = "own"
                                     THEN sa.mask \cup (IF sa.nodefer THEN {} ELSE {s})
                                     ELSE {s})
               d == IF sig.disp[s] = "own" /\ sa.reset THEN "default" ELSE sig.disp[s]
    <3>1. sig' = [sig EXCEPT !.pend = p, !.mask = m, !.held = {}, !.disp[s] = d]
      BY <1>6 DEF Catch
    <3>2. sa.mask \subseteq Signal BY GarbageTyped DEF Typed, ConfOK
    <3>3. /\ p \in SUBSET Signal /\ m \in SUBSET Signal /\ {} \in SUBSET Signal
          /\ d \in Disposition
      BY <1>2, <3>2 DEF Typed, SigOK, Disposition
    <3> HIDE DEF p, m, d
    <3> QED BY <1>2, <3>1, <3>3 DEF Typed, SigOK
  <2>4. MemOK'
    <3> DEFINE l == IF AboutToWait THEN mem.lost \cup {s} ELSE mem.lost
    <3>1. mem' = [mem EXCEPT !.lost = l] BY <1>6 DEF Catch
    <3>2. l \in SUBSET Signal BY <1>2 DEF Typed, MemOK
    <3> HIDE DEF l
    <3> QED BY <3>1, <3>2 DEF Typed, MemOK
  <2> QED BY <1>4, <2>1, <2>2, <2>3, <2>4 DEF Typed, CallOK
<1> QED BY <1>1, <1>5, <1>6

\* Every step keeps the types.
LEMMA NextTyped ==
  ASSUME Typed, Next
  PROVE  Typed'
<1>1. CASE Step BY <1>1, StepSig, StepMem, StepStack DEF Typed
<1>2. CASE Send \/ Continue \/ Fire \/ ChildExits BY <1>2, OthersTyped
<1>3. CASE Input BY <1>3, InputTyped
<1>4. CASE Deliver BY <1>4, DeliverTyped
<1> QED BY <1>1, <1>2, <1>3, <1>4 DEF Next

\* The program, its caller and its struct sigaction stay what they are.
LEMMA ConfKept ==
  ASSUME Next
  PROVE  UNCHANGED <<prog, caller, sa>>
  BY DEF Next, Step, Install, Uninstall, Default, Block, Unblock, Restore, AllBut, SetAlarm,
     Cancel, Wait, Suspend, SuspendWith, SetJmp, LongJmp, SetFlag, Jump, KillSelf, Fork,
     Reap, Nap, Again, Exit, HandlerReturn, Send, Continue, Fire, ChildExits, Input, Deliver,
     Advance, conf

\* A process starts with main() alone on its stack, and as its caller left it.
LEMMA InitTyped ==
  ASSUME Init
  PROVE  /\ Typed /\ Len(stack) = 1 /\ stack[1].at = 1 /\ stack[1].ctx = "main"
<1> DEFINE f == [ctx |-> "main", at |-> 1, ret |-> {}]
<1>1. f \in Frame BY DEF Frame, Context
<1>2. stack = <<f>> BY DEF Init
<1>3. f.ctx = "main" /\ f.at = 1 OBVIOUS
<1> HIDE DEF f
<1>4. stack \in Seq(Frame) /\ Len(stack) = 1 /\ stack[1] = f BY <1>1, <1>2
<1>5. stack # <<>>
  <2>1. Len(stack) # 0 BY <1>4
  <2>2. Len(<<>>) = 0 BY EmptySeq
  <2> QED BY <2>1, <2>2, Zenon
<1>6. StackOK BY <1>3, <1>4, <1>5 DEF StackOK
<1>7. ConfOK BY DEF Init, ConfOK, Callers, Disposition, Signal, Sleeper
<1>8. SigOK
  <2>1. caller.disp \in Disposition /\ caller.blocked \in SUBSET Signal /\ caller.alarm \in BOOLEAN
    BY <1>7 DEF ConfOK
  <2> QED BY <2>1 DEF Init, SigOK, Disposition
<1>9. MemOK BY DEF Init, MemOK
<1> QED BY <1>3, <1>4, <1>6, <1>7, <1>8, <1>9 DEF Init, Typed, CallOK

-----------------------------------------------------------------------------
(* abort() *)

\* The only operations abort() gets to.
LEMMA AbortAt ==
  ASSUME Typed, AbortInv, prog = "abort", NEW op, At(op)
  PROVE  /\ Len(stack) = 1 /\ Top = stack[1] /\ S = "ABRT"
         /\ \/ op = "default" /\ stack[1].at = 1
            \/ op = "all_but" /\ stack[1].at = 2
            \/ op = "kill" /\ stack[1].at = 3
<1>1. Running /\ Cur.op = op /\ Top.at \in 1..Len(Code(prog, Top.ctx)) BY AtKnown
<1>2. Len(stack) = 1
  <2>1. SUFFICES ASSUME Len(stack) # 1 PROVE FALSE OBVIOUS
  <2>2. Top.ctx = "caller" BY <2>1, StackTyped DEF AbortInv, Top, Typed
  <2>3. Len(Code(prog, Top.ctx)) = 0 BY <2>2 DEF Code
  <2> QED BY <1>1, <2>3
<1>3. Top = stack[1] /\ Top.ctx = "main" BY <1>2, StackTyped DEF Typed
<1>4. stack[1].at # 4 BY <1>1 DEF AbortInv, Running, Deliverable
<1>5. stack[1].at \in 1..3 BY <1>4 DEF AbortInv
<1>6. Cur = Abort[stack[1].at] BY <1>3 DEF Cur, Code
<1>7. /\ stack[1].at = 1 => Cur = On("default", "ABRT")
      /\ stack[1].at = 2 => Cur = On("all_but", "ABRT")
      /\ stack[1].at = 3 => Cur = On("kill", "ABRT")
  BY <1>6 DEF Abort
<1>8. Cur.s = {"ABRT"} BY <1>5, <1>7 DEF On
<1>9. S = "ABRT" BY <1>8 DEF S
<1> QED BY <1>1, <1>2, <1>3, <1>5, <1>7, <1>9 DEF On

\* The steps of abort() itself.
LEMMA AbortSteps ==
  ASSUME Typed, AbortInv, prog = "abort", Step
  PROVE  AbortInv'
<1>1. \A op : At(op) =>
        /\ Len(stack) = 1 /\ Top = stack[1] /\ S = "ABRT"
        /\ \/ op = "default" /\ stack[1].at = 1
           \/ op = "all_but" /\ stack[1].at = 2
           \/ op = "kill" /\ stack[1].at = 3
  BY AbortAt
<1>2. "ABRT" \in Signal BY DEF Signal
<1>3. CASE Default \/ AllBut \/ KillSelf
  <2>1. Running /\ Advance BY <1>3 DEF Default, AllBut, KillSelf, At
  <2>2. Len(stack) = 1 /\ Top = stack[1] /\ S = "ABRT"
    BY <1>1, <1>3 DEF Default, AllBut, KillSelf
  <2>3. /\ UNCHANGED <<prog, mode, waiting>> /\ Len(stack') = 1
        /\ stack'[1].at = stack[1].at + 1
    BY <2>1, <2>2, AdvanceIs
  <2>4. mem' = mem BY <1>3 DEF Default, AllBut, KillSelf
  <2>5. CASE Default
    <3>1. stack[1].at = 1 BY <1>1, <2>5 DEF Default
    <3>2. /\ sig'.disp["ABRT"] = "default" /\ sig'.alarm = sig.alarm /\ sig'.pend = sig.pend
      BY <1>2, <2>2, <2>5 DEF Default, Typed, SigOK
    <3> QED BY <2>3, <2>4, <3>1, <3>2 DEF AbortInv
  <2>6. CASE AllBut
    <3>1. stack[1].at = 2 BY <1>1, <2>6 DEF AllBut
    <3>2. /\ "ABRT" \notin sig'.mask /\ sig'.alarm = sig.alarm /\ sig'.pend = sig.pend
          /\ sig'.disp = sig.disp
      BY <2>2, <2>6 DEF AllBut, Typed, SigOK
    <3> QED BY <2>3, <2>4, <3>1, <3>2 DEF AbortInv
  <2>7. CASE KillSelf
    <3>1. stack[1].at = 3 BY <1>1, <2>7 DEF KillSelf
    <3>2. /\ sig'.pend = sig.pend \cup {"ABRT"} /\ sig'.alarm = sig.alarm
          /\ sig'.disp = sig.disp /\ sig'.mask = sig.mask
      BY <2>2, <2>7 DEF KillSelf, Typed, SigOK
    <3> QED BY <2>3, <2>4, <3>1, <3>2 DEF AbortInv
  <2> QED BY <1>3, <2>5, <2>6, <2>7
<1>4. CASE HandlerReturn
  <2>1. /\ Len(stack) > 1 /\ UNCHANGED <<prog, mode, waiting, mem>>
        /\ stack' = SubSeq(stack, 1, Len(stack) - 1)
    BY <1>4 DEF HandlerReturn, conf
  <2>2. /\ Len(stack') = Len(stack) - 1 /\ \A i \in 1..Len(stack') : stack'[i] = stack[i]
    BY <2>1, ReturnIs DEF Typed
  <2>3. sig'.disp = sig.disp /\ sig'.alarm = sig.alarm /\ sig'.pend = sig.pend
    BY <1>4 DEF HandlerReturn, Typed, SigOK
  <2>4. Len(stack) \in Nat BY StackTyped DEF Typed
  <2>5. stack'[1] = stack[1] /\ stack[1].at = 1 BY <2>1, <2>2, <2>4 DEF AbortInv
  <2>6. \A i \in 2..Len(stack') : stack'[i].ctx = "caller" BY <2>2, <2>4 DEF AbortInv
  <2> QED BY <2>1, <2>3, <2>5, <2>6 DEF AbortInv
<1> QED BY <1>1, <1>3, <1>4
        DEF Step, Install, Uninstall, Block, Unblock, Restore, SetAlarm, Cancel, Wait,
            Suspend, SuspendWith, SetJmp, LongJmp, SetFlag, Jump, Fork, Reap, Nap, Again,
            Exit

\* What happens to abort(): others may send SIGABRT, and it is delivered.
LEMMA AbortSignals ==
  ASSUME Typed, AbortInv, prog = "abort",
         Send \/ Continue \/ Fire \/ ChildExits \/ Input \/ Deliver
  PROVE  AbortInv'
<1>1. "ABRT" \in Signal BY DEF Signal
<1>2. CASE Send
  <2>1. Raise("ABRT") BY <1>2 DEF Send, Foreign
  <2>2. sig'.pend = sig.pend \cup {"ABRT"} /\ ~sig'.alarm /\ sig'.disp = sig.disp
        /\ sig'.mask = sig.mask
    BY <2>1 DEF Raise, Typed, SigOK, AbortInv
  <2>3. UNCHANGED <<prog, mode, stack, waiting>> /\ mem'.child = mem.child
    BY <1>2 DEF Send, conf, Typed, MemOK
  <2> QED BY <2>2, <2>3 DEF AbortInv
<1>3. CASE Deliver
  <2>1. PICK s \in Deliverable : TakeDefault(s) \/ Ignore(s) \/ Catch(s) BY <1>3 DEF Deliver
  <2>2. s = "ABRT" BY DEF Deliverable, AbortInv
  <2>3. UNCHANGED prog BY <1>3 DEF Deliver, conf
  <2>4. CASE TakeDefault(s)
    <3>1. mode' = "dead" /\ UNCHANGED <<stack, waiting, mem>> BY <2>2, <2>4 DEF TakeDefault
    <3>2. sig'.pend \subseteq {"ABRT"} /\ sig'.alarm = sig.alarm /\ sig'.disp = sig.disp
          /\ sig'.mask = sig.mask
      BY <2>4 DEF TakeDefault, Typed, SigOK, AbortInv
    <3> QED BY <2>3, <3>1, <3>2 DEF AbortInv
  <2>5. CASE Ignore(s)
    <3>1. UNCHANGED <<mode, stack, waiting, mem>> /\ sig.disp["ABRT"] = "ignore"
      BY <2>2, <2>5 DEF Ignore
    <3>2. sig'.pend \subseteq {"ABRT"} /\ sig'.alarm = sig.alarm /\ sig'.disp = sig.disp
          /\ sig'.mask = sig.mask
      BY <2>5 DEF Ignore, Typed, SigOK, AbortInv
    <3>3. stack[1].at = 1 BY <3>1 DEF AbortInv
    <3> QED BY <2>3, <3>1, <3>2, <3>3 DEF AbortInv
  <2>6. CASE Catch(s)
    <3>1. /\ sig.disp["ABRT"] \in {"own", "caller"} /\ waiting' = "no" /\ UNCHANGED mode
          /\ mem'.child = mem.child
      BY <2>2, <2>6 DEF Catch, Typed, MemOK
    <3>2. sig.disp["ABRT"] = "caller" /\ stack[1].at = 1 BY <3>1 DEF AbortInv
    <3>3. /\ sig'.pend \subseteq {"ABRT"} /\ sig'.alarm = sig.alarm
          /\ sig'.disp["ABRT"] = "caller"
      BY <1>1, <2>2, <2>6, <3>2 DEF Catch, Typed, SigOK, AbortInv
    <3>4. /\ Len(stack') = Len(stack) + 1 /\ SameFrames(stack, stack')
          /\ \A i \in 1..Len(stack) :
               stack'[i].at = IF i = Len(stack) /\ waiting \in {"pause", "suspend"}
                                THEN stack[i].at + 1 ELSE stack[i].at
          /\ stack'[Len(stack) + 1] = Handler(s)
      BY <1>1, <2>2, <2>6, CatchIs DEF Typed
    <3>5. Len(stack) \in Nat /\ Len(stack) > 0 BY StackTyped DEF Typed
    <3>6. stack'[1].at = 1 BY <3>2, <3>4, <3>5 DEF AbortInv
    <3>7. Handler(s).ctx = "caller" BY <2>2, <3>2 DEF Handler
    <3>8. \A i \in 2..Len(stack') : stack'[i].ctx = "caller"
      BY <3>4, <3>5, <3>7 DEF AbortInv, SameFrames
    <3> QED BY <2>3, <3>1, <3>3, <3>6, <3>8 DEF AbortInv
  <2> QED BY <2>1, <2>4, <2>5, <2>6
<1> QED BY <1>2, <1>3 DEF AbortInv, Continue, Fire, ChildExits, Input

-----------------------------------------------------------------------------
(* 18_sigtstp *)

\* The operations of main() and of the handler.
LEMMA TstpAt ==
  ASSUME Typed, TstpInv, prog = "sigtstp", NEW op, At(op)
  PROVE  /\ op \in {"install", "unblock", "default", "kill"} => S = "TSTP"
         /\ \/ /\ Len(stack) = 1 /\ Top = stack[1]
               /\ \/ op = "install" /\ Top.at = 1
                  \/ op = "read" /\ Top.at = 2
                  \/ op = "exit" /\ Top.at = 3
            \/ /\ Len(stack) > 1
               /\ \/ op = "unblock" /\ Top.at = 1
                  \/ op = "default" /\ Top.at = 2
                  \/ op = "kill" /\ Top.at = 3
                  \/ op = "install" /\ Top.at = 4
<1>1. /\ Running /\ Cur.op = op /\ Top.at \in 1..Len(Code(prog, Top.ctx))
      /\ op \in {"install", "unblock", "default", "kill"} => Cur.s = {S}
  BY AtKnown
<1>2. CASE Len(stack) = 1
  <2>1. Top = stack[1] /\ Top.ctx = "main" BY <1>2, StackTyped DEF Typed
  <2>2. Code(prog, Top.ctx) = <<On("install", "TSTP"), To("read", 2), Op("exit")>>
    BY <2>1 DEF Code, SigTstp
  <2>3. Top.at \in 1..3 BY <1>1, <2>2
  <2>4. /\ Top.at = 1 => Cur = On("install", "TSTP")
        /\ Top.at = 2 => Cur = To("read", 2)
        /\ Top.at = 3 => Cur = Op("exit")
    BY <2>2 DEF Cur
  <2>5. /\ Top.at = 1 => op = "install" /\ Cur.s = {"TSTP"}
        /\ Top.at = 2 => op = "read"
        /\ Top.at = 3 => op = "exit"
    BY <1>1, <2>4 DEF On, To, Op
  <2> QED BY <1>1, <1>2, <2>1, <2>3, <2>5
<1>3. CASE Len(stack) # 1
  <2>1. Len(stack) > 1 /\ Top.ctx = "TSTP" BY <1>3, StackTyped DEF Typed, TstpInv, Top
  <2>2. Code(prog, Top.ctx) =
          <<On("unblock", "TSTP"), On("default", "TSTP"), On("kill", "TSTP"), On("install", "TSTP")>>
    BY <2>1 DEF Code, SigTstp
  <2>3. Top.at \in 1..4 BY <1>1, <2>2
  <2>4. /\ Top.at = 1 => Cur = On("unblock", "TSTP")
        /\ Top.at = 2 => Cur = On("default", "TSTP")
        /\ Top.at = 3 => Cur = On("kill", "TSTP")
        /\ Top.at = 4 => Cur = On("install", "TSTP")
    BY <2>2 DEF Cur
  <2>5. /\ Cur.s = {"TSTP"}
        /\ Top.at = 1 => op = "unblock"
        /\ Top.at = 2 => op = "default"
        /\ Top.at = 3 => op = "kill"
        /\ Top.at = 4 => op = "install"
    BY <1>1, <2>3, <2>4 DEF On
  <2> QED BY <1>1, <2>1, <2>3, <2>5
<1> QED BY <1>2, <1>3

\* The steps of 18_sigtstp itself.
LEMMA TstpSteps ==
  ASSUME Typed, TstpInv, prog = "sigtstp", Step
  PROVE  TstpInv'
<1>1. \A op : At(op) =>
        /\ op \in {"install", "unblock", "default", "kill"} => S = "TSTP"
        /\ \/ /\ Len(stack) = 1 /\ Top = stack[1]
              /\ \/ op = "install" /\ Top.at = 1
                 \/ op = "read" /\ Top.at = 2
                 \/ op = "exit" /\ Top.at = 3
           \/ /\ Len(stack) > 1
              /\ \/ op = "unblock" /\ Top.at = 1
                 \/ op = "default" /\ Top.at = 2
                 \/ op = "kill" /\ Top.at = 3
                 \/ op = "install" /\ Top.at = 4
  BY TstpAt
<1>2. "TSTP" \in Signal BY DEF Signal
<1>3. Len(stack) \in Nat /\ Len(stack) > 0 BY StackTyped DEF Typed
<1>4. CASE Install \/ Unblock \/ Default \/ KillSelf
  <2>1. Running /\ Advance /\ S = "TSTP"
    BY <1>1, <1>4 DEF Install, Unblock, Default, KillSelf, At
  <2>2. /\ UNCHANGED <<prog, waiting>> /\ Len(stack') = Len(stack) /\ SameFrames(stack, stack')
        /\ \A i \in 1..Len(stack) :
             stack'[i].at = IF i = Len(stack) THEN Top.at + 1 ELSE stack[i].at
    BY <2>1, AdvanceIs
  <2>3. Top'.at = Top.at + 1 BY <1>3, <2>2 DEF Top
  <2>4. \A i \in 2..Len(stack') : stack'[i].ctx = "TSTP" BY <2>2 DEF TstpInv, SameFrames
  <2>5. waiting' = "no" BY <2>1, <2>2 DEF Running
  <2>6. stack'[1].at \in 1..3
    <3>1. CASE Len(stack) = 1
      <4>1. Top = stack[1] /\ Top.at = 1
        BY <1>1, <1>4, <3>1 DEF Install, Unblock, Default, KillSelf
      <4> QED BY <2>2, <3>1, <4>1
    <3>2. CASE Len(stack) # 1 BY <1>3, <2>2, <3>2 DEF TstpInv
    <3> QED BY <3>1, <3>2
  <2>7. CASE Install
    <3>1. sig'.disp["TSTP"] = "own" /\ \A s \in Signal \ {"TSTP"} : sig'.disp[s] = sig.disp[s]
      BY <1>2, <2>1, <2>7 DEF Install, Typed, SigOK
    <3> QED BY <2>2, <2>4, <2>5, <2>6, <3>1 DEF TstpInv
  <2>8. CASE Unblock
    <3>1. sig'.disp = sig.disp BY <2>8 DEF Unblock, Typed, SigOK
    <3>2. Len(stack) > 1 /\ Top.at = 1 BY <1>1, <2>8 DEF Unblock
    <3>3. sig.disp["TSTP"] = "own" BY <3>2 DEF TstpInv
    <3> QED BY <2>2, <2>4, <2>5, <2>6, <3>1, <3>3 DEF TstpInv
  <2>9. CASE Default
    <3>1. /\ sig'.disp["TSTP"] = "default"
          /\ \A s \in Signal \ {"TSTP"} : sig'.disp[s] = sig.disp[s]
      BY <1>2, <2>1, <2>9 DEF Default, Typed, SigOK
    <3>2. Len(stack) > 1 /\ Top.at = 2 BY <1>1, <2>9 DEF Default
    <3> QED BY <2>2, <2>3, <2>4, <2>5, <2>6, <3>1, <3>2 DEF TstpInv
  <2>10. CASE KillSelf
    <3>1. sig'.disp = sig.disp BY <2>10 DEF KillSelf, Typed, SigOK
    <3>2. Len(stack) > 1 /\ Top.at = 3 BY <1>1, <2>10 DEF KillSelf
    <3> QED BY <2>2, <2>3, <2>4, <2>5, <2>6, <3>1, <3>2 DEF TstpInv
  <2> QED BY <1>4, <2>7, <2>8, <2>9, <2>10
<1>5. CASE Wait("read")
  <2>1. UNCHANGED <<prog, stack, sig>> /\ waiting' = "read" BY <1>5 DEF Wait, conf
  <2>2. Len(stack) = 1 /\ stack[1].at = 2 BY <1>1, <1>5 DEF Wait
  <2> QED BY <2>1, <2>2 DEF TstpInv, Top
<1>6. CASE Exit
  <2>1. UNCHANGED <<prog, stack, waiting, sig>> BY <1>6 DEF Exit, conf
  <2> QED BY <2>1 DEF TstpInv, Top
<1>7. CASE HandlerReturn
  <2>1. /\ Len(stack) > 1 /\ Top.at > Len(Code(prog, Top.ctx)) /\ UNCHANGED <<prog, waiting>>
        /\ stack' = SubSeq(stack, 1, Len(stack) - 1) /\ Running
    BY <1>7 DEF HandlerReturn, conf
  <2>2. /\ Len(stack') = Len(stack) - 1 /\ \A i \in 1..Len(stack') : stack'[i] = stack[i]
    BY <2>1, ReturnIs DEF Typed
  <2>3. Top.ctx = "TSTP" BY <1>3, <2>1 DEF TstpInv, Top
  <2>4. Len(Code(prog, Top.ctx)) = 4 BY <2>3 DEF Code, SigTstp
  <2>5. Top.at > 4 BY <2>1, <2>4
  <2>6. sig.disp["TSTP"] = "own" BY <2>1, <2>5 DEF TstpInv
  <2>7. sig'.disp = sig.disp BY <1>7 DEF HandlerReturn, Typed, SigOK
  <2>8. stack'[1] = stack[1] BY <1>3, <2>1, <2>2
  <2>9. \A i \in 2..Len(stack') : stack'[i].ctx = "TSTP" BY <1>3, <2>2 DEF TstpInv
  <2> QED BY <2>1, <2>6, <2>7, <2>8, <2>9 DEF TstpInv, Running
<1> QED BY <1>1, <1>4, <1>5, <1>6, <1>7
        DEF Step, Uninstall, Block, Restore, AllBut, SetAlarm, Cancel, Wait, Suspend,
            SuspendWith, SetJmp, LongJmp, SetFlag, Jump, Fork, Reap, Nap, Again, Exit

\* What happens to 18_sigtstp.
LEMMA TstpSignals ==
  ASSUME Typed, TstpInv, prog = "sigtstp",
         Send \/ Continue \/ Fire \/ ChildExits \/ Input \/ Deliver
  PROVE  TstpInv'
<1>1. "TSTP" \in Signal BY DEF Signal
<1>2. Len(stack) \in Nat /\ Len(stack) > 0 BY StackTyped DEF Typed
<1>3. CASE Send \/ Continue \/ Fire \/ ChildExits
  <2>1. UNCHANGED <<prog, stack, waiting>> /\ sig'.disp = sig.disp BY <1>3, OthersTyped
  <2> QED BY <2>1 DEF TstpInv, Top
<1>4. CASE Input
  <2>1. /\ waiting = "read" /\ waiting' = "no" /\ UNCHANGED <<prog, sig>>
        /\ Len(stack') = Len(stack) /\ SameFrames(stack, stack')
        /\ stack'[Len(stack)].at \in {Cur.to, Top.at + 1}
    BY <1>4, InputTyped
  <2>2. Len(stack) = 1 /\ stack[1].at = 2 BY <2>1 DEF TstpInv
  <2>3. Top = stack[1] /\ Top.ctx = "main" BY <2>2, StackTyped DEF Typed
  <2>4. Cur = To("read", 2) BY <2>2, <2>3 DEF Cur, Code, SigTstp
  <2>5. stack'[1].at \in {2, 3} BY <2>1, <2>2, <2>3, <2>4 DEF To
  <2>6. sig.disp["TSTP"] = "own" BY <2>2 DEF TstpInv
  <2> QED BY <2>1, <2>2, <2>5, <2>6 DEF TstpInv
<1>5. CASE Deliver
  <2>1. PICK s \in Deliverable : TakeDefault(s) \/ Ignore(s) \/ Catch(s) BY <1>5 DEF Deliver
  <2>2. s \in Signal BY DEF Deliverable, Typed, SigOK
  <2>3. UNCHANGED <<prog, sa>> BY <1>5 DEF Deliver, conf
  <2>4. CASE TakeDefault(s) \/ Ignore(s)
    <3>1. UNCHANGED <<stack, waiting>> /\ sig'.disp = sig.disp
      BY <2>4 DEF TakeDefault, Ignore, Typed, SigOK
    <3> QED BY <2>3, <3>1 DEF TstpInv, Top
  <2>5. CASE Catch(s)
    <3>1. sig.disp[s] \in {"own", "caller"} /\ waiting' = "no" BY <2>5 DEF Catch
    <3>2. s = "TSTP" BY <2>2, <3>1 DEF TstpInv
    <3>3. sig.disp["TSTP"] = "own" BY <3>1, <3>2 DEF TstpInv
    <3>4. sa.reset = FALSE BY DEF Typed, ConfOK, Garbage
    <3>5. sig'.disp = sig.disp
      BY <2>2, <2>5, <3>4 DEF Catch, Typed, SigOK
    <3>6. /\ Len(stack') = Len(stack) + 1 /\ SameFrames(stack, stack')
          /\ \A i \in 1..Len(stack) :
               stack'[i].at = IF i = Len(stack) /\ waiting \in {"pause", "suspend"}
                                THEN stack[i].at + 1 ELSE stack[i].at
          /\ stack'[Len(stack) + 1] = Handler(s)
      BY <2>2, <2>5, CatchIs DEF Typed
    <3>7. stack'[1].at = stack[1].at BY <1>2, <3>6 DEF TstpInv
    <3>8. Handler(s).ctx = "TSTP" BY <3>2, <3>3 DEF Handler
    <3>9. \A i \in 2..Len(stack') : stack'[i].ctx = "TSTP"
      BY <1>2, <3>6, <3>8 DEF TstpInv, SameFrames
    <3> QED BY <2>3, <3>1, <3>3, <3>5, <3>7, <3>9 DEF TstpInv
  <2> QED BY <2>1, <2>4, <2>5
<1> QED BY <1>3, <1>4, <1>5

-----------------------------------------------------------------------------
(* longjmp() *)

\* Only setjmp() and the return of the function that called it touch the jmp_buf, only
\* a handler that sets the flag touches it, and children come from fork().
LEMMA MemoryKept ==
  ASSUME Typed, Next
  PROVE  /\ mem'.jmp = mem.jmp \/ SetJmp \/ Again
         /\ mem'.flag = mem.flag \/ SetFlag
         /\ mem'.child = mem.child \/ Fork \/ Reap \/ ChildExits
<1> USE DEF Typed, MemOK
<1>1. CASE Step
  <2>1. CASE Block BY <2>1 DEF Block
  <2>2. CASE SetJmp BY <2>2 DEF SetJmp
  <2>3. CASE SetFlag BY <2>3 DEF SetFlag
  <2>4. CASE Fork BY <2>4 DEF Fork, Advance
  <2>5. CASE Reap BY <2>5 DEF Reap
  <2>6. CASE Again BY <2>6 DEF Again
  <2>7. CASE UNCHANGED mem BY <2>7
  <2> QED BY <1>1, <2>1, <2>2, <2>3, <2>4, <2>5, <2>6, <2>7
          DEF Step, Install, Uninstall, Default, Unblock, Restore, AllBut, SetAlarm, Cancel,
              Wait, Suspend, SuspendWith, LongJmp, Jump, KillSelf, Nap, Exit, HandlerReturn
<1>2. CASE Send \/ Continue \/ Fire \/ Input
  BY <1>2 DEF Send, Continue, Fire, Input
<1>3. CASE ChildExits BY <1>3 DEF ChildExits
<1>4. CASE Deliver BY <1>4 DEF Deliver, TakeDefault, Ignore, Catch
<1> QED BY <1>1, <1>2, <1>3, <1>4 DEF Next

\* The operations of 07_read2.
LEMMA ReadAt ==
  ASSUME Typed, prog = "read2", NEW op, At(op)
  PROVE  \/ /\ Len(stack) = 1 /\ Top = stack[1]
            /\ \/ op = "install" /\ Top.at = 1
               \/ op = "setjmp" /\ Top.at = 2 /\ Cur.to = 6
               \/ op \in {"alarm", "read", "cancel", "exit"} /\ Top.at > 2
         \/ Len(stack) > 1 /\ op = "longjmp"
<1>1. Cur.op = op /\ Top.at \in 1..Len(Code(prog, Top.ctx)) BY AtKnown
<1>2. CASE Len(stack) = 1
  <2>1. Top = stack[1] /\ Top.ctx = "main" BY <1>2, StackTyped DEF Typed
  <2>2. Code(prog, Top.ctx) = <<On("install", "ALRM"), To("setjmp", 6), Op("alarm"), To("read", 5),
                                Op("cancel"), Op("exit")>>
    BY <2>1 DEF Code, Read2
  <2>3. Top.at \in 1..6 BY <1>1, <2>2
  <2>4. /\ Top.at = 1 => Cur = On("install", "ALRM")
        /\ Top.at = 2 => Cur = To("setjmp", 6)
        /\ Top.at > 2 => Cur \in {Op("alarm"), To("read", 5), Op("cancel"), Op("exit")}
    BY <2>2, <2>3 DEF Cur
  <2> QED BY <1>1, <1>2, <2>1, <2>3, <2>4 DEF On, To, Op
<1>3. CASE Len(stack) # 1
  <2>1. Len(stack) > 1 /\ Top.ctx # "main" BY <1>3, InHandler
  <2>2. Code(prog, Top.ctx) \in {<<>>, <<Op("longjmp")>>} BY <2>1 DEF Code, Read2
  <2>3. Code(prog, Top.ctx) = <<Op("longjmp")>> BY <1>1, <2>2
  <2>4. Len(Code(prog, Top.ctx)) = 1 BY <2>3
  <2>5. Cur = Op("longjmp")
    <3>1. Top.at \in 1..1 BY <1>1, <2>4
    <3>2. Top.at = 1 BY <3>1
    <3> QED BY <2>3, <3>2 DEF Cur
  <2> QED BY <1>1, <2>1, <2>5 DEF Op
<1> QED BY <1>2, <1>3

\* In 07_read2 the jmp_buf is valid before the alarm is set.
LEMMA ReadJumpKept ==
  ASSUME Typed, ReadJumpInv, Next
  PROVE  ReadJumpInv'
<1> SUFFICES ASSUME prog' = "read2" PROVE ReadJumpInv' BY DEF ReadJumpInv
<1>0. prog = "read2" BY ConfKept
<1>1. \A op : At(op) =>
        \/ /\ Len(stack) = 1 /\ Top = stack[1]
           /\ \/ op = "install" /\ Top.at = 1
              \/ op = "setjmp" /\ Top.at = 2 /\ Cur.to = 6
              \/ op \in {"alarm", "read", "cancel", "exit"} /\ Top.at > 2
        \/ Len(stack) > 1 /\ op = "longjmp"
  BY <1>0, ReadAt
<1>2. mem'.child = "none"
  <2>1. mem.child = "none" BY <1>0 DEF ReadJumpInv
  <2>2. ~Fork /\ ~Reap /\ ~ChildExits BY <1>1, <2>1 DEF Fork, Reap, ChildExits
  <2> QED BY <2>1, <2>2, MemoryKept
<1>3. ASSUME SetJmp PROVE mem'.jmp = 6 BY <1>1, <1>3 DEF SetJmp, Typed, MemOK
<1>4. ~Again BY <1>1 DEF Again
<1>5. CASE mem.jmp = 6 BY <1>2, <1>3, <1>4, <1>5, MemoryKept DEF ReadJumpInv
<1>6. CASE mem.jmp # 6
  <2>1. /\ ~sig.alarm /\ sig.pend = {} /\ waiting = "no"
        /\ Len(stack) = 1 /\ stack[1].at <= 2
    BY <1>0, <1>6 DEF ReadJumpInv
  <2>2. Top = stack[1] BY <2>1, StackTyped DEF Typed
  <2>3. CASE Step
    <3>1. \A op : At(op) => (op = "install" /\ Top.at = 1) \/ op = "setjmp"
      BY <1>1, <2>1, <2>2, StackTyped DEF Typed, Frame
    <3>2. Install \/ SetJmp
      BY <2>1, <2>3, <3>1
      DEF Step, Uninstall, Default, Block, Unblock, Restore, AllBut, SetAlarm, Cancel, Wait,
          Suspend, SuspendWith, LongJmp, SetFlag, Jump, KillSelf, Fork, Reap, Nap, Again,
          Exit, HandlerReturn
    <3>3. CASE Install
      <4>1. Running /\ Advance /\ Top.at = 1 BY <3>1, <3>3 DEF Install, At
      <4>2. Len(stack') = 1 /\ stack'[1].at = 2 /\ waiting' = "no"
        BY <2>1, <4>1, AdvanceIs
      <4>3. ~sig'.alarm /\ sig'.pend = {} BY <2>1, <3>3 DEF Install, Typed, SigOK
      <4> QED BY <1>2, <4>2, <4>3 DEF ReadJumpInv
    <3>4. CASE SetJmp BY <1>2, <1>3, <3>4 DEF ReadJumpInv
    <3> QED BY <3>2, <3>3, <3>4
  <2>4. CASE Continue BY <1>2, <2>1, <2>4 DEF Continue, ReadJumpInv
  <2>5. ~Send
    <3>1. Foreign(prog) = {} BY <1>0 DEF Foreign, Sleeper
    <3> QED BY <3>1 DEF Send
  <2>6. ~Fire /\ ~ChildExits /\ ~Input /\ ~Deliver
    BY <1>0, <2>1 DEF Fire, ChildExits, Input, Deliver, Deliverable, ReadJumpInv
  <2> QED BY <2>3, <2>4, <2>5, <2>6 DEF Next
<1> QED BY <1>5, <1>6

\* The operations of 10_mask.
LEMMA MaskAt ==
  ASSUME Typed, prog = "mask", NEW op, At(op)
  PROVE  \/ /\ Len(stack) = 1 /\ Top = stack[1]
            /\ \/ op = "install" /\ Top.at \in {1, 2}
               \/ op = "sigsetjmp" /\ Top.at = 3 /\ Cur.to = 7
               \/ op \in {"set", "pause", "goto", "exit"} /\ Top.at > 3
         \/ /\ Len(stack) > 1 /\ Top.ctx = "USR1"
            /\ \/ op = "unless" /\ Top.at = 1 /\ Cur.to = 5
               \/ op \in {"alarm", "nap", "longjmp"} /\ Top.at \in 2..4
<1>1. Cur.op = op /\ Top.at \in 1..Len(Code(prog, Top.ctx)) BY AtKnown
<1>2. CASE Len(stack) = 1
  <2>1. Top = stack[1] /\ Top.ctx = "main" BY <1>2, StackTyped DEF Typed
  <2>2. Code(prog, Top.ctx) =
          <<On("install", "USR1"), On("install", "ALRM"), To("sigsetjmp", 7), Op("set"),
            Op("pause"), To("goto", 5), Op("exit")>>
    BY <2>1 DEF Code, Mask
  <2>3. Top.at \in 1..7 BY <1>1, <2>2
  <2>4. /\ Top.at \in {1, 2} => Cur \in {On("install", "USR1"), On("install", "ALRM")}
        /\ Top.at = 3 => Cur = To("sigsetjmp", 7)
        /\ Top.at > 3 => Cur \in {Op("set"), Op("pause"), To("goto", 5), Op("exit")}
    BY <2>2, <2>3 DEF Cur
  <2> QED BY <1>1, <1>2, <2>1, <2>3, <2>4 DEF On, To, Op
<1>3. CASE Len(stack) # 1
  <2>1. Len(stack) > 1 /\ Top.ctx # "main" BY <1>3, InHandler
  <2>2. Top.ctx = "USR1"
    <3>1. Top.ctx # "USR1" => Code(prog, Top.ctx) = <<>> BY <2>1 DEF Code, Mask
    <3> QED BY <1>1, <3>1
  <2>3. Code(prog, Top.ctx) = <<To("unless", 5), Op("alarm"), Op("nap"), Op("longjmp")>>
    BY <2>2 DEF Code, Mask
  <2>4. Top.at \in 1..4 BY <1>1, <2>3
  <2>5. /\ Top.at = 1 => Cur = To("unless", 5)
        /\ Top.at > 1 => Cur \in {Op("alarm"), Op("nap"), Op("longjmp")}
    BY <2>3, <2>4 DEF Cur
  <2> QED BY <1>1, <2>1, <2>2, <2>4, <2>5 DEF To, Op
<1> QED BY <1>2, <1>3

\* In 10_mask the jmp_buf is valid before canjump is set.
LEMMA MaskJumpKept ==
  ASSUME Typed, MaskJumpInv, Next
  PROVE  MaskJumpInv'
<1> SUFFICES ASSUME prog' = "mask" PROVE MaskJumpInv' BY DEF MaskJumpInv
<1>0. prog = "mask" BY ConfKept
<1>1. \A op : At(op) =>
        \/ /\ Len(stack) = 1 /\ Top = stack[1]
           /\ \/ op = "install" /\ Top.at \in {1, 2}
              \/ op = "sigsetjmp" /\ Top.at = 3 /\ Cur.to = 7
              \/ op \in {"set", "pause", "goto", "exit"} /\ Top.at > 3
        \/ /\ Len(stack) > 1 /\ Top.ctx = "USR1"
           /\ \/ op = "unless" /\ Top.at = 1 /\ Cur.to = 5
              \/ op \in {"alarm", "nap", "longjmp"} /\ Top.at \in 2..4
  BY <1>0, MaskAt
<1>2. ASSUME SetJmp PROVE mem'.jmp = 7 BY <1>1, <1>2 DEF SetJmp, Typed, MemOK
<1>3. ~Again BY <1>1 DEF Again
<1>4. CASE mem.jmp = 7 BY <1>2, <1>3, <1>4, MemoryKept DEF MaskJumpInv
<1>5. CASE mem.jmp # 7
  <2>1. /\ ~mem.flag /\ waiting = "no" /\ stack[1].at <= 3
        /\ \A i \in 2..Len(stack) : stack[i].ctx = "USR1" => stack[i].at \notin 2..4
    BY <1>0, <1>5 DEF MaskJumpInv
  <2>2. /\ Len(stack) \in Nat /\ Len(stack) > 0 /\ (Len(stack) = 1 => Top = stack[1])
        /\ stack[1].at \in Nat
    BY StackTyped DEF Typed, Frame
  <2>3. Len(stack) > 1 /\ Top.ctx = "USR1" => Top.at \notin 2..4 BY <2>1, <2>2 DEF Top
  <2>4. \A op : At(op) =>
          \/ op = "install" /\ Len(stack) = 1 /\ Top.at \in {1, 2}
          \/ op = "sigsetjmp"
          \/ op = "unless" /\ Len(stack) > 1 /\ Cur.to = 5
    BY <1>1, <2>1, <2>2, <2>3
  <2>5. ~SetFlag BY <2>4 DEF SetFlag
  <2>6. ~mem'.flag BY <2>1, <2>5, MemoryKept
  <2>7. CASE Step
    <3>1. Install \/ SetJmp \/ (Jump /\ At("unless")) \/ HandlerReturn
      BY <2>4, <2>7
      DEF Step, Uninstall, Default, Block, Unblock, Restore, AllBut, SetAlarm, Cancel, Wait,
          Suspend, SuspendWith, LongJmp, SetFlag, Jump, KillSelf, Fork, Reap, Nap, Again,
          Exit
    <3>2. CASE Install
      <4>1. Running /\ Advance /\ Top.at \in {1, 2} /\ Len(stack) = 1
        BY <2>4, <3>2 DEF Install, At
      <4>2. Len(stack') = 1 /\ stack'[1].at \in {2, 3} /\ waiting' = "no"
        BY <2>1, <4>1, AdvanceIs
      <4> QED BY <2>6, <4>2 DEF MaskJumpInv
    <3>3. CASE SetJmp BY <1>2, <3>3 DEF MaskJumpInv
    <3>4. CASE Jump /\ At("unless")
      <4>1. Len(stack) > 1 /\ Cur.to = 5 BY <2>4, <3>4
      <4>2. GoTo(5) /\ waiting' = "no" BY <2>1, <3>4, <4>1 DEF Jump
      <4>3. /\ Len(stack') = Len(stack) /\ SameFrames(stack, stack')
            /\ \A i \in 1..Len(stack) :
                 stack'[i].at = IF i = Len(stack) THEN 5 ELSE stack[i].at
        BY <4>2, GoToIs DEF Typed
      <4>4. stack'[1].at = stack[1].at BY <2>2, <4>1, <4>3
      <4>5. \A i \in 2..Len(stack') : stack'[i].ctx = "USR1" => stack'[i].at \notin 2..4
        BY <2>1, <2>2, <4>3 DEF SameFrames
      <4> QED BY <2>1, <2>6, <4>2, <4>4, <4>5 DEF MaskJumpInv
    <3>5. CASE HandlerReturn
      <4>1. Len(stack) > 1 /\ stack' = SubSeq(stack, 1, Len(stack) - 1) /\ waiting' = waiting
        BY <3>5 DEF HandlerReturn
      <4>2. Len(stack') = Len(stack) - 1 /\ \A i \in 1..Len(stack') : stack'[i] = stack[i]
        BY <4>1, ReturnIs DEF Typed
      <4>3. stack'[1] = stack[1] BY <2>2, <4>1, <4>2
      <4>4. \A i \in 2..Len(stack') : stack'[i].ctx = "USR1" => stack'[i].at \notin 2..4
        BY <2>1, <2>2, <4>2
      <4> QED BY <2>1, <2>6, <4>1, <4>3, <4>4 DEF MaskJumpInv
    <3> QED BY <3>1, <3>2, <3>3, <3>4, <3>5
  <2>8. CASE Send \/ Continue \/ Fire \/ ChildExits
    BY <2>1, <2>6, <2>8, OthersTyped DEF MaskJumpInv
  <2>9. CASE Input BY <2>1, <2>9 DEF Input
  <2>10. CASE Deliver
    <3>1. PICK s \in Deliverable : TakeDefault(s) \/ Ignore(s) \/ Catch(s)
      BY <2>10 DEF Deliver
    <3>2. s \in Signal BY DEF Deliverable, Typed, SigOK
    <3>3. CASE TakeDefault(s) \/ Ignore(s)
      BY <2>1, <2>6, <3>3 DEF TakeDefault, Ignore, MaskJumpInv
    <3>4. CASE Catch(s)
      <4>1. /\ Len(stack') = Len(stack) + 1 /\ SameFrames(stack, stack')
            /\ \A i \in 1..Len(stack) :
                 stack'[i].at = IF i = Len(stack) /\ waiting \in {"pause", "suspend"}
                                  THEN stack[i].at + 1 ELSE stack[i].at
            /\ stack'[Len(stack) + 1] = Handler(s)
        BY <3>2, <3>4, CatchIs DEF Typed
      <4>2. \A i \in 1..Len(stack) : stack'[i].at = stack[i].at BY <2>1, <4>1
      <4>3. Handler(s).at = 1 /\ waiting' = "no" BY <3>4 DEF Handler, Catch
      <4>4. \A i \in 2..Len(stack') : stack'[i].ctx = "USR1" => stack'[i].at \notin 2..4
        BY <2>1, <2>2, <4>1, <4>2, <4>3 DEF SameFrames
      <4>5. stack'[1].at = stack[1].at BY <2>2, <4>2
      <4> QED BY <2>1, <2>6, <4>3, <4>4, <4>5 DEF MaskJumpInv
    <3> QED BY <3>1, <3>3, <3>4
  <2> QED BY <2>7, <2>8, <2>9, <2>10 DEF Next
<1> QED BY <1>4, <1>5

\* The operations of sleep2().
LEMMA SleepAt ==
  ASSUME Typed, prog = "sleep2", NEW op, At(op)
  PROVE  \/ /\ Len(stack) = 1 /\ Top = stack[1]
            /\ \/ op = "install" /\ Top.at = 1 /\ S = "ALRM"
               \/ op = "setjmp" /\ Top.at = 2 /\ Cur.to = 5
               \/ op = "alarm" /\ Top.at = 3
               \/ op = "pause" /\ Top.at = 4
               \/ op = "cancel" /\ Top.at = 5
               \/ op = "again" /\ Top.at = 6
         \/ Len(stack) > 1 /\ Top.ctx # "caller" /\ op = "longjmp"
<1>1. Cur.op = op /\ Top.at \in 1..Len(Code(prog, Top.ctx)) BY AtKnown
<1>2. CASE Len(stack) = 1
  <2>1. Top = stack[1] /\ Top.ctx = "main" BY <1>2, StackTyped DEF Typed
  <2>2. Code(prog, Top.ctx) = <<On("install", "ALRM"), To("setjmp", 5), Op("alarm"), Op("pause"),
                                Op("cancel"), Op("again")>>
    BY <2>1 DEF Code, Sleep2
  <2>3. Top.at \in 1..6 BY <1>1, <2>2
  <2>4. /\ Top.at = 1 => Cur = On("install", "ALRM")
        /\ Top.at = 2 => Cur = To("setjmp", 5)
        /\ Top.at = 3 => Cur = Op("alarm")
        /\ Top.at = 4 => Cur = Op("pause")
        /\ Top.at = 5 => Cur = Op("cancel")
        /\ Top.at = 6 => Cur = Op("again")
    BY <2>2 DEF Cur
  <2>5. Top.at = 1 => S = "ALRM"
    <3>1. Top.at = 1 => Cur.s = {"ALRM"} BY <2>4 DEF On
    <3> QED BY <3>1 DEF S
  <2> QED BY <1>1, <1>2, <2>1, <2>3, <2>4, <2>5 DEF On, To, Op
<1>3. CASE Len(stack) # 1
  <2>1. Len(stack) > 1 /\ Top.ctx # "main" BY <1>3, InHandler
  <2>2. Top.ctx # "caller"
    <3>1. Top.ctx = "caller" => Len(Code(prog, Top.ctx)) = 0 BY DEF Code
    <3> QED BY <1>1, <3>1
  <2>3. Code(prog, Top.ctx) = <<Op("longjmp")>> BY <2>1, <2>2 DEF Code, Sleep2
  <2>4. Len(Code(prog, Top.ctx)) = 1 BY <2>3
  <2>5. Cur = Op("longjmp")
    <3>1. Top.at \in 1..1 BY <1>1, <2>4
    <3>2. Top.at = 1 BY <3>1
    <3> QED BY <2>3, <3>2 DEF Cur
  <2> QED BY <1>1, <2>1, <2>2, <2>5 DEF Op
<1> QED BY <1>2, <1>3

\* The steps of sleep2() itself.
LEMMA SleepJumpSteps ==
  ASSUME Typed, SleepJumpInv, prog = "sleep2", ~caller.alarm, Step
  PROVE  SleepJumpInv'
<1>1. \A op : At(op) =>
        \/ /\ Len(stack) = 1 /\ Top = stack[1]
           /\ \/ op = "install" /\ Top.at = 1 /\ S = "ALRM"
              \/ op = "setjmp" /\ Top.at = 2 /\ Cur.to = 5
              \/ op = "alarm" /\ Top.at = 3
              \/ op = "pause" /\ Top.at = 4
              \/ op = "cancel" /\ Top.at = 5
              \/ op = "again" /\ Top.at = 6
        \/ Len(stack) > 1 /\ Top.ctx # "caller" /\ op = "longjmp"
  BY SleepAt
<1>2. "INT" \in Signal /\ "ALRM" \in Signal BY DEF Signal
<1>3. Len(stack) \in Nat /\ Len(stack) > 0 BY StackTyped DEF Typed
<1>4. ASSUME Running, Advance, Len(stack) = 1, Top = stack[1]
      PROVE  Len(stack') = 1 /\ stack'[1].at = Top.at + 1 /\ waiting' = "no"
  BY <1>4, AdvanceIs DEF Running
<1>5. CASE Install
  <2>1. Running /\ Advance /\ Len(stack) = 1 /\ Top = stack[1] /\ Top.at = 1 /\ S = "ALRM"
    BY <1>1, <1>5 DEF Install, At
  <2>2. Len(stack') = 1 /\ stack'[1].at = 2 /\ waiting' = "no" BY <1>4, <2>1
  <2>3. /\ sig'.pend = sig.pend /\ sig'.mask = sig.mask /\ sig'.alarm = sig.alarm
        /\ sig'.disp["INT"] = sig.disp["INT"] /\ mem' = mem
    BY <1>2, <1>5, <2>1 DEF Install, Typed, SigOK
  <2> QED BY <2>1, <2>2, <2>3 DEF SleepJumpInv
<1>6. CASE SetJmp
  <2>1. Running /\ Advance /\ Len(stack) = 1 /\ Top = stack[1] /\ Top.at = 2 /\ Cur.to = 5
    BY <1>1, <1>6 DEF SetJmp, At
  <2>2. Len(stack') = 1 /\ stack'[1].at = 3 /\ waiting' = "no" BY <1>4, <2>1
  <2>3. sig' = sig /\ mem'.jmp = 5 /\ mem'.child = mem.child
    BY <1>6, <2>1 DEF SetJmp, Typed, MemOK
  <2> QED BY <2>2, <2>3 DEF SleepJumpInv
<1>7. CASE SetAlarm \/ Cancel
  <2>1. Running /\ Advance /\ Len(stack) = 1 /\ Top = stack[1]
        /\ (SetAlarm => Top.at = 3) /\ (Cancel => Top.at = 5)
    BY <1>1, <1>7 DEF SetAlarm, Cancel, At
  <2>2. Len(stack') = 1 /\ stack'[1].at = Top.at + 1 /\ waiting' = "no" BY <1>4, <2>1
  <2>3. /\ sig'.pend = sig.pend /\ sig'.disp = sig.disp /\ mem' = mem
        /\ Cancel => ~sig'.alarm
    BY <1>7 DEF SetAlarm, Cancel, Typed, SigOK
  <2>4. mem.jmp = 5 BY <1>7, <2>1 DEF SleepJumpInv
  <2> QED BY <1>7, <2>1, <2>2, <2>3, <2>4 DEF SleepJumpInv
<1>8. CASE Wait("pause")
  <2>1. Len(stack) = 1 /\ stack[1].at = 4 BY <1>1, <1>8 DEF Wait
  <2>2. waiting' = "pause" /\ UNCHANGED <<stack, sig, mem>> BY <1>8 DEF Wait
  <2> QED BY <2>1, <2>2 DEF SleepJumpInv
<1>9. CASE LongJmp
  <2>1. Len(stack) > 1 /\ Top.ctx # "caller" BY <1>1, <1>9 DEF LongJmp
  <2>2. mem.jmp = 5 BY <1>3, <2>1 DEF SleepJumpInv, Top
  <2>3. stack' = <<[stack[1] EXCEPT !.at = 5]>> BY <1>9, <2>2 DEF LongJmp
  <2>4. Len(stack') = 1 /\ stack'[1].at = 5 BY <2>3, JumpIs DEF Typed
  <2>5. /\ sig'.pend = sig.pend /\ sig'.disp = sig.disp /\ mem' = mem /\ waiting' = "no"
    BY <1>9 DEF LongJmp, Typed, SigOK, At, Running
  <2> QED BY <2>2, <2>4, <2>5 DEF SleepJumpInv
<1>10. CASE Again
  <2>1. Running /\ Len(stack) = 1 /\ Top = stack[1] /\ Top.at = 6
    BY <1>1, <1>10 DEF Again, At
  <2>2. GoTo(1) /\ UNCHANGED <<waiting, sig>> BY <1>10 DEF Again
  <2>3. Len(stack') = 1 /\ stack'[1].at = 1 BY <2>1, <2>2, GoToIs DEF Typed
  <2>4. mem'.child = mem.child BY <1>10 DEF Again, Typed, MemOK
  <2>5. ~sig.alarm /\ waiting = "no" BY <2>1 DEF SleepJumpInv, Running
  <2>6. "ALRM" \in sig.pend => "ALRM" \in sig.mask BY <2>1 DEF Running, Deliverable
  <2> QED BY <2>2, <2>3, <2>4, <2>5, <2>6 DEF SleepJumpInv
<1>11. CASE Exit
  <2>1. UNCHANGED <<stack, waiting, sig, mem>> BY <1>11 DEF Exit
  <2> QED BY <2>1 DEF SleepJumpInv
<1>12. CASE HandlerReturn
  <2>1. /\ Len(stack) > 1 /\ stack' = SubSeq(stack, 1, Len(stack) - 1)
        /\ waiting = "no" /\ UNCHANGED <<waiting, mem>>
    BY <1>12 DEF HandlerReturn, Running
  <2>2. Len(stack') = Len(stack) - 1 /\ \A i \in 1..Len(stack') : stack'[i] = stack[i]
    BY <2>1, ReturnIs DEF Typed
  <2>3. stack'[1] = stack[1] BY <1>3, <2>1, <2>2
  <2>4. sig'.pend = sig.pend /\ sig'.disp = sig.disp /\ sig'.alarm = sig.alarm
        /\ sig'.mask = Top.ret
    BY <1>12 DEF HandlerReturn, Typed, SigOK
  <2>5. CASE mem.jmp = 5 BY <2>1, <2>3, <2>4, <2>5 DEF SleepJumpInv
  <2>6. CASE mem.jmp # 5
    <3>1. \A i \in 2..Len(stack') : stack'[i].ctx = "caller"
      BY <1>3, <2>2, <2>6 DEF SleepJumpInv
    <3>2. "ALRM" \in sig'.pend =>
            "ALRM" \in sig'.mask /\ \A i \in 2..Len(stack') : "ALRM" \in stack'[i].ret
      BY <1>3, <2>1, <2>2, <2>4, <2>6 DEF SleepJumpInv, Top
    <3> QED BY <2>1, <2>3, <2>4, <2>6, <3>1, <3>2 DEF SleepJumpInv
  <2> QED BY <2>5, <2>6
<1> QED BY <1>1, <1>5, <1>6, <1>7, <1>8, <1>9, <1>10, <1>11, <1>12
        DEF Step, Uninstall, Default, Block, Unblock, Restore, AllBut, Wait, Suspend,
            SuspendWith, SetFlag, Jump, KillSelf, Fork, Reap, Nap

\* What happens to sleep2().
LEMMA SleepJumpSignals ==
  ASSUME Typed, SleepJumpInv, prog = "sleep2", ~caller.alarm,
         Send \/ Continue \/ Fire \/ ChildExits \/ Input \/ Deliver
  PROVE  SleepJumpInv'
<1>1. "INT" \in Signal /\ "ALRM" \in Signal BY DEF Signal
<1>2. Len(stack) \in Nat /\ Len(stack) > 0 BY StackTyped DEF Typed
<1>3. CASE Send
  <2>1. Raise("INT") BY <1>3 DEF Send, Foreign, Sleeper
  <2>2. /\ sig'.pend = sig.pend \cup {"INT"} /\ sig'.alarm = sig.alarm /\ sig'.disp = sig.disp
        /\ sig'.mask = sig.mask
    BY <2>1 DEF Raise, Typed, SigOK
  <2>3. UNCHANGED <<stack, waiting>> /\ mem'.child = mem.child /\ mem'.jmp = mem.jmp
    BY <1>3 DEF Send, Typed, MemOK
  <2> QED BY <2>2, <2>3 DEF SleepJumpInv
<1>4. CASE Continue BY <1>4 DEF Continue, SleepJumpInv
<1>5. CASE Fire
  <2>1. sig.alarm /\ Raise("ALRM") /\ UNCHANGED <<stack, waiting, mem>> BY <1>5 DEF Fire
  <2>2. sig'.pend = sig.pend \cup {"ALRM"} /\ ~sig'.alarm /\ sig'.disp = sig.disp
    BY <2>1 DEF Raise, Typed, SigOK
  <2>3. mem.jmp = 5 BY <2>1 DEF SleepJumpInv
  <2> QED BY <2>1, <2>2, <2>3 DEF SleepJumpInv
<1>6. ~ChildExits /\ ~Input BY DEF ChildExits, Input, SleepJumpInv
<1>7. CASE Deliver
  <2>1. PICK s \in Deliverable : TakeDefault(s) \/ Ignore(s) \/ Catch(s) BY <1>7 DEF Deliver
  <2>2. s \in {"INT", "ALRM"} /\ s \in sig.pend /\ s \notin sig.mask
    BY DEF Deliverable, SleepJumpInv
  <2>3. s = "ALRM" => mem.jmp = 5 BY <2>2 DEF SleepJumpInv
  <2>4. CASE TakeDefault(s) \/ Ignore(s)
    <3>1. /\ UNCHANGED <<stack, waiting, mem>> /\ sig'.disp = sig.disp
          /\ sig'.mask = sig.mask /\ sig'.alarm = sig.alarm /\ sig'.pend \subseteq sig.pend
      BY <2>4 DEF TakeDefault, Ignore, Typed, SigOK
    <3> QED BY <3>1 DEF SleepJumpInv
  <2>5. CASE Catch(s)
    <3>1. /\ Len(stack') = Len(stack) + 1 /\ SameFrames(stack, stack')
          /\ \A i \in 1..Len(stack) :
               stack'[i].at = IF i = Len(stack) /\ waiting \in {"pause", "suspend"}
                                THEN stack[i].at + 1 ELSE stack[i].at
          /\ stack'[Len(stack) + 1] = Handler(s)
      BY <1>1, <2>2, <2>5, CatchIs DEF Typed
    <3>2. /\ waiting' = "no" /\ mem'.child = mem.child /\ mem'.jmp = mem.jmp
      BY <2>5 DEF Catch, Typed, MemOK
    <3>3. /\ sig'.pend \subseteq sig.pend /\ sig'.alarm = sig.alarm
          /\ sig.mask \subseteq sig'.mask
      BY <2>5 DEF Catch, Typed, SigOK
    <3>4. sig'.disp["INT"] = "caller"
      <4>1. CASE s = "ALRM"
        <5>1. sig'.disp["INT"] = sig.disp["INT"]
          BY <1>1, <2>5, <4>1 DEF Catch, Typed, SigOK
        <5> QED BY <5>1 DEF SleepJumpInv
      <4>2. CASE s = "INT"
        <5>1. sig.disp["INT"] = "caller" BY DEF SleepJumpInv
        <5> QED BY <1>1, <2>5, <4>2, <5>1 DEF Catch, Typed, SigOK
      <4> QED BY <2>2, <4>1, <4>2
    <3>5. stack'[1].at = IF waiting = "pause" THEN 5 ELSE stack[1].at
      BY <1>2, <3>1 DEF SleepJumpInv
    <3>6. CASE mem.jmp = 5 BY <3>2, <3>3, <3>4, <3>5, <3>6 DEF SleepJumpInv
    <3>7. CASE mem.jmp # 5
      <4>1. s = "INT" /\ waiting = "no" BY <2>2, <2>3, <3>7 DEF SleepJumpInv
      <4>2. Handler(s).ctx = "caller" /\ Handler(s).ret = sig.mask
        BY <4>1 DEF Handler, SleepJumpInv
      <4>3. \A i \in 2..Len(stack') : stack'[i].ctx = "caller"
        BY <1>2, <3>1, <3>7, <4>2 DEF SameFrames, SleepJumpInv
      <4>4. "ALRM" \in sig'.pend =>
              "ALRM" \in sig'.mask /\ \A i \in 2..Len(stack') : "ALRM" \in stack'[i].ret
        BY <1>2, <3>1, <3>3, <3>7, <4>2 DEF SameFrames, SleepJumpInv
      <4> QED BY <3>2, <3>3, <3>4, <3>5, <3>7, <4>1, <4>3, <4>4 DEF SleepJumpInv
    <3> QED BY <3>6, <3>7
  <2> QED BY <2>1, <2>4, <2>5
<1> QED BY <1>3, <1>4, <1>5, <1>6, <1>7

\* A jump that finds no jmp_buf is one of sleep2() with an alarm of its caller.
LEMMA JumpIsValidKept ==
  ASSUME Typed, ReadJumpInv, MaskJumpInv, SleepJumpInv, JumpIsValid, Next
  PROVE  JumpIsValid'
<1>1. UNCHANGED <<prog, caller>> BY ConfKept
<1>2. CASE LongJmp /\ mem.jmp = 0
  <2>1. At("longjmp") BY <1>2 DEF LongJmp
  <2>2. Cur.op = "longjmp" /\ Known(prog, Top.ctx, Top.at) BY <2>1, AtKnown
  <2>3. /\ Top.ctx # "main"
        /\ prog \in {"sleep2", "read2"} \/ (prog = "mask" /\ Top.ctx = "USR1" /\ Top.at = 4)
    BY <2>2 DEF Known, Cur
  <2>4. Len(stack) > 1 /\ Len(stack) \in 2..Len(stack)
    <3>1. Top.ctx # "main" BY <2>3
    <3>2. Len(stack) # 1 BY <3>1, StackTyped DEF Typed
    <3> QED BY <3>2, InHandler
  <2>5. prog # "read2"
    <3>1. mem.jmp # 6 BY <1>2
    <3>2. Len(stack) # 1 BY <2>4, StackTyped DEF Typed
    <3> QED BY <3>1, <3>2 DEF ReadJumpInv
  <2>6. prog # "mask" BY <1>2, <2>3, <2>4 DEF MaskJumpInv, Top
  <2>7. prog = "sleep2" BY <2>3, <2>5, <2>6
  <2>8. Top.ctx # "caller" BY <2>1, <2>4, <2>7, SleepAt
  <2>9. caller.alarm BY <1>2, <2>4, <2>7, <2>8 DEF SleepJumpInv, Top
  <2> QED BY <1>1, <2>7, <2>9 DEF JumpIsValid
<1>3. CASE ~(LongJmp /\ mem.jmp = 0)
  <2>1. mode' = "undefined" => mode = "undefined"
    BY <1>3 DEF Next, Step, Install, Uninstall, Default, Block, Unblock, Restore, AllBut,
       SetAlarm, Cancel, Wait, Suspend, SuspendWith, SetJmp, LongJmp, SetFlag, Jump,
       KillSelf, Fork, Reap, Nap, Again, Exit, HandlerReturn, Send, Continue, Fire,
       ChildExits, Input, Deliver, TakeDefault, Ignore, Catch, Advance
  <2> QED BY <1>1, <2>1 DEF JumpIsValid
<1> QED BY <1>2, <1>3

-----------------------------------------------------------------------------
(* main() and its critical regions *)

\* main() stays within its operations.
LEMMA MainKept ==
  ASSUME Typed, MainInv, Next
  PROVE  MainInv'
<1> DEFINE n == Len(Code(prog, "main"))
<1>1. n \in Nat BY CodeLength DEF Typed, ConfOK, Context
<1>2. prog' = prog BY ConfKept
<1>3. /\ Len(stack) \in Nat /\ Len(stack) > 0 /\ stack[1].at \in Nat /\ Top.at \in Nat
      /\ Len(stack) = 1 => Top = stack[1] /\ Top.ctx = "main"
  BY StackTyped DEF Typed, Frame
<1>4. stack[1].at <= n /\ mem.jmp <= n BY DEF MainInv
<1> SUFFICES stack'[1].at <= n /\ mem'.jmp <= n BY <1>2 DEF MainInv
<1> HIDE DEF n
<1>5. mem'.jmp <= n
  <2>1. ASSUME SetJmp PROVE mem'.jmp <= n
    <3>1. Cur.to <= n BY <2>1, AtKnown DEF SetJmp, n
    <3> QED BY <2>1, <3>1 DEF SetJmp, Typed, MemOK
  <2>2. ASSUME Again PROVE mem'.jmp <= n BY <1>1, <2>2 DEF Again, Typed, MemOK
  <2> QED BY <1>4, <2>1, <2>2, MemoryKept
<1>6. ASSUME NEW op, At(op), op \notin {"exit", "goto", "again"}, Len(stack) = 1
      PROVE  Top.at + 1 <= n
  <2>1. Cur.op = op /\ Known(prog, Top.ctx, Top.at) BY <1>6, AtKnown
  <2>2. Top.ctx = "main" BY <1>3, <1>6
  <2>3. Top.at < n BY <1>6, <2>1, <2>2 DEF Known, Cur, n
  <2> QED BY <1>1, <1>3, <2>3
<1>7. ASSUME NEW op, At(op), op \notin {"exit", "goto", "again"}, Advance
      PROVE  stack'[1].at <= n
  <2>1. \A i \in 1..Len(stack) :
          stack'[i].at = IF i = Len(stack) THEN Top.at + 1 ELSE stack[i].at
    BY <1>7, AdvanceIs DEF At
  <2>2. CASE Len(stack) = 1
    <3>1. stack'[1].at = Top.at + 1 BY <2>1, <2>2
    <3>2. Top.at + 1 <= n BY <1>6, <1>7, <2>2
    <3> QED BY <3>1, <3>2
  <2>3. CASE Len(stack) # 1
    <3>1. 1 \in 1..Len(stack) BY <1>3
    <3>2. stack'[1].at = stack[1].at BY <2>1, <2>3, <3>1
    <3> QED BY <1>4, <3>2
  <2> QED BY <2>2, <2>3
<1>8. CASE \/ Install \/ Uninstall \/ Default \/ Block \/ Unblock \/ Restore \/ AllBut
           \/ SetAlarm \/ Cancel \/ SetJmp \/ SetFlag \/ KillSelf \/ Reap \/ Nap
  BY <1>5, <1>7, <1>8 DEF Install, Uninstall, Default, Block, Unblock, Restore, AllBut,
     SetAlarm, Cancel, SetJmp, SetFlag, KillSelf, Reap, Nap
<1>9. CASE stack' = stack BY <1>4, <1>5, <1>9
<1>10. CASE Fork BY <1>4, <1>5, <1>7, <1>10 DEF Fork
<1>11. CASE LongJmp
  <2>1. CASE mem.jmp = 0 BY <1>4, <1>5, <1>11, <2>1 DEF LongJmp
  <2>2. CASE mem.jmp # 0
    <3>1. mem.jmp \in Nat \ {0} BY <2>2 DEF Typed, MemOK
    <3>2. stack' = <<[stack[1] EXCEPT !.at = mem.jmp]>> BY <1>11, <2>2 DEF LongJmp
    <3>3. stack'[1].at = mem.jmp BY <3>1, <3>2, JumpIs DEF Typed
    <3> QED BY <1>4, <1>5, <3>3
  <2> QED BY <2>1, <2>2
<1>12. CASE Jump
  <2> DEFINE m == IF Cur.op = "goto" \/ ~mem.flag THEN Cur.to ELSE Top.at + 1
  <2>1. PICK op \in {"goto", "unless"} : At(op) BY <1>12 DEF Jump
  <2>2. Cur.op = op /\ Cur.to \in Nat \ {0} /\ Cur.to <= n BY <2>1, AtKnown DEF n
  <2>3. m \in Nat \ {0} BY <1>3, <2>2
  <2>4. Len(stack) = 1 => m <= n BY <1>6, <2>1, <2>2
  <2>5. GoTo(m) BY <1>12 DEF Jump
  <2> HIDE DEF m
  <2>6. \A i \in 1..Len(stack) : stack'[i].at = IF i = Len(stack) THEN m ELSE stack[i].at
    BY <2>3, <2>5, GoToIs DEF Typed
  <2>7. CASE Len(stack) = 1
    <3>1. stack'[1].at = m BY <2>6, <2>7
    <3> QED BY <1>5, <2>4, <2>7, <3>1
  <2>8. CASE Len(stack) # 1
    <3>1. 1 \in 1..Len(stack) BY <1>3
    <3>2. stack'[1].at = stack[1].at BY <2>6, <2>8, <3>1
    <3> QED BY <1>4, <1>5, <3>2
  <2> QED BY <2>7, <2>8
<1>13. CASE Again
  <2>1. Top.at \in Nat \ {0} /\ stack[1].at \in Nat \ {0} BY StackTyped DEF Typed, Frame
  <2>2. \A i \in 1..Len(stack) : stack'[i].at = IF i = Len(stack) THEN 1 ELSE stack[i].at
    BY <1>13, GoToIs DEF Again, Typed
  <2> QED BY <1>1, <1>3, <1>4, <1>5, <2>1, <2>2
<1>14. CASE HandlerReturn
  <2>1. Len(stack) > 1 /\ stack' = SubSeq(stack, 1, Len(stack) - 1)
    BY <1>14 DEF HandlerReturn
  <2>2. Len(stack') = Len(stack) - 1 /\ \A i \in 1..Len(stack') : stack'[i] = stack[i]
    BY <2>1, ReturnIs DEF Typed
  <2>3. stack'[1] = stack[1] BY <1>3, <2>1, <2>2
  <2> QED BY <1>4, <1>5, <2>3
<1>15. ASSUME waiting # "no", Len(stack) = 1
       PROVE  Top.at + 1 <= n
  <2>1. Top.at <= Len(Code(prog, Top.ctx)) /\ Cur.op \in Calls(waiting)
    BY <1>15 DEF Typed, CallOK
  <2>2. Top.ctx = "main" BY <1>3, <1>15
  <2>3. Top.at \in 1..Len(Code(prog, "main"))
    BY <1>1, <2>1, <2>2, StackTyped DEF Typed, Frame, n
  <2>4. Known(prog, "main", Top.at) BY <2>3, CodeKnown DEF Typed, ConfOK, Context
  <2>5. Cur.op \notin {"exit", "goto", "again"} BY <1>15, <2>1 DEF Calls, Typed
  <2>6. Top.at < n BY <2>2, <2>4, <2>5 DEF Known, Cur, n
  <2> QED BY <1>1, <1>3, <2>6
<1>16. CASE Input
  <2>1. /\ waiting = "read" /\ \A i \in 1..(Len(stack) - 1) : stack'[i].at = stack[i].at
        /\ stack'[Len(stack)].at \in {Cur.to, Top.at + 1}
    BY <1>16, InputTyped
  <2>2. Cur.to <= n
    <3>1. Top.at <= Len(Code(prog, Top.ctx)) BY <2>1 DEF Typed, CallOK
    <3>2. Top.ctx \in Context /\ Top.at \in Nat \ {0} BY StackTyped DEF Typed, Frame
    <3>3. Len(Code(prog, Top.ctx)) \in Nat BY <3>2, CodeLength DEF Typed, ConfOK
    <3>4. Top.at \in 1..Len(Code(prog, Top.ctx)) BY <3>1, <3>2, <3>3
    <3> QED BY <3>2, <3>4, CodeKnown DEF Typed, ConfOK, Known, Cur, n
  <2>3. CASE Len(stack) = 1
    <3>1. Top.at + 1 <= n BY <1>15, <2>1, <2>3
    <3>2. stack'[1].at \in {Cur.to, Top.at + 1} BY <2>1, <2>3
    <3> QED BY <1>5, <2>2, <3>1, <3>2
  <2>4. CASE Len(stack) # 1
    <3>1. Len(stack) > 1 BY <2>4, Handled DEF Typed
    <3>2. 1 \in 1..(Len(stack) - 1) BY <1>3, <3>1
    <3>3. stack'[1].at = stack[1].at BY <2>1, <3>2
    <3> QED BY <1>4, <1>5, <3>3
  <2> QED BY <2>3, <2>4
<1>17. CASE Deliver
  <2>1. PICK s \in Deliverable : TakeDefault(s) \/ Ignore(s) \/ Catch(s) BY <1>17 DEF Deliver
  <2>2. s \in Signal BY DEF Deliverable, Typed, SigOK
  <2>3. CASE TakeDefault(s) \/ Ignore(s) BY <1>9, <2>3 DEF TakeDefault, Ignore
  <2>4. CASE Catch(s)
    <3>1. \A i \in 1..Len(stack) :
            stack'[i].at = IF i = Len(stack) /\ waiting \in {"pause", "suspend"}
                             THEN stack[i].at + 1 ELSE stack[i].at
      BY <2>2, <2>4, CatchIs DEF Typed
    <3>2. CASE Len(stack) = 1
      <4>1. waiting # "no" => stack[1].at + 1 <= n BY <1>3, <1>15, <3>2
      <4>2. stack'[1].at = IF waiting \in {"pause", "suspend"} THEN stack[1].at + 1
                                                             ELSE stack[1].at
        BY <3>1, <3>2
      <4> QED BY <1>4, <1>5, <4>1, <4>2
    <3>3. CASE Len(stack) # 1
      <4>1. 1 \in 1..Len(stack) BY <1>3
      <4>2. stack'[1].at = stack[1].at BY <3>1, <3>3, <4>1
      <4> QED BY <1>4, <1>5, <4>2
    <3> QED BY <3>2, <3>3
  <2> QED BY <2>1, <2>3, <2>4
<1> QED BY <1>8, <1>9, <1>10, <1>11, <1>12, <1>13, <1>14, <1>16, <1>17
        DEF Next, Step, Wait, Suspend, SuspendWith, Exit, Send, Continue, Fire, ChildExits

\* What is known of operation i of main() in a program that blocks a signal.
KnownBlocker(p, i) ==
  LET o == Code(p, "main")[i] IN
  /\ o.op \in {"install", "uninstall", "block", "alarm", "suspend", "suspend_old", "cancel",
               "again", "nap", "restore", "exit", "pause", "unless", "goto"}
  /\ o.op = "block" <=> i = BlockAt(p)
  /\ o.op \in {"suspend", "suspend_old"} => i = SuspendAt(p)
  /\ o.op = "restore" <=> p # "sleep" /\ i = RestoreAt(p)
  /\ o.op = "pause" => i > RestoreAt(p)
  /\ o.op \in {"unless", "goto"} =>
       BlockAt(p) < i /\ i < RestoreAt(p) /\ BlockAt(p) < o.to /\ o.to <= RestoreAt(p)

\* All of that, program by program.
LEMMA BlockerCode ==
  ASSUME NEW p \in Blocker
  PROVE  \A i \in 1..Len(Code(p, "main")) : KnownBlocker(p, i)
<1> USE DEF KnownBlocker, Code, On, Op, To, BlockAt, SuspendAt, RestoreAt
<1>1. CASE p = "sleep" BY <1>1 DEF Sleep
<1>2. CASE p = "critical" BY <1>2 DEF Critical
<1>3. CASE p = "suspend1" BY <1>3 DEF Suspend1
<1>4. CASE p = "suspend2" BY <1>4 DEF Suspend2
<1> QED BY <1>1, <1>2, <1>3, <1>4 DEF Blocker

\* Their handlers set a flag or do nothing.
LEMMA BlockerHandlers ==
  ASSUME NEW p \in Blocker, NEW c \in Context \ {"main"}
  PROVE  \A i \in 1..Len(Code(p, c)) : Code(p, c)[i].op = "set"
<1> USE DEF Code, Op
<1>1. CASE p = "sleep" BY <1>1 DEF Sleep
<1>2. CASE p = "critical" BY <1>2 DEF Critical
<1>3. CASE p = "suspend1" BY <1>3 DEF Suspend1
<1>4. CASE p = "suspend2" BY <1>4 DEF Suspend2
<1> QED BY <1>1, <1>2, <1>3, <1>4 DEF Blocker

\* The order of the operations that matter.
LEMMA BlockerOrder ==
  ASSUME NEW p \in Blocker
  PROVE  /\ BlockAt(p) \in Nat \ {0} /\ SuspendAt(p) \in Nat /\ RestoreAt(p) \in Nat
         /\ 1 <= BlockAt(p) /\ BlockAt(p) < RestoreAt(p)
         /\ SuspendAt(p) = 0 \/ (BlockAt(p) < SuspendAt(p) /\ SuspendAt(p) < RestoreAt(p))
         /\ Blocked(p) \in Signal
  BY DEF Blocker, BlockAt, SuspendAt, RestoreAt, Blocked, Signal

\* The operations such a program is at.
LEMMA BlockerAt ==
  ASSUME Typed, prog \in Blocker, NEW op, At(op)
  PROVE  /\ Running /\ Cur.op = op
         /\ \/ /\ Len(stack) = 1 /\ Top = stack[1] /\ KnownBlocker(prog, Top.at)
               /\ Cur = Code(prog, "main")[Top.at] /\ (op = "block" => S = Blocked(prog))
            \/ Len(stack) > 1 /\ op = "set"
<1>1. /\ Running /\ Cur.op = op /\ Top.at \in 1..Len(Code(prog, Top.ctx))
      /\ Known(prog, Top.ctx, Top.at) /\ (op = "block" => Cur.s = {S})
  BY AtKnown
<1>2. CASE Len(stack) = 1
  <2>1. Top = stack[1] /\ Top.ctx = "main" BY <1>2, StackTyped DEF Typed
  <2>2. Cur = Code(prog, "main")[Top.at] BY <2>1 DEF Cur
  <2>3. KnownBlocker(prog, Top.at) BY <1>1, <2>1, BlockerCode
  <2>4. op = "block" => Cur.s = {Blocked(prog)} BY <1>1, <2>1, <2>2 DEF Known
  <2>5. op = "block" => S = Blocked(prog) BY <1>1, <2>4
  <2> QED BY <1>1, <1>2, <2>1, <2>2, <2>3, <2>5
<1>3. CASE Len(stack) # 1
  <2>1. Len(stack) > 1 BY <1>3, Handled DEF Typed
  <2>2. Top.ctx \in Context \ {"main"} BY <1>3, StackTyped DEF Typed, Frame
  <2>3. Cur.op = "set" BY <1>1, <2>2, BlockerHandlers DEF Cur
  <2> QED BY <1>1, <2>1, <2>3
<1> QED BY <1>2, <1>3

\* A signal that is protected is the one the program blocks.
LEMMA ProtectedIs ==
  ASSUME Typed, MainInv, NEW s \in Signal, Protected(s)
  PROVE  prog \in Blocker /\ s = Blocked(prog) /\ Inside
<1> DEFINE k == Code(prog, "main")
           a == stack[1].at
<1>1. PICK i \in 1..(a - 1) :
        k[i] = On("block", s) /\ \A j \in i..(a - 1) : k[j].op # "restore"
  BY DEF Protected
<1>2. a \in Nat \ {0} /\ a <= Len(k) BY StackTyped DEF Typed, Frame, MainInv
<1>3. Len(k) \in Nat /\ prog \in Program /\ "main" \in Context
  BY CodeLength DEF Typed, ConfOK, Context
<1>4. i \in 1..Len(k) /\ i < a BY <1>1, <1>2, <1>3
<1>5. k[i].op = "block" /\ k[i].s = {s} BY <1>1 DEF On
<1>6. prog \in Blocker /\ i = BlockAt(prog) /\ k[i].s = {Blocked(prog)}
  BY <1>3, <1>4, <1>5, CodeKnown DEF Known
<1>7. s = Blocked(prog) BY <1>5, <1>6
<1>8. a <= RestoreAt(prog)
  <2>1. SUFFICES ASSUME RestoreAt(prog) < a PROVE FALSE BY <1>2, <1>6, BlockerOrder
  <2>2. prog # "sleep"
    <3> SUFFICES ASSUME prog = "sleep" PROVE FALSE OBVIOUS
    <3>1. Len(k) = 7 BY DEF Code, Sleep
    <3>2. RestoreAt(prog) = 7 BY DEF RestoreAt
    <3> HIDE DEF k, a
    <3>3. a \in Nat /\ a <= 7 BY <1>2, <3>1
    <3> QED BY <2>1, <3>2, <3>3
  <2>3. RestoreAt(prog) \in i..(a - 1) /\ RestoreAt(prog) \in 1..Len(k)
    BY <1>2, <1>3, <1>6, <2>1, BlockerOrder
  <2>4. k[RestoreAt(prog)].op = "restore" BY <1>6, <2>2, <2>3, BlockerCode DEF KnownBlocker
  <2> QED BY <1>1, <2>3, <2>4
<1> QED BY <1>4, <1>6, <1>7, <1>8 DEF Inside

\* The steps of a program that blocks a signal.
LEMMA ProtectSteps ==
  ASSUME Typed, ProtectInv, prog \in Blocker, Step
  PROVE  ProtectInv'
<1> DEFINE b == BlockAt(prog)
           w == SuspendAt(prog)
           e == RestoreAt(prog)
           x == Blocked(prog)
<1>1. \A op : At(op) =>
        /\ Running /\ Cur.op = op
        /\ \/ /\ Len(stack) = 1 /\ Top = stack[1] /\ KnownBlocker(prog, Top.at)
              /\ Cur = Code(prog, "main")[Top.at] /\ (op = "block" => S = x)
           \/ Len(stack) > 1 /\ op = "set"
  BY BlockerAt
<1>2. /\ b \in Nat \ {0} /\ w \in Nat /\ e \in Nat /\ b < e /\ x \in Signal
      /\ w = 0 \/ (b < w /\ w < e)
  BY BlockerOrder
<1>3. /\ Len(stack) \in Nat /\ Len(stack) > 0 /\ stack[1].at \in Nat \ {0}
  BY StackTyped DEF Typed, Frame
<1>4. prog' = prog BY ConfKept DEF Next
<1>5. Inside <=> b < stack[1].at /\ stack[1].at <= e BY DEF Inside
<1>6. Inside' <=> b < stack'[1].at /\ stack'[1].at <= e BY <1>4 DEF Inside
<1>7. /\ waiting # "no" => Len(stack) = 1
      /\ waiting = "suspend" => stack[1].at = w
      /\ waiting = "pause" => stack[1].at > e
      /\ Inside => x \in (IF Len(stack) > 1 THEN stack[2].ret
                          ELSE IF waiting = "suspend" THEN sig.held ELSE sig.mask)
  BY DEF ProtectInv
<1>8. ASSUME waiting' = "no",
             Inside' => x \in (IF Len(stack') > 1 THEN stack'[2].ret ELSE sig'.mask)
      PROVE  ProtectInv'
  BY <1>4, <1>8 DEF ProtectInv
<1>9. ASSUME NEW op, At(op), op # "set"
      PROVE  /\ Running /\ Len(stack) = 1 /\ Top = stack[1] /\ (op = "block" => S = x)
             /\ op = "block" <=> Top.at = b
             /\ op \in {"suspend", "suspend_old"} => Top.at = w
             /\ op = "restore" => Top.at = e
             /\ op = "pause" => Top.at > e
             /\ op \in {"unless", "goto"} =>
                  b < Top.at /\ Top.at < e /\ b < Cur.to /\ Cur.to <= e
             /\ op \in {"install", "uninstall", "block", "alarm", "suspend", "suspend_old",
                        "cancel", "again", "nap", "restore", "exit", "pause", "unless", "goto"}
  BY <1>1, <1>9 DEF KnownBlocker
<1> HIDE DEF b, w, e, x
<1>10. ASSUME NEW op, At(op), op # "set", Advance
       PROVE  /\ waiting = "no" /\ waiting' = "no" /\ Len(stack) = 1 /\ Len(stack') = 1
              /\ stack'[1].at = stack[1].at + 1
              /\ Inside' /\ op # "block" => x \in sig.mask
  <2>1. Running /\ Len(stack) = 1 /\ Top = stack[1] /\ (op = "block" <=> Top.at = b)
    BY <1>9, <1>10
  <2>2. /\ waiting = "no" /\ waiting' = "no" /\ Len(stack') = 1
        /\ stack'[1].at = stack[1].at + 1
    BY <1>10, <2>1, AdvanceIs DEF Running
  <2>3. Inside' /\ op # "block" => Inside BY <1>2, <1>3, <1>5, <1>6, <2>1, <2>2
  <2>4. Inside => x \in sig.mask BY <1>7, <2>1, <2>2
  <2> QED BY <2>1, <2>2, <2>3, <2>4
<1>11. CASE Install \/ Uninstall \/ SetAlarm \/ Cancel \/ Nap
  <2>1. sig'.mask = sig.mask
    BY <1>11 DEF Install, Uninstall, SetAlarm, Cancel, Nap, Typed, SigOK
  <2>2. PICK op \in {"install", "uninstall", "alarm", "cancel", "nap"} : At(op) /\ Advance
    BY <1>11 DEF Install, Uninstall, SetAlarm, Cancel, Nap
  <2>3. waiting' = "no" /\ Len(stack') = 1 /\ (Inside' => x \in sig.mask) BY <1>10, <2>2
  <2> QED BY <1>8, <2>1, <2>3
<1>12. CASE Block
  <2>1. At("block") /\ Advance BY <1>12 DEF Block
  <2>2. S = x BY <1>9, <2>1
  <2>3. waiting' = "no" /\ Len(stack') = 1 BY <1>10, <2>1
  <2>4. x \in sig'.mask BY <1>12, <2>2 DEF Block, Typed, SigOK
  <2> QED BY <1>8, <2>3, <2>4
<1>13. CASE Restore
  <2>1. At("restore") /\ Advance BY <1>13 DEF Restore
  <2>2. Top = stack[1] /\ Top.at = e BY <1>9, <2>1
  <2>3. waiting' = "no" /\ stack'[1].at = stack[1].at + 1 BY <1>10, <2>1
  <2>4. ~Inside' BY <1>2, <1>3, <1>6, <2>2, <2>3
  <2> QED BY <1>8, <2>3, <2>4
<1>14. CASE Suspend
  <2>1. PICK op \in {"suspend", "suspend_old"} : At(op) BY <1>14 DEF Suspend, SuspendWith
  <2>2. Running /\ Len(stack) = 1 /\ stack[1].at = w BY <1>9, <2>1
  <2>3. waiting' = "suspend" /\ stack' = stack /\ sig'.held = sig.mask
    BY <1>14 DEF Suspend, SuspendWith, Typed, SigOK
  <2>4. waiting = "no" BY <2>2 DEF Running
  <2>5. Inside => x \in sig.mask BY <1>7, <2>2, <2>4
  <2>6. Inside' => x \in sig'.held BY <1>5, <1>6, <2>3, <2>5
  <2> QED BY <1>4, <2>2, <2>3, <2>6 DEF ProtectInv, w, x
<1>15. CASE Wait("pause")
  <2>1. Len(stack) = 1 /\ stack[1].at > e BY <1>9, <1>15 DEF Wait
  <2>2. waiting' = "pause" /\ stack' = stack BY <1>15 DEF Wait
  <2>3. ~Inside' BY <1>2, <1>3, <1>6, <2>1, <2>2
  <2> QED BY <1>4, <2>1, <2>2, <2>3 DEF ProtectInv, e
<1>16. CASE Jump
  <2> DEFINE m == IF Cur.op = "goto" \/ ~mem.flag THEN Cur.to ELSE Top.at + 1
  <2>1. PICK op \in {"goto", "unless"} : At(op) BY <1>16 DEF Jump
  <2>2. /\ Running /\ Len(stack) = 1 /\ Top = stack[1]
        /\ b < Top.at /\ Top.at < e /\ b < Cur.to /\ Cur.to <= e
    BY <1>9, <2>1
  <2>3. Cur.to \in Nat \ {0} BY <2>1, AtKnown
  <2>4. m \in Nat \ {0} BY <1>3, <2>2, <2>3
  <2>5. GoTo(m) /\ UNCHANGED <<waiting, sig>> BY <1>16 DEF Jump
  <2> HIDE DEF m
  <2>6. Len(stack') = 1 BY <2>2, <2>4, <2>5, GoToIs DEF Typed
  <2>7. waiting = "no" BY <2>2 DEF Running
  <2>8. Inside BY <1>2, <1>3, <1>5, <2>2
  <2>9. x \in sig.mask BY <1>7, <2>2, <2>7, <2>8
  <2> QED BY <1>8, <2>5, <2>6, <2>7, <2>9
<1>17. CASE Again
  <2>1. Running /\ Len(stack) = 1 BY <1>9, <1>17 DEF Again
  <2>2. GoTo(1) /\ UNCHANGED waiting BY <1>17 DEF Again
  <2>3. stack'[1].at = 1 BY <2>1, <2>2, GoToIs DEF Typed
  <2>4. ~Inside' BY <1>2, <1>6, <2>3
  <2> QED BY <1>8, <2>1, <2>2, <2>4 DEF Running
<1>18. CASE Exit
  <2>1. UNCHANGED <<stack, waiting, sig>> BY <1>18 DEF Exit
  <2> QED BY <1>4, <2>1 DEF ProtectInv, Inside
<1>19. CASE SetFlag
  <2>1. At("set") /\ Advance /\ sig' = sig BY <1>19 DEF SetFlag
  <2>2. Running /\ Cur.op = "set" BY <1>1, <2>1
  <2>3. Len(stack) > 1
    <3>1. \A i : ~(KnownBlocker(prog, i) /\ Code(prog, "main")[i].op = "set")
      BY DEF KnownBlocker
    <3> QED BY <1>1, <2>1, <2>2, <3>1
  <2>4. /\ waiting' = "no" /\ waiting = "no" /\ Len(stack') = Len(stack)
        /\ SameFrames(stack, stack')
        /\ \A i \in 1..Len(stack) :
             stack'[i].at = IF i = Len(stack) THEN Top.at + 1 ELSE stack[i].at
    BY <2>1, <2>2, AdvanceIs DEF Running
  <2>5. stack'[1].at = stack[1].at /\ stack'[2].ret = stack[2].ret
    BY <1>3, <2>3, <2>4 DEF SameFrames
  <2>6. Inside' => x \in stack'[2].ret BY <1>5, <1>6, <1>7, <2>3, <2>5
  <2> QED BY <1>8, <2>3, <2>4, <2>6
<1>20. CASE HandlerReturn
  <2>1. /\ Running /\ Len(stack) > 1 /\ stack' = SubSeq(stack, 1, Len(stack) - 1)
        /\ waiting' = waiting /\ sig'.mask = Top.ret
    BY <1>20 DEF HandlerReturn, Typed, SigOK
  <2>2. Len(stack') = Len(stack) - 1 /\ \A i \in 1..Len(stack') : stack'[i] = stack[i]
    BY <2>1, ReturnIs DEF Typed
  <2>3. stack'[1] = stack[1] BY <1>3, <2>1, <2>2
  <2>4. Inside' => x \in stack[2].ret BY <1>5, <1>6, <1>7, <2>1, <2>3
  <2>5. Len(stack') > 1 => stack'[2] = stack[2] BY <1>3, <2>2
  <2>6. ~(Len(stack') > 1) => Top = stack[2] BY <1>3, <2>1, <2>2 DEF Top
  <2>7. Inside' => x \in (IF Len(stack') > 1 THEN stack'[2].ret ELSE sig'.mask)
    BY <2>1, <2>4, <2>5, <2>6
  <2> QED BY <1>8, <2>1, <2>7 DEF Running
<1>21. ASSUME NEW op, At(op),
              op \in {"default", "unblock", "all_but", "read", "setjmp", "sigsetjmp", "longjmp",
                      "kill", "fork", "reap"}
       PROVE  FALSE
  BY <1>9, <1>21
<1> QED BY <1>11, <1>12, <1>13, <1>14, <1>15, <1>16, <1>17, <1>18, <1>19, <1>20, <1>21
        DEF Step, Default, Unblock, AllBut, Wait, SetJmp, LongJmp, KillSelf, Fork, Reap

\* What happens to such a program.
LEMMA ProtectSignals ==
  ASSUME Typed, ProtectInv, prog \in Blocker,
         Send \/ Continue \/ Fire \/ ChildExits \/ Input \/ Deliver
  PROVE  ProtectInv'
<1> DEFINE b == BlockAt(prog)
           w == SuspendAt(prog)
           e == RestoreAt(prog)
           x == Blocked(prog)
<1>1. /\ b \in Nat \ {0} /\ w \in Nat /\ e \in Nat /\ b < e
      /\ w = 0 \/ (b < w /\ w < e)
  BY BlockerOrder
<1>2. /\ Len(stack) \in Nat /\ Len(stack) > 0 /\ stack[1].at \in Nat \ {0}
  BY StackTyped DEF Typed, Frame
<1>3. prog' = prog BY ConfKept DEF Next
<1>4. Inside <=> b < stack[1].at /\ stack[1].at <= e BY DEF Inside
<1>5. Inside' <=> b < stack'[1].at /\ stack'[1].at <= e BY <1>3 DEF Inside
<1>6. CASE Send \/ Continue \/ Fire \/ ChildExits
  <2>1. UNCHANGED <<stack, waiting>> /\ sig'.mask = sig.mask /\ sig'.held = sig.held
    BY <1>6, OthersTyped
  <2> QED BY <1>3, <2>1 DEF ProtectInv, Inside
<1>7. ~Input BY DEF Input, ProtectInv
<1>8. CASE Deliver
  <2>1. PICK s \in Deliverable : TakeDefault(s) \/ Ignore(s) \/ Catch(s) BY <1>8 DEF Deliver
  <2>2. s \in Signal BY DEF Deliverable, Typed, SigOK
  <2>3. CASE TakeDefault(s) \/ Ignore(s)
    <3>1. UNCHANGED <<stack, waiting>> /\ sig'.mask = sig.mask /\ sig'.held = sig.held
      BY <2>3 DEF TakeDefault, Ignore, Typed, SigOK
    <3> QED BY <1>3, <3>1 DEF ProtectInv, Inside
  <2>4. CASE Catch(s)
    <3>1. waiting' = "no" BY <2>4 DEF Catch
    <3>2. /\ Len(stack') = Len(stack) + 1 /\ SameFrames(stack, stack')
          /\ \A i \in 1..Len(stack) :
               stack'[i].at = IF i = Len(stack) /\ waiting \in {"pause", "suspend"}
                                THEN stack[i].at + 1 ELSE stack[i].at
          /\ stack'[Len(stack) + 1] = Handler(s)
      BY <2>2, <2>4, CatchIs DEF Typed
    <3>3. /\ waiting # "no" => Len(stack) = 1
          /\ waiting = "suspend" => stack[1].at = w
          /\ waiting = "pause" => stack[1].at > e
          /\ Inside => x \in (IF Len(stack) > 1 THEN stack[2].ret
                              ELSE IF waiting = "suspend" THEN sig.held ELSE sig.mask)
      BY DEF ProtectInv
    <3> HIDE DEF b, w, e, x
    <3>4. Inside' => x \in stack'[2].ret
      <4>1. CASE Len(stack) = 1
        <5>1. /\ stack'[2] = Handler(s)
              /\ stack'[1].at = IF waiting \in {"pause", "suspend"} THEN stack[1].at + 1
                                                                  ELSE stack[1].at
          BY <3>2, <4>1
        <5>2. Handler(s).ret = IF waiting = "suspend" THEN sig.held ELSE sig.mask
          BY DEF Handler
        <5>3. Inside' => Inside BY <1>1, <1>2, <1>4, <1>5, <3>3, <5>1
        <5>4. Inside => x \in (IF waiting = "suspend" THEN sig.held ELSE sig.mask)
          BY <3>3, <4>1
        <5> QED BY <5>1, <5>2, <5>3, <5>4
      <4>2. CASE Len(stack) # 1
        <5>1. Len(stack) > 1 BY <4>2, Handled DEF Typed
        <5>2. 1 \in 1..Len(stack) /\ 2 \in 1..Len(stack) BY <1>2, <5>1
        <5>3. stack'[1].at = stack[1].at /\ stack'[2].ret = stack[2].ret
          BY <3>2, <4>2, <5>2 DEF SameFrames
        <5> QED BY <1>4, <1>5, <3>3, <5>1, <5>3
      <4> QED BY <4>1, <4>2
    <3>5. Len(stack') > 1 BY <1>2, <3>2
    <3> QED BY <1>3, <3>1, <3>4, <3>5 DEF ProtectInv, x
  <2> QED BY <2>1, <2>3, <2>4
<1> QED BY <1>6, <1>7, <1>8

-----------------------------------------------------------------------------
(* The theorems. *)

\* The invariant holds when the process starts.
LEMMA InitInv == Init => IInv
<1> SUFFICES ASSUME Init PROVE IInv OBVIOUS
<1>1. Typed /\ Len(stack) = 1 /\ stack[1].at = 1 BY InitTyped
<1>2. MainInv
  <2>1. Len(Code(prog, "main")) >= 1
    BY DEF Init, Program, Code, Intro, SigUsr, SigCld, Sleep1, Sleep2, Sleep, Read1, Read2,
       Critical, Mask, Suspend1, Suspend2, Abort, SigTstp
  <2>2. Len(Code(prog, "main")) \in Nat BY CodeLength DEF Init, Context
  <2>3. mem.jmp = 0 BY DEF Init
  <2> QED BY <1>1, <2>1, <2>2, <2>3 DEF MainInv
<1>3. AbortInv
  <2> SUFFICES ASSUME prog = "abort" PROVE AbortInv BY DEF AbortInv
  <2>1. "ABRT" \in Signal /\ Callers(prog) = {"ABRT"} BY DEF Signal, Callers
  <2>2. sig.disp["ABRT"] = caller.disp /\ caller.disp # "own" BY <2>1 DEF Init
  <2>3. ~sig.alarm BY DEF Init, Sleeper
  <2> QED BY <1>1, <2>2, <2>3 DEF Init, AbortInv
<1>4. TstpInv
  <2> SUFFICES ASSUME prog = "sigtstp" PROVE TstpInv BY DEF TstpInv
  <2>1. Callers(prog) = {} /\ prog \notin Sleeper BY DEF Callers, Sleeper
  <2>2. \A s \in Signal : sig.disp[s] = "default" BY <2>1 DEF Init
  <2> QED BY <1>1, <2>2 DEF Init, TstpInv, Signal
<1>5. ReadJumpInv
  <2> SUFFICES ASSUME prog = "read2" PROVE ReadJumpInv BY DEF ReadJumpInv
  <2>1. ~sig.alarm BY DEF Init, Sleeper
  <2> QED BY <1>1, <2>1 DEF Init, ReadJumpInv
<1>6. MaskJumpInv BY <1>1 DEF Init, MaskJumpInv
<1>7. SleepJumpInv
  <2> SUFFICES ASSUME prog = "sleep2", ~caller.alarm PROVE SleepJumpInv BY DEF SleepJumpInv
  <2>1. Callers(prog) = {"ALRM"} /\ prog \in Sleeper /\ "INT" \in Signal
    BY DEF Callers, Sleeper, Signal
  <2>2. sig.disp["INT"] = "caller" /\ ~sig.alarm BY <2>1 DEF Init
  <2> QED BY <1>1, <2>2 DEF Init, SleepJumpInv
<1>8. JumpIsValid BY DEF Init, JumpIsValid
<1>9. ProtectInv
  <2> SUFFICES ASSUME prog \in Blocker PROVE ProtectInv BY DEF ProtectInv
  <2>1. ~Inside BY <1>1, BlockerOrder DEF Inside
  <2> QED BY <2>1 DEF Init, ProtectInv
<1> QED BY <1>1, <1>2, <1>3, <1>4, <1>5, <1>6, <1>7, <1>8, <1>9 DEF IInv

\* Every step keeps the invariant.
LEMMA NextInv == IInv /\ [Next]_vars => IInv'
<1> SUFFICES ASSUME IInv, [Next]_vars PROVE IInv' OBVIOUS
<1>1. CASE UNCHANGED vars
  BY <1>1 DEF vars, IInv, Typed, ConfOK, StackOK, SigOK, MemOK, CallOK, MainInv, AbortInv,
     TstpInv, ReadJumpInv, MaskJumpInv, SleepJumpInv, JumpIsValid, ProtectInv, Inside, Top,
     Cur
<1>2. CASE Next
  <2> USE <1>2 DEF IInv
  <2>1. prog' = prog /\ caller' = caller BY ConfKept
  <2>2. Step \/ Send \/ Continue \/ Fire \/ ChildExits \/ Input \/ Deliver BY DEF Next
  <2>3. Typed' BY NextTyped
  <2>4. MainInv' BY MainKept
  <2>5. AbortInv'
    <3>1. CASE prog = "abort" BY <2>2, <3>1, AbortSteps, AbortSignals
    <3>2. CASE prog # "abort" BY <2>1, <3>2 DEF AbortInv
    <3> QED BY <3>1, <3>2
  <2>6. TstpInv'
    <3>1. CASE prog = "sigtstp" BY <2>2, <3>1, TstpSteps, TstpSignals
    <3>2. CASE prog # "sigtstp" BY <2>1, <3>2 DEF TstpInv
    <3> QED BY <3>1, <3>2
  <2>7. ReadJumpInv' /\ MaskJumpInv' BY ReadJumpKept, MaskJumpKept
  <2>8. SleepJumpInv'
    <3>1. CASE prog = "sleep2" /\ ~caller.alarm
      BY <2>2, <3>1, SleepJumpSteps, SleepJumpSignals
    <3>2. CASE ~(prog = "sleep2" /\ ~caller.alarm) BY <2>1, <3>2 DEF SleepJumpInv
    <3> QED BY <3>1, <3>2
  <2>9. JumpIsValid' BY JumpIsValidKept
  <2>10. ProtectInv'
    <3>1. CASE prog \in Blocker BY <2>2, <3>1, ProtectSteps, ProtectSignals
    <3>2. CASE prog \notin Blocker BY <2>1, <3>2 DEF ProtectInv
    <3> QED BY <3>1, <3>2
  <2> QED BY <2>3, <2>4, <2>5, <2>6, <2>7, <2>8, <2>9, <2>10
<1> QED BY <1>1, <1>2

\* The inductive invariant of the one-process programs of 10.signals: their types, and
\* what each of them knows of its signals at each of its calls.
THEOREM SignalsInvariant == Spec => []IInv
  BY InitInv, NextInv, PTL DEF Spec

\* abort() does not get past its first kill(): line 18 has made the default
\* action that of SIGABRT, whatever the caller had installed, and line 28 unblocks only
\* it, so that the kill() of line 32 does not return, however many others send signals.
THEOREM SignalsNeverPastFirstKill == Spec => []NeverPastFirstKill
<1>1. IInv => NeverPastFirstKill BY DEF IInv, AbortInv, NeverPastFirstKill
<1> QED BY <1>1, SignalsInvariant, PTL

\* Whenever 18_sigtstp is back in its read loop its handler is installed, for any
\* number of SIGTSTP and any nesting of the handler in itself (18_sigtstp:65).
THEOREM SignalsHandlerBack == Spec => []HandlerBack
<1>1. IInv => HandlerBack BY StackTyped DEF IInv, Typed, TstpInv, HandlerBack
<1> QED BY <1>1, SignalsInvariant, PTL

\* No program jumps without a valid jmp_buf but sleep2(), and sleep2() only if its
\* caller had set an alarm (05_sleep2:16), for any number of calls.
THEOREM SignalsJumpIsValid == Spec => []JumpIsValid
<1>1. IInv => JumpIsValid BY DEF IInv
<1> QED BY <1>1, SignalsInvariant, PTL

\* Only the delivery of a signal puts a frame on the stack.
LEMMA OnlyDeliverGrows ==
  ASSUME Typed, Next, Len(stack) = 1, Len(stack') = 2
  PROVE  Deliver
<1>1. CASE Step
  <2>1. ASSUME Running, Advance PROVE FALSE BY <2>1, AdvanceIs
  <2>2. ASSUME NEW n \in Nat \ {0}, GoTo(n) PROVE FALSE BY <2>2, GoToIs DEF Typed
  <2>3. CASE \/ Install \/ Uninstall \/ Default \/ Block \/ Unblock \/ Restore \/ AllBut
             \/ SetAlarm \/ Cancel \/ SetJmp \/ SetFlag \/ KillSelf \/ Reap \/ Nap
    BY <2>1, <2>3 DEF At, Install, Uninstall, Default, Block, Unblock, Restore, AllBut,
       SetAlarm, Cancel, SetJmp, SetFlag, KillSelf, Reap, Nap
  <2>4. CASE stack' = stack BY <2>4
  <2>5. CASE Fork BY <2>1, <2>4, <2>5 DEF Fork, At
  <2>6. CASE LongJmp
    <3>1. CASE mem.jmp = 0 BY <2>4, <2>6, <3>1 DEF LongJmp
    <3>2. CASE mem.jmp # 0
      <4>1. mem.jmp \in Nat \ {0} BY <3>2 DEF Typed, MemOK
      <4>2. stack' = <<[stack[1] EXCEPT !.at = mem.jmp]>> BY <2>6, <3>2 DEF LongJmp
      <4>3. Len(stack') = 1 BY <4>1, <4>2, JumpIs DEF Typed
      <4> QED BY <4>3
    <3> QED BY <3>1, <3>2
  <2>7. CASE Jump
    <3>1. Cur.to \in Nat \ {0} BY <2>7, AtKnown DEF Jump
    <3>2. Top.at + 1 \in Nat \ {0} BY StackTyped DEF Typed, Frame
    <3> QED BY <2>2, <2>7, <3>1, <3>2 DEF Jump
  <2>8. CASE Again BY <2>2, <2>8 DEF Again
  <2>9. CASE HandlerReturn BY <2>9 DEF HandlerReturn
  <2> QED BY <1>1, <2>3, <2>4, <2>5, <2>6, <2>7, <2>8, <2>9
          DEF Step, Wait, Suspend, SuspendWith, Exit
<1>2. CASE Send \/ Continue \/ Fire \/ ChildExits BY <1>2, OthersTyped
<1>3. CASE Input BY <1>3, InputTyped
<1> QED BY <1>1, <1>2, <1>3 DEF Next

\* Between the sigprocmask() that blocks a signal and the one that restores the mask,
\* main() is interrupted by it only in sigsuspend(): the "correct way to protect a
\* critical region" (12_suspend1:33) of 09_critical, 12, 13 and 17.
THEOREM SignalsHandlersOnlyInSuspend == Spec => HandlersOnlyInSuspend
<1> DEFINE Only == \A s \in Signal :
             (Len(stack) = 1 /\ Len(stack') = 2 /\ stack'[2].ctx = s /\ Protected(s))
               => waiting = "suspend"
<1>1. ASSUME IInv, Next PROVE Only
  <2> SUFFICES ASSUME NEW s \in Signal, Len(stack) = 1, Len(stack') = 2,
                      stack'[2].ctx = s, Protected(s), waiting # "suspend"
               PROVE  FALSE
    OBVIOUS
  <2>1. Typed /\ MainInv /\ ProtectInv BY <1>1 DEF IInv
  <2>2. prog \in Blocker /\ s = Blocked(prog) /\ Inside BY <2>1, ProtectedIs
  <2>3. s \in sig.mask BY <2>1, <2>2 DEF ProtectInv
  <2>4. Deliver BY <1>1, <2>1, OnlyDeliverGrows
  <2>5. PICK t \in Deliverable : TakeDefault(t) \/ Ignore(t) \/ Catch(t)
    BY <2>4 DEF Deliver
  <2>6. t \in Signal /\ t \notin sig.mask BY <2>1 DEF Deliverable, Typed, SigOK
  <2>7. Catch(t)
    <3>1. Len(stack') # Len(stack) OBVIOUS
    <3> QED BY <2>5, <3>1 DEF TakeDefault, Ignore
  <2>8. stack'[2] = Handler(t) BY <2>1, <2>6, <2>7, CatchIs DEF Typed
  <2>9. Handler(t).ctx \in {t, "caller"} BY DEF Handler
  <2>10. s # "caller" BY DEF Signal
  <2> QED BY <2>3, <2>6, <2>8, <2>9, <2>10
<1>2. IInv /\ [Next]_vars => [Only]_vars BY <1>1
<1> QED BY <1>2, SignalsInvariant, PTL DEF Spec, HandlersOnlyInSuspend
=============================================================================
