------------------------------- MODULE Locks -------------------------------
(***************************************************************************)
(* Locks and timeouts of CMUCL's processes (code/multi-proc.lisp):         *)
(* with-lock-held and with-timeout, and the throws that interrupts make    *)
(* through them.                                                           *)
(*                                                                         *)
(* The control stack of a process is a sequence of frames: its function,   *)
(* the activations of the two macros, calls of process-yield, and the      *)
(* interrupts these run.  An activation has a clean-up form, which a throw *)
(* that passes it runs; a throw out of a clean-up form abandons it.  The   *)
(* scheduler, that MultiProc models, is here the choice of a process that  *)
(* may be resumed.                                                         *)
(***************************************************************************)
EXTENDS Naturals, Sequences, FiniteSets

CONSTANTS
  Processes, InitialProcess,
  Locks, ErrorCheckLocks,
  Timers,           \* the timer processes that with-timeout makes
  None,             \* NIL
  Nested,           \* with-timeout is called in the body of with-timeout
  MaxOps,           \* bound: interrupts and destructions sent, all in all
  MaxDepth          \* bound: frames of a stack from which the code calls

ASSUME ConstantsAssumption ==
  /\ InitialProcess \in Processes
  /\ ErrorCheckLocks \subseteq Locks
  /\ None \notin Processes \union Locks \union Timers
  /\ {"unborn", "killed"} \cap Processes = {}
  /\ Nested \in BOOLEAN
  /\ MaxOps \in Nat /\ MaxDepth \in Nat

VARIABLES
  lock_process,     \* who holds each lock
  stack,            \* the control stack of each process; <<>> if it is killed
  interrupts,       \* the pending interrupts of each process
  current_process,
  timers,           \* the state of each timer process
  expired,          \* the timers whose time has passed
  abandoned,        \* locks and timers whose clean-up form a throw skipped or left
  stray,            \* 'timer-interrupt was thrown, and nobody catches it
  ops               \* interrupts and destructions sent so far

vars == <<lock_process, stack, interrupts, current_process, timers, expired,
          abandoned, stray, ops>>

(* An interrupt is a function of the program, the throw of destroy-process, or
   the throw of a timer.                                                   *)
Interrupts == {"call", "end", "timer"}

(* "have" is with-lock-held's have-lock; "exit" is what follows a clean-up form:
   0, a return; or the index of the frame that a throw is on its way to.   *)
Frame ==
  [kind: {"function", "interrupt", "yield", "sigalrm", "lock", "timeout"},
   at: {"run", "try", "wait", "timed_wait", "start", "body", "cleanup", "destroyed", "forms"},
   lock: Locks \union {None}, have: BOOLEAN,
   timer: Timers \union {None}, exit: Nat]

NewFrame(k, a) ==
  [kind |-> k, at |-> a, lock |-> None, have |-> FALSE,
   timer |-> None, exit |-> 0]

Last(s) == s[Len(s)]
Pop(s) == SubSeq(s, 1, Len(s) - 1)
Moved(s, a) == [s EXCEPT ![Len(s)].at = a]
Top(p) == Last(stack[p])
Alive(p) == stack[p] # <<>>
Yields == {"yield", "sigalrm"}

Runs(p) == current_process = p /\ Top(p).kind \notin Yields
InCode(p) == Runs(p) /\ Top(p).at \in {"run", "body", "forms"}
At(p, k, a) == Runs(p) /\ Top(p).kind = k /\ Top(p).at = a

Init ==
  /\ lock_process = [l \in Locks |-> None]
  /\ stack = [p \in Processes |-> IF p = InitialProcess
                THEN << NewFrame("function", "run") >>
                ELSE << NewFrame("function", "run"), NewFrame("yield", "run") >>]
  /\ interrupts = [p \in Processes |-> <<>>]
  /\ current_process = InitialProcess
  /\ timers = [t \in Timers |-> "unborn"]
  /\ expired = {} /\ abandoned = {} /\ stray = FALSE /\ ops = 0

-----------------------------------------------------------------------------
(***************************************************************************)
(* Throws.                                                                 *)
(***************************************************************************)
HasCleanup(f) ==
  \/ f.kind = "lock" /\ f.at # "cleanup"
  \/ f.kind = "timeout" /\ f.at = "body"
Catches(f) == f.kind = "timeout" /\ f.at \in {"start", "body", "cleanup", "destroyed"}

Greatest(S) == CHOOSE i \in S : \A j \in S : j <= i

\* Mutant: the clean-up form does not belong to what unwind-protect protects.
Unwound_NoCleanup(s, k) ==
  IF k = 1 THEN <<>> ELSE Moved([SubSeq(s, 1, k) EXCEPT ![k].exit = 0], "forms")

(* The stack s after a throw to its frame k: the innermost clean-up form on the way
   runs; if there is none, the process ends, or the timeout forms are called. *)
Unwound(s, k) ==
  LET cleanups == {i \in k..Len(s) : HasCleanup(s[i])} IN
  IF cleanups # {}
    THEN LET i == Greatest(cleanups)
         IN  [SubSeq(s, 1, i) EXCEPT ![i].at = "cleanup", ![i].exit = k]
  ELSE IF k = 1 THEN <<>>
  ELSE Moved([SubSeq(s, 1, k) EXCEPT ![k].exit = 0], "forms")

\* Mutant: with-timeout-internal goes on after its body, instead of returning from it.
AfterCleanup_FallsThrough(s) ==
  IF Last(s).kind = "timeout" THEN Moved([s EXCEPT ![Len(s)].exit = 0], "forms")
  ELSE IF Last(s).exit = 0 THEN Pop(s)
  ELSE Unwound(Pop(s), Last(s).exit)

\* What follows the clean-up form on top of the stack s.
AfterCleanup(s) ==
  LET k == Last(s).exit IN
  IF k = 0 THEN Pop(s)
  ELSE IF k = Len(s) THEN Moved([s EXCEPT ![k].exit = 0], "forms")
  ELSE Unwound(Pop(s), k)

\* Mutant: a process that ends does not set *current-process*.
GoesOn_StaysCurrent(p, from, s) ==
  /\ stack' = [stack EXCEPT ![p] = s]
  /\ current_process' = p
  /\ UNCHANGED abandoned

(* Process p goes on with stack s, a throw having left the rest of its stack "from".
   A process that ends resumes the initial one.                            *)
GoesOn(p, from, s) ==
  /\ stack' = [stack EXCEPT ![p] = s]
  /\ current_process' = IF s = <<>> THEN InitialProcess ELSE p
  /\ LET left == {from[i] : i \in (Len(s) + 1)..Len(from)} IN
       abandoned' = abandoned
         \union {f.lock : f \in {g \in left : g.kind = "lock" /\ g.at = "cleanup"}}
         \union {f.timer : f \in {g \in left : g.kind = "timeout" /\ g.at \in {"start", "cleanup", "destroyed"}}}

-----------------------------------------------------------------------------
(***************************************************************************)
(* The scheduler: the current process yields, and process p is resumed.    *)
(***************************************************************************)
Waits == {"wait", "timed_wait"}
Waiting(p) == Len(stack[p]) > 1 /\ Last(Pop(stack[p])).at \in Waits

MayResume(p) == Top(current_process).kind \in Yields /\ Alive(p)

RunInterrupt(p) ==
  /\ MayResume(p)
  /\ interrupts[p] # <<>>
  /\ LET s == stack[p]
         catches == {i \in DOMAIN s : Catches(s[i])}
         throw == Head(interrupts[p])
         to == CASE throw = "call" -> Append(s, NewFrame("interrupt", "run"))
                    [] throw = "end" -> Unwound(s, 1)
                    [] OTHER -> IF catches = {} THEN s ELSE Unwound(s, Greatest(catches))
     IN  /\ GoesOn(p, s, to)
         /\ stray' = (stray \/ (throw = "timer" /\ catches = {}))
         /\ interrupts' = [interrupts EXCEPT ![p] = IF to = <<>> THEN <<>> ELSE Tail(@)]
  /\ UNCHANGED <<lock_process, timers, expired, ops>>

Return(p) ==
  /\ MayResume(p)
  /\ interrupts[p] = <<>> /\ ~Waiting(p)
  /\ LET s == Pop(stack[p]) IN
       IF Last(s).at = "destroyed" THEN GoesOn(p, Pop(s), AfterCleanup(s)) ELSE GoesOn(p, s, s)
  /\ UNCHANGED <<lock_process, interrupts, timers, expired, stray, ops>>

\* Mutant: the predicate finds the lock free before another takes it.
LockWaitSucceeds_NotAtomic(p) ==
  /\ MayResume(p)
  /\ interrupts[p] = <<>> /\ Waiting(p)
  /\ lock_process' = [lock_process EXCEPT ![Last(Pop(stack[p])).lock] = p]
  /\ GoesOn(p, <<>>, Moved(Pop(stack[p]), "body"))
  /\ UNCHANGED <<interrupts, timers, expired, stray, ops>>

(* The predicate of lock-wait takes the lock for the process that waits. *)
LockWaitSucceeds(p) ==
  /\ MayResume(p)
  /\ interrupts[p] = <<>> /\ Waiting(p)
  /\ LET s == Pop(stack[p]) IN
       /\ lock_process[Last(s).lock] = None
       /\ lock_process' = [lock_process EXCEPT ![Last(s).lock] = p]
       /\ GoesOn(p, s, Moved(s, "body"))
  /\ UNCHANGED <<interrupts, timers, expired, stray, ops>>

LockWaitTimesOut(p) ==
  /\ MayResume(p)
  /\ interrupts[p] = <<>> /\ Waiting(p)
  /\ LET s == Pop(stack[p]) IN
       /\ Last(s).at = "timed_wait" /\ lock_process[Last(s).lock] # None
       /\ GoesOn(p, s, Moved(s, "cleanup"))
  /\ UNCHANGED <<lock_process, interrupts, timers, expired, stray, ops>>

(* A timer process wakes, and interrupts the process that made it. *)
TimerExpires(t) ==
  /\ Top(current_process).kind \in Yields
  /\ timers[t] \in Processes
  /\ LET p == timers[t] IN
       interrupts' = IF Alive(p) THEN [interrupts EXCEPT ![p] = << "timer" >> \o @]
                     ELSE interrupts
  /\ timers' = [timers EXCEPT ![t] = "killed"]
  /\ expired' = expired \union {t}
  /\ UNCHANGED <<lock_process, stack, current_process, abandoned, stray, ops>>

-----------------------------------------------------------------------------
(***************************************************************************)
(* The code of the processes.                                              *)
(***************************************************************************)
Sigalrm(p) ==
  /\ Runs(p)
  /\ \A i \in DOMAIN stack[p] : stack[p][i].kind # "sigalrm"
  /\ stack' = [stack EXCEPT ![p] = Append(@, NewFrame("sigalrm", "run"))]
  /\ UNCHANGED <<lock_process, interrupts, current_process, timers, expired, abandoned, stray, ops>>

InterruptReturn(p) ==
  /\ At(p, "interrupt", "run")
  /\ stack' = [stack EXCEPT ![p] = Pop(@)]
  /\ UNCHANGED <<lock_process, interrupts, current_process, timers, expired, abandoned, stray, ops>>

(* process-interrupt and destroy-process put what q is to call before what it was
   sent earlier, and yield.                                                *)
Send(p, q, interrupt) ==
  /\ InCode(p) /\ ops < MaxOps /\ Alive(q)
  /\ interrupt = "end" => q \notin {p, InitialProcess}
  /\ interrupts' = [interrupts EXCEPT ![q] = << interrupt >> \o @]
  /\ stack' = [stack EXCEPT ![p] = Append(@, NewFrame("yield", "run"))]
  /\ ops' = ops + 1
  /\ UNCHANGED <<lock_process, current_process, timers, expired, abandoned, stray>>

Calls(p) == InCode(p) /\ Len(stack[p]) < MaxDepth

WithLockHeld(p, l) ==
  /\ Calls(p)
  /\ stack' = [stack EXCEPT ![p] =
       Append(@, [NewFrame("lock", "try") EXCEPT !.lock = l, !.have = (lock_process[l] = p)])]
  /\ UNCHANGED <<lock_process, interrupts, current_process, timers, expired, abandoned, stray, ops>>

Reenters(f) == f.have /\ f.lock \notin ErrorCheckLocks

\* Mutant: "Dead lock" is not signalled, and the process waits.
TakeLock_SelfWait(p, wait) ==
  /\ At(p, "lock", "try")
  /\ LET f == Top(p)
         free == lock_process[f.lock] = None
         s == Moved(stack[p], IF Reenters(f) \/ free THEN "body" ELSE wait)
     IN  /\ lock_process' = IF free THEN [lock_process EXCEPT ![f.lock] = p] ELSE lock_process
         /\ stack' = [stack EXCEPT ![p] =
              IF Last(s).at \in Waits THEN Append(s, NewFrame("yield", "run")) ELSE s]
  /\ UNCHANGED <<interrupts, current_process, timers, expired, abandoned, stray, ops>>

(* Take the lock, wait for it, or go to the clean-up form: with a "Dead lock" error,
   that some handler takes, or because the program does not want to wait.   *)
TakeLock(p, wait) ==
  /\ At(p, "lock", "try")
  /\ LET f == Top(p)
         free == lock_process[f.lock] = None
         s == Moved(stack[p], IF Reenters(f) \/ free THEN "body"
                              ELSE IF f.have THEN "cleanup" ELSE wait)
     IN  /\ lock_process' = IF free THEN [lock_process EXCEPT ![f.lock] = p] ELSE lock_process
         /\ stack' = [stack EXCEPT ![p] =
              IF Last(s).at \in Waits THEN Append(s, NewFrame("yield", "run")) ELSE s]
  /\ UNCHANGED <<interrupts, current_process, timers, expired, abandoned, stray, ops>>

BodyReturns(p) ==
  /\ Runs(p) /\ Top(p).kind \in {"lock", "timeout"} /\ Top(p).at = "body"
  /\ stack' = [stack EXCEPT ![p] = Moved(@, "cleanup")]
  /\ UNCHANGED <<lock_process, interrupts, current_process, timers, expired, abandoned, stray, ops>>

ReleaseLock(p) ==
  /\ At(p, "lock", "cleanup")
  /\ LET f == Top(p) IN
       lock_process' = IF ~f.have /\ lock_process[f.lock] = p
                         THEN [lock_process EXCEPT ![f.lock] = None] ELSE lock_process
  /\ GoesOn(p, Pop(stack[p]), AfterCleanup(stack[p]))
  /\ interrupts' = [interrupts EXCEPT ![p] = IF stack'[p] = <<>> THEN <<>> ELSE @]
  /\ UNCHANGED <<timers, expired, stray, ops>>

(* with-timeout catches 'timer-interrupt, makes the timer, and only then protects
   its body with the timer's destruction.                                  *)
WithTimeout(p, t) ==
  /\ Calls(p)
  /\ Nested \/ \A i \in DOMAIN stack[p] : stack[p][i].kind # "timeout"
  /\ timers[t] = "unborn"
  /\ timers' = [timers EXCEPT ![t] = p]
  /\ stack' = [stack EXCEPT ![p] = Append(@, [NewFrame("timeout", "start") EXCEPT !.timer = t])]
  /\ UNCHANGED <<lock_process, interrupts, current_process, expired, abandoned, stray, ops>>

ProtectBody(p) ==
  /\ At(p, "timeout", "start")
  /\ stack' = [stack EXCEPT ![p] = Moved(@, "body")]
  /\ UNCHANGED <<lock_process, interrupts, current_process, timers, expired, abandoned, stray, ops>>

(* The clean-up form of with-timeout: destroy-process, which yields. *)
DestroyTimer(p) ==
  /\ At(p, "timeout", "cleanup")
  /\ timers' = [timers EXCEPT ![Top(p).timer] = "killed"]
  /\ stack' = [stack EXCEPT ![p] = Append(Moved(@, "destroyed"), NewFrame("yield", "run"))]
  /\ UNCHANGED <<lock_process, interrupts, current_process, expired, abandoned, stray, ops>>

FormsReturn(p) ==
  /\ At(p, "timeout", "forms")
  /\ stack' = [stack EXCEPT ![p] = Pop(@)]
  /\ UNCHANGED <<lock_process, interrupts, current_process, timers, expired, abandoned, stray, ops>>

Next ==
  \/ \E p \in Processes :
       \/ RunInterrupt(p) \/ Return(p) \/ LockWaitSucceeds(p) \/ LockWaitTimesOut(p)
       \/ Sigalrm(p) \/ InterruptReturn(p)
       \/ \E q \in Processes, i \in {"call", "end"} : Send(p, q, i)
       \/ \E l \in Locks : WithLockHeld(p, l)
       \/ \E wait \in Waits \union {"cleanup"} : TakeLock(p, wait)
       \/ BodyReturns(p) \/ ReleaseLock(p)
       \/ \E t \in Timers : WithTimeout(p, t)
       \/ ProtectBody(p) \/ DestroyTimer(p) \/ FormsReturn(p)
  \/ \E t \in Timers : TimerExpires(t)

Spec == Init /\ [][Next]_vars

-----------------------------------------------------------------------------
(***************************************************************************)
(* Properties.                                                             *)
(***************************************************************************)
TypeOK ==
  /\ lock_process \in [Locks -> Processes \union {None}]
  /\ stack \in [Processes -> Seq(Frame)]
  /\ interrupts \in [Processes -> Seq(Interrupts)]
  /\ current_process \in {p \in Processes : Alive(p)}
  /\ timers \in [Timers -> {"unborn", "killed"} \union Processes]
  /\ expired \subseteq Timers /\ abandoned \subseteq Locks \union Timers
  /\ stray \in BOOLEAN /\ ops \in 0..MaxOps

LockFrames(p, l) == {i \in DOMAIN stack[p] : stack[p][i].kind = "lock" /\ stack[p][i].lock = l}

(* with-lock-held, "execute the body with the lock held": from the first to the last
   instruction of the body, through waits, interrupts that use the lock too, and
   timeouts that come as the lock is taken.                                *)
BodyHoldsLock ==
  \A p \in Processes, l \in Locks : \A i \in LockFrames(p, l) :
    stack[p][i].at = "body" => lock_process[l] = p

(* A lock that is held will be released: the process that holds it has, somewhere
   on its stack, the activation that took it.  Only a throw out of that
   activation's clean-up form breaks this.                                 *)
HeldIsReleased ==
  \A p \in Processes, l \in Locks :
    lock_process[l] = p =>
      \/ l \in abandoned
      \/ \E i \in LockFrames(p, l) : ~stack[p][i].have /\ stack[p][i].at \in {"body", "cleanup"}

(* No process waits for a lock that it holds itself: neither through an interrupt
   nor through a lock taken for it while it waited.  Below an interrupt that holds
   the lock a call may wait for it, but the process does not until the interrupt
   returns, and it releases the lock before.                               *)
NoSelfWait ==
  \A p \in Processes : Waiting(p) =>
    LET l == Last(Pop(stack[p])).lock IN lock_process[l] # p \/ l \in abandoned

(* The bodies of error-check locks do not nest. *)
ErrorCheckOnce ==
  \A p \in Processes, l \in ErrorCheckLocks :
    Cardinality({i \in LockFrames(p, l) : stack[p][i].at = "body"}) <= 1

(* "If the execution takes longer than timeout seconds, abort it and evaluate
   timeout-forms": they are evaluated after the time of this with-timeout. *)
TimeoutIsOwn ==
  \A p \in Processes : \A i \in DOMAIN stack[p] :
    stack[p][i].at = "forms" => stack[p][i].timer \in expired

(* A timer does not outlive its with-timeout, unless a throw skipped the form that
   destroys it, or left it.                                                *)
TimersEnd ==
  \A t \in Timers : timers[t] \in Processes =>
    \/ t \in abandoned
    \/ \E i \in DOMAIN stack[timers[t]] : stack[timers[t]][i].timer = t

(* with-lock-held: a body has its lock, and a lock its body.                *)
LockIsKept == BodyHoldsLock /\ HeldIsReleased

(* with-lock-held: no lock is waited for by its holder or nested if it may not. *)
NestingIsKept == NoSelfWait /\ ErrorCheckOnce

(* with-timeout: a timer acts for its own with-timeout, and only during it.  That
   ends when a timer whose with-timeout a throw has left expires: it throws to
   whatever with-timeout there is then.                                    *)
TimeoutIsKept ==
  abandoned \cap expired = {} => TimeoutIsOwn /\ TimersEnd /\ ~stray

(* with-lock-held implements mutual exclusion. *)
InBody == [l \in Locks |-> {p \in Processes : \E i \in LockFrames(p, l) : stack[p][i].at = "body"}]
M == INSTANCE Mutex WITH inside <- InBody
MutexSpec == M!Spec
=============================================================================
