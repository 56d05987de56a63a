----------------------------- MODULE MultiProc -----------------------------
(***************************************************************************)
(* The scheduler of CMUCL's multi-processing (code/multi-proc.lisp).       *)
(*                                                                         *)
(* Processes are coroutines: each has a stack group, and one of them, the  *)
(* *current-process*, executes.  There is no scheduler process.  A process *)
(* that calls process-yield runs the scheduler's loop on its own stack,    *)
(* with *inhibit-scheduling* set, and suspends itself there when it resumes*)
(* the stack group of another.  SIGALRM may call process-yield between any *)
(* two instructions of a process that has not inhibited scheduling.        *)
(*                                                                         *)
(* The control stack of a process is a sequence of frames: its initial     *)
(* function, calls of process-wait, restart-process and process-yield, and *)
(* the interrupts that process-yield runs.  What the functions do is left  *)
(* open: any operation of the interface, at any time, that "Ops" admits.   *)
(***************************************************************************)
EXTENDS Naturals, Sequences, FiniteSets

CONSTANTS
  Processes, InitialProcess,
  IdleProcess,      \* *idle-process*, or None
  Flags,            \* what the program's wait predicates test
  None,             \* NIL
  Ops,              \* the operations that the program uses
  Restarters,       \* what calls restart-process: <<process, kind of its frame>>
  MaxOps,           \* bound: operations on other processes, all in all
  MaxClock          \* bound: the real time

ASSUME ConstantsAssumption ==
  /\ InitialProcess \in Processes
  /\ IdleProcess \in Processes \union {None}
  /\ None \notin Processes \union Flags
  /\ Restarters \subseteq Processes \X {"function", "interrupt"}
  /\ MaxOps \in Nat /\ MaxClock \in Nat

VARIABLES
  process,                \* the process structures
  stack,                  \* the control stack of each process's stack group
  all_processes, remaining_processes, current_process, inhibit_scheduling,
  flags,                  \* the flags that are set
  clock,                  \* the real time
  ops,                    \* operations on other processes so far
  error                   \* a wait predicate was called with a wrong argument list

queue == <<all_processes, remaining_processes>>
world == <<flags, clock, ops, error>>
vars == <<process, stack, queue, current_process, inhibit_scheduling, world>>

-----------------------------------------------------------------------------
(* A wait function is a closure that tests a flag, a function of one argument
   that tests a flag, restart-process's closure, or (constantly nil).      *)
NoFunction == [test |-> "none", arg |-> None]
FlagSet(f) == [test |-> "flag", arg |-> f]
FlagSetP   == [test |-> "flag_p", arg |-> None]
Killed(q)  == [test |-> "killed", arg |-> q]
Never      == [test |-> "never", arg |-> None]

WaitFunctions == [test: {"none", "flag", "flag_p", "killed", "never"},
                  arg: Flags \union Processes \union {None}]
Values == Flags \union Processes \union {None}
Timeouts == (0..(MaxClock + 1)) \union {None}
RunReasons == {"enable", "destroyed"}

(* An interrupt is a function of the program, or the throw that destroy-process
   sends.                                                                  *)
Interrupt == {"run", "throw"}

Process ==
  [state: {"unborn", "active", "inactive", "killed"},
   run_reasons: SUBSET RunReasons, arrest_reasons: SUBSET {"arrest"},
   wait_function: WaitFunctions, wait_function_args: Flags \union {None},
   wait_timeout: Timeouts, wait_return_value: Values,
   interrupts: Seq(Interrupt)]

Fresh(state, reasons) ==
  [state |-> state, run_reasons |-> reasons, arrest_reasons |-> {},
   wait_function |-> NoFunction, wait_function_args |-> None,
   wait_timeout |-> None, wait_return_value |-> None, interrupts |-> <<>>]

Alive(q) == process[q].state \in {"active", "inactive"}
IsActive(r) == r.state = "active" /\ r.run_reasons # {} /\ r.arrest_reasons = {}
Active(q) == IsActive(process[q])

(* Frames.  A call of process-yield is of kind "yield", or "sigalrm" if the
   handler made it; "fn", "deadline" are the arguments of process-wait,
   "target" is the one of restart-process, "saved" what an interrupt saves. *)
Saved == [wait_function: WaitFunctions, wait_timeout: Timeouts, wait_return_value: Values]
Frame ==
  [kind: {"function", "interrupt", "wait", "restart", "yield", "sigalrm"},
   at: {"start", "run", "throw", "set", "yield", "read", "wait", "build",
        "rotate", "check", "handling"},
   fn: WaitFunctions, deadline: Timeouts, target: Processes \union {None}, saved: Saved]

NothingSaved == [wait_function |-> NoFunction, wait_timeout |-> None, wait_return_value |-> None]
NewFrame(k, a) ==
  [kind |-> k, at |-> a, fn |-> NoFunction, deadline |-> None, target |-> None,
   saved |-> NothingSaved]
YieldFrame == NewFrame("yield", "rotate")

Top(p) == stack[p][Len(stack[p])]
Below(p) == SubSeq(stack[p], 1, Len(stack[p]) - 1)
At(p, a) == [stack[p] EXCEPT ![Len(stack[p])].at = a]

\* Process p executes Lisp code that is not the scheduler's.
Runs(p) == ~error /\ current_process = p /\ ~inhibit_scheduling
InCode(p) == Runs(p) /\ Top(p).at = "run"
InCall(p, k, a) == Runs(p) /\ Top(p).kind = k /\ Top(p).at = a

\* The scheduler runs on the stack of process p.
InLoop(p, a) ==
  /\ ~error /\ current_process = p /\ inhibit_scheduling
  /\ Top(p).kind \in {"yield", "sigalrm"} /\ Top(p).at = a

Init ==
  /\ process = [q \in Processes |-> IF q = InitialProcess
                                     THEN Fresh("active", {"enable"})
                                     ELSE Fresh("unborn", {})]
  /\ stack = [q \in Processes |-> IF q = InitialProcess
                                   THEN << NewFrame("function", "run") >> ELSE <<>>]
  /\ all_processes = << InitialProcess >>
  /\ remaining_processes = << InitialProcess >>
  /\ current_process = InitialProcess
  /\ inhibit_scheduling = FALSE
  /\ flags = {} /\ clock = 0 /\ ops = 0 /\ error = FALSE

-----------------------------------------------------------------------------
(***************************************************************************)
(* process-yield: the loop.                                                *)
(***************************************************************************)
RunIdleProcessP ==
  \A i \in DOMAIN all_processes :
    LET q == all_processes[i] IN
      ~(q # IdleProcess /\ Active(q) /\ process[q].wait_function = NoFunction)

MayRunNow(q) == q # IdleProcess \/ RunIdleProcessP

\* Mutant: the wait returns T rather than the value of the predicate.
Value_Truth(q, arg) ==
  LET fn == process[q].wait_function IN
  IF fn.test = "flag" /\ fn.arg \in flags THEN TRUE ELSE None

\* What the wait function of q returns, given the argument list it is applied to.
Value(q, arg) ==
  LET fn == process[q].wait_function IN
  CASE fn.test = "flag"   -> IF fn.arg \in flags THEN fn.arg ELSE None
    [] fn.test = "flag_p" -> IF arg \in flags THEN arg ELSE None
    [] fn.test = "killed" -> IF process[fn.arg].state = "killed" THEN fn.arg ELSE None
    [] OTHER -> None

\* ... or does not, called with a wrong number of arguments.
WrongArguments(q, arg) ==
  /\ process[q].interrupts = <<>>
  /\ process[q].wait_function # NoFunction
  /\ (process[q].wait_function.test = "flag_p") # (arg # None)

Flushed(q, v) ==
  [process[q] EXCEPT !.wait_return_value = v, !.wait_timeout = None,
                     !.wait_function = NoFunction]

\* The process structures with which q leaves its wait: at most one.
Wakings(q, arg) ==
  IF Value(q, arg) # None THEN {Flushed(q, Value(q, arg))}
  ELSE IF process[q].wait_timeout # None /\ clock > process[q].wait_timeout
         THEN {Flushed(q, None)} ELSE {}

Waits(q) == process[q].wait_function # NoFunction

\* Mutant: a waiting process is not resumed for its interrupts.
Resumptions_WaitFirst(q) ==
  IF Waits(q) THEN Wakings(q, process[q].wait_function_args)
  ELSE IF process[q].interrupts # <<>> \/ MayRunNow(q) THEN {process[q]} ELSE {}

\* ... with which the scheduler resumes q, seen from another process.
Resumptions(q) ==
  IF process[q].interrupts # <<>> THEN {process[q]}
  ELSE IF Waits(q) THEN Wakings(q, process[q].wait_function_args)
  ELSE IF MayRunNow(q) THEN {process[q]} ELSE {}

\* ... with which q returns from its own call of process-yield, no interrupt
\* being left.  The predicate is called without its arguments.
Returns(q) ==
  IF Waits(q) THEN Wakings(q, None)
  ELSE IF MayRunNow(q) THEN {process[q]} ELSE {}

\* Mutant: the queue is not kept from one call of process-yield to the next.
Rotated_FromFront == all_processes

Rotated == IF Len(remaining_processes) > 1 THEN Tail(remaining_processes) ELSE all_processes

(* Rotate the queue; the process at its head is p itself, or cannot run. *)
Rotate(p) ==
  /\ InLoop(p, "rotate")
  /\ remaining_processes' = Rotated
  /\ LET next == Head(Rotated) IN
       \/ next = p
       \/ ~Active(next)
       \/ /\ Resumptions(next) = {}
          /\ ~WrongArguments(next, process[next].wait_function_args)
  /\ stack' = [stack EXCEPT ![p] = At(p, "check")]
  /\ UNCHANGED <<process, all_processes, current_process, inhibit_scheduling, world>>

(* Rotate the queue, and stack-group-resume the process at its head. *)
Resume(p) ==
  /\ InLoop(p, "rotate")
  /\ remaining_processes' = Rotated
  /\ LET next == Head(Rotated) IN
       /\ next # p /\ Active(next)
       /\ ~WrongArguments(next, process[next].wait_function_args)
       /\ \E r \in Resumptions(next) : process' = [process EXCEPT ![next] = r]
       /\ current_process' = next
  /\ stack' = [stack EXCEPT ![p] = At(p, "check")]
  /\ UNCHANGED <<all_processes, inhibit_scheduling, world>>

\* Mutant: the wait state of the interrupted code is not reset.
RunInterrupt_KeepsWait(p) ==
  /\ InLoop(p, "check")
  /\ Head(remaining_processes) = p /\ Active(p)
  /\ process[p].interrupts # <<>>
  /\ process' = [process EXCEPT ![p].interrupts = Tail(@)]
  /\ stack' = [stack EXCEPT ![p] =
       Append([At(p, "handling") EXCEPT ![Len(stack[p])].saved =
                 [wait_function |-> process[p].wait_function,
                  wait_timeout |-> process[p].wait_timeout,
                  wait_return_value |-> process[p].wait_return_value]],
              NewFrame("interrupt", Head(process[p].interrupts)))]
  /\ inhibit_scheduling' = FALSE
  /\ UNCHANGED <<queue, current_process, world>>

(* The process is at the head of the queue and has an interrupt: save and reset
   its wait, allow scheduling, and call the interrupt.                     *)
RunInterrupt(p) ==
  /\ InLoop(p, "check")
  /\ Head(remaining_processes) = p /\ Active(p)
  /\ process[p].interrupts # <<>>
  /\ process' = [process EXCEPT ![p].interrupts = Tail(@),
                                ![p].wait_function = NoFunction,
                                ![p].wait_timeout = None,
                                ![p].wait_return_value = None]
  /\ stack' = [stack EXCEPT ![p] =
       Append([At(p, "handling") EXCEPT ![Len(stack[p])].saved =
                 [wait_function |-> process[p].wait_function,
                  wait_timeout |-> process[p].wait_timeout,
                  wait_return_value |-> process[p].wait_return_value]],
              NewFrame("interrupt", Head(process[p].interrupts)))]
  /\ inhibit_scheduling' = FALSE
  /\ UNCHANGED <<queue, current_process, world>>

\* Mutant: the return value of the interrupted wait is not restored.
InterruptReturn_DropsValue(p) ==
  /\ InCall(p, "interrupt", "run")
  /\ LET caller == Below(p) saved == caller[Len(caller)].saved IN
       /\ process' = [process EXCEPT ![p].wait_function = saved.wait_function,
                                     ![p].wait_timeout = saved.wait_timeout]
       /\ stack' = [stack EXCEPT ![p] =
            [caller EXCEPT ![Len(caller)].at = "rotate", ![Len(caller)].saved = NothingSaved]]
  /\ inhibit_scheduling' = TRUE
  /\ UNCHANGED <<queue, current_process, world>>

(* The interrupt returns: restore the wait, and go round the loop. *)
InterruptReturn(p) ==
  /\ InCall(p, "interrupt", "run")
  /\ LET caller == Below(p) saved == caller[Len(caller)].saved IN
       /\ process' = [process EXCEPT ![p].wait_function = saved.wait_function,
                                     ![p].wait_timeout = saved.wait_timeout,
                                     ![p].wait_return_value = saved.wait_return_value]
       /\ stack' = [stack EXCEPT ![p] =
            [caller EXCEPT ![Len(caller)].at = "rotate", ![Len(caller)].saved = NothingSaved]]
  /\ inhibit_scheduling' = TRUE
  /\ UNCHANGED <<queue, current_process, world>>

(* The interrupt throws to a catch of the process's own function. *)
InterruptThrow(p) ==
  /\ "throw" \in Ops
  /\ InCall(p, "interrupt", "run")
  /\ stack' = [stack EXCEPT ![p] = << stack[p][1] >>]
  /\ UNCHANGED <<process, queue, current_process, inhibit_scheduling, world>>

\* Mutant: a process that was stopped meanwhile goes on.
Return_Inactive(p) ==
  /\ InLoop(p, "check")
  /\ Head(remaining_processes) = p
  /\ process[p].interrupts = <<>>
  /\ ~WrongArguments(p, None)
  /\ \E r \in Returns(p) : process' = [process EXCEPT ![p] = r]
  /\ stack' = [stack EXCEPT ![p] = Below(p)]
  /\ inhibit_scheduling' = FALSE
  /\ UNCHANGED <<queue, current_process, world>>

(* The process is at the head of the queue and may go on. *)
Return(p) ==
  /\ InLoop(p, "check")
  /\ Head(remaining_processes) = p /\ Active(p)
  /\ process[p].interrupts = <<>>
  /\ ~WrongArguments(p, None)
  /\ \E r \in Returns(p) : process' = [process EXCEPT ![p] = r]
  /\ stack' = [stack EXCEPT ![p] = Below(p)]
  /\ inhibit_scheduling' = FALSE
  /\ UNCHANGED <<queue, current_process, world>>

(* It is not, or it still has to wait: go round the loop. *)
Loop(p) ==
  /\ InLoop(p, "check")
  /\ \/ Head(remaining_processes) # p
     \/ ~Active(p)
     \/ /\ process[p].interrupts = <<>>
        /\ ~WrongArguments(p, None)
        /\ Returns(p) = {}
  /\ stack' = [stack EXCEPT ![p] = At(p, "rotate")]
  /\ UNCHANGED <<process, queue, current_process, inhibit_scheduling, world>>

(* The predicate is called with a wrong number of arguments, in the scheduler. *)
PredicateError(p) ==
  /\ \/ /\ InLoop(p, "rotate")
        /\ LET next == Head(Rotated) IN
             /\ next # p /\ Active(next)
             /\ WrongArguments(next, process[next].wait_function_args)
     \/ /\ InLoop(p, "check")
        /\ Head(remaining_processes) = p /\ Active(p)
        /\ WrongArguments(p, None)
  /\ error' = TRUE
  /\ UNCHANGED <<process, stack, queue, current_process, inhibit_scheduling, flags, clock, ops>>

-----------------------------------------------------------------------------
(***************************************************************************)
(* Calls of process-yield, and the code that makes them.                   *)
(***************************************************************************)
Yield(p) ==
  /\ InCode(p)
  /\ stack' = [stack EXCEPT ![p] = Append(@, YieldFrame)]
  /\ inhibit_scheduling' = TRUE
  /\ UNCHANGED <<process, queue, current_process, world>>

(* The SIGALRM handler yields, unless it interrupted another handler. *)
Sigalrm(p) ==
  /\ "preempt" \in Ops
  /\ Runs(p) /\ Top(p).at # "start"
  /\ \A i \in DOMAIN stack[p] : stack[p][i].kind # "sigalrm"
  /\ stack' = [stack EXCEPT ![p] = Append(@, NewFrame("sigalrm", "rotate"))]
  /\ inhibit_scheduling' = TRUE
  /\ UNCHANGED <<process, queue, current_process, world>>

(* A new stack group is resumed: it enables scheduling and calls the function. *)
StartFunction(p) ==
  /\ ~error /\ current_process = p /\ Top(p).at = "start"
  /\ stack' = [stack EXCEPT ![p] = At(p, "run")]
  /\ inhibit_scheduling' = FALSE
  /\ UNCHANGED <<process, queue, current_process, world>>

SetFlag(p, f) ==
  /\ InCode(p)
  /\ f \notin flags
  /\ flags' = flags \union {f}
  /\ UNCHANGED <<process, stack, queue, current_process, inhibit_scheduling, clock, ops, error>>

(* process-wait and process-wait-with-timeout set the timeout and the argument
   list, then the function; they yield; they read the value.               *)
WaitCalls ==
  {<<FlagSet(f), None>> : f \in Flags}
    \union (IF "args" \in Ops THEN {<<FlagSetP, f>> : f \in Flags} ELSE {})
    \union {<<Never, None>>}
Deadlines == {None} \union (IF "timeout" \in Ops /\ clock < MaxClock THEN {clock} ELSE {})

StartWait(p, fn, arg, deadline) ==
  process' = [process EXCEPT ![p].wait_timeout = deadline, ![p].wait_function_args = arg]

CallWait(p, fn, arg, deadline) ==
  /\ "wait" \in Ops
  /\ InCode(p)
  /\ fn = Never => deadline # None
  /\ StartWait(p, fn, arg, deadline)
  /\ stack' = [stack EXCEPT ![p] =
       Append(@, [NewFrame("wait", "set") EXCEPT !.fn = fn, !.deadline = deadline])]
  /\ UNCHANGED <<queue, current_process, inhibit_scheduling, world>>

WaitSetFunction(p) ==
  /\ InCall(p, "wait", "set")
  /\ process' = [process EXCEPT ![p].wait_function = Top(p).fn]
  /\ stack' = [stack EXCEPT ![p] = At(p, "yield")]
  /\ UNCHANGED <<queue, current_process, inhibit_scheduling, world>>

WaitYield(p) ==
  /\ InCall(p, "wait", "yield")
  /\ stack' = [stack EXCEPT ![p] = Append(At(p, "read"), YieldFrame)]
  /\ inhibit_scheduling' = TRUE
  /\ UNCHANGED <<process, queue, current_process, world>>

WaitRead(p) ==
  /\ InCall(p, "wait", "read")
  /\ stack' = [stack EXCEPT ![p] = Below(p)]
  /\ UNCHANGED <<process, queue, current_process, inhibit_scheduling, world>>

-----------------------------------------------------------------------------
(***************************************************************************)
(* Operations on processes.                                                *)
(***************************************************************************)
Operates(p, op) ==
  /\ op \in Ops
  /\ InCode(p)
  /\ ops < MaxOps
  /\ ops' = ops + 1
  /\ UNCHANGED <<flags, clock, error>>

MakeProcess(p, q) ==
  /\ InCode(p)
  /\ process[q].state = "unborn"
  /\ process' = [process EXCEPT ![q] = Fresh("active", {"enable"})]
  /\ stack' = [stack EXCEPT ![q] = << NewFrame("function", "start") >>]
  /\ all_processes' = << q >> \o all_processes
  /\ UNCHANGED <<remaining_processes, current_process, inhibit_scheduling, world>>

ProcessInterrupt(p, q) ==
  /\ Operates(p, "interrupt")
  /\ process[q].state # "unborn"
  /\ process' = [process EXCEPT ![q].interrupts = << "run" >> \o @]
  /\ stack' = [stack EXCEPT ![p] = Append(@, YieldFrame)]
  /\ inhibit_scheduling' = TRUE
  /\ UNCHANGED <<queue, current_process>>

\* The part of destroy-process that runs without scheduling.
SendThrow(q) ==
  process' = IF process[q].state = "killed" THEN process
             ELSE [process EXCEPT
                    ![q].interrupts = << "throw" >> \o @,
                    ![q].state = "active",
                    ![q].arrest_reasons = {},
                    ![q].run_reasons = @ \union {"destroyed"}]

\* The initial process has no catch to throw to.
Destroyable(p, q) == q \notin {p, InitialProcess} /\ process[q].state # "unborn"

DestroyProcess(p, q) ==
  /\ Operates(p, "destroy")
  /\ Destroyable(p, q)
  /\ SendThrow(q)
  /\ stack' = [stack EXCEPT ![p] = Append(@, YieldFrame)]
  /\ inhibit_scheduling' = TRUE
  /\ UNCHANGED <<queue, current_process>>

(* restart-process: destroy the process, wait until it is dead, build it anew. *)
RestartProcess(p, q) ==
  /\ Operates(p, "restart") /\ <<p, Top(p).kind>> \in Restarters
  /\ Destroyable(p, q)
  /\ SendThrow(q)
  /\ stack' = [stack EXCEPT ![p] =
       @ \o << [NewFrame("restart", "wait") EXCEPT !.target = q], YieldFrame >>]
  /\ inhibit_scheduling' = TRUE
  /\ UNCHANGED <<queue, current_process>>

\* Mutant: the old stack is not waited for.
RestartWait_NoWait(p) ==
  /\ InCall(p, "restart", "wait")
  /\ stack' = [stack EXCEPT ![p] = At(p, "build")]
  /\ UNCHANGED <<process, queue, current_process, inhibit_scheduling, world>>

RestartWait(p) ==
  /\ InCall(p, "restart", "wait")
  /\ LET fn == Killed(Top(p).target) IN
       /\ StartWait(p, fn, None, None)
       /\ stack' = [stack EXCEPT ![p] =
            Append(At(p, "build"), [NewFrame("wait", "set") EXCEPT !.fn = fn])]
  /\ UNCHANGED <<queue, current_process, inhibit_scheduling, world>>

RestartBuild(p) ==
  /\ InCall(p, "restart", "build")
  /\ LET q == Top(p).target IN
       /\ process' = [process EXCEPT
            ![q] = [Fresh("active", @.run_reasons) EXCEPT !.arrest_reasons = process[q].arrest_reasons]]
       /\ stack' = [stack EXCEPT ![p] = Below(p), ![q] = << NewFrame("function", "start") >>]
       /\ all_processes' = << q >> \o all_processes
  /\ UNCHANGED <<remaining_processes, current_process, inhibit_scheduling, world>>

\* disable-process and enable-process assert that the process is not killed.
SetState(p, q, state) ==
  /\ Operates(p, "disable")
  /\ Alive(q) /\ process[q].state # state
  /\ process' = [process EXCEPT ![q].state = state]
  /\ UNCHANGED <<stack, queue, current_process, inhibit_scheduling>>

\* A process that arrests itself, or revokes its last run reason, yields.
YieldIf(p, stops) ==
  /\ stack' = IF stops THEN [stack EXCEPT ![p] = Append(@, YieldFrame)] ELSE stack
  /\ inhibit_scheduling' = stops
  /\ UNCHANGED <<queue, current_process>>

AddArrestReason(p, q) ==
  /\ Operates(p, "arrest")
  /\ process[q].state # "unborn" /\ process[q].arrest_reasons = {}
  /\ process' = [process EXCEPT ![q].arrest_reasons = {"arrest"}]
  /\ YieldIf(p, q = p)

RevokeArrestReason(p, q) ==
  /\ Operates(p, "arrest")
  /\ process[q].arrest_reasons # {}
  /\ process' = [process EXCEPT ![q].arrest_reasons = {}]
  /\ YieldIf(p, FALSE)

AddRunReason(p, q) ==
  /\ Operates(p, "run_reason")
  /\ process[q].state # "unborn" /\ "enable" \notin process[q].run_reasons
  /\ process' = [process EXCEPT ![q].run_reasons = @ \union {"enable"}]
  /\ YieldIf(p, FALSE)

RevokeRunReason(p, q) ==
  /\ Operates(p, "run_reason")
  /\ "enable" \in process[q].run_reasons
  /\ process' = [process EXCEPT ![q].run_reasons = @ \ {"enable"}]
  /\ YieldIf(p, q = p /\ process[q].run_reasons = {"enable"})

\* Mutant: a process that dies leaves itself in the list.
Die_StaysListed(p) ==
  /\ Runs(p) /\ p # InitialProcess
  /\ \/ Top(p).at = "throw"
     \/ "end" \in Ops /\ InCode(p) /\ Top(p).kind = "function"
  /\ process' = [process EXCEPT ![p] = Fresh("killed", {})]
  /\ stack' = [stack EXCEPT ![p] = <<>>]
  /\ current_process' = InitialProcess
  /\ inhibit_scheduling' = TRUE
  /\ UNCHANGED <<queue, world>>

\* (delete p list), for a list with one occurrence of p.
Without(list, p) ==
  LET i == CHOOSE i \in DOMAIN list : list[i] = p
  IN  SubSeq(list, 1, i - 1) \o SubSeq(list, i + 1, Len(list))

(* The initial function returns, or the throw of destroy-process unwinds it: the
   process is taken off the list, and the initial stack group, suspended in
   process-yield, is resumed.                                              *)
Die(p) ==
  /\ Runs(p) /\ p # InitialProcess
  /\ \/ Top(p).at = "throw"
     \/ "end" \in Ops /\ InCode(p) /\ Top(p).kind = "function"
  /\ process' = [process EXCEPT ![p] = Fresh("killed", {})]
  /\ stack' = [stack EXCEPT ![p] = <<>>]
  /\ all_processes' = Without(all_processes, p)
  /\ current_process' = InitialProcess
  /\ inhibit_scheduling' = TRUE
  /\ UNCHANGED <<remaining_processes, world>>

Tick ==
  /\ ~error /\ clock < MaxClock
  /\ clock' = clock + 1
  /\ UNCHANGED <<process, stack, queue, current_process, inhibit_scheduling, flags, ops, error>>

Stopped == error /\ UNCHANGED vars

Scheduler(p) ==
  \/ Rotate(p) \/ Resume(p) \/ Loop(p) \/ Return(p) \/ RunInterrupt(p) \/ PredicateError(p)

Code(p) ==
  \/ Yield(p) \/ Sigalrm(p) \/ StartFunction(p) \/ Die(p)
  \/ InterruptReturn(p) \/ InterruptThrow(p)
  \/ WaitSetFunction(p) \/ WaitYield(p) \/ WaitRead(p)
  \/ RestartWait(p) \/ RestartBuild(p)
  \/ \E f \in Flags : SetFlag(p, f)
  \/ \E call \in WaitCalls, deadline \in Deadlines : CallWait(p, call[1], call[2], deadline)

Operation(p, q) ==
  \/ MakeProcess(p, q) \/ ProcessInterrupt(p, q)
  \/ DestroyProcess(p, q) \/ RestartProcess(p, q)
  \/ SetState(p, q, "active") \/ SetState(p, q, "inactive")
  \/ AddArrestReason(p, q) \/ RevokeArrestReason(p, q)
  \/ AddRunReason(p, q) \/ RevokeRunReason(p, q)

Next ==
  \/ \E p \in Processes : Scheduler(p) \/ Code(p) \/ \E q \in Processes : Operation(p, q)
  \/ Tick
  \/ Stopped

Spec == Init /\ [][Next]_vars

(***************************************************************************)
(* Fairness: the current process keeps executing; its code calls           *)
(* process-yield sooner or later, and the interrupts it runs return.       *)
(***************************************************************************)
Fairness ==
  \A p \in Processes :
    /\ WF_vars(Scheduler(p)) /\ WF_vars(StartFunction(p)) /\ WF_vars(Yield(p))
    /\ WF_vars(WaitSetFunction(p)) /\ WF_vars(WaitYield(p)) /\ WF_vars(WaitRead(p))
    /\ WF_vars(RestartWait(p)) /\ WF_vars(RestartBuild(p))
    /\ WF_vars(Runs(p) /\ Top(p).at = "throw" /\ Die(p))
    /\ SF_vars(InterruptReturn(p))

FairSpec == Spec /\ Fairness

-----------------------------------------------------------------------------
(***************************************************************************)
(* Properties.                                                             *)
(***************************************************************************)
TypeOK ==
  /\ process \in [Processes -> Process]
  /\ stack \in [Processes -> Seq(Frame)]
  /\ all_processes \in Seq(Processes)
  /\ remaining_processes \in Seq(Processes)
  /\ current_process \in Processes
  /\ inhibit_scheduling \in BOOLEAN
  /\ flags \subseteq Flags /\ clock \in 0..MaxClock /\ ops \in 0..MaxOps /\ error \in BOOLEAN

(* The assertions of the code: in process-yield, that the current process heads
   the queue, and that no killed process is met in it; in process-wait, that
   the process does not wait yet.                                          *)
SchedulerAsserts ==
  /\ ~inhibit_scheduling => Head(remaining_processes) = current_process
  /\ \A p \in Processes : InLoop(p, "rotate") => Alive(Head(Rotated))
  /\ \A p \in Processes : InCode(p) => ~Waits(p)

(* *all-processes* is "a list of all alive processes", each of them once, and
   each of them but the current one is suspended where it can be resumed: in
   the loop of process-yield, or before its first instruction.             *)
AllAreAlive ==
  /\ \A q \in Processes :
       Alive(q) <=> Cardinality({i \in DOMAIN all_processes : all_processes[i] = q}) = 1
  /\ \A q \in Processes \ {current_process} :
       Alive(q) =>
         \/ (Top(q).kind \in {"yield", "sigalrm"} /\ Top(q).at = "check")
         \/ Top(q).at = "start"

(* The wait that a call of process-wait is in, or its answer, is kept for it
   while interrupts, and other waits in them, run on the process: in the
   process structure, or on the stack by process-yield.  The answer is the
   value of its own predicate, or NIL after its own timeout.               *)
Answers(f, v) ==
  IF v = None THEN f.deadline # None /\ clock > f.deadline
              ELSE v = f.fn.arg \/ f.fn.test = "flag_p"
WaitIsKept ==
  \A p \in Processes : \A i \in DOMAIN stack[p] :
    LET f == stack[p][i]
        kept == IF i < Len(stack[p]) /\ stack[p][i + 1].at = "handling"
                  THEN stack[p][i + 1].saved
                  ELSE [wait_function |-> process[p].wait_function,
                        wait_timeout |-> process[p].wait_timeout,
                        wait_return_value |-> process[p].wait_return_value]
    IN  f.kind = "wait" /\ f.at = "read" =>
          \/ /\ i < Len(stack[p])
             /\ kept.wait_function = f.fn /\ kept.wait_timeout = f.deadline
          \/ /\ kept.wait_function = NoFunction
             /\ Answers(f, kept.wait_return_value)

(* A process that was arrested, disabled or left without a run reason does not
   come back from the scheduler into its own code, an interrupt included.  *)
OnlyActiveResume ==
  [][inhibit_scheduling /\ ~inhibit_scheduling' => IsActive(process[current_process])']_vars

(* restart-process gives a process a new stack only once the old one has been
   unwound: a live process is never torn off its stack.  This is so as long as
   one function restarts processes; a second one, or an interrupt of the first,
   can build the process between the answer to its wait and its building.  *)
RestartsTheDead ==
  [][\A p \in Processes : RestartBuild(p) => process[Top(p).target].state = "killed"]_vars

(* "Restart process by unwinding it to its initial state and calling its initial
   function": the process that restart-process builds can run, unless it is
   arrested.                                                               *)
RestartedCanRun ==
  [][\A p \in Processes : RestartBuild(p) =>
       LET q == Top(p).target IN process[q].arrest_reasons = {} => IsActive(process'[q])]_vars

(* A wait predicate is called with the arguments that process-wait was given. *)
PredicatesGetArguments == ~error

(* Round robin: a process that can run, and waits for nothing, runs.  The idle
   process is the exception.                                               *)
RunnableRun ==
  \A p \in Processes \ {IdleProcess} :
    (Active(p) /\ ~Waits(p)) ~> (Runs(p) \/ ~Active(p) \/ Waits(p))

(* A process whose flag is set leaves its wait. *)
WaitersWake ==
  \A p \in Processes, f \in Flags :
    (Active(p) /\ process[p].wait_function = FlagSet(f) /\ f \in flags)
      ~> (process[p].wait_function # FlagSet(f) \/ ~Active(p))

(* A destroyed process dies, whatever it was waiting for. *)
DestroyedDie ==
  \A p \in Processes :
    (Alive(p) /\ \E i \in DOMAIN process[p].interrupts : process[p].interrupts[i] = "throw")
      ~> process[p].state = "killed"
=============================================================================
