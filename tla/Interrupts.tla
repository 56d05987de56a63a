----------------------------- MODULE Interrupts -----------------------------
(***************************************************************************)
(* Deferral of Unix signals in the CMUCL runtime (x86 port).               *)
(*                                                                         *)
(* A signal is handled at once, unless the interrupted Lisp code runs with *)
(* *interrupts-enabled* bound to NIL (WITHOUT-INTERRUPTS) or is inside a   *)
(* pseudo-atomic sequence (an allocation).  A deferred signal is kept in   *)
(* one slot (pending_signal, pending_mask), and every deferrable signal is *)
(* blocked in the interrupted context until the slot is emptied by         *)
(* interrupt_handle_pending, which the Lisp code calls by a trap.          *)
(* install_handler blocks a signal while it changes its handler.           *)
(*                                                                         *)
(* The control stack of the one Lisp thread is the sequence "frames": the  *)
(* dynamic extents of the macros and the signal handlers it is inside of.  *)
(* Signals arrive between any two of the instructions that the macros      *)
(* compile to.                                                             *)
(***************************************************************************)
EXTENDS Naturals, Sequences, FiniteSets

CONSTANTS
  Signals,          \* the deferrable signals (FILLBLOCKSET) in play
  NoSignal,         \* pending_signal = 0
  BlockSet,         \* signals the program blocks around a critical piece of
                    \* code: unix-sigblock ... unix-sigsetmask old
  Debugger,         \* TRUE if the program enters the debugger, which installs
                    \* the empty signal mask
  Installable,      \* signals whose handler the program changes
  CarefulInstall,   \* TRUE if enable-interrupt is called only with interrupts
                    \* enabled, and no handler throws out of a call of it
  MAX_INTERRUPTS,   \* size of lisp_interrupt_contexts
  MaxDepth,         \* bound: no macro is entered on a stack of MaxDepth frames
  MaxInstall        \* bound: nor enable-interrupt on one of MaxInstall frames

ASSUME ConstantsAssumption ==
  /\ NoSignal \notin Signals
  /\ BlockSet \subseteq Signals
  /\ Debugger \in BOOLEAN
  /\ Installable \subseteq Signals
  /\ CarefulInstall \in BOOLEAN
  /\ MAX_INTERRUPTS \in Nat
  /\ MaxDepth \in Nat \ {0}
  /\ MaxInstall \in 0..MaxDepth

VARIABLES
  kernelPending,    \* signals raised and not yet delivered by the kernel
  mask,             \* the signal mask of the running context
  pending_signal, pending_mask,   \* the slot of the deferred signal
  action,           \* the kernel's action for a signal: that of sigaction
  handlers,         \* interrupt_handlers, the table of the Lisp handlers
  INTERRUPT_PENDING,
  PSEUDO_ATOMIC_ATOMIC, PSEUDO_ATOMIC_INTERRUPTED,
  frames,           \* the control stack
  status            \* "running", or how the Lisp image ended

slot == <<pending_signal, pending_mask>>
tables == <<action, handlers>>
flags == <<INTERRUPT_PENDING, PSEUDO_ATOMIC_ATOMIC, PSEUDO_ATOMIC_INTERRUPTED>>
vars == <<kernelPending, mask, slot, tables, flags, frames, status>>

-----------------------------------------------------------------------------
(***************************************************************************)
(* Frames.  "enabled" is the value of *interrupts-enabled* while the frame *)
(* is on top: a binding made by a frame is undone by popping it.  "saved"  *)
(* is the mask that leaving the frame installs (sigreturn from a handler,  *)
(* unix-sigsetmask after unix-sigblock, the end of install_handler).  "new" *)
(* is the handler that install_handler installs.                           *)
(***************************************************************************)
Kinds == {"main", "handler", "without", "with", "pseudo_atomic", "sigblock", "install"}
Handlers == {"lisp", "ignore", "default"}
Phases == {"body",          \* ordinary Lisp code of the frame runs
           "check",         \* *interrupts-enabled* is T, *interrupt-pending* untested
           "enter",         \* interrupted flag cleared, atomic flag not yet set
           "leave",         \* atomic flag cleared, interrupted flag untested
           "alloc_check",   \* same, in the slow path of alloc()
           "alloc_gc",      \* alloc() has called MAYBE-GC
           "blocked",       \* install_handler has blocked its signal
           "acted",         \* ... and has called sigaction
           "tabled"}        \* ... and has changed interrupt_handlers

Frame == [kind: Kinds, phase: Phases, enabled: BOOLEAN,
          sig: Signals \union {NoSignal}, saved: SUBSET Signals, new: Handlers]

NewFrame(k, p, e) ==
  [kind |-> k, phase |-> p, enabled |-> e, sig |-> NoSignal, saved |-> {}, new |-> "lisp"]

Top == frames[Len(frames)]
Below == SubSeq(frames, 1, Len(frames) - 1)
WithTop(p, e) ==
  [frames EXCEPT ![Len(frames)] = [Top EXCEPT !.phase = p, !.enabled = e]]

INTERRUPTS_ENABLED == Top.enabled

\* FREE_INTERRUPT_CONTEXT_INDEX: bound to one more by every handler that runs.
FreeContextIndex(stack) ==
  Cardinality({i \in DOMAIN stack : stack[i].kind = "handler"})

\* The top frame runs ordinary Lisp code, which may enter any of the macros.
InLisp ==
  /\ status = "running"
  /\ IF Top.kind = "pseudo_atomic" THEN Top.phase = "alloc_gc" ELSE Top.phase = "body"

At(k, p) == status = "running" /\ Top.kind = k /\ Top.phase = p

MayEnter == InLisp /\ Len(frames) < MaxDepth

Init ==
  /\ kernelPending = {}
  /\ mask = {}
  /\ pending_signal = NoSignal
  /\ pending_mask = {}
  /\ action = [s \in Signals |-> "lisp"]
  /\ handlers = [s \in Signals |-> "lisp"]
  /\ INTERRUPT_PENDING = FALSE
  /\ PSEUDO_ATOMIC_ATOMIC = FALSE
  /\ PSEUDO_ATOMIC_INTERRUPTED = FALSE
  /\ frames = << NewFrame("main", "body", TRUE) >>
  /\ status = "running"

-----------------------------------------------------------------------------
(***************************************************************************)
(* The C side: interrupt.c.                                                *)
(***************************************************************************)

(* interrupt_handle_now: call the handler of sig on the stack "under", in a
   context whose mask is uc_sigmask.  The context array may be full, and
   the handler may be gone by the time a deferred signal is handled.       *)
HandleNow(sig, under, uc_sigmask) ==
  /\ mask' = uc_sigmask
  /\ \/ /\ handlers[sig] = "ignore"
        /\ frames' = under /\ status' = "running"
     \/ /\ handlers[sig] # "ignore"
        /\ FreeContextIndex(under) >= MAX_INTERRUPTS
        /\ frames' = under /\ status' = "exited"
     \/ /\ handlers[sig] = "default"
        /\ FreeContextIndex(under) < MAX_INTERRUPTS
        /\ frames' = under /\ status' = "lost"
     \/ /\ handlers[sig] = "lisp"
        /\ FreeContextIndex(under) < MAX_INTERRUPTS
        /\ frames' = Append(under,
             [kind |-> "handler", phase |-> "body",
              enabled |-> under[Len(under)].enabled,
              sig |-> sig, saved |-> uc_sigmask, new |-> "lisp"])
        /\ status' = "running"

\* Mutant: the saved mask is not installed.
HandlePending_KeepsMask(under) ==
  /\ INTERRUPT_PENDING' = FALSE
  /\ pending_mask' = {}
  /\ pending_signal' = NoSignal
  /\ IF pending_signal = NoSignal
       THEN UNCHANGED <<mask, status>> /\ frames' = under
       ELSE HandleNow(pending_signal, under, mask)

(* interrupt_handle_pending, from the pending-interrupt trap.  "under" is the
   stack after the trap instruction has been skipped.                      *)
HandlePending(under) ==
  /\ INTERRUPT_PENDING' = FALSE
  /\ pending_mask' = {}
  /\ pending_signal' = NoSignal
  /\ \/ /\ pending_signal = NoSignal
        /\ mask' = pending_mask
        /\ frames' = under
        /\ status' = status
     \/ /\ pending_signal # NoSignal
        /\ HandleNow(pending_signal, under, pending_mask)

\* Mutant: FILLBLOCKSET of the interrupted context is forgotten.
SetupPending_NoBlock(sig) ==
  /\ pending_signal' = sig
  /\ pending_mask' = mask
  /\ UNCHANGED <<mask, frames, status>>

SetupPending(sig) ==
  /\ pending_signal' = sig
  /\ pending_mask' = mask
  /\ mask' = mask \union Signals
  /\ UNCHANGED <<frames, status>>

(* The kernel delivers sig to maybe_now_maybe_later. *)
Deliver(sig) ==
  /\ status = "running"
  /\ sig \in kernelPending \ mask
  /\ action[sig] = "lisp"
  /\ kernelPending' = kernelPending \ {sig}
  /\ \/ /\ ~INTERRUPTS_ENABLED
        /\ SetupPending(sig)
        /\ INTERRUPT_PENDING' = TRUE
        /\ UNCHANGED PSEUDO_ATOMIC_INTERRUPTED
     \/ /\ INTERRUPTS_ENABLED
        /\ PSEUDO_ATOMIC_ATOMIC
        /\ SetupPending(sig)
        /\ PSEUDO_ATOMIC_INTERRUPTED' = TRUE
        /\ UNCHANGED INTERRUPT_PENDING
     \/ /\ INTERRUPTS_ENABLED
        /\ ~PSEUDO_ATOMIC_ATOMIC
        /\ HandleNow(sig, frames, mask)
        /\ UNCHANGED <<slot, INTERRUPT_PENDING, PSEUDO_ATOMIC_INTERRUPTED>>
  /\ UNCHANGED <<tables, PSEUDO_ATOMIC_ATOMIC>>

(* The environment raises a signal; one already pending is merged, one that
   is ignored is dropped.                                                  *)
Raise(sig) ==
  /\ status = "running"
  /\ action[sig] # "ignore"
  /\ sig \notin kernelPending
  /\ kernelPending' = kernelPending \union {sig}
  /\ UNCHANGED <<mask, slot, tables, flags, frames, status>>

(* The kernel's own action for a signal set to :default ends the image. *)
DeliverDefault(sig) ==
  /\ status = "running"
  /\ sig \in kernelPending \ mask
  /\ action[sig] = "default"
  /\ kernelPending' = kernelPending \ {sig}
  /\ status' = "terminated"
  /\ UNCHANGED <<mask, slot, tables, flags, frames>>

(***************************************************************************)
(* enable-interrupt.  install_handler blocks its signal, calls sigaction    *)
(* and changes the table, and installs the mask it found; the other signals *)
(* may come in between, and what they do to the mask is undone by the last  *)
(* step.                                                                   *)
(***************************************************************************)
InstallBlock(sig, handler) ==
  /\ MayEnter /\ Len(frames) < MaxInstall
  /\ CarefulInstall => INTERRUPTS_ENABLED
  /\ mask' = mask \union {sig}
  /\ frames' = Append(frames, [NewFrame("install", "blocked", INTERRUPTS_ENABLED)
                                 EXCEPT !.sig = sig, !.saved = mask, !.new = handler])
  /\ UNCHANGED <<kernelPending, slot, tables, flags, status>>

\* sigaction: ignoring a signal discards one that the kernel still holds.
InstallSigaction ==
  /\ At("install", "blocked")
  /\ action' = [action EXCEPT ![Top.sig] = Top.new]
  /\ kernelPending' = IF Top.new = "ignore" THEN kernelPending \ {Top.sig} ELSE kernelPending
  /\ frames' = WithTop("acted", INTERRUPTS_ENABLED)
  /\ UNCHANGED <<mask, slot, handlers, flags, status>>

InstallTable ==
  /\ At("install", "acted")
  /\ handlers' = [handlers EXCEPT ![Top.sig] = Top.new]
  /\ frames' = WithTop("tabled", INTERRUPTS_ENABLED)
  /\ UNCHANGED <<kernelPending, mask, slot, action, flags, status>>

\* Mutant: the signal is left blocked.
InstallUnblock_Not ==
  /\ At("install", "tabled")
  /\ frames' = Below
  /\ UNCHANGED <<kernelPending, mask, slot, tables, flags, status>>

InstallUnblock ==
  /\ At("install", "tabled")
  /\ mask' = Top.saved
  /\ frames' = Below
  /\ UNCHANGED <<kernelPending, slot, tables, flags, status>>

(* A handler returns: undo_fake_foreign_function_call, then sigreturn. *)
HandlerReturn ==
  /\ At("handler", "body")
  /\ mask' = Top.saved
  /\ frames' = Below
  /\ UNCHANGED <<kernelPending, slot, tables, flags, status>>

\* Mutant: the throw always takes the interrupted frame with it.
HandlerThrow_DropsFrame ==
  /\ At("handler", "body")
  /\ frames' = SubSeq(frames, 1, Len(frames) - 2)
  /\ UNCHANGED <<kernelPending, mask, slot, tables, flags, status>>

(* A handler throws.  The code it interrupted in the middle of a macro or of
   install_handler is abandoned with that frame; otherwise a catch in the
   interrupted frame takes the throw.  Nothing touches the mask.           *)
HandlerThrow ==
  /\ At("handler", "body")
  /\ CarefulInstall => Below[Len(Below)].kind # "install"
  /\ frames' = IF Below[Len(Below)].phase # "body"
                 THEN SubSeq(frames, 1, Len(frames) - 2)
                 ELSE Below
  /\ UNCHANGED <<kernelPending, mask, slot, tables, flags, status>>

-----------------------------------------------------------------------------
(***************************************************************************)
(* The Lisp side: the macros of signal.lisp.                               *)
(***************************************************************************)
EnterWithoutInterrupts ==
  /\ MayEnter
  /\ INTERRUPTS_ENABLED
  /\ frames' = Append(frames, NewFrame("without", "body", FALSE))
  /\ UNCHANGED <<kernelPending, mask, slot, tables, flags, status>>

\* The body ends, by return or by throw: *interrupts-enabled* is T again.
LeaveWithoutInterrupts ==
  /\ At("without", "body")
  /\ frames' = WithTop("check", TRUE)
  /\ UNCHANGED <<kernelPending, mask, slot, tables, flags, status>>

\* Mutant: the cleanup form is missing.
CheckWithoutInterrupts_NoTrap ==
  /\ At("without", "check")
  /\ frames' = Below
  /\ UNCHANGED <<kernelPending, mask, slot, tables, flags, status>>

\* The cleanup form: do-pending-interrupt when *interrupt-pending*.
CheckWithoutInterrupts ==
  /\ At("without", "check")
  /\ \/ /\ INTERRUPT_PENDING
        /\ HandlePending(Below)
     \/ /\ ~INTERRUPT_PENDING
        /\ frames' = Below
        /\ UNCHANGED <<mask, slot, INTERRUPT_PENDING, status>>
  /\ UNCHANGED <<kernelPending, tables, PSEUDO_ATOMIC_ATOMIC, PSEUDO_ATOMIC_INTERRUPTED>>

EnterWithInterrupts ==
  /\ MayEnter
  /\ ~INTERRUPTS_ENABLED
  /\ frames' = Append(frames, NewFrame("with", "check", TRUE))
  /\ UNCHANGED <<kernelPending, mask, slot, tables, flags, status>>

CheckWithInterrupts ==
  /\ At("with", "check")
  /\ \/ /\ INTERRUPT_PENDING
        /\ HandlePending(WithTop("body", TRUE))
     \/ /\ ~INTERRUPT_PENDING
        /\ frames' = WithTop("body", TRUE)
        /\ UNCHANGED <<mask, slot, INTERRUPT_PENDING, status>>
  /\ UNCHANGED <<kernelPending, tables, PSEUDO_ATOMIC_ATOMIC, PSEUDO_ATOMIC_INTERRUPTED>>

\* Mutant: *interrupts-enabled* assigned, not bound.
LeaveWithInterrupts_Setq ==
  /\ At("with", "body")
  /\ frames' = [Below EXCEPT ![Len(Below)].enabled = TRUE]
  /\ UNCHANGED <<kernelPending, mask, slot, tables, flags, status>>

LeaveWithInterrupts ==
  /\ At("with", "body")
  /\ frames' = Below
  /\ UNCHANGED <<kernelPending, mask, slot, tables, flags, status>>

-----------------------------------------------------------------------------
(***************************************************************************)
(* Pseudo-atomic sequences, and the slow path of alloc() that leaves and   *)
(* re-enters one to collect garbage.                                       *)
(***************************************************************************)
PaClearInterrupted ==
  /\ MayEnter
  /\ PSEUDO_ATOMIC_INTERRUPTED' = FALSE
  /\ frames' = Append(frames, NewFrame("pseudo_atomic", "enter", INTERRUPTS_ENABLED))
  /\ UNCHANGED <<kernelPending, mask, slot, tables, INTERRUPT_PENDING,
                 PSEUDO_ATOMIC_ATOMIC, status>>

PaSetAtomic ==
  /\ At("pseudo_atomic", "enter")
  /\ PSEUDO_ATOMIC_ATOMIC' = TRUE
  /\ frames' = WithTop("body", INTERRUPTS_ENABLED)
  /\ UNCHANGED <<kernelPending, mask, slot, tables, INTERRUPT_PENDING,
                 PSEUDO_ATOMIC_INTERRUPTED, status>>

\* Mutant: the slow path of alloc() stays atomic.
PaClearAtomic_NotInAlloc(next) ==
  /\ At("pseudo_atomic", "body")
  /\ PSEUDO_ATOMIC_ATOMIC' = (next = "alloc_check")
  /\ frames' = WithTop(next, INTERRUPTS_ENABLED)
  /\ UNCHANGED <<kernelPending, mask, slot, tables, INTERRUPT_PENDING,
                 PSEUDO_ATOMIC_INTERRUPTED, status>>

\* The end of the sequence ("leave"), or alloc() over its trigger ("alloc_check").
PaClearAtomic(next) ==
  /\ At("pseudo_atomic", "body")
  /\ PSEUDO_ATOMIC_ATOMIC' = FALSE
  /\ frames' = WithTop(next, INTERRUPTS_ENABLED)
  /\ UNCHANGED <<kernelPending, mask, slot, tables, INTERRUPT_PENDING,
                 PSEUDO_ATOMIC_INTERRUPTED, status>>

TestInterrupted(under) ==
  /\ \/ /\ PSEUDO_ATOMIC_INTERRUPTED
        /\ HandlePending(under)
     \/ /\ ~PSEUDO_ATOMIC_INTERRUPTED
        /\ frames' = under
        /\ UNCHANGED <<mask, slot, INTERRUPT_PENDING, status>>
  /\ UNCHANGED <<kernelPending, tables, PSEUDO_ATOMIC_ATOMIC, PSEUDO_ATOMIC_INTERRUPTED>>

PaTestInterrupted ==
  At("pseudo_atomic", "leave") /\ TestInterrupted(Below)

AllocTestInterrupted ==
  At("pseudo_atomic", "alloc_check") /\ TestInterrupted(WithTop("alloc_gc", INTERRUPTS_ENABLED))

AllocRetry ==
  /\ At("pseudo_atomic", "alloc_gc")
  /\ PSEUDO_ATOMIC_INTERRUPTED' = FALSE
  /\ frames' = WithTop("enter", INTERRUPTS_ENABLED)
  /\ UNCHANGED <<kernelPending, mask, slot, tables, INTERRUPT_PENDING,
                 PSEUDO_ATOMIC_ATOMIC, status>>

-----------------------------------------------------------------------------
(***************************************************************************)
(* Lisp code that changes the signal mask itself.                          *)
(***************************************************************************)
Sigblock ==
  /\ MayEnter
  /\ BlockSet # {}
  /\ mask' = mask \union BlockSet
  /\ frames' = Append(frames, [NewFrame("sigblock", "body", INTERRUPTS_ENABLED)
                                 EXCEPT !.saved = mask])
  /\ UNCHANGED <<kernelPending, slot, tables, flags, status>>

SigsetmaskOld ==
  /\ At("sigblock", "body")
  /\ mask' = Top.saved
  /\ frames' = Below
  /\ UNCHANGED <<kernelPending, slot, tables, flags, status>>

InvokeDebugger ==
  /\ Debugger
  /\ InLisp
  /\ mask # {}
  /\ mask' = {}
  /\ UNCHANGED <<kernelPending, slot, tables, flags, frames, status>>

Stopped == status # "running" /\ UNCHANGED vars

LispStep ==
  \/ EnterWithoutInterrupts \/ LeaveWithoutInterrupts \/ CheckWithoutInterrupts
  \/ EnterWithInterrupts \/ CheckWithInterrupts \/ LeaveWithInterrupts
  \/ PaClearInterrupted \/ PaSetAtomic
  \/ PaClearAtomic("leave") \/ PaClearAtomic("alloc_check")
  \/ PaTestInterrupted \/ AllocTestInterrupted \/ AllocRetry
  \/ Sigblock \/ SigsetmaskOld \/ InvokeDebugger
  \/ HandlerReturn \/ HandlerThrow
  \/ InstallSigaction \/ InstallTable \/ InstallUnblock

Next ==
  \/ LispStep
  \/ \E sig \in Signals :
       \/ Raise(sig) \/ Deliver(sig) \/ DeliverDefault(sig)
  \/ \E sig \in Installable, handler \in Handlers : InstallBlock(sig, handler)
  \/ Stopped

Spec == Init /\ [][Next]_vars

(***************************************************************************)
(* Fairness: one thread of Lisp code, which keeps running however often it *)
(* is interrupted, leaves every body it enters, that of a handler too, and *)
(* does not collect garbage forever in one allocation; and a kernel that   *)
(* delivers a deliverable signal.  A frame is named by its depth, so that   *)
(* what is done above it does not count for it.                            *)
(***************************************************************************)
MoveOn ==
  \/ LeaveWithoutInterrupts \/ CheckWithoutInterrupts
  \/ CheckWithInterrupts \/ LeaveWithInterrupts
  \/ PaSetAtomic \/ PaClearAtomic("leave") \/ PaTestInterrupted
  \/ AllocTestInterrupted \/ AllocRetry
  \/ InstallSigaction \/ InstallTable \/ InstallUnblock
  \/ SigsetmaskOld
  \/ HandlerReturn \/ HandlerThrow

Fairness ==
  /\ \A depth \in 2..(MaxDepth + MAX_INTERRUPTS) :
       SF_vars(Len(frames) = depth /\ MoveOn)
  /\ \A depth \in 2..MaxDepth :
       SF_vars(Len(frames) = depth /\ PaClearAtomic("leave"))
  /\ \A sig \in Signals : SF_vars(Deliver(sig) \/ DeliverDefault(sig))

FairSpec == Spec /\ Fairness

-----------------------------------------------------------------------------
(***************************************************************************)
(* Properties.                                                             *)
(***************************************************************************)
TypeOK ==
  /\ kernelPending \subseteq Signals
  /\ mask \subseteq Signals
  /\ pending_signal \in Signals \union {NoSignal}
  /\ pending_mask \subseteq Signals
  /\ action \in [Signals -> Handlers]
  /\ handlers \in [Signals -> Handlers]
  /\ INTERRUPT_PENDING \in BOOLEAN
  /\ PSEUDO_ATOMIC_ATOMIC \in BOOLEAN
  /\ PSEUDO_ATOMIC_INTERRUPTED \in BOOLEAN
  /\ frames \in Seq(Frame) /\ Len(frames) > 0
  /\ status \in {"running", "exited", "lost", "terminated"}

(* WITHOUT-INTERRUPTS runs its body "in a context impervious to interrupts":
   a handler is on the stack above a body of WITHOUT-INTERRUPTS only if a
   WITH-INTERRUPTS between them let it in.                                 *)
Impervious ==
  \A h \in DOMAIN frames : frames[h].kind = "handler" =>
    \A w \in 1..(h - 1) :
      (frames[w].kind = "without" /\ frames[w].phase = "body") =>
        \E i \in (w + 1)..(h - 1) : frames[i].kind = "with"

(* Nothing runs on top of a pseudo-atomic sequence, and the flag that the
   C code tests says exactly when the thread is inside one, whatever handlers
   ran, and threw, between the instructions that set and clear it.         *)
AtomicIsAtomic ==
  /\ \A i \in 1..(Len(frames) - 1) :
       ~(frames[i].kind = "pseudo_atomic" /\ frames[i].phase = "body")
  /\ PSEUDO_ATOMIC_ATOMIC <=> (Top.kind = "pseudo_atomic" /\ Top.phase = "body")

(* There is one slot: while it holds a signal every deferrable signal is
   blocked, so that no second one can be deferred over the first.          *)
SlotProtected == pending_signal # NoSignal => mask = Signals

(* A deferred signal leaves the slot only by reaching its handler (or by being
   ignored, or by ending the image); no other signal takes its place.      *)
NoSignalOverwritten ==
  [][pending_signal # NoSignal /\ pending_signal' # pending_signal =>
       /\ pending_signal' = NoSignal
       /\ \/ frames'[Len(frames')].kind = "handler" /\ frames'[Len(frames')].sig = pending_signal
          \/ handlers[pending_signal] = "ignore"
          \/ status' # "running"]_vars

(* The slot is never full with nobody due to look at it: the body that the
   signal interrupted is still on the stack, with no handler above it, and
   the flag that its exit tests is set.                                    *)
DeferredIsFlagged ==
  pending_signal # NoSignal =>
    \/ /\ INTERRUPT_PENDING
       /\ \E w \in DOMAIN frames :
            /\ frames[w].kind = "without"
            /\ \A i \in (w + 1)..Len(frames) : frames[i].kind # "handler"
    \/ /\ PSEUDO_ATOMIC_INTERRUPTED
       /\ Top.kind = "pseudo_atomic" /\ Top.phase \in {"body", "leave", "alloc_check"}

\* The signals whose handler is being changed.
Installing ==
  {frames[i].sig : i \in {j \in DOMAIN frames : frames[j].kind = "install"}}

(* "When that handler returns, the original signal mask is installed, allowing
   any other pending signals to be handled": with the slot empty, code that has
   blocked nothing itself runs with no signal blocked but those that an
   install_handler further down has blocked for the time it takes.         *)
MaskReopened ==
  (/\ pending_signal = NoSignal
   /\ \A i \in DOMAIN frames : frames[i].kind # "sigblock") => mask \subseteq Installing

(* interrupt.c setup_pending_signal, interrupt_handle_pending, install_handler:
   the slot is protected while it is full, its signal is waited for, and what
   it blocked is opened again when it is empty.                            *)
SlotKept == SlotProtected /\ DeferredIsFlagged /\ MaskReopened

(* A deferred signal is eventually handled. *)
DeferredHandled ==
  pending_signal # NoSignal ~> (pending_signal = NoSignal \/ status # "running")

(* A raised signal is eventually taken from the kernel: deferral never leaves
   the signals blocked for good.                                           *)
SignalsDelivered ==
  \A sig \in Signals :
    sig \in kernelPending ~> (sig \notin kernelPending \/ status # "running")
=============================================================================
