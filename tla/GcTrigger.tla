------------------------------ MODULE GcTrigger ------------------------------
(* When the generational collector runs: the trigger that alloc (gencgc.c)   *)
(* compares the heap with, the requests, refusals and hooks of sub-gc        *)
(* (gc.lisp), without-gcing (sysmacs.lisp), and the finalizers, which run as *)
(* an after-gc hook (final.lisp).  One process; what a collection does to    *)
(* the heap is in Gencgc.                                                    *)
EXTENDS Integers, Sequences, FiniteSets, SequencesExt

CONSTANTS
    Clear,          \* 0xffffffff, the largest unsigned long
    Heap,           \* dynamic_space_size, in allocation regions
    Consings,       \* values of *bytes-consed-between-gcs*
    HasHook,        \* there is a *gc-inhibit-hook*
    FinalizersFail, \* a finalizer may signal an error
    FinalizersRegister,     \* and may call finalize
    MaxOps, MaxDepth, MaxRegs

(* Half of the address space is the heap at most, and                        *)
(* *bytes-consed-between-gcs* an index: a doubled or a new trigger is an     *)
(* unsigned long.                                                            *)
ASSUME TriggerAssumption ==
    /\ Clear \in Nat /\ Heap \in Nat \ {0} /\ 2 * Heap < Clear
    /\ Consings \subseteq Nat \ {0} /\ \A n \in Consings : n + Heap <= Clear
    /\ HasHook \in BOOLEAN /\ FinalizersFail \in BOOLEAN /\ FinalizersRegister \in BOOLEAN
    /\ MaxOps \in Nat /\ MaxDepth \in Nat /\ MaxRegs \in Nat

VARIABLES
    bytes,      \* bytes_allocated, dynamic-usage: never nothing
    auto,       \* auto_gc_trigger
    trigger,    \* *gc-trigger*
    consed,     \* *bytes-consed-between-gcs*
    need,       \* *need-to-collect-garbage*
    inhibit,    \* *gc-inhibit*, its current binding
    gcing,      \* *already-maybe-gcing*
    stack,      \* extents entered: without-gcing, alloc, the hooks of sub-gc, a finalizer
    fin,        \* finalization
    since,      \* ghost: usage after the last collection, least and most consed since
    ops

vars == <<bytes, auto, trigger, consed, need, inhibit, gcing, stack, fin, since, ops>>

NIL == -1
Reg == 1..MaxRegs

(* list: *objects-pending-finalization*; broken: weak pointers that are.     *)
(* The delete-if that is going on: kept and rest, the list from its handle,  *)
(* before and from the current cons on; linked: that list has `previous';    *)
(* gone: conses fewer than it counted; failed: it was left by an error.      *)
(* The others are ghosts: who was called how often, and who was registered   *)
(* by a finalizer, cancelled, on the list when a finalizer failed or         *)
(* cancelled.                                                                *)
NoFin == [list |-> << >>, broken |-> {}, rest |-> << >>, kept |-> << >>, linked |-> TRUE, gone |-> 0,
          failed |-> FALSE, made |-> 0,
          called |-> [r \in Reg |-> 0], inner |-> {}, cancelled |-> {}, spoilt |-> {}]

Frame == [f : {"without-gcing"}, old : BOOLEAN] \union [f : {"alloc", "before", "after"}]
         \union [f : {"finalizer"}, reg : Reg]

Top == IF stack = << >> THEN "program" ELSE stack[Len(stack)].f
Below == SubSeq(stack, 1, Len(stack) - 1)
Wrap_Wide(n) == n
Wrap(n) == n % (Clear + 1)

\* A list without the cons of r.
Unlink(s, r) == IF r \in ToSet(s) THEN RemoveAt(s, CHOOSE i \in DOMAIN s : s[i] = r) ELSE s

Init ==
    /\ bytes = 1 /\ auto = Clear /\ trigger = NIL /\ consed \in Consings
    /\ need = FALSE /\ inhibit = FALSE /\ gcing = FALSE /\ stack = << >>
    /\ fin = NoFin /\ since = [post |-> 1, least |-> consed, most |-> consed] /\ ops = 0

-----------------------------------------------------------------------------
(* sub-gc, called where base is the stack and inh the value of *gc-inhibit*, *)
(* up to its before-gc hooks.                                                *)

Due(trig) == need \/ (trig # NIL /\ bytes >= trig)

SubGc(base, inh, trig, force) ==
    IF gcing THEN stack' = base /\ inhibit' = inh /\ UNCHANGED <<need, gcing>>
    ELSE /\ need' = Due(trig)
         /\ \/ /\ force \/ (Due(trig) /\ ~inh)
               /\ stack' = Append(base, [f |-> "before"]) /\ gcing' = TRUE /\ inhibit' = inh
            \/ /\ ~force /\ Due(trig) /\ ~inh /\ HasHook                \* the hook refuses
               /\ stack' = base /\ inhibit' = TRUE /\ UNCHANGED gcing
            \/ /\ ~force /\ (inh \/ ~Due(trig))
               /\ stack' = base /\ inhibit' = inh /\ UNCHANGED gcing

(* The collector, then the new trigger, then the after-gc hooks.             *)
Arm_NotCleared(old, n) == Wrap(auto + n)
Arm(old, n) == Wrap((IF old # NIL THEN Clear ELSE auto) + n)

CollectGarbage_KeepsRequest ==
    /\ Top = "before"
    /\ \E b \in 1..bytes, dead \in SUBSET ToSet(fin.list) :
         /\ bytes' = b /\ trigger' = b + consed /\ auto' = Arm(trigger, b + consed)
         /\ fin' = [fin EXCEPT !.broken = @ \union dead, !.rest = fin.list, !.kept = << >>, !.linked = TRUE,
                               !.gone = 0, !.failed = FALSE]
         /\ since' = [post |-> b, least |-> consed, most |-> consed]
    /\ stack' = Append(Below, [f |-> "after"])
    /\ UNCHANGED <<need, consed, inhibit, gcing, ops>>

CollectGarbage ==
    /\ Top = "before"
    /\ \E b \in 1..bytes, dead \in SUBSET ToSet(fin.list) :
         /\ bytes' = b /\ trigger' = b + consed /\ auto' = Arm(trigger, b + consed)
         /\ fin' = [fin EXCEPT !.broken = @ \union dead, !.rest = fin.list, !.kept = << >>, !.linked = TRUE,
                               !.gone = 0, !.failed = FALSE]
         /\ since' = [post |-> b, least |-> consed, most |-> consed]
    /\ need' = FALSE /\ stack' = Append(Below, [f |-> "after"])
    /\ UNCHANGED <<consed, inhibit, gcing, ops>>

(* finalize-corpses: delete-if over the list as it was, calling the          *)
(* functions of broken weak pointers.                                        *)
FinalizeCorpses ==
    /\ Top = "after" /\ fin.rest # << >>
    /\ LET r == Head(fin.rest)
       IN IF r \in fin.broken
          THEN /\ stack' = Append(stack, [f |-> "finalizer", reg |-> r])
               /\ fin' = [fin EXCEPT !.called[r] = @ + 1]
          ELSE /\ fin' = [fin EXCEPT !.rest = Tail(@), !.kept = Append(@, r), !.linked = TRUE]
               /\ UNCHANGED stack
    /\ UNCHANGED <<bytes, auto, trigger, consed, need, inhibit, gcing, since, ops>>

(* `previous' is made to skip the current cons: with no cons kept, the list  *)
(* in the variable still starts with it; when `previous' was cancelled, the  *)
(* cons stays where it was.                                                  *)
FinalizerReturns ==
    /\ Top = "finalizer" /\ stack' = Below
    /\ LET r == Head(fin.rest)
           shared == fin.linked /\ fin.kept # << >> /\ Last(fin.kept) \in ToSet(fin.list)
       IN fin' = [fin EXCEPT !.rest = Tail(@),
                             !.kept = IF fin.linked THEN @ ELSE Append(@, r),
                             !.list = IF shared THEN Unlink(@, r) ELSE @]
    /\ UNCHANGED <<bytes, auto, trigger, consed, need, inhibit, gcing, since, ops>>

(* carefully-funcall reports the error and goes on behind the hook.          *)
Fails == [fin EXCEPT !.rest = << >>, !.gone = 0, !.failed = TRUE]

FinalizerFails ==
    /\ FinalizersFail /\ Top = "finalizer" /\ stack' = Below
    /\ fin' = [Fails EXCEPT !.spoilt = @ \union ToSet(fin.list)]
    /\ UNCHANGED <<bytes, auto, trigger, consed, need, inhibit, gcing, since, ops>>

(* delete-if goes as far as the list was long: behind its end,               *)
(* weak-pointer-value is given nil.                                          *)
WalkFails ==
    /\ Top = "after" /\ fin.rest = << >> /\ fin.gone > 0
    /\ fin' = Fails
    /\ UNCHANGED <<bytes, auto, trigger, consed, need, inhibit, gcing, stack, since, ops>>

FinishGc_Stored ==
    /\ Top = "after" /\ fin.rest = << >> /\ fin.gone = 0
    /\ fin' = [fin EXCEPT !.list = fin.kept, !.kept = << >>, !.failed = FALSE]
    /\ gcing' = FALSE /\ stack' = Below
    /\ UNCHANGED <<bytes, auto, trigger, consed, need, inhibit, since, ops>>

FinishGc ==
    /\ Top = "after" /\ fin.rest = << >> /\ fin.gone = 0
    /\ fin' = [fin EXCEPT !.list = IF fin.failed THEN @ ELSE fin.kept, !.kept = << >>, !.failed = FALSE]
    /\ gcing' = FALSE /\ stack' = Below
    /\ UNCHANGED <<bytes, auto, trigger, consed, need, inhibit, since, ops>>

-----------------------------------------------------------------------------
(* alloc, when the current region is full: a region more, or a doubled       *)
(* trigger, maybe-gc, and again.                                             *)

Refill(base) ==
    /\ bytes <= auto /\ stack' = base
    /\ bytes' = IF bytes < Heap THEN bytes + 1 ELSE bytes               \* or the heap is exhausted
    /\ UNCHANGED <<auto, need, inhibit, gcing>>

Double_NotStored == auto
Double == Wrap(2 * auto)

MaybeGc(base) == /\ bytes > auto /\ auto' = Double
                 /\ SubGc(base, inhibit, trigger, FALSE)
                 /\ UNCHANGED bytes

Running == Top \in {"program", "without-gcing", "before", "finalizer"} /\ ops < MaxOps /\ ops' = ops + 1
Deeper == Len(stack) < MaxDepth

Alloc == /\ Running /\ (Refill(stack) \/ (Deeper /\ MaybeGc(Append(stack, [f |-> "alloc"]))))
         /\ UNCHANGED <<trigger, consed, fin, since>>

AllocAgain == /\ Top = "alloc" /\ (Refill(Below) \/ MaybeGc(stack))
              /\ UNCHANGED <<trigger, consed, fin, since, ops>>

-----------------------------------------------------------------------------
(* The program.                                                              *)

EnterWithoutGcing ==
    /\ Running /\ Deeper
    /\ stack' = Append(stack, [f |-> "without-gcing", old |-> inhibit]) /\ inhibit' = TRUE
    /\ UNCHANGED <<bytes, auto, trigger, consed, need, gcing, fin, since>>

LeaveWithoutGcing ==
    /\ Top = "without-gcing"
    /\ LET old == stack[Len(stack)].old
       IN IF need /\ ~old THEN SubGc(Below, old, trigger, FALSE)
          ELSE inhibit' = old /\ stack' = Below /\ UNCHANGED <<need, gcing>>
    /\ UNCHANGED <<bytes, auto, trigger, consed, fin, since, ops>>

GcOff == /\ Running /\ inhibit' = TRUE
         /\ UNCHANGED <<bytes, auto, trigger, consed, need, gcing, stack, fin, since>>

GcOn == /\ Running
        /\ IF need THEN SubGc(stack, FALSE, trigger, FALSE)
           ELSE inhibit' = FALSE /\ UNCHANGED <<need, gcing, stack>>
        /\ UNCHANGED <<bytes, auto, trigger, consed, fin, since>>

Gc == /\ Running /\ Deeper /\ SubGc(stack, inhibit, trigger, TRUE)
      /\ UNCHANGED <<bytes, auto, trigger, consed, fin, since>>

SetBytesConsed(n) ==
    /\ Running /\ consed' = n
    /\ since' = [since EXCEPT !.least = IF n < @ THEN n ELSE @, !.most = IF n > @ THEN n ELSE @]
    /\ IF trigger = NIL THEN UNCHANGED <<auto, trigger, need, inhibit, gcing, stack>>
       ELSE LET t == trigger + n - consed
            IN /\ trigger' = t
               /\ IF bytes <= t THEN auto' = Wrap(Clear + t) /\ UNCHANGED <<need, inhibit, gcing, stack>>
                  ELSE SubGc(stack, inhibit, t, FALSE) /\ UNCHANGED auto
    /\ UNCHANGED <<bytes, fin>>

InFinalizer == \E i \in DOMAIN stack : stack[i].f = "finalizer"

Finalize ==
    /\ Running /\ fin.made < MaxRegs /\ (InFinalizer => FinalizersRegister)
    /\ LET r == fin.made + 1
       IN fin' = [fin EXCEPT !.list = <<r>> \o @, !.made = r,
                             !.inner = IF InFinalizer THEN @ \union {r} ELSE @]
    /\ UNCHANGED <<bytes, auto, trigger, consed, need, inhibit, gcing, stack, since>>

(* delete unlinks the cons from the one before it on the list in the         *)
(* variable, and so from the list that a walk has when that one is on it,    *)
(* too.  The cons of the finalizer that is called, at the head of rest, is.  *)
CancelFinalization(r) ==
    /\ Running /\ r \in ToSet(fin.list) \ fin.broken
    /\ LET i == CHOOSE j \in DOMAIN fin.list : fin.list[j] = r
           cut == r \in ToSet(fin.kept) /\ i > 1 /\ fin.list[i - 1] \in ToSet(fin.kept)
       IN fin' = [fin EXCEPT !.list = Unlink(@, r), !.rest = Unlink(@, r),
                             !.kept = IF cut THEN Unlink(@, r) ELSE @,
                             !.linked = @ /\ ~(cut /\ r = Last(fin.kept)),
                             !.gone = IF r \in ToSet(fin.rest) THEN @ + 1 ELSE @,
                             !.cancelled = @ \union {r},
                             !.spoilt = IF InFinalizer THEN @ \union ToSet(fin.list) ELSE @]
    /\ UNCHANGED <<bytes, auto, trigger, consed, need, inhibit, gcing, stack, since>>

Runtime == \/ CollectGarbage \/ FinalizeCorpses \/ WalkFails \/ FinishGc \/ AllocAgain
           \/ FinalizerReturns \/ FinalizerFails \/ LeaveWithoutGcing
Program == \/ Alloc \/ EnterWithoutGcing \/ GcOff \/ GcOn \/ Gc
           \/ \E n \in Consings : SetBytesConsed(n)
           \/ Finalize \/ \E r \in Reg : CancelFinalization(r)

Next == Runtime \/ Program
Spec == Init /\ [][Next]_vars

(* The runtime does not stop, and finalizers and bodies end.                 *)
FairSpec == Spec /\ WF_vars(Runtime)

-----------------------------------------------------------------------------
(* Properties.                                                               *)

TypeOK ==
    /\ bytes \in 1..Heap /\ auto \in 0..Clear /\ consed \in Consings
    /\ trigger \in Nat \union {NIL}
    /\ need \in BOOLEAN /\ inhibit \in BOOLEAN /\ gcing \in BOOLEAN
    /\ stack \in Seq(Frame)
    /\ fin.list \in Seq(Reg) /\ fin.rest \in Seq(Reg) /\ fin.kept \in Seq(Reg)

(* A request is not forgotten: outside of a collection one can only be       *)
(* pending because collections are inhibited; maybe-gc says of its caller    *)
(* "lisp will remember the need to collect garbage and get to it when it     *)
(* can".                                                                     *)
RequestKept == need /\ ~gcing => inhibit

(* However often a collection was refused and the trigger doubled, it keeps  *)
(* watching: maybe-gc is called at less than twice what is in use, or where  *)
(* *gc-trigger* has been since the last collection; it is never zero, which  *)
(* no doubling would change.                                                 *)
WatchKept ==
    trigger # NIL => auto > 0 /\ (auto < 2 * bytes \/ auto < since.post + since.most)

(* alloc, maybe-gc: a collection that is due is asked for, and remembered.   *)
TriggerKept == RequestKept /\ WatchKept

(* *bytes-consed-between-gcs* is the minimum that must be consed before the  *)
(* next collection, unless gc was called.                                    *)
Collections == Cardinality({i \in DOMAIN stack : stack[i].f = "before"})
NotTooSoon == [][~gcing /\ gcing' => bytes >= since'.post + since'.least \/ Gc]_vars

(* A registration the program made is on the list until its function was     *)
(* called or it was cancelled, whatever finalizers register, cancel, signal.  *)
KeptUntilCalled ==
    \A r \in 1..fin.made : fin.called[r] = 0 /\ r \notin fin.inner \union fin.cancelled => r \in ToSet(fin.list)

(* A finalizer is called once, unless it was on the list when one failed or  *)
(* cancelled another.                                                        *)
CalledOnce == \A r \in Reg : r \notin fin.spoilt => fin.called[r] <= 1

(* What the program cancelled, not a finalizer, does not come back.          *)
CancelledForGood == \A r \in fin.cancelled : r \notin fin.spoilt => r \notin ToSet(fin.list)

(* finalize-corpses: every registration is called, and called once.          *)
FinalizersKept == KeptUntilCalled /\ CalledOnce /\ CancelledForGood

(* alloc returns: its loop ends.                                             *)
AllocReturns == (Top = "alloc") ~> (Top # "alloc")
=============================================================================
