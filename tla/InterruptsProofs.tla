-------------------------- MODULE InterruptsProofs --------------------------
(***************************************************************************)
(* Proofs about Interrupts: type correctness, the protection of critical    *)
(* sections and the slot for a deferred signal, for every set of signals,   *)
(* every nesting of macros and handlers and every size of the context array. *)
(***************************************************************************)
EXTENDS Interrupts, SequenceTheorems, TLAPS

(* The control stack always has the main program's frame at its bottom. *)
BottomIsMain ==
  /\ frames[1].kind = "main"
  /\ frames[1].phase = "body"

TypeInv == TypeOK /\ BottomIsMain

-----------------------------------------------------------------------------
LEMMA LengthFacts ==
  ASSUME NEW n \in Nat
  PROVE  /\ n > 0 => n \in 1..n
         /\ n > 0 /\ n # 1 => n > 1 /\ n - 1 \in 1..n
         /\ n > 1 /\ n # 2 => n > 2 /\ n - 2 \in 1..n
  OBVIOUS

(* A push leaves the stack below the new top alone. *)
LEMMA PushFacts ==
  ASSUME NEW S, NEW s \in Seq(S), NEW e \in S
  PROVE  /\ Append(s, e) \in Seq(S)
         /\ Len(Append(s, e)) = Len(s) + 1
         /\ Append(s, e)[Len(s) + 1] = e
         /\ \A i \in 1..Len(s) : Append(s, e)[i] = s[i]
  OBVIOUS

(* Popping frames leaves a prefix. *)
LEMMA PopFacts ==
  ASSUME NEW S, NEW s \in Seq(S), NEW n \in 1..Len(s)
  PROVE  /\ SubSeq(s, 1, n) \in Seq(S)
         /\ Len(SubSeq(s, 1, n)) = n
         /\ \A i \in 1..n : SubSeq(s, 1, n)[i] = s[i]
  OBVIOUS

(* A change of the top frame keeps the frames below it. *)
LEMMA WithTopFacts ==
  ASSUME frames \in Seq(Frame), Len(frames) > 0, NEW p \in Phases, NEW e \in BOOLEAN
  PROVE  /\ WithTop(p, e) \in Seq(Frame)
         /\ Len(WithTop(p, e)) = Len(frames)
         /\ WithTop(p, e)[Len(frames)] = [Top EXCEPT !.phase = p, !.enabled = e]
         /\ \A i \in 1..(Len(frames) - 1) : WithTop(p, e)[i] = frames[i]
<1> DEFINE f == [Top EXCEPT !.phase = p, !.enabled = e]
<1>1. Top \in Frame
  BY DEF Top
<1>2. f \in Frame
  BY <1>1 DEF Frame
<1>3. WithTop(p, e) = [frames EXCEPT ![Len(frames)] = f]
  BY DEF WithTop
<1> HIDE DEF f
<1>4. /\ [frames EXCEPT ![Len(frames)] = f] \in Seq(Frame)
      /\ Len([frames EXCEPT ![Len(frames)] = f]) = Len(frames)
      /\ \A j \in 1..Len(frames) :
           [frames EXCEPT ![Len(frames)] = f][j] = IF j = Len(frames) THEN f ELSE frames[j]
  <2>1. Len(frames) \in 1..Len(frames)
    OBVIOUS
  <2>2. QED
    BY <1>2, <2>1, ExceptSeq
<1>5. /\ WithTop(p, e) \in Seq(Frame)
      /\ Len(WithTop(p, e)) = Len(frames)
      /\ WithTop(p, e)[Len(frames)] = f
      /\ \A i \in 1..(Len(frames) - 1) : WithTop(p, e)[i] = frames[i]
  <2>1. /\ Len(frames) \in 1..Len(frames)
        /\ \A i \in 1..(Len(frames) - 1) : i \in 1..Len(frames) /\ i # Len(frames)
    OBVIOUS
  <2>2. QED
    BY <1>3, <1>4, <2>1
<1>6. QED
  BY <1>5 DEF f

LEMMA FrameEnabled ==
  ASSUME NEW f \in Frame
  PROVE  f.enabled \in BOOLEAN
  BY DEF Frame

LEMMA NewFrameType ==
  ASSUME NEW k \in Kinds, NEW p \in Phases, NEW e \in BOOLEAN
  PROVE  NewFrame(k, p, e) \in Frame
  BY DEF NewFrame, Frame, Handlers

(* The frame of install_handler.                                             *)
InstallerFrame(sig, h, e, m) ==
  [NewFrame("install", "blocked", e) EXCEPT !.sig = sig, !.saved = m, !.new = h]

LEMMA InstallFrame ==
  ASSUME NEW sig \in Signals, NEW h \in Handlers, NEW e \in BOOLEAN, NEW m \in SUBSET Signals
  PROVE  LET f == InstallerFrame(sig, h, e, m)
         IN f \in Frame /\ f.kind = "install" /\ f.enabled = e /\ f.sig = sig /\ f.saved = m
<1> DEFINE g == NewFrame("install", "blocked", e)
<1>1. g \in Frame /\ g.kind = "install" /\ g.enabled = e
  <2>1. g \in Frame
    BY NewFrameType DEF Kinds, Phases
  <2>2. QED
    BY <2>1 DEF NewFrame
<1>2. InstallerFrame(sig, h, e, m) = [g EXCEPT !.sig = sig, !.saved = m, !.new = h]
  BY DEF InstallerFrame
<1> HIDE DEF g
<1>3. QED
  BY <1>1, <1>2 DEF Frame

(* The frame of a handler, and what is left of the stack when there is none. *)
HandlerFrame(f, sig, under, uc_sigmask) ==
  /\ f \in Frame
  /\ f.kind = "handler"
  /\ f.phase = "body"
  /\ f.enabled = under[Len(under)].enabled
  /\ f.sig = sig
  /\ f.saved = uc_sigmask

LEMMA HandleNowFacts ==
  ASSUME NEW sig \in Signals, NEW under \in Seq(Frame), Len(under) > 0,
         NEW m \in SUBSET Signals,
         HandleNow(sig, under, m)
  PROVE  /\ mask' = m
         /\ status' \in {"running", "exited", "lost"}
         /\ \/ /\ frames' = under
               /\ status' # "running" \/ handlers[sig] = "ignore"
            \/ \E f : frames' = Append(under, f) /\ HandlerFrame(f, sig, under, m)
<1> DEFINE f == [kind |-> "handler", phase |-> "body",
                 enabled |-> under[Len(under)].enabled, sig |-> sig, saved |-> m,
                 new |-> "lisp"]
<1>1. HandlerFrame(f, sig, under, m)
  <2>1. under[Len(under)] \in Frame
    OBVIOUS
  <2>2. QED
    BY <2>1 DEF Frame, Kinds, Phases, Handlers, HandlerFrame
<1>2. frames' = under \/ frames' = Append(under, f)
  BY DEF HandleNow
<1>3. frames' = Append(under, f) \/ (frames' = under /\ (status' # "running" \/ handlers[sig] = "ignore"))
  BY DEF HandleNow
<1>4. QED
  BY <1>1, <1>3 DEF HandleNow

LEMMA HandlePendingFacts ==
  ASSUME TypeOK, NEW under \in Seq(Frame), Len(under) > 0, HandlePending(under)
  PROVE  /\ INTERRUPT_PENDING' = FALSE
         /\ pending_mask' = {}
         /\ pending_signal' = NoSignal
         /\ mask' = pending_mask
         /\ status' \in {"running", "exited", "lost"} \/ status' = status
         /\ \/ /\ frames' = under
               /\ \/ pending_signal = NoSignal
                  \/ status' # "running"
                  \/ handlers[pending_signal] = "ignore"
            \/ /\ pending_signal # NoSignal
               /\ \E f : /\ frames' = Append(under, f)
                         /\ HandlerFrame(f, pending_signal, under, pending_mask)
<1>1. CASE pending_signal = NoSignal
  BY <1>1 DEF HandlePending, HandleNow
<1>2. CASE pending_signal # NoSignal
  <2>1. pending_signal \in Signals /\ pending_mask \in SUBSET Signals
    BY <1>2 DEF TypeOK
  <2>2. HandleNow(pending_signal, under, pending_mask)
    BY <1>2 DEF HandlePending
  <2>3. QED
    BY <1>2, <2>1, <2>2, HandleNowFacts DEF HandlePending
<1>3. QED
  BY <1>1, <1>2

(* A frame of a macro or of a handler lies on another frame. *)
LEMMA BelowFacts ==
  ASSUME TypeInv, Top.kind # "main"
  PROVE  /\ Len(frames) \in Nat /\ Len(frames) > 1
         /\ Below \in Seq(Frame)
         /\ Len(Below) = Len(frames) - 1
         /\ \A i \in 1..(Len(frames) - 1) : Below[i] = frames[i]
<1>1. frames \in Seq(Frame) /\ Len(frames) \in Nat /\ Len(frames) > 0
  BY DEF TypeInv, TypeOK
<1>2. Len(frames) # 1
  BY DEF TypeInv, BottomIsMain, Top
<1>3. Len(frames) - 1 \in 1..Len(frames)
  BY <1>1, <1>2, LengthFacts
<1>4. QED
  BY <1>1, <1>2, <1>3, PopFacts DEF Below

(* HandlerThrow abandons the code it interrupted with one more frame. *)
LEMMA ThrowFacts ==
  ASSUME TypeInv, HandlerThrow, Below[Len(Below)].phase # "body"
  PROVE  /\ Len(frames) > 2
         /\ frames' \in Seq(Frame)
         /\ Len(frames') = Len(frames) - 2
         /\ \A i \in 1..(Len(frames) - 2) : frames'[i] = frames[i]
<1>1. /\ Len(frames) \in Nat /\ Len(frames) > 1
      /\ Below[Len(Below)] = frames[Len(frames) - 1]
  <2>1. Top.kind # "main"
    BY DEF HandlerThrow, At
  <2>2. QED
    BY <2>1, BelowFacts
<1>2. Len(frames) # 2
  <2>1. SUFFICES ASSUME Len(frames) = 2 PROVE FALSE
    OBVIOUS
  <2>2. Below[Len(Below)] = frames[1]
    BY <1>1, <2>1
  <2>3. QED
    BY <2>2 DEF TypeInv, BottomIsMain
<1>3. Len(frames) - 2 \in 1..Len(frames)
  BY <1>1, <1>2, LengthFacts
<1>4. frames' = SubSeq(frames, 1, Len(frames) - 2)
  BY DEF HandlerThrow
<1>5. QED
  BY <1>1, <1>2, <1>3, <1>4, PopFacts DEF TypeInv, TypeOK

-----------------------------------------------------------------------------
(***************************************************************************)
(* Type correctness.                                                       *)
(***************************************************************************)
LEMMA TypeInit == Init => TypeInv
<1> SUFFICES ASSUME Init PROVE TypeInv
  OBVIOUS
<1>1. NewFrame("main", "body", TRUE) \in Frame
  BY NewFrameType DEF Kinds, Phases
<1> DEFINE f == NewFrame("main", "body", TRUE)
<1>2. f.kind = "main" /\ f.phase = "body"
  BY DEF NewFrame
<1> HIDE DEF f
<1>3. frames = <<f>> /\ f \in Frame
  BY <1>1 DEF Init, f
<1>4. frames \in Seq(Frame) /\ Len(frames) = 1 /\ frames[1] = f
  BY <1>3
<1>5. BottomIsMain
  BY <1>2, <1>4 DEF BottomIsMain
<1>6. action \in [Signals -> Handlers] /\ handlers \in [Signals -> Handlers]
  BY DEF Init, Handlers
<1>7. /\ kernelPending = {} /\ mask = {} /\ pending_mask = {}
      /\ pending_signal = NoSignal /\ INTERRUPT_PENDING = FALSE
      /\ PSEUDO_ATOMIC_ATOMIC = FALSE /\ PSEUDO_ATOMIC_INTERRUPTED = FALSE
      /\ status = "running"
  BY DEF Init
<1>8. TypeOK
  <2>1. Len(frames) > 0
    BY <1>4
  <2>2. /\ kernelPending \subseteq Signals /\ mask \subseteq Signals
        /\ pending_mask \subseteq Signals
        /\ pending_signal \in Signals \union {NoSignal}
    BY <1>7
  <2>3. /\ INTERRUPT_PENDING \in BOOLEAN /\ PSEUDO_ATOMIC_ATOMIC \in BOOLEAN
        /\ PSEUDO_ATOMIC_INTERRUPTED \in BOOLEAN
        /\ status \in {"running", "exited", "lost", "terminated"}
    BY <1>7
  <2>4. QED
    BY <1>4, <1>6, <2>1, <2>2, <2>3 DEF TypeOK
<1>9. QED
  BY <1>5, <1>8 DEF TypeInv

LEMMA TypeNext == TypeInv /\ [Next]_vars => TypeInv'
<1> SUFFICES ASSUME TypeInv, [Next]_vars PROVE TypeInv'
  OBVIOUS
<1> USE DEF TypeInv
<1>0. /\ TypeOK /\ BottomIsMain
      /\ frames \in Seq(Frame) /\ Len(frames) \in Nat /\ Len(frames) > 0
      /\ Top \in Frame /\ Top.enabled \in BOOLEAN /\ Top.saved \in SUBSET Signals
  <2>1. frames \in Seq(Frame) /\ Len(frames) \in Nat /\ Len(frames) > 0
    BY DEF TypeOK
  <2>2. Top \in Frame
    BY <2>1, LengthFacts DEF Top
  <2>3. Top.enabled \in BOOLEAN /\ Top.saved \in SUBSET Signals
    BY <2>2 DEF Frame
  <2>4. QED
    BY <2>1, <2>2, <2>3
\* Three ways a step can leave the stack well formed.
<1>pop. ASSUME Top.kind # "main", frames' = Below
        PROVE  frames' \in Seq(Frame) /\ Len(frames') > 0 /\ BottomIsMain'
  BY <1>0, <1>pop, BelowFacts DEF BottomIsMain
<1>push. ASSUME NEW f \in Frame, NEW under \in Seq(Frame), Len(under) > 0,
                under[1].kind = "main", under[1].phase = "body",
                frames' = Append(under, f)
         PROVE  frames' \in Seq(Frame) /\ Len(frames') > 0 /\ BottomIsMain'
  BY <1>push, PushFacts DEF BottomIsMain
<1>top. ASSUME NEW p \in Phases, NEW e \in BOOLEAN, Top.kind # "main"
        PROVE  /\ WithTop(p, e) \in Seq(Frame) /\ Len(WithTop(p, e)) > 0
               /\ WithTop(p, e)[1].kind = "main" /\ WithTop(p, e)[1].phase = "body"
  <2>1. Len(frames) > 1
    BY <1>top, BelowFacts
  <2>2. 1 \in 1..(Len(frames) - 1)
    BY <1>0, <2>1
  <2>3. QED
    BY <1>0, <2>1, <2>2, WithTopFacts DEF BottomIsMain
<1>trap. ASSUME NEW under \in Seq(Frame), Len(under) > 0, HandlePending(under),
                under[1].kind = "main", under[1].phase = "body", status = "running"
         PROVE  /\ frames' \in Seq(Frame) /\ Len(frames') > 0 /\ BottomIsMain'
                /\ mask' \subseteq Signals
                /\ pending_signal' \in Signals \union {NoSignal}
                /\ pending_mask' \subseteq Signals
                /\ INTERRUPT_PENDING' \in BOOLEAN
                /\ status' \in {"running", "exited", "lost", "terminated"}
  <2>1. CASE frames' = under
    BY <1>0, <1>trap, <2>1, HandlePendingFacts DEF TypeOK, BottomIsMain
  <2>2. CASE \E f : frames' = Append(under, f) /\ f \in Frame
    BY <1>0, <1>trap, <1>push, <2>2, HandlePendingFacts DEF TypeOK
  <2>3. QED
    BY <1>0, <1>trap, <2>1, <2>2, HandlePendingFacts DEF HandlerFrame
\* The step of the kernel.
<1>1. ASSUME NEW sig \in Signals, Deliver(sig) PROVE TypeInv'
  <2> USE <1>1 DEF Deliver
  <2>1. CASE frames' = frames /\ SetupPending(sig)
    BY <1>0, <2>1 DEF TypeOK, BottomIsMain, SetupPending, tables
  <2>2. CASE INTERRUPTS_ENABLED /\ ~PSEUDO_ATOMIC_ATOMIC /\ HandleNow(sig, frames, mask)
    <3>1. frames' \in Seq(Frame) /\ Len(frames') > 0 /\ BottomIsMain'
      <4>1. CASE frames' = frames
        BY <1>0, <4>1 DEF BottomIsMain
      <4>2. CASE \E f : frames' = Append(frames, f) /\ f \in Frame
        BY <1>0, <1>push, <4>2 DEF BottomIsMain
      <4>3. QED
        BY <1>0, <2>2, <4>1, <4>2, HandleNowFacts DEF TypeOK, HandlerFrame
    <3>2. mask' \subseteq Signals /\ status' \in {"running", "exited", "lost"}
      BY <1>0, <2>2, HandleNowFacts DEF TypeOK
    <3>3. QED
      BY <1>0, <2>2, <3>1, <3>2 DEF TypeOK, slot, tables
  <2>3. QED
    BY <1>0, <2>1, <2>2 DEF SetupPending
<1>2. ASSUME NEW sig \in Signals, Raise(sig) PROVE TypeInv'
  BY <1>0, <1>2 DEF Raise, TypeOK, BottomIsMain, slot, tables, flags
<1>3. ASSUME NEW sig \in Signals, DeliverDefault(sig) PROVE TypeInv'
  BY <1>0, <1>3 DEF DeliverDefault, TypeOK, BottomIsMain, slot, tables, flags
\* install_handler.
<1>4. ASSUME NEW sig \in Signals, NEW h \in Handlers, InstallBlock(sig, h) PROVE TypeInv'
  <2>1. [NewFrame("install", "blocked", INTERRUPTS_ENABLED)
           EXCEPT !.sig = sig, !.saved = mask, !.new = h] \in Frame
    BY <1>0, <1>4 DEF Kinds, Phases, Handlers, INTERRUPTS_ENABLED, Frame, TypeOK, NewFrame
  <2>2. QED
    BY <1>0, <1>4, <1>push, <2>1 DEF InstallBlock, TypeOK, BottomIsMain, slot, tables, flags
<1>24. CASE InstallSigaction
  <2>1. Top.new \in Handlers
    BY <1>0 DEF Frame
  <2>2. frames' \in Seq(Frame) /\ Len(frames') > 0 /\ BottomIsMain'
    BY <1>0, <1>24, <1>top DEF InstallSigaction, At, BottomIsMain, Phases, INTERRUPTS_ENABLED
  <2>3. QED
    BY <1>0, <1>24, <2>1, <2>2 DEF InstallSigaction, TypeOK, slot, flags
<1>25. CASE InstallTable
  <2>1. Top.new \in Handlers
    BY <1>0 DEF Frame
  <2>2. frames' \in Seq(Frame) /\ Len(frames') > 0 /\ BottomIsMain'
    BY <1>0, <1>25, <1>top DEF InstallTable, At, BottomIsMain, Phases, INTERRUPTS_ENABLED
  <2>3. QED
    BY <1>0, <1>25, <2>1, <2>2 DEF InstallTable, TypeOK, slot, flags
<1>26. CASE InstallUnblock
  <2>1. frames' \in Seq(Frame) /\ Len(frames') > 0 /\ BottomIsMain'
    BY <1>26, <1>pop DEF InstallUnblock, At
  <2>2. QED
    BY <1>0, <1>26, <2>1 DEF InstallUnblock, TypeOK, slot, tables, flags
\* The handlers.
<1>5. CASE HandlerReturn
  <2>1. frames' \in Seq(Frame) /\ Len(frames') > 0 /\ BottomIsMain'
    BY <1>5, <1>pop DEF HandlerReturn, At
  <2>2. QED
    BY <1>0, <1>5, <2>1 DEF HandlerReturn, TypeOK, slot, tables, flags
<1>6. CASE HandlerThrow
  <2>1. frames' \in Seq(Frame) /\ Len(frames') > 0 /\ BottomIsMain'
    <3>1. CASE Below[Len(Below)].phase # "body"
      BY <1>0, <1>6, <3>1, ThrowFacts DEF BottomIsMain
    <3>2. CASE Below[Len(Below)].phase = "body"
      BY <1>6, <1>pop, <3>2 DEF HandlerThrow, At
    <3>3. QED
      BY <3>1, <3>2
  <2>2. QED
    BY <1>0, <1>6, <2>1 DEF HandlerThrow, TypeOK, slot, tables, flags
\* The macros of signal.lisp.
<1>7. CASE EnterWithoutInterrupts
  <2>1. NewFrame("without", "body", FALSE) \in Frame
    BY NewFrameType DEF Kinds, Phases
  <2>2. QED
    BY <1>0, <1>7, <1>push, <2>1 DEF EnterWithoutInterrupts, TypeOK, BottomIsMain, slot, tables, flags
<1>8. CASE LeaveWithoutInterrupts
  BY <1>0, <1>8, <1>top DEF LeaveWithoutInterrupts, At, TypeOK, BottomIsMain, Phases, slot, tables, flags
<1>9. CASE CheckWithoutInterrupts
  <2> USE <1>9 DEF CheckWithoutInterrupts, At
  <2>1. /\ Below \in Seq(Frame) /\ Len(Below) > 0
        /\ Below[1].kind = "main" /\ Below[1].phase = "body"
    BY <1>0, BelowFacts DEF BottomIsMain
  <2>2. CASE INTERRUPT_PENDING
    BY <1>0, <1>trap, <2>1, <2>2 DEF TypeOK, tables
  <2>3. CASE ~INTERRUPT_PENDING
    BY <1>0, <1>pop, <2>3 DEF TypeOK, slot, tables
  <2>4. QED
    BY <2>2, <2>3
<1>10. CASE EnterWithInterrupts
  <2>1. NewFrame("with", "check", TRUE) \in Frame
    BY NewFrameType DEF Kinds, Phases
  <2>2. QED
    BY <1>0, <1>10, <1>push, <2>1 DEF EnterWithInterrupts, TypeOK, BottomIsMain, slot, tables, flags
<1>11. CASE CheckWithInterrupts
  <2> USE <1>11 DEF CheckWithInterrupts, At
  <2>1. /\ WithTop("body", TRUE) \in Seq(Frame) /\ Len(WithTop("body", TRUE)) > 0
        /\ WithTop("body", TRUE)[1].kind = "main" /\ WithTop("body", TRUE)[1].phase = "body"
    BY <1>top DEF Phases
  <2>2. CASE INTERRUPT_PENDING
    BY <1>0, <1>trap, <2>1, <2>2 DEF TypeOK, tables
  <2>3. CASE ~INTERRUPT_PENDING
    BY <1>0, <2>1, <2>3 DEF TypeOK, BottomIsMain, slot, tables
  <2>4. QED
    BY <2>2, <2>3
<1>12. CASE LeaveWithInterrupts
  <2>1. frames' \in Seq(Frame) /\ Len(frames') > 0 /\ BottomIsMain'
    BY <1>12, <1>pop DEF LeaveWithInterrupts, At
  <2>2. QED
    BY <1>0, <1>12, <2>1 DEF LeaveWithInterrupts, TypeOK, slot, tables, flags
\* Pseudo-atomic sequences.
<1>13. CASE PaClearInterrupted
  <2>1. NewFrame("pseudo_atomic", "enter", INTERRUPTS_ENABLED) \in Frame
    BY <1>0, NewFrameType DEF Kinds, Phases, INTERRUPTS_ENABLED
  <2>2. QED
    BY <1>0, <1>13, <1>push, <2>1 DEF PaClearInterrupted, TypeOK, BottomIsMain, slot, tables, flags
<1>14. CASE PaSetAtomic
  <2>1. frames' \in Seq(Frame) /\ Len(frames') > 0 /\ BottomIsMain'
    BY <1>0, <1>14, <1>top DEF PaSetAtomic, At, BottomIsMain, Phases, INTERRUPTS_ENABLED
  <2>2. QED
    BY <1>0, <1>14, <2>1 DEF PaSetAtomic, TypeOK, slot, tables
<1>15. ASSUME NEW next \in {"leave", "alloc_check"}, PaClearAtomic(next) PROVE TypeInv'
  <2>1. next \in Phases /\ INTERRUPTS_ENABLED \in BOOLEAN
    BY <1>0, <1>15 DEF Phases, INTERRUPTS_ENABLED
  <2>2. Top.kind # "main" /\ frames' = WithTop(next, INTERRUPTS_ENABLED)
    BY <1>15 DEF PaClearAtomic, At
  <2>3. frames' \in Seq(Frame) /\ Len(frames') > 0 /\ BottomIsMain'
    BY <1>top, <2>1, <2>2 DEF BottomIsMain
  <2>4. QED
    BY <1>0, <1>15, <2>3 DEF PaClearAtomic, TypeOK, slot, tables
<1>test. ASSUME NEW under \in Seq(Frame), Len(under) > 0,
                under[1].kind = "main", under[1].phase = "body",
                TestInterrupted(under), status = "running"
         PROVE  TypeInv'
  <2> USE <1>test DEF TestInterrupted
  <2>1. CASE PSEUDO_ATOMIC_INTERRUPTED
    BY <1>0, <1>trap, <2>1 DEF TypeOK, tables
  <2>2. CASE ~PSEUDO_ATOMIC_INTERRUPTED
    BY <1>0, <2>2 DEF TypeOK, BottomIsMain, slot, tables
  <2>3. QED
    BY <2>1, <2>2
<1>16. CASE PaTestInterrupted
  <2>1. /\ Below \in Seq(Frame) /\ Len(Below) > 0
        /\ Below[1].kind = "main" /\ Below[1].phase = "body"
    BY <1>0, <1>16, BelowFacts DEF BottomIsMain, PaTestInterrupted, At
  <2>2. QED
    BY <1>16, <1>test, <2>1 DEF PaTestInterrupted, At
<1>17. CASE AllocTestInterrupted
  BY <1>0, <1>17, <1>test, <1>top DEF AllocTestInterrupted, At, Phases, INTERRUPTS_ENABLED
<1>18. CASE AllocRetry
  <2>1. frames' \in Seq(Frame) /\ Len(frames') > 0 /\ BottomIsMain'
    BY <1>0, <1>18, <1>top DEF AllocRetry, At, BottomIsMain, Phases, INTERRUPTS_ENABLED
  <2>2. QED
    BY <1>0, <1>18, <2>1 DEF AllocRetry, TypeOK, slot, tables
\* Lisp code that changes the mask.
<1>19. CASE Sigblock
  <2>1. [NewFrame("sigblock", "body", INTERRUPTS_ENABLED) EXCEPT !.saved = mask] \in Frame
    BY <1>0, NewFrameType DEF Kinds, Phases, INTERRUPTS_ENABLED, Frame, TypeOK, NewFrame
  <2>2. QED
    BY <1>0, <1>19, <1>push, <2>1, ConstantsAssumption
       DEF Sigblock, TypeOK, BottomIsMain, slot, tables, flags
<1>20. CASE SigsetmaskOld
  <2>1. frames' \in Seq(Frame) /\ Len(frames') > 0 /\ BottomIsMain'
    BY <1>20, <1>pop DEF SigsetmaskOld, At
  <2>2. QED
    BY <1>0, <1>20, <2>1 DEF SigsetmaskOld, TypeOK, slot, tables, flags
<1>21. CASE InvokeDebugger
  BY <1>0, <1>21 DEF InvokeDebugger, TypeOK, BottomIsMain, slot, tables, flags
<1>22. CASE UNCHANGED vars
  BY <1>0, <1>22 DEF TypeOK, BottomIsMain, vars, slot, tables, flags
<1>23. QED
  BY <1>1, <1>2, <1>3, <1>4, <1>5, <1>6, <1>7, <1>8, <1>9, <1>10, <1>11, <1>12, <1>13,
     <1>14, <1>15, <1>16, <1>17, <1>18, <1>19, <1>20, <1>21, <1>22, <1>24, <1>25, <1>26,
     ConstantsAssumption DEF Next, LispStep, Stopped

(* Every state of a behaviour is well typed, and the control stack never
   loses the main program's frame, whatever is thrown.                     *)
THEOREM TypeCorrect == Spec => []TypeOK
<1>1. Spec => []TypeInv
  BY TypeInit, TypeNext, PTL DEF Spec
<1>2. TypeInv => TypeOK
  BY DEF TypeInv
<1>3. QED
  BY <1>1, <1>2, PTL

-----------------------------------------------------------------------------
(***************************************************************************)
(* Critical sections.  The stack is described by a relation between        *)
(* adjacent frames, and by what it implies at a distance: above a body of  *)
(* WITHOUT-INTERRUPTS, interrupts are enabled only past a WITH-INTERRUPTS. *)
(***************************************************************************)
Running(t) == t.kind = "pseudo_atomic" /\ t.phase # "alloc_gc"

\* Frame f may lie on frame t.
Fits(t, f) ==
  /\ f.kind = "handler" => f.enabled
  /\ f.kind = "without" => t.enabled
  /\ f.kind \notin {"with", "without"} => f.enabled = t.enabled
  /\ Running(t) => t.enabled /\ t.phase # "body"

Shielded(s) ==
  \A w \in 1..Len(s) : (s[w].kind = "without" /\ s[w].phase = "body") =>
    /\ ~s[w].enabled
    /\ \A h \in (w + 1)..Len(s) : s[h].enabled => \E i \in (w + 1)..h : s[i].kind = "with"

Sections(s) ==
  /\ \A i \in 2..Len(s) : Fits(s[i - 1], s[i])
  /\ Shielded(s)

FlagsAgree ==
  /\ PSEUDO_ATOMIC_ATOMIC <=> (Top.kind = "pseudo_atomic" /\ Top.phase = "body")
  /\ Running(Top) /\ PSEUDO_ATOMIC_INTERRUPTED => Top.enabled

SectionInv == TypeInv /\ Sections(frames) /\ FlagsAgree

LEMMA SectionsPop ==
  ASSUME NEW s \in Seq(Frame), Sections(s), NEW n \in 1..Len(s)
  PROVE  Sections(SubSeq(s, 1, n))
<1> DEFINE p == SubSeq(s, 1, n)
<1>1. /\ Len(p) = n /\ Len(s) \in Nat /\ n \in Nat /\ n <= Len(s)
      /\ \A i \in 1..n : p[i] = s[i]
  BY PopFacts
<1> HIDE DEF p
<1>2. \A i \in 2..n : Fits(p[i - 1], p[i])
  <2>1. \A i \in 2..n : i \in 2..Len(s) /\ p[i] = s[i] /\ p[i - 1] = s[i - 1]
    BY <1>1
  <2>2. QED
    BY <2>1 DEF Sections
<1>3. Shielded(p)
  <2> SUFFICES ASSUME NEW w \in 1..n, p[w].kind = "without", p[w].phase = "body"
               PROVE  /\ ~p[w].enabled
                      /\ \A h \in (w + 1)..n :
                           p[h].enabled => \E i \in (w + 1)..h : p[i].kind = "with"
    BY <1>1 DEF Shielded
  <2>1. w \in 1..Len(s) /\ p[w] = s[w]
    BY <1>1
  <2>2. ASSUME NEW h \in (w + 1)..n
        PROVE  h \in (w + 1)..Len(s) /\ p[h] = s[h] /\ \A i \in (w + 1)..h : p[i] = s[i]
    BY <1>1
  <2>3. /\ ~s[w].enabled
        /\ \A h \in (w + 1)..Len(s) : s[h].enabled => \E i \in (w + 1)..h : s[i].kind = "with"
    BY <2>1 DEF Sections, Shielded
  <2>4. ASSUME NEW h \in (w + 1)..n, p[h].enabled
        PROVE  \E i \in (w + 1)..h : p[i].kind = "with"
    <3>1. \E i \in (w + 1)..h : s[i].kind = "with"
      BY <2>2, <2>3, <2>4
    <3>2. QED
      BY <2>2, <3>1
  <2>5. QED
    BY <2>1, <2>3, <2>4
<1>4. QED
  BY <1>1, <1>2, <1>3 DEF Sections, p

LEMMA SectionsPush ==
  ASSUME NEW s \in Seq(Frame), Len(s) > 0, Sections(s), NEW f \in Frame,
         Fits(s[Len(s)], f), f.kind = "without" /\ f.phase = "body" => ~f.enabled
  PROVE  Sections(Append(s, f))
<1> DEFINE a == Append(s, f)
           n == Len(s)
<1>1. /\ Len(a) = n + 1 /\ n \in Nat /\ n > 0
      /\ a[n + 1] = f
      /\ \A i \in 1..n : a[i] = s[i]
  BY PushFacts
<1> HIDE DEF a, n
<1>2. \A i \in 2..(n + 1) : Fits(a[i - 1], a[i])
  <2>1. ASSUME NEW i \in 2..n PROVE Fits(a[i - 1], a[i])
    <3>1. a[i] = s[i] /\ a[i - 1] = s[i - 1]
      BY <1>1
    <3>2. QED
      BY <3>1 DEF Sections, n
  <2>2. Fits(a[n], a[n + 1])
    BY <1>1 DEF n
  <2>3. \A i \in 2..(n + 1) : i \in 2..n \/ (i = n + 1 /\ i - 1 = n)
    BY <1>1
  <2>4. QED
    BY <2>1, <2>2, <2>3
<1>3. Shielded(a)
  <2> SUFFICES ASSUME NEW w \in 1..(n + 1), a[w].kind = "without", a[w].phase = "body"
               PROVE  /\ ~a[w].enabled
                      /\ \A h \in (w + 1)..(n + 1) :
                           a[h].enabled => \E i \in (w + 1)..h : a[i].kind = "with"
    BY <1>1 DEF Shielded
  <2>1. CASE w = n + 1
    BY <1>1, <2>1
  <2>2. CASE w \in 1..n
    <3>1. /\ ~s[w].enabled /\ a[w] = s[w]
          /\ \A h \in (w + 1)..n : s[h].enabled => \E i \in (w + 1)..h : s[i].kind = "with"
      BY <1>1, <2>2 DEF Sections, Shielded, n
    <3>2. ASSUME NEW h \in (w + 1)..n, a[h].enabled
          PROVE  \E i \in (w + 1)..h : a[i].kind = "with"
      <4>1. a[h] = s[h] /\ \A i \in (w + 1)..h : a[i] = s[i]
        BY <1>1
      <4>2. QED
        BY <3>1, <3>2, <4>1
    <3>3. ASSUME a[n + 1].enabled PROVE \E i \in (w + 1)..(n + 1) : a[i].kind = "with"
      <4>1. CASE f.kind = "with"
        <5>1. n + 1 \in (w + 1)..(n + 1) /\ a[n + 1].kind = "with"
          BY <1>1, <2>2, <4>1
        <5>2. QED
          BY <5>1
      <4>2. CASE f.kind # "with"
        <5>1. s[n].enabled
          BY <1>1, <3>3, <4>2 DEF Fits, n
        <5>2. n \in (w + 1)..n
          BY <1>1, <2>2, <3>1, <5>1
        <5>3. \E i \in (w + 1)..n : a[i].kind = "with"
          BY <1>1, <3>2, <5>1, <5>2
        <5>4. QED
          BY <1>1, <5>3
      <4>3. QED
        BY <4>1, <4>2
    <3>4. \A h \in (w + 1)..(n + 1) : h \in (w + 1)..n \/ h = n + 1
      BY <1>1
    <3>5. QED
      BY <3>1, <3>2, <3>3, <3>4
  <2>3. QED
    BY <1>1, <2>1, <2>2
<1>4. QED
  BY <1>1, <1>2, <1>3 DEF Sections, a

(* A change of the top frame is a pop and a push. *)
LEMMA SectionsTop ==
  ASSUME TypeInv, Sections(frames), Top.kind # "main", NEW p \in Phases, NEW e \in BOOLEAN,
         Top.kind \notin {"with", "without"} => e = Top.enabled,
         ~(Top.kind = "without" /\ p = "body")
  PROVE  Sections(WithTop(p, e))
<1> DEFINE f == [Top EXCEPT !.phase = p, !.enabled = e]
           n == Len(frames)
<1>1. /\ frames \in Seq(Frame) /\ n \in Nat /\ n > 1
      /\ Below \in Seq(Frame) /\ Len(Below) = n - 1
      /\ \A i \in 1..(n - 1) : Below[i] = frames[i]
  BY BelowFacts DEF TypeInv, TypeOK
<1>2. Top = frames[n] /\ Top \in Frame
  BY <1>1, LengthFacts DEF Top
<1>3. f \in Frame /\ f.kind = Top.kind /\ f.phase = p /\ f.enabled = e
  BY <1>2 DEF Frame
<1>4. /\ WithTop(p, e) \in Seq(Frame) /\ Len(WithTop(p, e)) = n
      /\ WithTop(p, e)[n] = f
      /\ \A i \in 1..(n - 1) : WithTop(p, e)[i] = frames[i]
  <2>1. frames \in Seq(Frame) /\ Len(frames) > 0
    BY <1>1
  <2>2. QED
    BY <2>1, WithTopFacts
<1> HIDE DEF f, n
<1>5. WithTop(p, e) = Append(Below, f)
  <2>1. /\ Append(Below, f) \in Seq(Frame) /\ Len(Append(Below, f)) = n
        /\ Append(Below, f)[n] = f
        /\ \A i \in 1..(n - 1) : Append(Below, f)[i] = frames[i]
    BY <1>1, <1>3, PushFacts
  <2>2. \A i \in 1..n : i \in 1..(n - 1) \/ i = n
    BY <1>1
  <2>3. \A i \in 1..n : WithTop(p, e)[i] = Append(Below, f)[i]
    BY <1>4, <2>1, <2>2
  <2>4. QED
    BY <1>4, <2>1, <2>3, SeqEqual
<1>6. Sections(Below)
  <2>1. n - 1 \in 1..Len(frames)
    BY <1>1, LengthFacts DEF n
  <2>2. QED
    BY <1>1, <2>1, SectionsPop DEF Below, n
<1>7. Fits(Below[Len(Below)], f)
  <2>1. n \in 2..Len(frames) /\ Below[Len(Below)] = frames[n - 1]
    BY <1>1 DEF n
  <2>2. Fits(frames[n - 1], Top)
    BY <1>2, <2>1 DEF Sections
  <2>3. QED
    BY <1>3, <2>1, <2>2 DEF Fits
<1>8. QED
  BY <1>1, <1>3, <1>5, <1>6, <1>7, SectionsPush

(* What a step that only pops, or also starts a handler, does to the sections. *)
LEMMA SectionsBelow ==
  ASSUME TypeInv, Sections(frames), Top.kind # "main"
  PROVE  Sections(Below) /\ Fits(Below[Len(Below)], Top)
<1>1. /\ frames \in Seq(Frame) /\ Len(frames) \in Nat /\ Len(frames) > 1
      /\ Below[Len(Below)] = frames[Len(frames) - 1]
  BY BelowFacts DEF TypeInv, TypeOK
<1>2. Sections(Below)
  BY <1>1, LengthFacts, SectionsPop DEF Below
<1>3. Len(frames) \in 2..Len(frames)
  BY <1>1
<1>4. QED
  BY <1>1, <1>2, <1>3 DEF Sections, Top

LEMMA SectionsTrap ==
  ASSUME TypeInv, NEW under \in Seq(Frame), Len(under) > 0, Sections(under),
         under[Len(under)].enabled, ~(Running(under[Len(under)]) /\ under[Len(under)].phase = "body"),
         frames' = under \/ \E f \in Frame : /\ frames' = Append(under, f)
                                             /\ f.kind = "handler"
                                             /\ f.enabled = under[Len(under)].enabled
  PROVE  /\ Sections(frames')
         /\ ~PSEUDO_ATOMIC_ATOMIC' => FlagsAgree'
<1>1. CASE frames' = under
  BY <1>1 DEF FlagsAgree, Top, Running
<1>2. ASSUME NEW f \in Frame, frames' = Append(under, f),
             f.kind = "handler", f.enabled = under[Len(under)].enabled
      PROVE  Sections(frames') /\ (~PSEUDO_ATOMIC_ATOMIC' => FlagsAgree')
  <2>1. Fits(under[Len(under)], f)
    BY <1>2 DEF Fits
  <2>2. Sections(frames')
    BY <1>2, <2>1, SectionsPush
  <2>3. frames'[Len(frames')] = f
    BY <1>2, PushFacts
  <2>4. QED
    BY <1>2, <2>2, <2>3 DEF FlagsAgree, Top, Running
<1>3. QED
  BY <1>1, <1>2

LEMMA SectionInit == Init => SectionInv
<1> SUFFICES ASSUME Init PROVE SectionInv
  OBVIOUS
<1>1. TypeInv
  BY TypeInit
<1> DEFINE f == NewFrame("main", "body", TRUE)
<1>2. f.kind = "main"
  BY DEF NewFrame
<1> HIDE DEF f
<1>3. Len(frames) = 1 /\ frames[1] = f
  BY DEF Init, f
<1>4. Top = f
  BY <1>3 DEF Top
<1>5. Sections(frames)
  BY <1>2, <1>3 DEF Sections, Shielded
<1>6. FlagsAgree
  BY <1>2, <1>4 DEF Init, FlagsAgree, Running
<1>7. QED
  BY <1>1, <1>5, <1>6 DEF SectionInv

LEMMA SectionNext == SectionInv /\ [Next]_vars => SectionInv'
<1> SUFFICES ASSUME SectionInv, [Next]_vars PROVE SectionInv'
  OBVIOUS
<1>type. TypeInv /\ TypeInv' /\ Sections(frames) /\ FlagsAgree
  BY TypeNext DEF SectionInv
<1>0. /\ frames \in Seq(Frame) /\ Len(frames) \in Nat /\ Len(frames) > 0
      /\ Top \in Frame /\ Top = frames[Len(frames)] /\ Top.enabled \in BOOLEAN
      /\ PSEUDO_ATOMIC_ATOMIC \in BOOLEAN
  <2>1. frames \in Seq(Frame) /\ Len(frames) \in Nat /\ Len(frames) > 0 /\ PSEUDO_ATOMIC_ATOMIC \in BOOLEAN
    BY <1>type DEF TypeInv, TypeOK
  <2>2. Top \in Frame
    BY <2>1, LengthFacts DEF Top
  <2>3. QED
    BY <2>1, <2>2 DEF Top, Frame
<1> SUFFICES Sections(frames') /\ FlagsAgree'
  BY <1>type DEF SectionInv, Sections, Shielded, Fits, Running
\* Steps that leave the stack and the two flags alone.
<1>same. ASSUME frames' = frames, PSEUDO_ATOMIC_ATOMIC' = PSEUDO_ATOMIC_ATOMIC,
                PSEUDO_ATOMIC_INTERRUPTED' = PSEUDO_ATOMIC_INTERRUPTED
         PROVE  Sections(frames') /\ FlagsAgree'
  BY <1>type, <1>same DEF FlagsAgree, Top
\* Steps that pop a frame that is not a running sequence's body.
<1>pop. ASSUME Top.kind # "main", frames' = Below, PSEUDO_ATOMIC_ATOMIC' = FALSE
        PROVE  Sections(frames') /\ FlagsAgree'
  <2>1. Sections(Below) /\ Fits(Below[Len(Below)], Top)
    BY <1>type, <1>pop, SectionsBelow
  <2>2. QED
    BY <1>pop, <2>1 DEF FlagsAgree, Top, Fits, Running
\* Steps that enter a macro from Lisp code.
<1>push. ASSUME NEW f \in Frame, frames' = Append(frames, f), InLisp, Fits(Top, f),
                f.kind = "without" => ~f.enabled, f.kind # "handler",
                PSEUDO_ATOMIC_ATOMIC' = PSEUDO_ATOMIC_ATOMIC,
                Running(f) => ~PSEUDO_ATOMIC_INTERRUPTED' /\ f.phase # "body"
         PROVE  Sections(frames') /\ FlagsAgree'
  <2>1. Sections(frames')
    BY <1>type, <1>0, <1>push, SectionsPush
  <2>2. Top' = f
    BY <1>0, <1>push, PushFacts DEF Top
  <2>3. ~PSEUDO_ATOMIC_ATOMIC
    BY <1>type, <1>push DEF FlagsAgree, InLisp
  <2>4. QED
    BY <1>push, <2>1, <2>2, <2>3 DEF FlagsAgree, Running
<1>top. ASSUME NEW p \in Phases, NEW e \in BOOLEAN, Top.kind # "main"
        PROVE  /\ WithTop(p, e) \in Seq(Frame) /\ Len(WithTop(p, e)) > 0
               /\ WithTop(p, e)[Len(WithTop(p, e))].kind = Top.kind
               /\ WithTop(p, e)[Len(WithTop(p, e))].phase = p
               /\ WithTop(p, e)[Len(WithTop(p, e))].enabled = e
  <2>1. /\ WithTop(p, e) \in Seq(Frame) /\ Len(WithTop(p, e)) = Len(frames)
        /\ WithTop(p, e)[Len(frames)] = [Top EXCEPT !.phase = p, !.enabled = e]
    BY <1>0, WithTopFacts
  <2>2. QED
    BY <1>0, <2>1 DEF Frame
<1>trap. ASSUME NEW under \in Seq(Frame), Len(under) > 0, Sections(under),
                under[Len(under)].enabled,
                ~(Running(under[Len(under)]) /\ under[Len(under)].phase = "body"),
                HandlePending(under), PSEUDO_ATOMIC_ATOMIC' = FALSE
         PROVE  Sections(frames') /\ FlagsAgree'
  <2>1. frames' = under \/ \E f \in Frame : /\ frames' = Append(under, f)
                                            /\ f.kind = "handler"
                                            /\ f.enabled = under[Len(under)].enabled
    BY <1>type, <1>trap, HandlePendingFacts DEF TypeInv, HandlerFrame
  <2>2. QED
    BY <1>type, <1>trap, <2>1, SectionsTrap
<1>1. ASSUME NEW sig \in Signals, Deliver(sig) PROVE Sections(frames') /\ FlagsAgree'
  <2> USE <1>1 DEF Deliver
  <2>1. ASSUME SetupPending(sig),
               \/ INTERRUPTS_ENABLED
               \/ PSEUDO_ATOMIC_INTERRUPTED' = PSEUDO_ATOMIC_INTERRUPTED
        PROVE  Sections(frames') /\ FlagsAgree'
    BY <1>type, <1>0, <2>1 DEF SetupPending, FlagsAgree, Top, INTERRUPTS_ENABLED, Running
  <2>2. CASE INTERRUPTS_ENABLED /\ ~PSEUDO_ATOMIC_ATOMIC /\ HandleNow(sig, frames, mask)
    <3>1. frames' = frames \/ \E f \in Frame : /\ frames' = Append(frames, f)
                                               /\ f.kind = "handler"
                                               /\ f.enabled = frames[Len(frames)].enabled
      BY <1>type, <1>0, <2>2, HandleNowFacts DEF HandlerFrame, TypeInv, TypeOK
    <3>2. ~(Running(Top) /\ Top.phase = "body") /\ Top.enabled
      BY <1>type, <2>2 DEF FlagsAgree, Running, INTERRUPTS_ENABLED
    <3>3. QED
      BY <1>type, <1>0, <2>2, <3>1, <3>2, SectionsTrap
  <2>3. QED
    BY <2>1, <2>2
<1>2. ASSUME NEW sig \in Signals, Raise(sig) PROVE Sections(frames') /\ FlagsAgree'
  BY <1>2, <1>same DEF Raise, flags
<1>3. ASSUME NEW sig \in Signals, DeliverDefault(sig) PROVE Sections(frames') /\ FlagsAgree'
  BY <1>3, <1>same DEF DeliverDefault, flags
<1>4. ASSUME NEW sig \in Signals, NEW h \in Handlers, InstallBlock(sig, h)
      PROVE Sections(frames') /\ FlagsAgree'
  <2> DEFINE f == [NewFrame("install", "blocked", INTERRUPTS_ENABLED)
                     EXCEPT !.sig = sig, !.saved = mask, !.new = h]
  <2>1. f \in Frame /\ f.kind = "install" /\ f.enabled = Top.enabled
    <3>1. mask \in SUBSET Signals /\ Top.enabled \in BOOLEAN
      BY <1>type, <1>0 DEF TypeInv, TypeOK, Frame
    <3>2. f = InstallerFrame(sig, h, Top.enabled, mask)
      BY DEF InstallerFrame, INTERRUPTS_ENABLED
    <3> HIDE DEF f
    <3>3. QED
      BY <3>1, <3>2, InstallFrame
  <2> HIDE DEF f
  <2>2. Fits(Top, f)
    BY <1>4, <2>1 DEF Fits, InstallBlock, MayEnter, InLisp, Running
  <2>3. QED
    BY <1>4, <1>push, <2>1, <2>2 DEF InstallBlock, MayEnter, flags, f, Running
<1>24. CASE InstallSigaction
  BY <1>type, <1>0, <1>24, <1>top, SectionsTop
     DEF InstallSigaction, At, Phases, flags, FlagsAgree, Top, Running, INTERRUPTS_ENABLED
<1>25. CASE InstallTable
  BY <1>type, <1>0, <1>25, <1>top, SectionsTop
     DEF InstallTable, At, Phases, flags, FlagsAgree, Top, Running, INTERRUPTS_ENABLED
<1>26. CASE InstallUnblock
  BY <1>type, <1>0, <1>26, <1>pop DEF InstallUnblock, At, flags, FlagsAgree
<1>5. CASE HandlerReturn
  BY <1>type, <1>0, <1>5, <1>pop DEF HandlerReturn, At, flags, FlagsAgree
<1>6. CASE HandlerThrow
  <2>0. PSEUDO_ATOMIC_ATOMIC' = FALSE /\ Top.kind = "handler"
    BY <1>type, <1>0, <1>6 DEF HandlerThrow, At, flags, FlagsAgree
  <2>1. CASE Below[Len(Below)].phase = "body"
    BY <1>6, <1>pop, <2>0, <2>1 DEF HandlerThrow
  <2>2. CASE Below[Len(Below)].phase # "body"
    <3>1. /\ Len(frames) > 2 /\ frames' = SubSeq(frames, 1, Len(frames) - 2)
          /\ Len(frames') = Len(frames) - 2
          /\ frames'[Len(frames')] = frames[Len(frames) - 2]
      BY <1>type, <1>0, <1>6, <2>2, ThrowFacts DEF HandlerThrow
    <3>2. Sections(frames')
      BY <1>type, <1>0, <3>1, LengthFacts, SectionsPop
    <3>3. Fits(frames[Len(frames) - 2], frames[Len(frames) - 1])
      <4>1. Len(frames) - 1 \in 2..Len(frames) /\ (Len(frames) - 1) - 1 = Len(frames) - 2
        BY <1>0, <3>1
      <4>2. QED
        BY <1>type, <4>1 DEF Sections
    <3>4. QED
      BY <2>0, <3>1, <3>2, <3>3 DEF FlagsAgree, Top, Fits, Running
  <2>3. QED
    BY <2>1, <2>2
<1>7. CASE EnterWithoutInterrupts
  <2> DEFINE f == NewFrame("without", "body", FALSE)
  <2>1. f \in Frame /\ f.kind = "without" /\ f.enabled = FALSE
    BY NewFrameType DEF Kinds, Phases, NewFrame
  <2> HIDE DEF f
  <2>2. Fits(Top, f)
    BY <1>7, <2>1 DEF Fits, EnterWithoutInterrupts, MayEnter, InLisp, INTERRUPTS_ENABLED, Running
  <2>3. QED
    BY <1>7, <1>push, <2>1, <2>2 DEF EnterWithoutInterrupts, MayEnter, flags, f, Running
<1>8. CASE LeaveWithoutInterrupts
  BY <1>type, <1>0, <1>8, <1>top, SectionsTop
     DEF LeaveWithoutInterrupts, At, Phases, flags, FlagsAgree, Top, Running
<1>9. CASE CheckWithoutInterrupts
  <2> USE <1>9 DEF CheckWithoutInterrupts, At
  <2>1. /\ Below \in Seq(Frame) /\ Len(Below) > 0 /\ PSEUDO_ATOMIC_ATOMIC' = FALSE
        /\ Sections(Below) /\ Fits(Below[Len(Below)], Top)
    BY <1>type, <1>0, BelowFacts, SectionsBelow DEF FlagsAgree
  <2>2. CASE INTERRUPT_PENDING
    BY <1>trap, <2>1, <2>2 DEF Fits, Running
  <2>3. CASE ~INTERRUPT_PENDING
    BY <1>pop, <2>1, <2>3
  <2>4. QED
    BY <2>2, <2>3
<1>10. CASE EnterWithInterrupts
  <2> DEFINE f == NewFrame("with", "check", TRUE)
  <2>1. f \in Frame /\ f.kind = "with" /\ f.enabled = TRUE
    BY NewFrameType DEF Kinds, Phases, NewFrame
  <2> HIDE DEF f
  <2>2. Fits(Top, f)
    BY <1>10, <2>1 DEF Fits, EnterWithInterrupts, MayEnter, InLisp, Running
  <2>3. QED
    BY <1>10, <1>push, <2>1, <2>2 DEF EnterWithInterrupts, MayEnter, flags, f, Running
<1>11. CASE CheckWithInterrupts
  <2> USE <1>11 DEF CheckWithInterrupts, At
  <2>1. /\ WithTop("body", TRUE) \in Seq(Frame) /\ Len(WithTop("body", TRUE)) > 0
        /\ WithTop("body", TRUE)[Len(WithTop("body", TRUE))].kind = "with"
        /\ WithTop("body", TRUE)[Len(WithTop("body", TRUE))].enabled
    BY <1>top DEF Phases
  <2>2. Sections(WithTop("body", TRUE)) /\ PSEUDO_ATOMIC_ATOMIC' = FALSE
    BY <1>type, <1>0, SectionsTop DEF Phases, FlagsAgree
  <2>3. CASE INTERRUPT_PENDING
    BY <1>trap, <2>1, <2>2, <2>3 DEF Running
  <2>4. CASE ~INTERRUPT_PENDING
    BY <2>1, <2>2, <2>4 DEF FlagsAgree, Top, Running
  <2>5. QED
    BY <2>3, <2>4
<1>12. CASE LeaveWithInterrupts
  BY <1>type, <1>0, <1>12, <1>pop DEF LeaveWithInterrupts, At, flags, FlagsAgree
<1>13. CASE PaClearInterrupted
  <2> DEFINE f == NewFrame("pseudo_atomic", "enter", INTERRUPTS_ENABLED)
  <2>1. f \in Frame /\ f.kind = "pseudo_atomic" /\ f.phase = "enter" /\ f.enabled = Top.enabled
    BY <1>0, NewFrameType DEF Kinds, Phases, NewFrame, INTERRUPTS_ENABLED
  <2> HIDE DEF f
  <2>2. Fits(Top, f)
    BY <1>13, <2>1 DEF Fits, PaClearInterrupted, MayEnter, InLisp, Running
  <2>3. QED
    BY <1>13, <1>push, <2>1, <2>2 DEF PaClearInterrupted, MayEnter, f
<1>14. CASE PaSetAtomic
  <2>1. Top.kind = "pseudo_atomic" /\ Top.enabled \in BOOLEAN /\ "body" \in Phases
    BY <1>type, <1>0, <1>14 DEF PaSetAtomic, At, Phases, FlagsAgree, Running
  <2>2. QED
    <3>1. Sections(WithTop("body", Top.enabled))
      BY <1>type, <2>1, SectionsTop
    <3>2. frames' = WithTop("body", Top.enabled) /\ PSEUDO_ATOMIC_ATOMIC' = TRUE
      BY <1>14 DEF PaSetAtomic, INTERRUPTS_ENABLED
    <3>3. FlagsAgree'
      <4>1. /\ Top'.kind = "pseudo_atomic" /\ Top'.phase = "body" /\ Top'.enabled = Top.enabled
        BY <1>top, <2>1, <3>2 DEF Top
      <4>2. PSEUDO_ATOMIC_INTERRUPTED' => Top.enabled
        BY <1>type, <1>14 DEF FlagsAgree, PaSetAtomic, At, Running
      <4>3. QED
        BY <3>2, <4>1, <4>2 DEF FlagsAgree
    <3>4. QED
      BY <3>1, <3>2, <3>3
<1>15. ASSUME NEW next \in {"leave", "alloc_check"}, PaClearAtomic(next)
       PROVE Sections(frames') /\ FlagsAgree'
  BY <1>type, <1>0, <1>15, <1>top, SectionsTop
     DEF PaClearAtomic, At, Phases, FlagsAgree, Top, Running, INTERRUPTS_ENABLED
<1>16. CASE PaTestInterrupted
  <2> USE <1>16 DEF PaTestInterrupted, TestInterrupted, At
  <2>1. /\ Below \in Seq(Frame) /\ Len(Below) > 0 /\ PSEUDO_ATOMIC_ATOMIC' = FALSE
        /\ Sections(Below) /\ Fits(Below[Len(Below)], Top)
    BY <1>type, <1>0, BelowFacts, SectionsBelow DEF FlagsAgree
  <2>2. CASE PSEUDO_ATOMIC_INTERRUPTED
    <3>1. Top.enabled
      BY <1>type, <2>2 DEF FlagsAgree, Running
    <3>2. QED
      BY <1>trap, <2>1, <2>2, <3>1 DEF Fits, Running
  <2>3. CASE ~PSEUDO_ATOMIC_INTERRUPTED
    BY <1>pop, <2>1, <2>3
  <2>4. QED
    BY <2>2, <2>3
<1>17. CASE AllocTestInterrupted
  <2> DEFINE under == WithTop("alloc_gc", INTERRUPTS_ENABLED)
  <2> USE <1>17 DEF AllocTestInterrupted, TestInterrupted, At
  <2>1. /\ under \in Seq(Frame) /\ Len(under) > 0
        /\ under[Len(under)].kind = "pseudo_atomic" /\ under[Len(under)].phase = "alloc_gc"
        /\ under[Len(under)].enabled = Top.enabled
    <3>1. Top.kind = "pseudo_atomic" /\ "alloc_gc" \in Phases /\ Top.enabled \in BOOLEAN
      BY <1>0 DEF Phases
    <3>2. QED
      BY <1>top, <3>1 DEF INTERRUPTS_ENABLED
  <2>2. Sections(under) /\ PSEUDO_ATOMIC_ATOMIC' = FALSE
    BY <1>type, <1>0, SectionsTop DEF Phases, INTERRUPTS_ENABLED, FlagsAgree
  <2>3. CASE PSEUDO_ATOMIC_INTERRUPTED
    <3>1. Top.enabled
      BY <1>type, <2>3 DEF FlagsAgree, Running
    <3>2. HandlePending(under)
      BY <2>3
    <3>3. QED
      BY <1>trap, <2>1, <2>2, <3>1, <3>2 DEF Running
  <2>4. CASE ~PSEUDO_ATOMIC_INTERRUPTED
    BY <2>1, <2>2, <2>4 DEF FlagsAgree, Top, Running
  <2>5. QED
    BY <2>3, <2>4
<1>18. CASE AllocRetry
  BY <1>type, <1>0, <1>18, <1>top, SectionsTop
     DEF AllocRetry, At, Phases, FlagsAgree, Top, Running, INTERRUPTS_ENABLED
<1>19. CASE Sigblock
  <2> DEFINE f == [NewFrame("sigblock", "body", INTERRUPTS_ENABLED) EXCEPT !.saved = mask]
  <2>1. f \in Frame /\ f.kind = "sigblock" /\ f.enabled = Top.enabled
    <3>1. mask \in SUBSET Signals /\ Top.enabled \in BOOLEAN
      BY <1>type, <1>0 DEF TypeInv, TypeOK, Frame
    <3>2. QED
      BY <1>0, <3>1 DEF Kinds, Phases, Handlers, NewFrame, Frame, INTERRUPTS_ENABLED
  <2> HIDE DEF f
  <2>2. Fits(Top, f)
    BY <1>19, <2>1 DEF Fits, Sigblock, MayEnter, InLisp, Running
  <2>3. QED
    BY <1>19, <1>push, <2>1, <2>2 DEF Sigblock, MayEnter, flags, f, Running
<1>20. CASE SigsetmaskOld
  BY <1>type, <1>0, <1>20, <1>pop DEF SigsetmaskOld, At, flags, FlagsAgree
<1>21. CASE InvokeDebugger
  BY <1>21, <1>same DEF InvokeDebugger, flags
<1>22. CASE UNCHANGED vars
  BY <1>22, <1>same DEF vars, flags
<1>23. QED
  BY <1>1, <1>2, <1>3, <1>4, <1>5, <1>6, <1>7, <1>8, <1>9, <1>10, <1>11, <1>12, <1>13,
     <1>14, <1>15, <1>16, <1>17, <1>18, <1>19, <1>20, <1>21, <1>22, <1>24, <1>25, <1>26,
     ConstantsAssumption DEF Next, LispStep, Stopped

(* WITHOUT-INTERRUPTS keeps its promise: no handler runs on top of its body
   unless a WITH-INTERRUPTS inside the body let it in.  This holds whatever the
   program does to the signal mask.                                        *)
THEOREM WithoutInterruptsImpervious == Spec => []Impervious
<1>1. Spec => []SectionInv
  BY SectionInit, SectionNext, PTL DEF Spec
<1>2. SectionInv => Impervious
  <2> SUFFICES ASSUME SectionInv, NEW h \in DOMAIN frames, frames[h].kind = "handler",
                      NEW w \in 1..(h - 1), frames[w].kind = "without", frames[w].phase = "body"
               PROVE  \E i \in (w + 1)..(h - 1) : frames[i].kind = "with"
    BY DEF Impervious
  <2>1. frames \in Seq(Frame) /\ Len(frames) \in Nat /\ DOMAIN frames = 1..Len(frames)
    BY DEF SectionInv, TypeInv, TypeOK
  <2>2. h \in 2..Len(frames) /\ w \in 1..Len(frames) /\ h \in (w + 1)..Len(frames)
    BY <2>1
  <2>3. frames[h].enabled
    BY <2>2 DEF SectionInv, Sections, Fits
  <2>4. PICK i \in (w + 1)..h : frames[i].kind = "with"
    BY <2>2, <2>3 DEF SectionInv, Sections, Shielded
  <2>5. i # h
    BY <2>4
  <2>6. i \in (w + 1)..(h - 1)
    BY <2>1, <2>2, <2>4, <2>5
  <2>7. QED
    BY <2>4, <2>6
<1>3. QED
  BY <1>1, <1>2, PTL

(* A pseudo-atomic sequence is never interrupted, and the flag that tells the
   C code so is right in every state.                                      *)
THEOREM PseudoAtomicIsAtomic == Spec => []AtomicIsAtomic
<1>1. Spec => []SectionInv
  BY SectionInit, SectionNext, PTL DEF Spec
<1>2. SectionInv => AtomicIsAtomic
  <2> SUFFICES ASSUME SectionInv PROVE AtomicIsAtomic
    OBVIOUS
  <2>1. Len(frames) \in Nat
    BY DEF SectionInv, TypeInv, TypeOK
  <2>2. ASSUME NEW i \in 1..(Len(frames) - 1)
        PROVE  ~(frames[i].kind = "pseudo_atomic" /\ frames[i].phase = "body")
    <3>1. i + 1 \in 2..Len(frames) /\ (i + 1) - 1 = i
      BY <2>1
    <3>2. Fits(frames[i], frames[i + 1])
      BY <3>1 DEF SectionInv, Sections
    <3>3. QED
      BY <3>2 DEF Fits, Running
  <2>3. QED
    BY <2>2 DEF AtomicIsAtomic, SectionInv, FlagsAgree
<1>3. QED
  BY <1>1, <1>2, PTL

-----------------------------------------------------------------------------
(* No deferred signal is ever lost: one slot is enough, provided that nobody *)
(* changes the signal mask behind the runtime's back: not the program, and   *)
(* not install_handler, which does when a signal is deferred, or a handler   *)
(* throws, in the middle of it.  (TLC refutes SlotKept and                   *)
(* NoSignalOverwritten without the proviso.)                                 *)

MaskLeftAlone == ~Debugger /\ BlockSet = {} /\ CarefulInstall

\* A body of WITHOUT-INTERRUPTS at or below frame n will look at
\* *interrupt-pending*, with no handler in between.
Watched(s, n) ==
  \E w \in 1..n : s[w].kind = "without" /\ \A i \in (w + 1)..n : s[i].kind # "handler"

\* The signals that install_handler has blocked at or below frame n.
Blocked(s, n) ==
  {x \in Signals : \E i \in 1..n : s[i].kind = "install" /\ s[i].sig = x}

QuietAt(s, n) ==
  /\ s[n].kind # "sigblock"
  /\ s[n].kind \in {"handler", "install"} => s[n].saved \subseteq Blocked(s, n - 1)
  /\ s[n].kind \in {"install", "with"} => s[n].enabled
  /\ ~s[n].enabled => Watched(s, n)

Quiet(s) == \A n \in 1..Len(s) : QuietAt(s, n)

Flagged ==
  \/ /\ INTERRUPT_PENDING /\ Watched(frames, Len(frames))
     /\ Top.enabled => Top.phase = "check"
  \/ /\ PSEUDO_ATOMIC_INTERRUPTED
     /\ Top.kind = "pseudo_atomic" /\ Top.phase \in {"body", "leave", "alloc_check"}

\* The slot and the mask, on the stack s.
SlotIs(p, saved, m, s) ==
  /\ saved \subseteq Blocked(s, Len(s))
  /\ p = NoSignal => saved = {} /\ m \subseteq Blocked(s, Len(s))
  /\ p # NoSignal => m = Signals

SlotInv ==
  /\ SectionInv
  /\ Quiet(frames)
  /\ SlotIs(pending_signal, pending_mask, mask, frames)
  /\ pending_signal # NoSignal => Flagged

-----------------------------------------------------------------------------
LEMMA WatchedSame ==
  ASSUME NEW s, NEW t, NEW n \in Nat, \A i \in 1..n : s[i].kind = t[i].kind, Watched(s, n)
  PROVE  Watched(t, n)
<1>1. PICK w \in 1..n : s[w].kind = "without" /\ \A i \in (w + 1)..n : s[i].kind # "handler"
  BY DEF Watched
<1>2. \A i \in (w + 1)..n : i \in 1..n
  OBVIOUS
<1>3. QED
  BY <1>1, <1>2 DEF Watched

LEMMA WatchedNext ==
  ASSUME NEW s, NEW n \in Nat, Watched(s, n), s[n + 1].kind # "handler"
  PROVE  Watched(s, n + 1)
<1>1. PICK w \in 1..n : s[w].kind = "without" /\ \A i \in (w + 1)..n : s[i].kind # "handler"
  BY DEF Watched
<1>2. w \in 1..(n + 1) /\ \A i \in (w + 1)..(n + 1) : i \in (w + 1)..n \/ i = n + 1
  OBVIOUS
<1>3. QED
  BY <1>1, <1>2 DEF Watched

(* A watched frame that is not WITHOUT-INTERRUPTS itself is watched from below. *)
LEMMA WatchedBelow ==
  ASSUME NEW s, NEW n \in Nat, n > 1, Watched(s, n), s[n].kind # "without"
  PROVE  Watched(s, n - 1) /\ s[n].kind # "handler"
<1>1. PICK w \in 1..n : s[w].kind = "without" /\ \A i \in (w + 1)..n : s[i].kind # "handler"
  BY DEF Watched
<1>2. w \in 1..(n - 1) /\ n \in (w + 1)..n /\ \A i \in (w + 1)..(n - 1) : i \in (w + 1)..n
  BY <1>1
<1>3. QED
  BY <1>1, <1>2 DEF Watched

(* What install_handler blocks depends on the frames, not on what is above them. *)
LEMMA BlockedSame ==
  ASSUME NEW s, NEW t, NEW n, \A i \in 1..n : s[i].kind = t[i].kind /\ s[i].sig = t[i].sig
  PROVE  Blocked(s, n) = Blocked(t, n)
  BY DEF Blocked

LEMMA BlockedGrows ==
  ASSUME NEW s, NEW n \in Nat
  PROVE  Blocked(s, n) \subseteq Blocked(s, n + 1)
<1>1. \A i \in 1..n : i \in 1..(n + 1)
  OBVIOUS
<1>2. QED
  BY <1>1 DEF Blocked

LEMMA BlockedPop ==
  ASSUME NEW s, NEW n \in Nat, n > 0, s[n].kind # "install"
  PROVE  Blocked(s, n - 1) = Blocked(s, n)
<1>1. \A i \in 1..n : i = n \/ i \in 1..(n - 1)
  OBVIOUS
<1>2. \A i \in 1..(n - 1) : i \in 1..n
  OBVIOUS
<1>3. QED
  BY <1>1, <1>2 DEF Blocked

(* A frame is quiet because of the kinds and signals of the frames up to it. *)
LEMMA QuietSame ==
  ASSUME NEW s, NEW t, NEW n \in Nat, n > 0, QuietAt(s, n),
         \A i \in 1..n : s[i].kind = t[i].kind /\ s[i].sig = t[i].sig,
         t[n].saved = s[n].saved, s[n].enabled => t[n].enabled,
         t[n].enabled \in BOOLEAN
  PROVE  QuietAt(t, n)
<1>1. s[n].kind = t[n].kind
  BY LengthFacts
<1>2. Blocked(s, n - 1) = Blocked(t, n - 1)
  <2>1. \A i \in 1..(n - 1) : i \in 1..n
    OBVIOUS
  <2>2. QED
    BY <2>1, BlockedSame
<1>3. Watched(s, n) => Watched(t, n)
  BY WatchedSame
<1>4. QED
  BY <1>1, <1>2, <1>3 DEF QuietAt

LEMMA QuietPrefix ==
  ASSUME NEW s \in Seq(Frame), NEW t \in Seq(Frame), Quiet(s), Len(t) <= Len(s),
         \A i \in 1..Len(t) : t[i] = s[i]
  PROVE  Quiet(t)
<1> SUFFICES ASSUME NEW n \in 1..Len(t) PROVE QuietAt(t, n)
  BY DEF Quiet
<1>1. n \in 1..Len(s) /\ n \in Nat /\ n > 0 /\ \A i \in 1..n : s[i] = t[i]
  OBVIOUS
<1>2. t[n] = s[n] /\ t[n] \in Frame /\ t[n].enabled \in BOOLEAN
  BY <1>1, FrameEnabled
<1>3. QED
  BY <1>1, <1>2, QuietSame DEF Quiet

(* A new frame on top keeps a stack quiet. *)
LEMMA QuietPush ==
  ASSUME NEW s \in Seq(Frame), NEW f \in Frame, Len(s) > 0, Quiet(s),
         f.kind # "sigblock",
         f.kind \in {"handler", "install"} =>
           f.saved \subseteq Blocked(s, Len(s)) /\ f.enabled,
         f.kind = "with" => f.enabled,
         ~f.enabled => f.kind = "without" \/ ~s[Len(s)].enabled
  PROVE  Quiet(Append(s, f))
<1> DEFINE t == Append(s, f)
           k == Len(s)
<1>0. /\ t \in Seq(Frame) /\ Len(t) = k + 1 /\ t[k + 1] = f /\ k \in Nat /\ k > 0
      /\ \A i \in 1..k : t[i] = s[i]
  BY PushFacts
<1>00. k = Len(s)
  OBVIOUS
<1> HIDE DEF t, k
<1> SUFFICES ASSUME NEW n \in 1..(k + 1) PROVE QuietAt(t, n)
  BY <1>0 DEF Quiet, t
<1>1. CASE n \in 1..k
  <2>1. n \in Nat /\ n > 0 /\ n \in 1..Len(s) /\ t[n] = s[n] /\ \A i \in 1..n : s[i] = t[i]
    BY <1>0, <1>00, <1>1
  <2>2. t[n] \in Frame /\ t[n].enabled \in BOOLEAN
    BY <2>1, FrameEnabled
  <2>3. QED
    BY <2>1, <2>2, QuietSame DEF Quiet
<1>2. CASE n = k + 1
  <2>1. Blocked(s, k) = Blocked(t, k)
    BY <1>0, BlockedSame
  <2>2. ASSUME ~f.enabled PROVE Watched(t, n)
    <3>1. CASE f.kind = "without"
      <4>1. n \in 1..n /\ \A i \in (n + 1)..n : FALSE
        BY <1>2
      <4>2. QED
        BY <1>0, <1>2, <3>1, <4>1 DEF Watched
    <3>2. CASE ~s[k].enabled
      <4>1. k \in 1..Len(s)
        BY <1>0, <1>00
      <4>2. Watched(s, k)
        BY <3>2, <4>1 DEF Quiet, QuietAt
      <4>3. Watched(t, k)
        BY <1>0, <4>2, WatchedSame
      <4>4. f.kind # "handler"
        BY <2>2
      <4>5. QED
        BY <1>0, <1>2, <4>3, <4>4, WatchedNext
    <3>3. QED
      BY <2>2, <3>1, <3>2, <1>00
  <2>3. n - 1 = k /\ t[n] = f
    BY <1>0, <1>2
  <2>4. QED
    BY <1>00, <2>1, <2>2, <2>3 DEF QuietAt
<1>3. QED
  BY <1>0, <1>1, <1>2

(* A change of the top frame keeps what it is, and what is blocked. *)
LEMMA QuietTop ==
  ASSUME TypeInv, Quiet(frames), Top.kind # "main", NEW p \in Phases, NEW e \in BOOLEAN,
         e \/ ~Top.enabled
  PROVE  /\ Quiet(WithTop(p, e))
         /\ Blocked(WithTop(p, e), Len(frames)) = Blocked(frames, Len(frames))
         /\ \A i \in 1..Len(frames) : WithTop(p, e)[i].kind = frames[i].kind
         /\ Len(WithTop(p, e)) = Len(frames)
<1> DEFINE n == Len(frames)
           t == WithTop(p, e)
<1>1. /\ frames \in Seq(Frame) /\ n \in Nat /\ n > 1 /\ Top = frames[n] /\ Top \in Frame
  <2>1. frames \in Seq(Frame) /\ n \in Nat /\ n > 1
    BY BelowFacts DEF TypeInv, TypeOK
  <2>2. QED
    BY <2>1, LengthFacts DEF Top
<1>2. /\ Len(t) = n
      /\ t[n] = [Top EXCEPT !.phase = p, !.enabled = e]
      /\ \A i \in 1..(n - 1) : t[i] = frames[i]
  <2>1. frames \in Seq(Frame) /\ Len(frames) > 0
    BY <1>1
  <2>2. QED
    BY <2>1, WithTopFacts
<1>3. /\ t[n].kind = Top.kind /\ t[n].saved = Top.saved /\ t[n].sig = Top.sig
      /\ t[n].enabled = e
  BY <1>1, <1>2 DEF Frame
<1> HIDE DEF t
<1> HIDE DEF n
<1>c. ASSUME NEW i \in 1..n PROVE i \in 1..(n - 1) \/ i = n
  BY <1>1
<1>4. ASSUME NEW i \in 1..n
      PROVE  /\ t[i].kind = frames[i].kind /\ t[i].sig = frames[i].sig
             /\ t[i].saved = frames[i].saved
             /\ frames[i].enabled => t[i].enabled
             /\ t[i].enabled \in BOOLEAN
  <2>1. CASE i = n
    BY <2>1, <1>1, <1>3
  <2>2. CASE i \in 1..(n - 1)
    <3>1. t[i] = frames[i] /\ i \in 1..Len(frames)
      BY <2>2, <1>1, <1>2 DEF n
    <3>2. QED
      BY <1>1, <3>1, FrameEnabled
  <2>3. QED
    BY <2>1, <2>2, <1>c
<1>5. Quiet(t)
  <2> SUFFICES ASSUME NEW k \in 1..n PROVE QuietAt(t, k)
    BY <1>2 DEF Quiet
  <2>1. k \in Nat /\ k > 0 /\ \A i \in 1..k : frames[i].kind = t[i].kind /\ frames[i].sig = t[i].sig
    BY <1>1, <1>4
  <2>2. QuietAt(frames, k)
    BY DEF Quiet, n
  <2>3. QED
    BY <1>4, <2>1, <2>2, QuietSame
<1>6. Blocked(t, n) = Blocked(frames, n)
  BY <1>4, BlockedSame
<1>7. QED
  BY <1>2, <1>4, <1>5, <1>6 DEF t, n

LEMMA SlotInit == MaskLeftAlone /\ Init => SlotInv
<1> SUFFICES ASSUME Init PROVE SlotInv
  OBVIOUS
<1>1. SectionInv
  BY SectionInit
<1> DEFINE f == NewFrame("main", "body", TRUE)
<1>2. f.kind = "main" /\ f.enabled
  BY DEF NewFrame
<1> HIDE DEF f
<1>3. Len(frames) = 1 /\ frames[1] = f
  BY DEF Init, f
<1>4. Quiet(frames)
  BY <1>2, <1>3 DEF Quiet, QuietAt
<1>5. QED
  BY <1>1, <1>4 DEF Init, SlotInv, SlotIs

(* In every step: a trap empties the slot, a deferral fills an empty one, and
   nothing else touches it.                                                *)
LEMMA SlotNext == MaskLeftAlone /\ SlotInv /\ [Next]_vars => SlotInv'
<1> SUFFICES ASSUME MaskLeftAlone, SlotInv, [Next]_vars PROVE SlotInv'
  OBVIOUS
<1> DEFINE N == Len(frames)
           Goal == /\ Quiet(frames')
                   /\ SlotIs(pending_signal', pending_mask', mask', frames')
                   /\ pending_signal' # NoSignal => Flagged'
<1>inv. /\ SectionInv /\ SectionInv' /\ TypeInv /\ FlagsAgree /\ Quiet(frames) /\ Sections(frames)
        /\ SlotIs(pending_signal, pending_mask, mask, frames)
  BY SectionNext DEF SlotInv, SectionInv
<1>0. /\ frames \in Seq(Frame) /\ N \in Nat /\ N > 0
      /\ Top = frames[N] /\ N \in 1..N
      /\ Top \in Frame /\ mask \subseteq Signals /\ kernelPending \subseteq Signals
      /\ pending_signal \in Signals \union {NoSignal}
      /\ NoSignal \notin Signals
  BY <1>inv, LengthFacts, ConstantsAssumption DEF TypeInv, TypeOK, Top
<1> SUFFICES Goal
  BY <1>inv DEF SlotInv, Quiet, QuietAt, Watched, Blocked, SlotIs
\* Where no running sequence is on top, a full slot is watched.
<1>watched. ASSUME pending_signal # NoSignal,
                   Top.kind # "pseudo_atomic" \/ Top.phase \notin {"body", "leave", "alloc_check"}
            PROVE  /\ INTERRUPT_PENDING /\ Watched(frames, N)
                   /\ Top.enabled => Top.phase = "check"
  BY <1>watched DEF SlotInv, Flagged
\* Where interrupts are enabled the slot is empty, but before a check.
<1>open. ASSUME Top.kind # "pseudo_atomic" \/ Top.phase \notin {"body", "leave", "alloc_check"},
                Top.enabled, Top.phase # "check"
         PROVE  pending_signal = NoSignal
  BY <1>open, <1>watched
\* No handler, and no install_handler, is on top while the slot is full.
<1>c. ASSUME Top.kind \in {"handler", "install"}, Top.phase # "check"
      PROVE  /\ pending_signal = NoSignal
             /\ Top.saved \subseteq Blocked(frames, N - 1)
  <2>1. QuietAt(frames, N)
    BY <1>0, <1>inv DEF Quiet
  <2>2. Top.enabled
    <3>1. CASE Top.kind = "install"
      BY <1>0, <2>1, <3>1 DEF QuietAt
    <3>2. CASE Top.kind = "handler"
      <4>1. N > 1
        BY <1>0, <1>inv, <3>2 DEF TypeInv, BottomIsMain
      <4>2. N \in 2..N
        BY <1>0, <4>1
      <4>3. Fits(frames[N - 1], frames[N])
        BY <1>inv, <4>2 DEF Sections
      <4>4. QED
        BY <1>0, <3>2, <4>3 DEF Fits
    <3>3. QED
      BY <1>c, <3>1, <3>2
  <2>3. QED
    BY <1>0, <1>c, <1>open, <2>1, <2>2 DEF QuietAt
\* The slot is left alone and the stack blocks what it did.
<1>keep. ASSUME Quiet(frames'), UNCHANGED <<mask, slot>>,
                Blocked(frames, N) \subseteq Blocked(frames', Len(frames')),
                pending_signal # NoSignal => Flagged'
         PROVE  Goal
  BY <1>keep, <1>inv DEF SlotIs, slot
\* A handler runs in a context that blocks no more than the stack does.
<1>run. ASSUME NEW under \in Seq(Frame), Len(under) > 0, Quiet(under),
               under[Len(under)].enabled, NEW m, m \subseteq Blocked(under, Len(under)),
               pending_signal' = NoSignal, pending_mask' = {}, mask' = m,
               frames' = under \/ \E f : /\ frames' = Append(under, f)
                                         /\ f \in Frame /\ f.kind = "handler"
                                         /\ f.saved = m
                                         /\ f.enabled = under[Len(under)].enabled
        PROVE  Goal
  <2>1. CASE frames' = under
    BY <1>run, <2>1 DEF SlotIs
  <2>2. ASSUME NEW f \in Frame, frames' = Append(under, f), f.kind = "handler",
               f.saved = m, f.enabled
        PROVE  Goal
    <3>1. /\ Len(frames') = Len(under) + 1 /\ Len(under) \in Nat
          /\ \A i \in 1..Len(under) : frames'[i] = under[i]
      BY <1>run, <2>2, PushFacts
    <3>2. Quiet(frames')
      BY <1>run, <2>2, QuietPush
    <3>3. Blocked(under, Len(under)) = Blocked(frames', Len(under))
      BY <3>1, BlockedSame
    <3>4. Blocked(frames', Len(under)) \subseteq Blocked(frames', Len(frames'))
      BY <3>1, BlockedGrows
    <3>5. QED
      BY <1>run, <3>2, <3>3, <3>4 DEF SlotIs
  <2>3. QED
    BY <1>run, <2>1, <2>2
\* A trap empties the slot.
<1>trap. ASSUME NEW under \in Seq(Frame), Len(under) > 0, Quiet(under),
                under[Len(under)].enabled, HandlePending(under),
                Blocked(frames, N) = Blocked(under, Len(under))
         PROVE  Goal
  <2>1. /\ pending_mask' = {} /\ pending_signal' = NoSignal /\ mask' = pending_mask
        /\ frames' = under \/ \E f : frames' = Append(under, f)
                                     /\ HandlerFrame(f, pending_signal, under, pending_mask)
    BY <1>trap, <1>inv, HandlePendingFacts DEF TypeInv
  <2>2. pending_mask \subseteq Blocked(under, Len(under))
    BY <1>inv, <1>trap DEF SlotIs
  <2>3. QED
    BY <1>run, <1>trap, <2>1, <2>2 DEF HandlerFrame
\* A pop.
<1>below. ASSUME Top.kind # "main"
          PROVE  /\ Below \in Seq(Frame) /\ Len(Below) > 0 /\ Quiet(Below)
                 /\ Len(Below) = N - 1 /\ N > 1
                 /\ Fits(Below[Len(Below)], Top)
                 /\ Blocked(Below, Len(Below)) = Blocked(frames, N - 1)
                 /\ Top.kind # "install" => Blocked(frames, N) = Blocked(Below, Len(Below))
                 /\ Top.kind # "without" /\ Watched(frames, N) => Watched(Below, Len(Below))
  <2>1. /\ Below \in Seq(Frame) /\ Len(Below) > 0 /\ N > 1
        /\ Len(Below) = N - 1 /\ Fits(Below[Len(Below)], Top)
        /\ \A i \in 1..(N - 1) : Below[i] = frames[i]
    BY <1>inv, <1>below, BelowFacts, SectionsBelow
  <2>2. Quiet(Below)
    BY <1>0, <1>inv, <2>1, QuietPrefix
  <2>3. ASSUME Top.kind # "without", Watched(frames, N)
        PROVE  Watched(Below, Len(Below))
    <3>1. Watched(frames, N - 1)
      BY <1>0, <2>1, <2>3, WatchedBelow
    <3>2. QED
      BY <1>0, <2>1, <3>1, WatchedSame
  <2>4. Blocked(Below, N - 1) = Blocked(frames, N - 1)
    BY <2>1, BlockedSame
  <2>5. Top.kind # "install" => Blocked(frames, N - 1) = Blocked(frames, N)
    BY <1>0, BlockedPop
  <2>6. QED
    BY <2>1, <2>2, <2>3, <2>4, <2>5
\* A push by Lisp code.
<1>push. ASSUME NEW f \in Frame, frames' = Append(frames, f), InLisp,
                f.kind \notin {"handler", "sigblock", "install"},
                ~f.enabled => f.kind = "without" \/ ~Top.enabled,
                f.enabled => Top.enabled \/ f.phase = "check",
                f.kind = "with" => f.enabled,
                UNCHANGED <<mask, slot, INTERRUPT_PENDING>>
         PROVE  Goal
  <2>1. /\ Len(frames') = N + 1 /\ frames'[Len(frames')] = f
        /\ \A i \in 1..N : frames'[i] = frames[i]
    BY <1>0, <1>push, PushFacts
  <2>2. Quiet(frames')
    BY <1>0, <1>inv, <1>push, QuietPush
  <2>3. ASSUME pending_signal # NoSignal PROVE Flagged'
    <3>1. INTERRUPT_PENDING /\ Watched(frames, N) /\ ~Top.enabled
      BY <1>watched, <1>push, <2>3 DEF InLisp
    <3>2. Watched(frames', N)
      BY <1>0, <2>1, <3>1, WatchedSame
    <3>3. Watched(frames', Len(frames'))
      BY <1>0, <1>push, <2>1, <3>2, WatchedNext
    <3>4. QED
      BY <1>push, <2>1, <3>1, <3>3 DEF Flagged, Top
  <2>4. Blocked(frames, N) \subseteq Blocked(frames', Len(frames'))
    <3>1. Blocked(frames, N) = Blocked(frames', N)
      BY <2>1, BlockedSame
    <3>2. QED
      BY <1>0, <2>1, <3>1, BlockedGrows
  <2>5. QED
    BY <1>push, <1>keep, <2>2, <2>3, <2>4
\* A change of the phase of the top frame.
<1>top. ASSUME NEW p \in Phases, NEW e \in BOOLEAN, Top.kind # "main", e \/ ~Top.enabled
        PROVE  /\ WithTop(p, e) \in Seq(Frame) /\ Len(WithTop(p, e)) = N
               /\ Quiet(WithTop(p, e))
               /\ Blocked(WithTop(p, e), Len(WithTop(p, e))) = Blocked(frames, N)
               /\ WithTop(p, e)[N].kind = Top.kind
               /\ WithTop(p, e)[N].phase = p
               /\ WithTop(p, e)[N].enabled = e
               /\ Watched(frames, N) => Watched(WithTop(p, e), N)
  <2>1. /\ WithTop(p, e) \in Seq(Frame) /\ Len(WithTop(p, e)) = N
        /\ WithTop(p, e)[N] = [Top EXCEPT !.phase = p, !.enabled = e]
    BY <1>0, WithTopFacts
  <2>2. /\ Quiet(WithTop(p, e))
        /\ Blocked(WithTop(p, e), N) = Blocked(frames, N)
        /\ \A i \in 1..N : WithTop(p, e)[i].kind = frames[i].kind
    BY <1>inv, <1>top, QuietTop
  <2>3. Watched(frames, N) => Watched(WithTop(p, e), N)
    BY <1>0, <2>2, WatchedSame
  <2>4. QED
    BY <1>0, <2>1, <2>2, <2>3 DEF Frame
<1>flag. ASSUME frames' = frames, UNCHANGED <<mask, slot, flags>> PROVE Goal
  <2>1. pending_signal # NoSignal => Flagged'
    BY <1>flag DEF SlotInv, Flagged, Top, flags, slot
  <2>2. QED
    BY <1>inv, <1>flag, <1>keep, <2>1
\* A change of the top frame that leaves the slot alone.
<1>step. ASSUME NEW p \in Phases, NEW e \in BOOLEAN, Top.kind # "main", e \/ ~Top.enabled,
                frames' = WithTop(p, e), UNCHANGED <<mask, slot, INTERRUPT_PENDING>>,
                pending_signal # NoSignal =>
                  \/ /\ INTERRUPT_PENDING /\ Watched(frames, N)
                     /\ e => p = "check"
                  \/ /\ PSEUDO_ATOMIC_INTERRUPTED' /\ Top.kind = "pseudo_atomic"
                     /\ p \in {"body", "leave", "alloc_check"}
         PROVE  Goal
  <2>1. /\ Quiet(frames') /\ Len(frames') = N
        /\ Blocked(frames', Len(frames')) = Blocked(frames, N)
        /\ Top'.kind = Top.kind /\ Top'.phase = p /\ Top'.enabled = e
        /\ Watched(frames, N) => Watched(frames', N)
    BY <1>step, <1>top DEF Top
  <2>2. pending_signal # NoSignal => Flagged'
    BY <1>step, <2>1 DEF Flagged
  <2>3. QED
    BY <1>step, <1>keep, <2>1, <2>2
\* A pop that leaves the slot alone.
<1>pop. ASSUME Top.kind \notin {"main", "install"}, frames' = Below,
               UNCHANGED <<mask, slot, INTERRUPT_PENDING>>,
               pending_signal # NoSignal =>
                 /\ INTERRUPT_PENDING /\ Watched(frames, N) /\ Top.kind # "without"
                 /\ ~Below[Len(Below)].enabled
        PROVE  Goal
  <2>1. /\ Quiet(frames')
        /\ Blocked(frames, N) \subseteq Blocked(frames', Len(frames'))
        /\ pending_signal # NoSignal => Watched(frames', Len(frames'))
    BY <1>pop, <1>below
  <2>2. pending_signal # NoSignal => Flagged'
    BY <1>pop, <2>1 DEF Flagged, Top
  <2>3. QED
    BY <1>pop, <1>keep, <2>1, <2>2
<1>1. ASSUME NEW sig \in Signals, Deliver(sig) PROVE Goal
  <2> USE <1>1 DEF Deliver
  <2>1. pending_signal = NoSignal /\ mask \subseteq Blocked(frames, N) /\ pending_mask = {}
    BY <1>0, <1>inv DEF SlotIs
  <2>2. CASE ~INTERRUPTS_ENABLED
    <3>1. Watched(frames, N) /\ ~Top.enabled
      BY <1>0, <1>inv, <2>2 DEF Quiet, QuietAt, INTERRUPTS_ENABLED
    <3>2. frames' = frames /\ mask' = Signals /\ pending_mask' = mask
          /\ pending_signal' = sig /\ INTERRUPT_PENDING' = TRUE
      BY <1>0, <2>2 DEF SetupPending
    <3>3. QED
      BY <1>0, <1>inv, <2>1, <3>1, <3>2 DEF Flagged, SlotIs, Top
  <2>3. CASE INTERRUPTS_ENABLED /\ PSEUDO_ATOMIC_ATOMIC
    <3>1. frames' = frames /\ mask' = Signals /\ pending_mask' = mask
          /\ pending_signal' = sig /\ PSEUDO_ATOMIC_INTERRUPTED' = TRUE
      BY <1>0, <2>3 DEF SetupPending
    <3>2. Top.kind = "pseudo_atomic" /\ Top.phase = "body"
      BY <1>inv, <2>3 DEF FlagsAgree
    <3>3. QED
      BY <1>0, <1>inv, <2>1, <3>1, <3>2 DEF Flagged, SlotIs, Top
  <2>4. CASE INTERRUPTS_ENABLED /\ ~PSEUDO_ATOMIC_ATOMIC
    <3>1. HandleNow(sig, frames, mask) /\ UNCHANGED slot
      BY <2>4
    <3>2. /\ mask' = mask
          /\ frames' = frames \/ \E f : frames' = Append(frames, f)
                                        /\ HandlerFrame(f, sig, frames, mask)
      BY <1>0, <3>1, HandleNowFacts
    <3>3. pending_signal' = NoSignal /\ pending_mask' = {}
      BY <2>1, <3>1 DEF slot
    <3>4. frames[Len(frames)].enabled
      BY <1>0, <2>4 DEF INTERRUPTS_ENABLED
    <3>5. frames' = frames \/ \E f : /\ frames' = Append(frames, f)
                                     /\ f \in Frame /\ f.kind = "handler"
                                     /\ f.saved = mask
                                     /\ f.enabled = frames[Len(frames)].enabled
      BY <3>2 DEF HandlerFrame
    <3>6. QED
      BY <1>0, <1>inv, <1>run, <2>1, <3>2, <3>3, <3>4, <3>5
  <2>5. QED
    BY <2>2, <2>3, <2>4
<1>2. ASSUME NEW sig \in Signals, Raise(sig) PROVE Goal
  BY <1>2, <1>flag DEF Raise
<1>3. ASSUME NEW sig \in Signals, DeliverDefault(sig) PROVE Goal
  BY <1>3, <1>flag DEF DeliverDefault
\* install_handler, which no handler leaves by a throw.
<1>4. ASSUME NEW sig \in Signals, NEW h \in Handlers, InstallBlock(sig, h) PROVE Goal
  <2> DEFINE f == [NewFrame("install", "blocked", INTERRUPTS_ENABLED)
                     EXCEPT !.sig = sig, !.saved = mask, !.new = h]
  <2>0. InLisp /\ Top.enabled
    BY <1>4 DEF InstallBlock, MayEnter, MaskLeftAlone, INTERRUPTS_ENABLED
  <2>1. pending_signal = NoSignal /\ mask \subseteq Blocked(frames, N) /\ pending_mask = {}
    BY <1>open, <1>inv, <2>0 DEF InLisp, SlotIs
  <2>2. /\ f \in Frame /\ f.kind = "install" /\ f.enabled = TRUE
        /\ f.sig = sig /\ f.saved = mask
    <3>1. mask \in SUBSET Signals
      BY <1>0
    <3>2. Top.enabled \in BOOLEAN
      BY <1>0 DEF Frame
    <3>3. f = InstallerFrame(sig, h, Top.enabled, mask)
      BY DEF InstallerFrame, INTERRUPTS_ENABLED
    <3> HIDE DEF f
    <3>4. /\ f \in Frame /\ f.kind = "install" /\ f.enabled = Top.enabled
          /\ f.sig = sig /\ f.saved = mask
      BY <3>1, <3>2, <3>3, InstallFrame
    <3>5. QED
      BY <2>0, <3>2, <3>4
  <2>3. frames' = Append(frames, f) /\ mask' = mask \union {sig} /\ UNCHANGED slot
    BY <1>4 DEF InstallBlock
  <2> HIDE DEF f
  <2>4. Quiet(frames')
    BY <1>0, <1>inv, <2>1, <2>2, <2>3, QuietPush
  <2>5. /\ Len(frames') = N + 1 /\ frames'[N + 1] = f
        /\ \A i \in 1..N : frames'[i] = frames[i]
    BY <1>0, <2>2, <2>3, PushFacts
  <2>6. Blocked(frames, N) \subseteq Blocked(frames', N + 1)
    <3>1. Blocked(frames, N) = Blocked(frames', N)
      BY <2>5, BlockedSame
    <3>2. QED
      BY <1>0, <3>1, BlockedGrows
  <2>7. sig \in Blocked(frames', N + 1)
    <3>1. N + 1 \in 1..(N + 1)
      BY <1>0
    <3>2. QED
      BY <2>2, <2>5, <3>1 DEF Blocked
  <2>8. QED
    BY <2>1, <2>3, <2>4, <2>5, <2>6, <2>7 DEF SlotIs, slot
<1>in. ASSUME Top.kind = "install", Top.phase # "check"
       PROVE  pending_signal = NoSignal /\ Top.enabled /\ Top.enabled \in BOOLEAN
  <2>1. QuietAt(frames, N)
    BY <1>0, <1>inv DEF Quiet
  <2>2. QED
    BY <1>0, <1>in, <1>c, <2>1 DEF QuietAt, Frame
<1>24. CASE InstallSigaction
  BY <1>24, <1>in, <1>step DEF InstallSigaction, At, Phases, INTERRUPTS_ENABLED, flags
<1>25. CASE InstallTable
  BY <1>25, <1>in, <1>step DEF InstallTable, At, Phases, INTERRUPTS_ENABLED, flags
<1>26. CASE InstallUnblock
  <2>1. /\ pending_signal = NoSignal /\ Top.saved \subseteq Blocked(frames, N - 1)
        /\ Top.kind # "main" /\ pending_mask = {}
    BY <1>26, <1>c, <1>inv DEF InstallUnblock, At, SlotIs
  <2>2. frames' = Below /\ mask' = Top.saved /\ UNCHANGED slot
    BY <1>26 DEF InstallUnblock
  <2>3. QED
    BY <1>below, <2>1, <2>2 DEF SlotIs, slot
<1>5. CASE HandlerReturn
  <2>1. /\ pending_signal = NoSignal /\ Top.saved \subseteq Blocked(frames, N - 1)
        /\ Top.kind # "main" /\ pending_mask = {}
    BY <1>5, <1>c, <1>inv DEF HandlerReturn, At, SlotIs
  <2>2. frames' = Below /\ mask' = Top.saved /\ UNCHANGED slot
    BY <1>5 DEF HandlerReturn
  <2>3. QED
    BY <1>below, <2>1, <2>2 DEF SlotIs, slot
<1>6. CASE HandlerThrow
  <2>1. pending_signal = NoSignal /\ Top.kind = "handler"
    BY <1>6, <1>c DEF HandlerThrow, At
  <2>2. Blocked(frames, N) = Blocked(Below, Len(Below))
    BY <1>below, <2>1
  <2>3. CASE Below[Len(Below)].phase = "body"
    BY <1>6, <1>pop, <2>1, <2>3 DEF HandlerThrow, flags
  <2>4. CASE Below[Len(Below)].phase # "body"
    <3>1. /\ N > 2 /\ Len(frames') = N - 2 /\ frames' \in Seq(Frame)
          /\ \A i \in 1..(N - 2) : frames'[i] = frames[i]
      BY <1>6, <1>inv, <2>4, ThrowFacts
    <3>2. Quiet(frames')
      BY <1>0, <1>inv, <3>1, QuietPrefix
    <3>3. frames[N - 1].kind # "install"
      <4>1. Below[Len(Below)] = frames[N - 1]
        BY <1>inv, <2>1, BelowFacts
      <4>2. QED
        BY <1>6, <4>1 DEF HandlerThrow, MaskLeftAlone
    <3>4. Blocked(frames, N - 1) = Blocked(frames, N - 2)
      BY <1>0, <3>1, <3>3, BlockedPop
    <3>5. Blocked(frames, N - 2) = Blocked(frames', N - 2)
      BY <3>1, BlockedSame
    <3>6. UNCHANGED <<mask, slot>>
      BY <1>6 DEF HandlerThrow
    <3>7. QED
      BY <1>below, <1>keep, <2>1, <3>1, <3>2, <3>4, <3>5, <3>6
  <2>5. QED
    BY <2>3, <2>4
<1>7. CASE EnterWithoutInterrupts
  <2> DEFINE f == NewFrame("without", "body", FALSE)
  <2>1. f \in Frame /\ f.kind = "without" /\ ~f.enabled
    BY NewFrameType DEF Kinds, Phases, NewFrame
  <2> HIDE DEF f
  <2>2. QED
    BY <1>7, <1>push, <2>1 DEF EnterWithoutInterrupts, MayEnter, flags, f
<1>8. CASE LeaveWithoutInterrupts
  BY <1>0, <1>8, <1>step, <1>watched DEF LeaveWithoutInterrupts, At, Phases, flags
<1>9. CASE CheckWithoutInterrupts
  <2> USE <1>9 DEF CheckWithoutInterrupts, At
  <2>1. CASE INTERRUPT_PENDING
    BY <1>below, <1>trap, <2>1 DEF Fits
  <2>2. CASE ~INTERRUPT_PENDING
    BY <1>pop, <1>watched, <2>2
  <2>3. QED
    BY <2>1, <2>2
<1>10. CASE EnterWithInterrupts
  <2> DEFINE f == NewFrame("with", "check", TRUE)
  <2>1. f \in Frame /\ f.kind = "with" /\ f.enabled = TRUE /\ f.phase = "check"
    BY NewFrameType DEF Kinds, Phases, NewFrame
  <2> HIDE DEF f
  <2>2. QED
    BY <1>10, <1>push, <2>1 DEF EnterWithInterrupts, MayEnter, flags, f
<1>11. CASE CheckWithInterrupts
  <2> USE <1>11 DEF CheckWithInterrupts, At
  <2>1. CASE INTERRUPT_PENDING
    <3>1. /\ WithTop("body", TRUE) \in Seq(Frame) /\ Len(WithTop("body", TRUE)) = N
          /\ Quiet(WithTop("body", TRUE)) /\ WithTop("body", TRUE)[N].enabled
          /\ Blocked(WithTop("body", TRUE), Len(WithTop("body", TRUE))) = Blocked(frames, N)
      BY <1>top DEF Phases
    <3>2. QED
      BY <1>0, <1>trap, <2>1, <3>1
  <2>2. CASE ~INTERRUPT_PENDING
    <3>1. pending_signal = NoSignal
      BY <1>watched, <2>2
    <3>2. QED
      BY <1>step, <2>2, <3>1 DEF Phases
  <2>3. QED
    BY <2>1, <2>2
<1>12. CASE LeaveWithInterrupts
  <2>1. /\ Top.kind = "with" /\ Top.phase = "body" /\ frames' = Below
        /\ UNCHANGED <<mask, slot, INTERRUPT_PENDING>>
    BY <1>12 DEF LeaveWithInterrupts, At, flags
  <2>2. pending_signal # NoSignal => ~Top.enabled /\ INTERRUPT_PENDING /\ Watched(frames, N)
    BY <1>watched, <2>1
  <2>3. Top.enabled
    BY <1>0, <1>inv, <2>1 DEF Quiet, QuietAt
  <2>4. QED
    BY <1>pop, <2>1, <2>2, <2>3
<1>13. CASE PaClearInterrupted
  <2> DEFINE f == NewFrame("pseudo_atomic", "enter", INTERRUPTS_ENABLED)
  <2>1. f \in Frame /\ f.kind = "pseudo_atomic" /\ f.enabled = Top.enabled
    BY <1>0, NewFrameType DEF Kinds, Phases, NewFrame, INTERRUPTS_ENABLED, Frame
  <2> HIDE DEF f
  <2>2. QED
    BY <1>13, <1>push, <2>1 DEF PaClearInterrupted, MayEnter, f
<1>pa. Top.enabled \in BOOLEAN /\ INTERRUPTS_ENABLED = Top.enabled
  BY <1>0 DEF INTERRUPTS_ENABLED, Frame
<1>14. CASE PaSetAtomic
  BY <1>0, <1>14, <1>pa, <1>step, <1>watched DEF PaSetAtomic, At, Phases
<1>15. ASSUME NEW next \in {"leave", "alloc_check"}, PaClearAtomic(next) PROVE Goal
  <2>1. /\ frames' = WithTop(next, INTERRUPTS_ENABLED) /\ Top.kind = "pseudo_atomic"
        /\ next \in Phases /\ Top.phase = "body"
        /\ UNCHANGED <<mask, slot, INTERRUPT_PENDING, PSEUDO_ATOMIC_INTERRUPTED>>
    BY <1>15 DEF PaClearAtomic, At, Phases
  <2>2. pending_signal # NoSignal =>
          \/ INTERRUPT_PENDING /\ Watched(frames, N) /\ ~Top.enabled
          \/ PSEUDO_ATOMIC_INTERRUPTED
    BY <2>1 DEF SlotInv, Flagged
  <2>3. QED
    BY <1>pa, <1>step, <2>1, <2>2
<1>16. CASE PaTestInterrupted
  <2> USE <1>16 DEF PaTestInterrupted, TestInterrupted, At
  <2>1. CASE PSEUDO_ATOMIC_INTERRUPTED
    <3>1. Top.enabled
      BY <1>inv, <2>1 DEF FlagsAgree, Running
    <3>2. QED
      BY <1>below, <1>trap, <2>1, <3>1 DEF Fits
  <2>2. CASE ~PSEUDO_ATOMIC_INTERRUPTED
    <3>1. pending_signal # NoSignal =>
            INTERRUPT_PENDING /\ Watched(frames, N) /\ ~Top.enabled
      BY <2>2 DEF SlotInv, Flagged
    <3>2. Below[Len(Below)].enabled = Top.enabled
      BY <1>below DEF Fits
    <3>3. QED
      BY <1>pop, <2>2, <3>1, <3>2
  <2>3. QED
    BY <2>1, <2>2
<1>17. CASE AllocTestInterrupted
  <2> DEFINE under == WithTop("alloc_gc", INTERRUPTS_ENABLED)
  <2> USE <1>17 DEF AllocTestInterrupted, TestInterrupted, At
  <2>1. /\ under \in Seq(Frame) /\ Len(under) = N /\ Quiet(under)
        /\ under[Len(under)].enabled = Top.enabled
        /\ Blocked(under, Len(under)) = Blocked(frames, N)
    BY <1>pa, <1>top DEF Phases
  <2>2. CASE PSEUDO_ATOMIC_INTERRUPTED
    <3>1. Top.enabled
      BY <1>inv, <2>2 DEF FlagsAgree, Running
    <3>2. HandlePending(under)
      BY <2>2
    <3>3. QED
      BY <1>0, <1>trap, <2>1, <3>1, <3>2
  <2>3. CASE ~PSEUDO_ATOMIC_INTERRUPTED
    <3>1. pending_signal # NoSignal =>
            INTERRUPT_PENDING /\ Watched(frames, N) /\ ~Top.enabled
      BY <2>3 DEF SlotInv, Flagged
    <3>2. frames' = under /\ UNCHANGED <<mask, slot, INTERRUPT_PENDING>>
      BY <2>3
    <3>3. QED
      BY <1>pa, <1>step, <3>1, <3>2 DEF Phases
  <2>4. QED
    BY <2>2, <2>3
<1>18. CASE AllocRetry
  BY <1>0, <1>18, <1>pa, <1>step, <1>watched DEF AllocRetry, At, Phases
<1>19. CASE Sigblock
  BY <1>19 DEF Sigblock, MaskLeftAlone
<1>20. CASE SigsetmaskOld
  BY <1>0, <1>inv, <1>20 DEF SigsetmaskOld, At, Quiet, QuietAt
<1>21. CASE InvokeDebugger
  BY <1>21 DEF InvokeDebugger, MaskLeftAlone
<1>22. CASE UNCHANGED vars
  BY <1>22, <1>flag DEF vars
<1>23. QED
  BY <1>1, <1>2, <1>3, <1>4, <1>5, <1>6, <1>7, <1>8, <1>9, <1>10, <1>11, <1>12, <1>13,
     <1>14, <1>15, <1>16, <1>17, <1>18, <1>19, <1>20, <1>21, <1>22, <1>24, <1>25, <1>26,
     ConstantsAssumption DEF Next, LispStep, Stopped

(* Under MaskLeftAlone, a full slot means that every deferrable signal is
   blocked (setup_pending_signal's FILLBLOCKSET), so that the kernel cannot
   deliver a second signal to be deferred over the first.                  *)
THEOREM SlotIsProtected ==
  ASSUME MaskLeftAlone
  PROVE  Spec => []SlotProtected
<1>1. Init => SlotInv
  BY SlotInit
<1>2. SlotInv /\ [Next]_vars => SlotInv'
  BY SlotNext
<1>3. SlotInv => SlotProtected
  BY DEF SlotInv, SlotIs, SlotProtected
<1>4. QED
  BY <1>1, <1>2, <1>3, PTL DEF Spec

(* A full slot is always flagged: the code that the signal interrupted is
   still on the stack, and the flag its exit tests is set.                 *)
THEOREM DeferredSignalsAreFlagged ==
  ASSUME MaskLeftAlone
  PROVE  Spec => []DeferredIsFlagged
<1>1. Init => SlotInv
  BY SlotInit
<1>2. SlotInv /\ [Next]_vars => SlotInv'
  BY SlotNext
<1>3. SlotInv => DeferredIsFlagged
  <2> SUFFICES ASSUME SlotInv, pending_signal # NoSignal PROVE DeferredIsFlagged
    BY DEF DeferredIsFlagged
  <2>1. frames \in Seq(Frame)
    BY DEF SlotInv, SectionInv, TypeInv, TypeOK
  <2>2. DOMAIN frames = 1..Len(frames)
    BY <2>1
  <2>3. QED
    BY <2>2 DEF SlotInv, Flagged, Watched, DeferredIsFlagged
<1>4. QED
  BY <1>1, <1>2, <1>3, PTL DEF Spec

(* With an empty slot no signal is blocked but those whose handler is being
   installed: the mask that a deferral saved is installed again when the
   deferred signal is handled, and install_handler's own when it ends.     *)
THEOREM MaskIsReopened ==
  ASSUME MaskLeftAlone
  PROVE  Spec => []MaskReopened
<1>1. Init => SlotInv
  BY SlotInit
<1>2. SlotInv /\ [Next]_vars => SlotInv'
  BY SlotNext
<1>3. SlotInv => MaskReopened
  <2> SUFFICES ASSUME SlotInv, pending_signal = NoSignal PROVE mask \subseteq Installing
    BY DEF MaskReopened
  <2>1. frames \in Seq(Frame) /\ DOMAIN frames = 1..Len(frames)
    BY DEF SlotInv, SectionInv, TypeInv, TypeOK
  <2>2. mask \subseteq Blocked(frames, Len(frames))
    BY DEF SlotInv, SlotIs
  <2>3. Blocked(frames, Len(frames)) \subseteq Installing
    BY <2>1 DEF Blocked, Installing
  <2>4. QED
    BY <2>2, <2>3
<1>4. QED
  BY <1>1, <1>2, <1>3, PTL DEF Spec

(* setup_pending_signal, interrupt_handle_pending, install_handler: a full
   slot is protected and flagged, and an empty one leaves no signal blocked
   but those whose handler is being installed.                             *)
THEOREM SlotIsKept ==
  ASSUME MaskLeftAlone
  PROVE  Spec => []SlotKept
<1>1. Spec => []SlotProtected
  BY SlotIsProtected
<1>2. Spec => []DeferredIsFlagged
  BY DeferredSignalsAreFlagged
<1>3. Spec => []MaskReopened
  BY MaskIsReopened
<1>4. SlotProtected /\ DeferredIsFlagged /\ MaskReopened => SlotKept
  BY DEF SlotKept
<1>5. QED
  BY <1>1, <1>2, <1>3, <1>4, PTL

(* A step that changes a full slot is a trap: no signal is deliverable, and
   no other code touches the slot.                                         *)
LEMMA FullSlotChange ==
  ASSUME MaskLeftAlone, SlotInv, [Next]_vars,
         pending_signal # NoSignal, pending_signal' # pending_signal
  PROVE  \E under \in Seq(Frame) : Len(under) > 0 /\ HandlePending(under)
<1>0. /\ frames \in Seq(Frame) /\ Len(frames) > 0 /\ Len(frames) \in Nat
      /\ mask = Signals /\ TypeInv /\ SectionInv
  BY LengthFacts DEF SlotInv, SlotIs, SectionInv, TypeInv, TypeOK
<1>1. ASSUME NEW sig \in Signals, Deliver(sig) PROVE FALSE
  <2>1. kernelPending \subseteq Signals
    BY <1>0 DEF TypeInv, TypeOK
  <2>2. QED
    BY <1>0, <1>1, <2>1 DEF Deliver
<1>2. CASE CheckWithoutInterrupts
  <2>1. Below \in Seq(Frame) /\ Len(Below) > 0
    BY <1>0, <1>2, BelowFacts DEF CheckWithoutInterrupts, At
  <2>2. HandlePending(Below)
    BY <1>2 DEF CheckWithoutInterrupts, slot, tables
  <2>3. QED
    BY <2>1, <2>2
<1>3. CASE CheckWithInterrupts
  <2>1. WithTop("body", TRUE) \in Seq(Frame) /\ Len(WithTop("body", TRUE)) > 0
    BY <1>0, WithTopFacts DEF Phases
  <2>2. HandlePending(WithTop("body", TRUE))
    BY <1>3 DEF CheckWithInterrupts, slot, tables
  <2>3. QED
    BY <2>1, <2>2
<1>4. CASE PaTestInterrupted
  <2>1. Below \in Seq(Frame) /\ Len(Below) > 0
    BY <1>0, <1>4, BelowFacts DEF PaTestInterrupted, At
  <2>2. HandlePending(Below)
    BY <1>4 DEF PaTestInterrupted, TestInterrupted, slot, tables
  <2>3. QED
    BY <2>1, <2>2
<1>5. CASE AllocTestInterrupted
  <2> DEFINE t == WithTop("alloc_gc", INTERRUPTS_ENABLED)
  <2>1. t \in Seq(Frame) /\ Len(t) > 0
    <3>0. Top \in Frame
      BY <1>0 DEF Top
    <3>1. INTERRUPTS_ENABLED \in BOOLEAN
      BY <3>0 DEF INTERRUPTS_ENABLED, Frame
    <3>2. QED
      BY <1>0, <3>1, WithTopFacts DEF Phases
  <2>2. HandlePending(t)
    BY <1>5 DEF AllocTestInterrupted, TestInterrupted, slot, tables
  <2>3. QED
    BY <2>1, <2>2
<1>6. CASE UNCHANGED slot
  BY <1>6 DEF slot, tables
<1>7. QED
  <2>1. ASSUME NEW sig \in Signals,
               \/ Raise(sig) \/ DeliverDefault(sig)
               \/ \E h \in Handlers : InstallBlock(sig, h)
        PROVE  UNCHANGED slot
    BY <2>1 DEF Raise, DeliverDefault, InstallBlock
  <2>2. ASSUME \/ EnterWithoutInterrupts \/ LeaveWithoutInterrupts \/ EnterWithInterrupts
               \/ LeaveWithInterrupts \/ HandlerReturn \/ HandlerThrow
        PROVE  UNCHANGED slot
    BY <2>2 DEF EnterWithoutInterrupts, LeaveWithoutInterrupts, EnterWithInterrupts,
                LeaveWithInterrupts, HandlerReturn, HandlerThrow
  <2>3. ASSUME \/ PaClearInterrupted \/ PaSetAtomic \/ PaClearAtomic("leave")
               \/ PaClearAtomic("alloc_check") \/ AllocRetry
        PROVE  UNCHANGED slot
    BY <2>3 DEF PaClearInterrupted, PaSetAtomic, PaClearAtomic, AllocRetry
  <2>4. ASSUME \/ InstallSigaction \/ InstallTable \/ InstallUnblock
               \/ Sigblock \/ SigsetmaskOld \/ InvokeDebugger
        PROVE  UNCHANGED slot
    BY <2>4 DEF InstallSigaction, InstallTable, InstallUnblock, Sigblock, SigsetmaskOld, InvokeDebugger
  <2>5. ASSUME Stopped \/ UNCHANGED vars PROVE UNCHANGED slot
    BY <2>5 DEF Stopped, vars
  <2>6. QED
    BY <1>1, <1>2, <1>3, <1>4, <1>5, <1>6, <2>1, <2>2, <2>3, <2>4, <2>5,
       ConstantsAssumption DEF Next, LispStep

(* A deferred signal leaves the slot only to its handler, or because it is now
   ignored, or because the image ends; it is never replaced by another.    *)
THEOREM NoDeferredSignalIsLost ==
  ASSUME MaskLeftAlone
  PROVE  Spec => NoSignalOverwritten
<1>1. Init => SlotInv
  BY SlotInit
<1>2. SlotInv /\ [Next]_vars => SlotInv'
  BY SlotNext
<1> DEFINE Kept ==
      pending_signal # NoSignal /\ pending_signal' # pending_signal =>
        /\ pending_signal' = NoSignal
        /\ \/ frames'[Len(frames')].kind = "handler" /\ frames'[Len(frames')].sig = pending_signal
           \/ handlers[pending_signal] = "ignore"
           \/ status' # "running"
<1>3. SlotInv /\ [Next]_vars => [Kept]_vars
  <2> SUFFICES ASSUME SlotInv, [Next]_vars,
                      pending_signal # NoSignal, pending_signal' # pending_signal
               PROVE  Kept
    OBVIOUS
  <2>1. PICK under \in Seq(Frame) : Len(under) > 0 /\ HandlePending(under)
    BY FullSlotChange
  <2>2. pending_signal' = NoSignal /\ HandleNow(pending_signal, under, pending_mask)
    BY <2>1 DEF HandlePending
  <2>3. CASE handlers[pending_signal] = "ignore"
    BY <2>2, <2>3
  <2>4. CASE status' # "running"
    BY <2>2, <2>4
  <2>5. CASE handlers[pending_signal] # "ignore" /\ status' = "running"
    <3>1. frames' = Append(under, [kind |-> "handler", phase |-> "body",
                                   enabled |-> under[Len(under)].enabled,
                                   sig |-> pending_signal, saved |-> pending_mask,
                                   new |-> "lisp"])
      BY <2>2, <2>5 DEF HandleNow
    <3>2. frames'[Len(frames')].kind = "handler" /\ frames'[Len(frames')].sig = pending_signal
      BY <2>1, <3>1
    <3>3. QED
      BY <2>2, <3>2
  <2>6. QED
    BY <2>3, <2>4, <2>5
<1>4. QED
  BY <1>1, <1>2, <1>3, PTL DEF Spec, NoSignalOverwritten
=============================================================================
