---------------------------- MODULE LocksProofs ----------------------------
(***************************************************************************)
(* Proofs about Locks: type correctness, locks and their bodies, timeouts, *)
(* and that with-lock-held implements mutual exclusion, for any number of  *)
(* processes, locks and timers, and stacks of any depth.                   *)
(***************************************************************************)
EXTENDS Locks, SequenceTheorems, FiniteSetTheorems, TLAPS

(* What a frame of each kind can look like. *)
FrameShape(f) ==
  /\ \/ f.kind \in {"function", "interrupt", "yield", "sigalrm"} /\ f.at = "run"
     \/ /\ f.kind = "lock" /\ f.lock \in Locks
        /\ f.at \in {"try", "body", "cleanup"} \union Waits
     \/ /\ f.kind = "timeout" /\ f.timer \in Timers
        /\ f.at \in {"start", "body", "cleanup", "destroyed", "forms"}
  /\ f.exit # 0 => f.at \in {"cleanup", "destroyed"}

(* At the bottom is the function of the process; a clean-up form is left to a
   frame below that can be thrown to; who waits has called process-yield.  *)
StackShape(s) ==
  \A i \in 1..Len(s) :
    /\ FrameShape(s[i])
    /\ s[i].kind = "function" <=> i = 1
    /\ s[i].exit <= i
    /\ s[i].exit > 1 => s[s[i].exit].kind = "timeout"
    /\ s[i].at \in Waits => i < Len(s) /\ s[i + 1].kind = "yield"

(* Every other process can be resumed, and the initial one is never told to end. *)
ShapeInv ==
  /\ TypeOK
  /\ \A p \in Processes : StackShape(stack[p])
  /\ \A p \in Processes \ {current_process} : Alive(p) => Top(p).kind \in Yields
  /\ Alive(InitialProcess)
  /\ \A i \in 1..Len(stack[InitialProcess]) : stack[InitialProcess][i].exit # 1
  /\ \A i \in 1..Len(interrupts[InitialProcess]) : interrupts[InitialProcess][i] # "end"

IsLock(f, l) == f.kind = "lock" /\ f.lock = l

(* The activations of locks on the stack s of process p, lp being lock_process:
   have-lock says that p holds the lock as long as the activation exists, and
   that somebody below does is known to all above.                         *)
LocksOf(p, s, lp) ==
  /\ \A i \in 1..Len(s) : s[i].kind = "lock" =>
       /\ s[i].have \/ s[i].at = "body" => lp[s[i].lock] = p
       /\ s[i].at \in Waits \/ (s[i].at = "body" /\ s[i].lock \in ErrorCheckLocks) => ~s[i].have
  /\ \A i, j \in 1..Len(s) :
       i < j /\ s[i].kind = "lock" /\ s[j].kind = "lock" /\ s[i].lock = s[j].lock
         => (s[i].have \/ s[i].at = "body" => s[j].have)

(* The activation that will release lock l. *)
Holds(s, l) ==
  \E i \in 1..Len(s) :
    /\ IsLock(s[i], l) /\ ~s[i].have /\ s[i].at \in {"body", "cleanup"}
    /\ \A j \in i + 1..Len(s) : IsLock(s[j], l) => s[j].have

LockInv ==
  /\ \A p \in Processes : LocksOf(p, stack[p], lock_process)
  /\ \A p \in Processes, l \in Locks :
       lock_process[l] = p => l \in abandoned \/ Holds(stack[p], l)

(* With with-timeouts that do not nest. *)
OneTimeout(s) ==
  \A i, j \in 1..Len(s) : s[i].kind = "timeout" /\ s[j].kind = "timeout" => i = j

(* The throws of timers among the interrupts ints. *)
Times(ints) == {i \in 1..Len(ints) : ints[i] = "timer"}
Once(ints) == \A i, j \in Times(ints) : i = j

(* The with-timeouts on a stack, exp being the timers that have expired, and pend
   whether one may still throw: it has a with-timeout to catch it.         *)
Timed(s, exp, pend) ==
  /\ \A i \in 1..Len(s) : s[i].at = "forms" => s[i].timer \in exp
  /\ \A i \in 1..Len(s) : s[i].exit > 1 => s[s[i].exit].timer \in exp /\ ~pend
  /\ pend => \E i \in 1..Len(s) : Catches(s[i]) /\ s[i].timer \in exp

(* The with-timeout that timer t belongs to is on the stack s. *)
Owns(s, t) ==
  \E i \in 1..Len(s) :
    s[i].kind = "timeout" /\ s[i].timer = t /\ s[i].at \in {"start", "body", "cleanup"}

(* The timers of with-timeouts that are destroyed are. *)
Destroyed(s, tm) == \A i \in 1..Len(s) : s[i].at = "destroyed" => tm[s[i].timer] = "killed"

(* The with-timeouts of process p and their timers. *)
TimersOf(p) ==
  /\ Timed(stack[p], expired, Times(interrupts[p]) # {})
  /\ Once(interrupts[p])
  /\ \A t \in Timers : timers[t] = p => t \in abandoned \/ Owns(stack[p], t)

TimerInv ==
  /\ \A p \in Processes : OneTimeout(stack[p]) /\ Destroyed(stack[p], timers)
  /\ \A t \in expired : timers[t] = "killed"
  /\ abandoned \cap expired = {} => ~stray /\ \A p \in Processes : TimersOf(p)

-----------------------------------------------------------------------------
(***************************************************************************)
(* Stacks.  A step cuts a stack, and may move the frame that is then on    *)
(* top, or puts one frame on it, and may move the one below.               *)
(***************************************************************************)
SameCall(f, g) ==
  f.kind = g.kind /\ f.lock = g.lock /\ f.have = g.have /\ f.timer = g.timer

Cut(s, r) ==
  /\ r \in Seq(Frame) /\ Len(r) <= Len(s)
  /\ \A i \in 1..Len(r) : SameCall(r[i], s[i]) /\ (i < Len(r) => r[i] = s[i])

Grown(s, r) ==
  /\ r \in Seq(Frame) /\ Len(r) = Len(s) + 1
  /\ \A i \in 1..Len(s) : SameCall(r[i], s[i]) /\ (i < Len(s) => r[i] = s[i])

(* r is the stack s after a throw to its frame k. *)
Thrown(s, k, r) ==
  /\ Cut(s, r)
  /\ \A i \in Len(r) + 1..Len(s) : ~HasCleanup(s[i])
  /\ r = <<>> => k = 1
  /\ r # <<>> =>
       \/ /\ k <= Len(r) /\ HasCleanup(s[Len(r)])
          /\ r[Len(r)].at = "cleanup" /\ r[Len(r)].exit = k
       \/ /\ k = Len(r) /\ k # 1 /\ ~HasCleanup(s[k])
          /\ r[k].at = "forms" /\ r[k].exit = 0

(* Process p goes on with stack r, or, if that is empty, the initial one does. *)
StackStep(p, r) ==
  /\ r \in Seq(Frame) /\ StackShape(r)
  /\ p = InitialProcess => r # <<>> /\ \A i \in 1..Len(r) : r[i].exit # 1
  /\ stack' = [stack EXCEPT ![p] = r]
  /\ current_process' = IF r = <<>> THEN InitialProcess ELSE p
  /\ abandoned \subseteq abandoned' /\ abandoned' \subseteq Locks \union Timers

(* What a throw from stack s to stack r leaves in a clean-up form. *)
Abandons(s, r) ==
  \A i \in Len(r) + 1..Len(s) :
    /\ s[i].kind = "lock" /\ s[i].at = "cleanup" => s[i].lock \in abandoned'
    /\ s[i].kind = "timeout" /\ s[i].at \in {"start", "cleanup", "destroyed"}
         => s[i].timer \in abandoned'

(* Numbers have a least one, and with a bound a greatest. *)
LEMMA LeastNumber ==
  ASSUME NEW T, T \subseteq Nat, T # {}
  PROVE  \E x \in T : \A y \in T : x <= y
<1>1. PICK x \in T : \A y \in T : <<y, x>> \notin OpToRel(<, Nat)
  BY NatLessThanWellFounded, WFMin
<1>2. ASSUME NEW y \in T
      PROVE  x <= y
  <2>1. x \in Nat /\ y \in Nat
    OBVIOUS
  <2>2. ~(y < x)
    BY <1>1, <2>1 DEF OpToRel
  <2>3. QED
    BY <2>1, <2>2
<1>3. QED
  BY <1>2

LEMMA GreatestIs ==
  ASSUME NEW n \in Nat, NEW S, S \subseteq 1..n, S # {}
  PROVE  Greatest(S) \in S /\ \A j \in S : j <= Greatest(S)
<1> DEFINE T == {n - i : i \in S}
<1>1. T \subseteq Nat /\ T # {}
  <2>1. \A i \in S : n - i \in Nat
    OBVIOUS
  <2>2. QED
    BY <2>1
<1>2. PICK m \in T : \A k \in T : m <= k
  <2> HIDE DEF T
  <2>1. QED
    BY <1>1, LeastNumber
<1>3. PICK i \in S : m = n - i
  BY <1>2
<1>4. ASSUME NEW j \in S
      PROVE  j <= i
  <2>1. n - j \in T
    OBVIOUS
  <2>2. m <= n - j
    BY <1>2, <2>1
  <2>3. i \in Int /\ j \in Int
    OBVIOUS
  <2>4. QED
    BY <1>3, <2>2, <2>3
<1>5. QED
  BY <1>4 DEF Greatest

LEMMA NewFrameIs ==
  ASSUME NEW k \in {"function", "interrupt", "yield", "sigalrm", "lock", "timeout"},
         NEW a \in {"run", "try", "start"}
  PROVE  /\ NewFrame(k, a) \in Frame
         /\ NewFrame(k, a).kind = k /\ NewFrame(k, a).at = a /\ NewFrame(k, a).exit = 0
         /\ NewFrame(k, a).timer = None /\ NewFrame(k, a).have = FALSE
BY DEF NewFrame, Frame

LEMMA PrefixIs ==
  ASSUME NEW s \in Seq(Frame), NEW n \in 0..Len(s)
  PROVE  /\ SubSeq(s, 1, n) \in Seq(Frame) /\ Len(SubSeq(s, 1, n)) = n
         /\ \A i \in 1..n : SubSeq(s, 1, n)[i] = s[i]
<1>1. Len(s) \in Nat /\ n \in Int /\ 1 \in Int
  BY LenProperties
<1>2. \A i \in 1..n : s[i] \in Frame
  BY <1>1, ElementOfSeq
<1> DEFINE r == SubSeq(s, 1, n)
<1>3. /\ r \in Seq(Frame) /\ Len(r) = IF 1 <= n THEN n - 1 + 1 ELSE 0
      /\ \A i \in 1..n - 1 + 1 : r[i] = s[1 + i - 1]
  BY <1>1, <1>2, SubSeqProperties
<1> HIDE DEF r
<1>4. r \in Seq(Frame) /\ Len(r) = n /\ \A i \in 1..n : r[i] = s[i]
  BY <1>1, <1>3
<1>5. QED
  BY <1>4 DEF r

LEMMA PopIs ==
  ASSUME NEW s \in Seq(Frame), Len(s) > 0
  PROVE  /\ Pop(s) \in Seq(Frame) /\ Len(Pop(s)) = Len(s) - 1
         /\ \A i \in 1..Len(s) - 1 : Pop(s)[i] = s[i]
         /\ Cut(s, Pop(s))
<1>1. Len(s) \in Nat /\ Len(s) - 1 \in 0..Len(s)
  BY LenProperties
<1>2. /\ Pop(s) \in Seq(Frame) /\ Len(Pop(s)) = Len(s) - 1
      /\ \A i \in 1..Len(s) - 1 : Pop(s)[i] = s[i]
  BY <1>1, PrefixIs DEF Pop
<1>3. QED
  BY <1>1, <1>2 DEF Cut, SameCall

LEMMA PushIs ==
  ASSUME NEW s \in Seq(Frame), NEW f \in Frame
  PROVE  /\ Append(s, f) \in Seq(Frame) /\ Len(Append(s, f)) = Len(s) + 1
         /\ \A i \in 1..Len(s) : Append(s, f)[i] = s[i]
         /\ Append(s, f)[Len(s) + 1] = f
         /\ Grown(s, Append(s, f))
<1>1. /\ Append(s, f) \in Seq(Frame) /\ Len(Append(s, f)) = Len(s) + 1
      /\ \A i \in 1..Len(s) : Append(s, f)[i] = s[i]
      /\ Append(s, f)[Len(s) + 1] = f
  OBVIOUS
<1>2. QED
  BY <1>1 DEF Grown, SameCall

Places == {"run", "try", "wait", "timed_wait", "start", "body", "cleanup", "destroyed", "forms"}

(* The top frame goes to another place, and leaves for frame k or nowhere. *)
Left(s, a, k) == [s EXCEPT ![Len(s)].at = a, ![Len(s)].exit = k]

LEMMA TopIs ==
  ASSUME NEW s \in Seq(Frame), Len(s) > 0, NEW a \in Places, NEW k \in Nat
  PROVE  LET r == Left(s, a, k)
         IN  /\ r \in Seq(Frame) /\ Len(r) = Len(s)
             /\ \A i \in 1..Len(s) : i < Len(s) => r[i] = s[i]
             /\ SameCall(r[Len(s)], s[Len(s)]) /\ r[Len(s)].at = a /\ r[Len(s)].exit = k
             /\ Cut(s, r)
<1> DEFINE n == Len(s)
           f == [s[n] EXCEPT !.at = a, !.exit = k]
           r == Left(s, a, k)
<1>1. n \in 1..Len(s) /\ s[n] \in Frame /\ Len(s) \in Nat
  BY LenProperties, ElementOfSeq
<1>2. f \in Frame /\ SameCall(f, s[n]) /\ f.at = a /\ f.exit = k
  BY <1>1 DEF Frame, SameCall, Places
<1>3. r = [s EXCEPT ![n] = f]
  BY DEF Left
<1> HIDE DEF f, r
<1>4. /\ r \in Seq(Frame) /\ Len(r) = Len(s)
      /\ \A i \in 1..Len(s) : r[i] = IF i = n THEN f ELSE s[i]
  BY <1>1, <1>2, <1>3, ExceptSeq
<1>5. QED
  BY <1>1, <1>2, <1>4 DEF Cut, SameCall, r

LEMMA MovedIs ==
  ASSUME NEW s \in Seq(Frame), Len(s) > 0, NEW a \in Places
  PROVE  LET r == Moved(s, a)
         IN  /\ r \in Seq(Frame) /\ Len(r) = Len(s)
             /\ \A i \in 1..Len(s) : i < Len(s) => r[i] = s[i]
             /\ SameCall(r[Len(s)], s[Len(s)]) /\ r[Len(s)].at = a /\ r[Len(s)].exit = s[Len(s)].exit
             /\ Cut(s, r)
<1> DEFINE n == Len(s)
           f == [s[n] EXCEPT !.at = a]
<1>1. n \in 1..Len(s) /\ s[n] \in Frame /\ Len(s) \in Nat
  BY LenProperties, ElementOfSeq
<1>2. f \in Frame /\ SameCall(f, s[n]) /\ f.at = a /\ f.exit = s[n].exit
  BY <1>1 DEF Frame, SameCall, Places
<1>3. Moved(s, a) = [s EXCEPT ![n] = f]
  BY DEF Moved
<1> HIDE DEF f
<1>4. /\ Moved(s, a) \in Seq(Frame) /\ Len(Moved(s, a)) = Len(s)
      /\ \A i \in 1..Len(s) : Moved(s, a)[i] = IF i = n THEN f ELSE s[i]
  BY <1>1, <1>2, <1>3, ExceptSeq
<1>5. QED
  BY <1>1, <1>2, <1>4 DEF Cut, SameCall

LEMMA ExitIs ==
  ASSUME NEW s \in Seq(Frame), Len(s) > 0
  PROVE  LET r == [s EXCEPT ![Len(s)].exit = 0]
         IN  /\ r \in Seq(Frame) /\ Len(r) = Len(s)
             /\ \A i \in 1..Len(s) : i < Len(s) => r[i] = s[i]
             /\ SameCall(r[Len(s)], s[Len(s)]) /\ r[Len(s)].exit = 0
<1> DEFINE n == Len(s)
           f == [s[n] EXCEPT !.exit = 0]
           r == [s EXCEPT ![n].exit = 0]
<1>1. n \in 1..Len(s) /\ s[n] \in Frame /\ Len(s) \in Nat
  BY LenProperties, ElementOfSeq
<1>2. f \in Frame /\ SameCall(f, s[n]) /\ f.exit = 0
  BY <1>1 DEF Frame, SameCall
<1>3. r = [s EXCEPT ![n] = f]
  OBVIOUS
<1> HIDE DEF f, r
<1>4. /\ r \in Seq(Frame) /\ Len(r) = Len(s)
      /\ \A i \in 1..Len(s) : r[i] = IF i = n THEN f ELSE s[i]
  BY <1>1, <1>2, <1>3, ExceptSeq
<1>5. QED
  BY <1>1, <1>2, <1>4 DEF r

LEMMA UnwoundIs ==
  ASSUME NEW s \in Seq(Frame), NEW k \in 1..Len(s)
  PROVE  Thrown(s, k, Unwound(s, k))
<1> DEFINE C == {i \in k..Len(s) : HasCleanup(s[i])}
           r == Unwound(s, k)
<1>1. Len(s) \in Nat /\ k \in Nat /\ k <= Len(s)
  BY LenProperties
<1>2. CASE C # {}
  <2> DEFINE n == Greatest(C)
             t == SubSeq(s, 1, n)
  <2>1. C \subseteq 1..Len(s)
    BY <1>1
  <2>2. n \in C /\ \A j \in C : j <= n
    <3> HIDE DEF C
    <3>1. QED
      BY <1>1, <1>2, <2>1, GreatestIs
  <2>3. n \in 1..Len(s) /\ k <= n /\ HasCleanup(s[n])
    BY <1>1, <2>2
  <2>4. \A j \in n + 1..Len(s) : ~HasCleanup(s[j])
    <3> SUFFICES ASSUME NEW j \in n + 1..Len(s), HasCleanup(s[j])
                 PROVE  FALSE
      OBVIOUS
    <3> HIDE DEF n
    <3>1. j \in k..Len(s) /\ j > n
      BY <1>1, <2>3
    <3>2. j \in C
      BY <3>1
    <3>3. QED
      BY <1>1, <2>2, <2>3, <3>1, <3>2
  <2>5. r = [t EXCEPT ![n].at = "cleanup", ![n].exit = k]
    BY <1>2 DEF Unwound
  <2> HIDE DEF n, C, r
  <2>6. t \in Seq(Frame) /\ Len(t) = n /\ \A i \in 1..n : t[i] = s[i]
    BY <1>1, <2>3, PrefixIs
  <2> HIDE DEF t
  <2>7. /\ r \in Seq(Frame) /\ Len(r) = n
        /\ \A i \in 1..n : i < n => r[i] = t[i]
        /\ SameCall(r[n], t[n]) /\ r[n].at = "cleanup" /\ r[n].exit = k
    <3>1. Len(t) > 0 /\ "cleanup" \in Places
      BY <2>3, <2>6 DEF Places
    <3>2. r = Left(t, "cleanup", k)
      BY <2>5, <2>6 DEF Left
    <3>3. QED
      BY <1>1, <2>6, <3>1, <3>2, TopIs
  <2>8. Cut(s, r)
    BY <1>1, <2>3, <2>6, <2>7 DEF Cut, SameCall
  <2>9. r # <<>>
    BY <2>3, <2>7
  <2>10. QED
    BY <1>1, <2>3, <2>4, <2>7, <2>8, <2>9 DEF Thrown, r
<1>3. CASE C = {} /\ k = 1
  <2>1. r = <<>>
    BY <1>3 DEF Unwound
  <2>2. \A j \in 1..Len(s) : ~HasCleanup(s[j])
    BY <1>3
  <2>3. r \in Seq(Frame) /\ Len(r) = 0
    BY <2>1, EmptySeq
  <2> HIDE DEF r
  <2>4. QED
    BY <1>1, <1>3, <2>1, <2>2, <2>3 DEF Thrown, Cut, r
<1>4. CASE C = {} /\ k # 1
  <2> DEFINE t == SubSeq(s, 1, k)
             u == [t EXCEPT ![k].exit = 0]
  <2>1. r = Moved(u, "forms")
    BY <1>4 DEF Unwound
  <2>2. \A j \in k..Len(s) : ~HasCleanup(s[j])
    BY <1>4
  <2> HIDE DEF r, C
  <2>3. t \in Seq(Frame) /\ Len(t) = k /\ \A i \in 1..k : t[i] = s[i]
    BY <1>1, PrefixIs
  <2> HIDE DEF t
  <2>4. u \in Seq(Frame) /\ Len(u) = k
    BY <1>1, <2>3, ExitIs
  <2>5. \A i \in 1..k : i < k => u[i] = t[i]
    BY <1>1, <2>3, ExitIs
  <2>6. SameCall(u[k], t[k]) /\ u[k].exit = 0
    BY <1>1, <2>3, ExitIs
  <2> HIDE DEF u
  <2>7. /\ r \in Seq(Frame) /\ Len(r) = k
        /\ \A i \in 1..k : i < k => r[i] = u[i]
        /\ SameCall(r[k], u[k]) /\ r[k].at = "forms" /\ r[k].exit = 0
    <3>1. Len(u) > 0 /\ "forms" \in Places
      BY <1>1, <2>4 DEF Places
    <3>2. QED
      BY <1>1, <2>1, <2>4, <2>6, <3>1, MovedIs
  <2>8. Cut(s, r)
    BY <1>1, <2>3, <2>5, <2>6, <2>7 DEF Cut, SameCall
  <2>9. r # <<>>
    BY <1>1, <2>7
  <2>10. QED
    BY <1>1, <1>4, <2>2, <2>7, <2>8, <2>9 DEF Thrown, r
<1>5. QED
  BY <1>2, <1>3, <1>4

LEMMA AfterCleanupIs ==
  ASSUME NEW s \in Seq(Frame), Len(s) > 1,
         ~HasCleanup(Last(s)), Last(s).exit <= Len(s)
  PROVE  /\ Last(s).exit = 0 => AfterCleanup(s) = Pop(s)
         /\ Last(s).exit # 0 => Thrown(s, Last(s).exit, AfterCleanup(s))
<1> DEFINE k == Last(s).exit
           r == AfterCleanup(s)
<1>1. Len(s) \in Nat /\ k \in Nat /\ k <= Len(s) /\ ~HasCleanup(s[Len(s)])
  <2>1. Len(s) \in Nat /\ s[Len(s)] \in Frame
    BY LenProperties, ElementOfSeq
  <2>2. QED
    BY <2>1 DEF Frame, Last
<1>2. CASE k = 0
  BY <1>2 DEF AfterCleanup
<1>3. CASE k = Len(s)
  <2> DEFINE u == [s EXCEPT ![k].exit = 0]
  <2>1. r = Moved(u, "forms")
    BY <1>1, <1>3 DEF AfterCleanup
  <2> HIDE DEF r
  <2>2. /\ u \in Seq(Frame) /\ Len(u) = k
        /\ \A i \in 1..k : i < k => u[i] = s[i]
        /\ SameCall(u[k], s[k]) /\ u[k].exit = 0
    BY <1>1, <1>3, ExitIs
  <2> HIDE DEF u
  <2>3. /\ r \in Seq(Frame) /\ Len(r) = k
        /\ \A i \in 1..k : i < k => r[i] = u[i]
        /\ SameCall(r[k], u[k]) /\ r[k].at = "forms" /\ r[k].exit = 0
    <3>1. Len(u) > 0 /\ "forms" \in Places
      BY <1>1, <1>3, <2>2 DEF Places
    <3>2. QED
      BY <1>1, <2>1, <2>2, <3>1, MovedIs
  <2> HIDE DEF k
  <2>4. Cut(s, r) /\ r # <<>>
    BY <1>1, <1>3, <2>2, <2>3 DEF Cut, SameCall
  <2>5. Thrown(s, k, r)
    BY <1>1, <1>3, <2>3, <2>4 DEF Thrown
  <2>6. QED
    BY <1>1, <1>3, <2>5 DEF r, k
<1>4. CASE k # 0 /\ k # Len(s)
  <2>1. r = Unwound(Pop(s), k)
    BY <1>4 DEF AfterCleanup
  <2> HIDE DEF r
  <2>2. /\ Pop(s) \in Seq(Frame) /\ Len(Pop(s)) = Len(s) - 1
        /\ \A i \in 1..Len(s) - 1 : Pop(s)[i] = s[i]
    BY <1>1, PopIs
  <2> HIDE DEF k
  <2>3. k \in 1..Len(Pop(s))
    BY <1>1, <1>4, <2>2
  <2>4. Thrown(Pop(s), k, r)
    BY <2>1, <2>2, <2>3, UnwoundIs
  <2> DEFINE t == Pop(s)
  <2> HIDE DEF t
  <2>5. /\ t \in Seq(Frame) /\ Len(t) = Len(s) - 1 /\ Thrown(t, k, r)
        /\ \A i \in 1..Len(s) - 1 : t[i] = s[i]
    BY <2>2, <2>4 DEF t
  <2>6. Len(r) \in Nat /\ Len(r) <= Len(s) - 1
    BY <2>5, LenProperties DEF Thrown, Cut
  <2>7. Cut(s, r)
    BY <1>1, <2>5, <2>6 DEF Thrown, Cut
  <2>8. \A i \in Len(r) + 1..Len(s) : ~HasCleanup(s[i])
    <3> SUFFICES ASSUME NEW i \in Len(r) + 1..Len(s)
                 PROVE  ~HasCleanup(s[i])
      OBVIOUS
    <3>1. CASE i = Len(s)
      BY <1>1, <3>1
    <3>2. CASE i # Len(s)
      <4>1. i \in Len(r) + 1..Len(t) /\ i \in 1..Len(s) - 1
        BY <1>1, <2>5, <2>6, <3>2
      <4>2. QED
        BY <2>5, <4>1 DEF Thrown
    <3>3. QED
      BY <3>1, <3>2
  <2>9. r # <<>> => Len(r) \in 1..Len(s) - 1
    BY <1>1, <2>5, <2>6, EmptySeq DEF Thrown, Cut
  <2>10. Thrown(s, k, r)
    BY <1>1, <2>5, <2>6, <2>7, <2>8, <2>9 DEF Thrown
  <2>11. QED
    BY <1>4, <2>10 DEF r, k
<1>5. QED
  BY <1>2, <1>3, <1>4

(* Nothing is abandoned without a throw. *)
LEMMA GoesOnIs ==
  ASSUME NEW p, NEW s \in Seq(Frame), NEW from \in Seq(Frame), Len(from) <= Len(s),
         GoesOn(p, from, s)
  PROVE  /\ stack' = [stack EXCEPT ![p] = s]
         /\ current_process' = IF s = <<>> THEN InitialProcess ELSE p
         /\ abandoned' = abandoned
<1>1. \A i \in (Len(s) + 1)..Len(from) : FALSE
  BY LenProperties
<1> DEFINE left == {from[i] : i \in (Len(s) + 1)..Len(from)}
<1>2. left = {}
  BY <1>1
<1>3. /\ stack' = [stack EXCEPT ![p] = s]
      /\ current_process' = IF s = <<>> THEN InitialProcess ELSE p
      /\ abandoned' = abandoned
           \union {f.lock : f \in {g \in left : g.kind = "lock" /\ g.at = "cleanup"}}
           \union {f.timer : f \in {g \in left : g.kind = "timeout" /\ g.at \in {"start", "cleanup", "destroyed"}}}
  BY DEF GoesOn
<1> HIDE DEF left
<1>4. QED
  BY <1>2, <1>3

LEMMA FrameIs ==
  ASSUME NEW s \in Seq(Frame)
  PROVE  \A i \in 1..Len(s) : s[i] \in Frame /\ s[i].exit \in Nat
<1> SUFFICES ASSUME NEW i \in 1..Len(s)
             PROVE  s[i] \in Frame /\ s[i].exit \in Nat
  OBVIOUS
<1>1. s[i] \in Frame
  BY ElementOfSeq
<1>2. QED
  BY <1>1 DEF Frame

LEMMA CutCut ==
  ASSUME NEW s \in Seq(Frame), NEW t \in Seq(Frame), NEW r, Cut(s, t), Cut(t, r)
  PROVE  Cut(s, r)
<1>1. Len(s) \in Nat /\ Len(t) \in Nat /\ Len(r) \in Nat
  BY LenProperties DEF Cut
<1>2. QED
  BY <1>1 DEF Cut, SameCall

-----------------------------------------------------------------------------
(***************************************************************************)
(* The shape of stacks is preserved if that of the top is.                 *)
(***************************************************************************)
LEMMA CutShape ==
  ASSUME NEW s \in Seq(Frame), StackShape(s), NEW r, Cut(s, r),
         r # <<>> =>
           /\ FrameShape(r[Len(r)]) /\ r[Len(r)].at \notin Waits
           /\ r[Len(r)].exit <= Len(r)
           /\ r[Len(r)].exit > 1 => s[r[Len(r)].exit].kind = "timeout"
  PROVE  StackShape(r)
<1> DEFINE n == Len(r)
<1>1. Len(s) \in Nat /\ n \in Nat /\ n <= Len(s)
  BY LenProperties DEF Cut
<1>2. \A i \in 1..n : SameCall(r[i], s[i]) /\ (i < n => r[i] = s[i])
  BY DEF Cut
<1>3. \A i \in 1..n : r[i].exit \in Nat
  BY FrameIs DEF Cut
<1>4. SUFFICES ASSUME NEW i \in 1..n
               PROVE  /\ FrameShape(r[i])
                      /\ r[i].kind = "function" <=> i = 1
                      /\ r[i].exit <= i
                      /\ r[i].exit > 1 => r[r[i].exit].kind = "timeout"
                      /\ r[i].at \in Waits => i < n /\ r[i + 1].kind = "yield"
  BY DEF StackShape
<1>5. r # <<>>
  BY <1>1, EmptySeq DEF Cut
<1>6. i \in 1..Len(s) /\ i \in Nat
  BY <1>1
<1>7. r[i].exit \in 1..n => r[r[i].exit].kind = s[r[i].exit].kind
  BY <1>2 DEF SameCall
<1>8. CASE i < n
  <2>1. r[i] = s[i] /\ i + 1 \in 1..n /\ r[i + 1].kind = s[i + 1].kind
    BY <1>1, <1>2, <1>6, <1>8 DEF SameCall
  <2>2. /\ FrameShape(s[i])
        /\ s[i].kind = "function" <=> i = 1
        /\ s[i].exit <= i
        /\ s[i].exit > 1 => s[s[i].exit].kind = "timeout"
        /\ s[i].at \in Waits => s[i + 1].kind = "yield"
    BY <1>6 DEF StackShape
  <2>3. r[i].exit > 1 => r[i].exit \in 1..n
    BY <1>1, <1>3, <1>6, <1>8, <2>1, <2>2
  <2>4. QED
    BY <1>7, <1>8, <2>1, <2>2, <2>3
<1>9. CASE i = n
  <2>1. r[i].kind = "function" <=> i = 1
    BY <1>2, <1>6 DEF StackShape, SameCall
  <2>2. r[i].exit > 1 => r[i].exit \in 1..n
    BY <1>1, <1>3, <1>5, <1>9
  <2>3. QED
    BY <1>5, <1>7, <1>9, <2>1, <2>2
<1>10. QED
  BY <1>1, <1>6, <1>8, <1>9

LEMMA GrownShape ==
  ASSUME NEW s \in Seq(Frame), StackShape(s), Len(s) > 0, NEW r, Grown(s, r),
         FrameShape(r[Len(s)]), r[Len(s)].exit = s[Len(s)].exit,
         r[Len(s)].at \in Waits => r[Len(s) + 1].kind = "yield",
         FrameShape(r[Len(s) + 1]), r[Len(s) + 1].kind # "function",
         r[Len(s) + 1].exit = 0, r[Len(s) + 1].at \notin Waits
  PROVE  StackShape(r)
<1> DEFINE n == Len(s)
<1>1. n \in Nat /\ Len(r) = n + 1
  BY LenProperties DEF Grown
<1>2. \A i \in 1..n : SameCall(r[i], s[i]) /\ (i < n => r[i] = s[i])
  BY DEF Grown
<1>3. \A i \in 1..n : s[i].exit \in Nat
  BY FrameIs
<1>4. SUFFICES ASSUME NEW i \in 1..n + 1
               PROVE  /\ FrameShape(r[i])
                      /\ r[i].kind = "function" <=> i = 1
                      /\ r[i].exit <= i
                      /\ r[i].exit > 1 => r[r[i].exit].kind = "timeout"
                      /\ r[i].at \in Waits => i < n + 1 /\ r[i + 1].kind = "yield"
  BY <1>1 DEF StackShape
<1>5. CASE i \in 1..n
  <2>1. /\ FrameShape(s[i])
        /\ s[i].kind = "function" <=> i = 1
        /\ s[i].exit <= i
        /\ s[i].exit > 1 => s[s[i].exit].kind = "timeout"
        /\ s[i].at \in Waits => i < n /\ s[i + 1].kind = "yield"
    BY <1>5 DEF StackShape
  <2>2. r[i].kind = s[i].kind /\ r[i].exit = s[i].exit
    BY <1>1, <1>2, <1>5 DEF SameCall
  <2>3. r[i].exit > 1 => r[r[i].exit].kind = s[r[i].exit].kind
    <3>1. r[i].exit > 1 => r[i].exit \in 1..n
      BY <1>1, <1>3, <1>5, <2>1, <2>2
    <3>2. QED
      BY <1>2, <3>1 DEF SameCall
  <2>4. CASE i < n
    <3>1. r[i] = s[i] /\ i + 1 \in 1..n /\ r[i + 1].kind = s[i + 1].kind
      BY <1>1, <1>2, <1>5, <2>4 DEF SameCall
    <3>2. QED
      BY <1>1, <2>1, <2>2, <2>3, <2>4, <3>1
  <2>5. CASE i = n
    BY <1>1, <2>1, <2>2, <2>3, <2>5
  <2>6. QED
    BY <1>1, <1>5, <2>4, <2>5
<1>6. CASE i = n + 1
  BY <1>1, <1>6
<1>7. QED
  BY <1>1, <1>5, <1>6

LEMMA PushShape ==
  ASSUME NEW s \in Seq(Frame), StackShape(s), Len(s) > 0, s[Len(s)].at \notin Waits,
         NEW f \in Frame, FrameShape(f), f.kind # "function", f.exit = 0, f.at \notin Waits
  PROVE  StackShape(Append(s, f))
<1>1. Len(s) \in Nat /\ Len(s) \in 1..Len(s)
  BY LenProperties
<1>2. FrameShape(s[Len(s)])
  BY <1>1 DEF StackShape
<1> DEFINE r == Append(s, f)
<1>3. Grown(s, r) /\ r[Len(s)] = s[Len(s)] /\ r[Len(s) + 1] = f
  BY <1>1, PushIs
<1> HIDE DEF r
<1>4. StackShape(r)
  BY <1>2, <1>3, GrownShape
<1>5. QED
  BY <1>4 DEF r

LEMMA PopShape ==
  ASSUME NEW s \in Seq(Frame), StackShape(s), Len(s) > 1, s[Len(s) - 1].at \notin Waits
  PROVE  StackShape(Pop(s)) /\ Pop(s) # <<>>
<1>1. Len(s) \in Nat /\ Len(s) - 1 \in 1..Len(s)
  BY LenProperties
<1> DEFINE r == Pop(s)
<1>2. Cut(s, r) /\ Len(r) = Len(s) - 1 /\ r[Len(r)] = s[Len(s) - 1]
  BY <1>1, PopIs
<1>3. /\ FrameShape(s[Len(s) - 1]) /\ s[Len(s) - 1].exit <= Len(s) - 1
      /\ s[Len(s) - 1].exit > 1 => s[s[Len(s) - 1].exit].kind = "timeout"
  BY <1>1 DEF StackShape
<1> HIDE DEF r
<1>4. StackShape(r)
  BY <1>2, <1>3, CutShape
<1>5. r # <<>>
  BY <1>1, <1>2, EmptySeq DEF Cut
<1>6. QED
  BY <1>4, <1>5 DEF r

LEMMA ThrownShape ==
  ASSUME NEW s \in Seq(Frame), StackShape(s), NEW k \in 1..Len(s),
         k > 1 => s[k].kind = "timeout", NEW r, Thrown(s, k, r)
  PROVE  StackShape(r)
<1>1. Len(s) \in Nat /\ Len(r) \in Nat /\ Len(r) <= Len(s) /\ Cut(s, r) /\ k \in Nat /\ k >= 1
  BY LenProperties DEF Thrown, Cut
<1>2. SUFFICES ASSUME r # <<>>
               PROVE  /\ FrameShape(r[Len(r)]) /\ r[Len(r)].at \notin Waits
                      /\ r[Len(r)].exit <= Len(r)
                      /\ r[Len(r)].exit > 1 => s[r[Len(r)].exit].kind = "timeout"
  BY <1>1, CutShape
<1>3. Len(r) \in 1..Len(s) /\ SameCall(r[Len(r)], s[Len(r)])
  BY <1>1, <1>2, EmptySeq DEF Cut
<1>4. FrameShape(s[Len(r)])
  BY <1>3 DEF StackShape
<1>5. CASE k <= Len(r) /\ HasCleanup(s[Len(r)]) /\ r[Len(r)].at = "cleanup" /\ r[Len(r)].exit = k
  BY <1>1, <1>3, <1>4, <1>5 DEF FrameShape, SameCall, HasCleanup, Waits
<1>6. CASE k = Len(r) /\ k # 1 /\ r[k].at = "forms" /\ r[k].exit = 0
  BY <1>1, <1>3, <1>4, <1>6 DEF FrameShape, SameCall, Waits
<1>7. QED
  BY <1>2, <1>5, <1>6 DEF Thrown

-----------------------------------------------------------------------------
(***************************************************************************)
(* What each action does to the stack of its process.                      *)
(***************************************************************************)
LEMMA ResumedIs ==
  ASSUME ShapeInv, NEW p \in Processes, MayResume(p)
  PROVE  /\ stack[p] \in Seq(Frame) /\ StackShape(stack[p]) /\ Len(stack[p]) > 1
         /\ Top(p).kind \in Yields
         /\ Pop(stack[p]) \in Seq(Frame) /\ Len(Pop(stack[p])) = Len(stack[p]) - 1
         /\ \A i \in 1..Len(stack[p]) - 1 : Pop(stack[p])[i] = stack[p][i]
         /\ Cut(stack[p], Pop(stack[p]))
<1>1. stack[p] \in Seq(Frame) /\ StackShape(stack[p]) /\ stack[p] # <<>>
  BY DEF ShapeInv, TypeOK, MayResume, Alive
<1>2. Top(p).kind \in Yields
  BY DEF ShapeInv, MayResume
<1>3. Len(stack[p]) \in Nat /\ Len(stack[p]) > 0
  BY <1>1, LenProperties, EmptySeq
<1>4. Len(stack[p]) # 1
  <2>1. SUFFICES ASSUME Len(stack[p]) = 1
                 PROVE  FALSE
    OBVIOUS
  <2>2. stack[p][1].kind = "function"
    BY <1>1, <2>1 DEF StackShape
  <2>3. QED
    BY <1>2, <2>1, <2>2 DEF Top, Last, Yields
<1> DEFINE s == stack[p]
           n == Len(s)
<1>5. Len(stack[p]) > 1
  <2>1. n \in Nat /\ n > 0 /\ n # 1
    BY <1>3, <1>4
  <2> HIDE DEF n
  <2>2. n > 1
    BY <2>1
  <2>3. QED
    BY <2>2 DEF n
<1> HIDE DEF s
<1>6. s \in Seq(Frame) /\ Len(s) > 0
  BY <1>1, <1>3 DEF s
<1>7. /\ Pop(s) \in Seq(Frame) /\ Len(Pop(s)) = Len(s) - 1
      /\ \A i \in 1..Len(s) - 1 : Pop(s)[i] = s[i]
      /\ Cut(s, Pop(s))
  BY <1>6, PopIs
<1>8. QED
  BY <1>1, <1>2, <1>5, <1>7 DEF s

LEMMA RunningIs ==
  ASSUME ShapeInv, NEW p \in Processes, Runs(p)
  PROVE  /\ p = current_process
         /\ stack[p] \in Seq(Frame) /\ StackShape(stack[p]) /\ Len(stack[p]) \in Nat /\ Len(stack[p]) > 0
         /\ Top(p) = stack[p][Len(stack[p])] /\ Top(p) \in Frame /\ FrameShape(Top(p)) /\ Top(p).at \notin Waits
<1>1. p = current_process /\ stack[p] \in Seq(Frame) /\ StackShape(stack[p]) /\ stack[p] # <<>>
  BY DEF ShapeInv, TypeOK, Runs, Alive
<1>2. Len(stack[p]) \in Nat /\ Len(stack[p]) > 0
  BY <1>1, LenProperties, EmptySeq
<1>3. Top(p) = stack[p][Len(stack[p])] /\ Len(stack[p]) \in 1..Len(stack[p])
  BY <1>2 DEF Top, Last
<1>4. Top(p) \in Frame
  BY <1>1, <1>3, FrameIs
<1>5. FrameShape(Top(p)) /\ Top(p).at \notin Waits
  BY <1>1, <1>2, <1>3 DEF StackShape
<1>6. QED
  BY <1>1, <1>2, <1>3, <1>4, <1>5

LEMMA CutStep ==
  ASSUME ShapeInv, NEW p \in Processes, NEW r, Cut(stack[p], r), StackShape(r),
         p = InitialProcess => r # <<>> /\ r[Len(r)].exit # 1,
         stack' = [stack EXCEPT ![p] = r],
         current_process' = IF r = <<>> THEN InitialProcess ELSE p,
         abandoned \subseteq abandoned', abandoned' \subseteq Locks \union Timers
  PROVE  StackStep(p, r)
<1>1. r \in Seq(Frame) /\ Len(r) \in Nat /\ Len(stack[p]) \in Nat /\ Len(r) <= Len(stack[p])
  BY LenProperties DEF Cut, ShapeInv, TypeOK
<1>2. ASSUME p = InitialProcess, NEW i \in 1..Len(r)
      PROVE  r[i].exit # 1
  <2>1. i < Len(r) => r[i] = stack[p][i]
    BY DEF Cut
  <2>2. stack[p][i].exit # 1
    BY <1>1, <1>2 DEF ShapeInv
  <2>3. QED
    BY <1>1, <1>2, <2>1, <2>2
<1>3. QED
  BY <1>1, <1>2 DEF StackStep

LEMMA GrownStep ==
  ASSUME ShapeInv, NEW p \in Processes, NEW r, Grown(stack[p], r), StackShape(r), Len(stack[p]) > 0,
         r[Len(stack[p])].exit = stack[p][Len(stack[p])].exit, r[Len(stack[p]) + 1].exit = 0,
         stack' = [stack EXCEPT ![p] = r], current_process' = p, abandoned' = abandoned
  PROVE  StackStep(p, r)
<1>1. r \in Seq(Frame) /\ Len(stack[p]) \in Nat /\ Len(r) = Len(stack[p]) + 1
  BY LenProperties DEF Grown, ShapeInv, TypeOK
<1>2. r # <<>>
  BY <1>1, EmptySeq
<1>3. ASSUME p = InitialProcess, NEW i \in 1..Len(r)
      PROVE  r[i].exit # 1
  <2>1. CASE i \in 1..Len(stack[p])
    <3>1. i < Len(stack[p]) => r[i] = stack[p][i]
      BY <2>1 DEF Grown
    <3>2. stack[p][i].exit # 1
      BY <1>3, <2>1 DEF ShapeInv
    <3>3. QED
      BY <1>1, <2>1, <3>1, <3>2
  <2>2. QED
    BY <1>1, <2>1
<1>4. abandoned' \subseteq Locks \union Timers
  BY DEF ShapeInv, TypeOK
<1>5. QED
  BY <1>1, <1>2, <1>3, <1>4 DEF StackStep

(* A frame is put on the stack. *)
LEMMA PushStep ==
  ASSUME ShapeInv, NEW p \in Processes, Len(stack[p]) > 0, Top(p).at \notin Waits,
         NEW f \in Frame, FrameShape(f), f.kind # "function", f.exit = 0, f.at \notin Waits,
         stack' = [stack EXCEPT ![p] = Append(stack[p], f)],
         current_process' = p, abandoned' = abandoned
  PROVE  StackStep(p, Append(stack[p], f))
<1>1. stack[p] \in Seq(Frame) /\ StackShape(stack[p]) /\ Len(stack[p]) \in 1..Len(stack[p])
  BY LenProperties DEF ShapeInv, TypeOK
<1> DEFINE r == Append(stack[p], f)
<1>2. StackShape(r)
  BY <1>1, PushShape DEF Top, Last
<1>3. Grown(stack[p], r) /\ r[Len(stack[p])] = stack[p][Len(stack[p])] /\ r[Len(stack[p]) + 1] = f
  BY <1>1, PushIs
<1> HIDE DEF r
<1>4. StackStep(p, r)
  <2>1. stack' = [stack EXCEPT ![p] = r]
    BY DEF r
  <2>2. QED
    BY <1>2, <1>3, <2>1, GrownStep
<1>5. QED
  BY <1>4 DEF r

(* The activation of a macro on top of t, which is the stack or the stack without
   a call of process-yield, goes on at another place.                      *)
LEMMA MoveStep ==
  ASSUME ShapeInv, NEW p \in Processes, NEW t \in Seq(Frame), Len(t) > 0, Cut(stack[p], t),
         t[Len(t)] = stack[p][Len(t)],
         NEW a \in Places \ Waits,
         \/ t[Len(t)].kind = "lock" /\ a \in {"body", "cleanup"}
         \/ t[Len(t)].kind = "timeout" /\ a \in {"body", "cleanup", "destroyed", "forms"},
         t[Len(t)].exit # 0 => a \in {"cleanup", "destroyed"},
         stack' = [stack EXCEPT ![p] = Moved(t, a)],
         current_process' = p, abandoned' = abandoned
  PROVE  StackStep(p, Moved(t, a))
<1> DEFINE r == Moved(t, a)
           n == Len(t)
<1>1. stack[p] \in Seq(Frame) /\ StackShape(stack[p]) /\ n \in Nat /\ n \in 1..n /\ n <= Len(stack[p])
  BY LenProperties DEF ShapeInv, TypeOK, Cut
<1>2. /\ r \in Seq(Frame) /\ Len(r) = n /\ Cut(t, r)
      /\ SameCall(r[n], t[n]) /\ r[n].at = a /\ r[n].exit = t[n].exit
  BY MovedIs
<1>3. Cut(stack[p], r)
  BY <1>1, <1>2, CutCut
<1>4. /\ FrameShape(t[n]) /\ t[n].exit <= n
      /\ t[n].exit > 1 => stack[p][t[n].exit].kind = "timeout"
  <2>1. n \in 1..Len(stack[p])
    BY <1>1, LenProperties
  <2>2. QED
    BY <1>1, <2>1 DEF StackShape
<1> HIDE DEF r
<1>5. FrameShape(r[n]) /\ r[n].at \notin Waits
  BY <1>2, <1>4 DEF FrameShape, SameCall
<1>6. StackShape(r)
  BY <1>1, <1>2, <1>3, <1>4, <1>5, CutShape
<1>7. r # <<>>
  BY <1>1, <1>2, EmptySeq
<1>8. p = InitialProcess => r[n].exit # 1
  BY <1>1, <1>2 DEF ShapeInv
<1>9. stack' = [stack EXCEPT ![p] = r]
  BY DEF r
<1>10. abandoned \subseteq abandoned' /\ abandoned' \subseteq Locks \union Timers
  BY DEF ShapeInv, TypeOK
<1>11. StackStep(p, r)
  BY <1>2, <1>3, <1>6, <1>7, <1>8, <1>9, <1>10, CutStep
<1>12. QED
  BY <1>11 DEF r

(* A frame returns. *)
LEMMA PopStep ==
  ASSUME ShapeInv, NEW p \in Processes, Len(stack[p]) > 1, stack[p][Len(stack[p]) - 1].at \notin Waits,
         stack' = [stack EXCEPT ![p] = Pop(stack[p])],
         current_process' = p, abandoned' = abandoned
  PROVE  StackStep(p, Pop(stack[p]))
<1> DEFINE r == Pop(stack[p])
           n == Len(stack[p])
<1>1. stack[p] \in Seq(Frame) /\ StackShape(stack[p]) /\ n \in Nat
  BY LenProperties DEF ShapeInv, TypeOK
<1>2. StackShape(r) /\ r # <<>>
  BY <1>1, PopShape
<1>3. Cut(stack[p], r) /\ Len(r) = n - 1 /\ r[n - 1] = stack[p][n - 1]
  BY <1>1, PopIs
<1>4. stack' = [stack EXCEPT ![p] = r]
  OBVIOUS
<1> HIDE DEF r
<1>5. p = InitialProcess => r[Len(r)].exit # 1
  <2>1. n - 1 \in 1..n
    BY <1>1
  <2>2. p = InitialProcess => stack[p][n - 1].exit # 1
    BY <2>1 DEF ShapeInv
  <2>3. QED
    BY <1>3, <2>2
<1>6. abandoned \subseteq abandoned' /\ abandoned' \subseteq Locks \union Timers
  BY DEF ShapeInv, TypeOK
<1>7. StackStep(p, r)
  BY <1>2, <1>3, <1>4, <1>5, <1>6, CutStep
<1>8. QED
  BY <1>7 DEF r

(* A throw to frame k, from the stack or from below a frame that has returned. *)
LEMMA ThrowStep ==
  ASSUME ShapeInv, NEW p \in Processes, NEW s \in Seq(Frame), StackShape(s), Cut(stack[p], s),
         NEW k \in 1..Len(s), k > 1 => s[k].kind = "timeout", k = 1 => p # InitialProcess,
         NEW r, Thrown(s, k, r),
         NEW from, from = s \/ from = Pop(s), GoesOn(p, from, r)
  PROVE  StackStep(p, r) /\ Abandons(from, r)
<1>1. stack[p] \in Seq(Frame) /\ r \in Seq(Frame) /\ Cut(s, r) /\ StackShape(r)
  BY ThrownShape DEF ShapeInv, TypeOK, Thrown, Cut
<1>2. Cut(stack[p], r)
  BY <1>1, CutCut
<1>3. Len(s) \in Nat /\ Len(s) > 0
  BY LenProperties
<1>4. /\ from \in Seq(Frame) /\ Len(from) <= Len(s)
      /\ \A i \in 1..Len(from) : from[i] = s[i]
  <2>1. CASE from = s
    BY <1>3, <2>1
  <2>2. CASE from = Pop(s)
    <3> DEFINE t == Pop(s)
    <3>1. t \in Seq(Frame) /\ Len(t) = Len(s) - 1 /\ \A i \in 1..Len(s) - 1 : t[i] = s[i]
      BY <1>3, PopIs
    <3> HIDE DEF t
    <3>2. from = t
      BY <2>2 DEF t
    <3>3. QED
      BY <1>3, <3>1, <3>2
  <2>3. QED
    BY <2>1, <2>2
<1>5. /\ stack' = [stack EXCEPT ![p] = r]
      /\ current_process' = IF r = <<>> THEN InitialProcess ELSE p
      /\ abandoned \subseteq abandoned'
      /\ Abandons(from, r)
      /\ \A x \in abandoned' : x \in abandoned \/ \E i \in Len(r) + 1..Len(from) :
           \/ from[i].kind = "lock" /\ x = from[i].lock
           \/ from[i].kind = "timeout" /\ x = from[i].timer
  <2>1. r \in Seq(Frame) /\ from \in Seq(Frame) /\ GoesOn(p, from, r)
    BY <1>1, <1>4
  <2>2. QED
    BY <2>1 DEF GoesOn, Abandons
<1>6. abandoned' \subseteq Locks \union Timers
  <2> SUFFICES ASSUME NEW x \in abandoned'
               PROVE  x \in Locks \union Timers
    OBVIOUS
  <2>1. CASE x \in abandoned
    BY <2>1 DEF ShapeInv, TypeOK
  <2>2. ASSUME NEW i \in Len(r) + 1..Len(from),
               \/ from[i].kind = "lock" /\ x = from[i].lock
               \/ from[i].kind = "timeout" /\ x = from[i].timer
        PROVE  x \in Locks \union Timers
    <3>1. i \in 1..Len(from) /\ i \in 1..Len(s)
      BY <1>1, <1>3, <1>4, LenProperties
    <3>2. FrameShape(from[i])
      BY <1>4, <3>1 DEF StackShape
    <3>3. QED
      BY <2>2, <3>2 DEF FrameShape
  <2>3. QED
    BY <1>5, <2>1, <2>2
<1>7. p = InitialProcess => r # <<>> /\ r[Len(r)].exit # 1
  BY DEF Thrown
<1>8. QED
  BY <1>1, <1>2, <1>5, <1>6, <1>7, CutStep

(* The top of the stack, that the code or the scheduler may leave. *)
LEMMA SameStep ==
  ASSUME ShapeInv, NEW p \in Processes, stack[p] # <<>>,
         stack' = [stack EXCEPT ![p] = stack[p]],
         current_process' = p, abandoned' = abandoned
  PROVE  StackStep(p, stack[p])
<1>1. stack[p] \in Seq(Frame) /\ StackShape(stack[p])
  BY DEF ShapeInv, TypeOK
<1>2. Len(stack[p]) \in Nat /\ Len(stack[p]) # 0
  BY <1>1, LenProperties, EmptySeq
<1>3. Cut(stack[p], stack[p])
  BY <1>1, <1>2 DEF Cut, SameCall
<1>4. p = InitialProcess => stack[p][Len(stack[p])].exit # 1
  BY <1>2 DEF ShapeInv
<1>5. abandoned' \subseteq Locks \union Timers
  BY DEF ShapeInv, TypeOK
<1>6. QED
  BY <1>1, <1>3, <1>4, <1>5, CutStep

LEMMA RunInterruptIs ==
  ASSUME ShapeInv, NEW p \in Processes, RunInterrupt(p)
  PROVE  \E r :
    /\ StackStep(p, r)
    /\ interrupts' = [interrupts EXCEPT ![p] = IF r = <<>> THEN <<>> ELSE Tail(interrupts[p])]
    /\ \/ /\ Head(interrupts[p]) = "call" /\ r = Append(stack[p], NewFrame("interrupt", "run"))
          /\ stray' = stray /\ abandoned' = abandoned
       \/ /\ Head(interrupts[p]) = "end" /\ Thrown(stack[p], 1, r) /\ Abandons(stack[p], r)
          /\ stray' = stray
       \/ /\ Head(interrupts[p]) = "timer" /\ \A i \in 1..Len(stack[p]) : ~Catches(stack[p][i])
          /\ r = stack[p] /\ stray' = TRUE /\ abandoned' = abandoned
       \/ /\ Head(interrupts[p]) = "timer" /\ Abandons(stack[p], r)
          /\ \E k \in 1..Len(stack[p]) : Catches(stack[p][k]) /\ Thrown(stack[p], k, r)
          /\ stray' = stray
<1> DEFINE s == stack[p]
           catches == {i \in DOMAIN s : Catches(s[i])}
           throw == Head(interrupts[p])
           Result(to) ==
             /\ GoesOn(p, s, to)
             /\ stray' = (stray \/ (throw = "timer" /\ catches = {}))
             /\ interrupts' = [interrupts EXCEPT ![p] = IF to = <<>> THEN <<>> ELSE Tail(@)]
<1>1. /\ s \in Seq(Frame) /\ StackShape(s) /\ Len(s) \in Nat /\ Len(s) > 1 /\ s # <<>>
      /\ s[Len(s)].kind \in Yields /\ s[Len(s)].at \notin Waits
  <2>1. MayResume(p)
    BY DEF RunInterrupt
  <2>2. s \in Seq(Frame) /\ StackShape(s) /\ Len(s) > 1 /\ s[Len(s)].kind \in Yields
    BY <2>1, ResumedIs DEF Top, Last
  <2>3. Len(s) \in Nat
    BY <2>2, LenProperties
  <2>4. s # <<>>
    BY <2>2, EmptySeq
  <2>5. s[Len(s)].at \notin Waits
    BY <2>2, <2>3 DEF StackShape
  <2>6. QED
    BY <2>2, <2>3, <2>4, <2>5
<1>2. throw \in Interrupts /\ stray \in BOOLEAN /\ (throw = "end" => p # InitialProcess)
  <2>1. interrupts[p] \in Seq(Interrupts) /\ interrupts[p] # <<>> /\ stray \in BOOLEAN
    BY DEF ShapeInv, TypeOK, RunInterrupt
  <2>2. throw \in Interrupts /\ throw = interrupts[p][1] /\ 1 \in 1..Len(interrupts[p])
    BY <2>1
  <2>3. QED
    BY <2>1, <2>2 DEF ShapeInv
<1>3. CASE throw = "call"
  <2> DEFINE r == Append(s, NewFrame("interrupt", "run"))
  <2>1. Result(r)
    BY <1>3, Zenon DEF RunInterrupt
  <2>2. /\ NewFrame("interrupt", "run") \in Frame /\ FrameShape(NewFrame("interrupt", "run"))
        /\ NewFrame("interrupt", "run").kind # "function" /\ NewFrame("interrupt", "run").exit = 0
        /\ NewFrame("interrupt", "run").at \notin Waits
    BY NewFrameIs DEF FrameShape, Waits
  <2>3. r \in Seq(Frame) /\ Len(s) <= Len(r) /\ r # <<>>
    BY <1>1, <2>2, PushIs, EmptySeq
  <2>4. /\ stack' = [stack EXCEPT ![p] = r] /\ current_process' = p /\ abandoned' = abandoned
    BY <1>1, <2>1, <2>3, GoesOnIs
  <2>5. StackStep(p, r)
    <3>1. Len(stack[p]) > 0 /\ Top(p).at \notin Waits
      BY <1>1 DEF Top, Last
    <3> DEFINE f == NewFrame("interrupt", "run")
    <3>2. /\ f \in Frame /\ FrameShape(f) /\ f.kind # "function" /\ f.exit = 0 /\ f.at \notin Waits
          /\ stack' = [stack EXCEPT ![p] = Append(stack[p], f)]
      BY <2>2, <2>4
    <3> HIDE DEF f
    <3>3. StackStep(p, Append(stack[p], f))
      BY <2>4, <3>1, <3>2, PushStep
    <3>4. QED
      BY <3>3 DEF f
  <2>6. stray' = stray
    BY <1>2, <1>3, <2>1
  <2>7. interrupts' = [interrupts EXCEPT ![p] = IF r = <<>> THEN <<>> ELSE Tail(interrupts[p])]
    BY <2>1
  <2>8. QED
    BY <1>3, <2>4, <2>5, <2>6, <2>7
<1>4. CASE throw = "end"
  <2> DEFINE r == Unwound(s, 1)
  <2>1. Result(r)
    BY <1>4, Zenon DEF RunInterrupt
  <2>2. Thrown(s, 1, r)
    BY <1>1, UnwoundIs
  <2>3. Cut(s, s)
    BY <1>1 DEF Cut, SameCall
  <2>4. GoesOn(p, s, r) /\ p # InitialProcess
    BY <1>2, <1>4, <2>1
  <2> HIDE DEF r
  <2>5. StackStep(p, r) /\ Abandons(s, r)
    BY <1>1, <2>2, <2>3, <2>4, ThrowStep
  <2>6. stray' = stray
    BY <1>2, <1>4, <2>1
  <2>7. interrupts' = [interrupts EXCEPT ![p] = IF r = <<>> THEN <<>> ELSE Tail(interrupts[p])]
    BY <2>1
  <2>8. QED
    BY <1>4, <2>2, <2>5, <2>6, <2>7
<1>5. CASE throw = "timer" /\ catches = {}
  <2>1. Result(s)
    BY <1>5, Zenon DEF RunInterrupt
  <2>2. stack' = [stack EXCEPT ![p] = s] /\ current_process' = p /\ abandoned' = abandoned
    <3>1. GoesOn(p, s, s) /\ Len(s) <= Len(s)
      BY <1>1, <2>1
    <3> HIDE DEF s
    <3>2. QED
      BY <1>1, <3>1, GoesOnIs
  <2>3. StackStep(p, s)
    BY <1>1, <2>2, SameStep
  <2>4. \A i \in 1..Len(s) : ~Catches(s[i])
    BY <1>1, <1>5
  <2>5. stray' = TRUE
    BY <1>5, <2>1
  <2>6. interrupts' = [interrupts EXCEPT ![p] = IF s = <<>> THEN <<>> ELSE Tail(interrupts[p])]
    BY <2>1
  <2>7. QED
    BY <1>5, <2>2, <2>3, <2>4, <2>5, <2>6
<1>6. CASE throw = "timer" /\ catches # {}
  <2> DEFINE k == Greatest(catches)
             r == Unwound(s, k)
  <2>1. Result(r)
    BY <1>6, Zenon DEF RunInterrupt
  <2>2. catches \subseteq 1..Len(s)
    BY <1>1
  <2>3. k \in catches
    <3> HIDE DEF catches
    <3>1. QED
      BY <1>1, <1>6, <2>2, GreatestIs
  <2>4. k \in 1..Len(s) /\ Catches(s[k])
    BY <2>2, <2>3
  <2>5. s[k].kind = "timeout" /\ k # 1
    BY <1>1, <2>4 DEF Catches, StackShape
  <2> HIDE DEF k
  <2>6. Thrown(s, k, r)
    BY <1>1, <2>4, UnwoundIs
  <2>7. Cut(s, s)
    BY <1>1 DEF Cut, SameCall
  <2>8. GoesOn(p, s, r)
    BY <2>1
  <2> HIDE DEF r
  <2>9. StackStep(p, r) /\ Abandons(s, r)
    BY <1>1, <2>4, <2>5, <2>6, <2>7, <2>8, ThrowStep
  <2>10. stray' = stray
    BY <1>2, <1>6, <2>1
  <2>11. interrupts' = [interrupts EXCEPT ![p] = IF r = <<>> THEN <<>> ELSE Tail(interrupts[p])]
    BY <2>1
  <2>12. QED
    BY <1>6, <2>4, <2>6, <2>9, <2>10, <2>11
<1>7. QED
  BY <1>2, <1>3, <1>4, <1>5, <1>6 DEF Interrupts

(* The clean-up form on top of t has run: the activation returns, or the throw that
   was on its way goes on.                                                 *)
LEMMA AfterStep ==
  ASSUME ShapeInv, NEW p \in Processes, NEW t \in Seq(Frame), StackShape(t), Cut(stack[p], t),
         Len(t) > 0, t[Len(t)] = stack[p][Len(t)],
         \/ t[Len(t)].kind = "lock" /\ t[Len(t)].at = "cleanup"
         \/ t[Len(t)].kind = "timeout" /\ t[Len(t)].at = "destroyed",
         NEW r, r = AfterCleanup(t), GoesOn(p, Pop(t), r)
  PROVE  /\ StackStep(p, r) /\ Abandons(Pop(t), r)
         /\ \/ t[Len(t)].exit = 0 /\ r = Pop(t)
            \/ t[Len(t)].exit \in 1..Len(t) /\ Thrown(t, t[Len(t)].exit, r)
<1> DEFINE n == Len(t)
           k == t[n].exit
<1>1. n \in Nat /\ n > 0 /\ n \in 1..n
  BY LenProperties
<1>2. /\ n # 1 /\ k \in Nat /\ k <= n
      /\ k > 1 => t[k].kind = "timeout"
      /\ t[n - 1].at \notin Waits
  <2>1. n # 1 /\ k <= n /\ (k > 1 => t[k].kind = "timeout")
    BY <1>1 DEF StackShape
  <2>2. k \in Nat
    BY <1>1, FrameIs
  <2>3. n - 1 \in 1..n /\ n - 1 + 1 = n
    <3> HIDE DEF n
    <3>1. QED
      BY <1>1, <2>1
  <2>4. t[n - 1].at \in Waits => t[n - 1 + 1].kind = "yield"
    BY <2>3 DEF StackShape
  <2>5. QED
    BY <2>1, <2>2, <2>3, <2>4
<1>3. n > 1 /\ n - 1 \in 1..n - 1
  <2> HIDE DEF n
  <2>1. QED
    BY <1>1, <1>2
<1>4. ~HasCleanup(t[n])
  BY DEF HasCleanup
<1>5. k = 0 => r = Pop(t)
  BY <1>2, <1>3, <1>4, AfterCleanupIs DEF Last
<1>6. k # 0 => Thrown(t, k, r)
  BY <1>2, <1>3, <1>4, AfterCleanupIs DEF Last
<1>7. p = InitialProcess => k # 1
  <2>1. n \in 1..Len(stack[p])
    BY <1>1, LenProperties DEF Cut, ShapeInv, TypeOK
  <2>2. QED
    BY <2>1 DEF ShapeInv
<1>8. CASE k = 0
  <2>1. StackShape(r) /\ r # <<>>
    BY <1>2, <1>3, <1>5, <1>8, PopShape
  <2>2. r \in Seq(Frame) /\ Len(r) = n - 1 /\ Cut(t, r) /\ r[n - 1] = t[n - 1]
    BY <1>1, <1>3, <1>5, <1>8, PopIs
  <2>3. Cut(stack[p], r)
    BY <2>2, CutCut DEF ShapeInv, TypeOK
  <2>4. /\ stack' = [stack EXCEPT ![p] = r] /\ current_process' = p
        /\ abandoned' = abandoned
    <3>1. GoesOn(p, r, r) /\ Len(r) <= Len(r)
      BY <1>1, <1>5, <1>8, <2>2
    <3>2. QED
      BY <2>1, <2>2, <3>1, GoesOnIs
  <2>5. Abandons(Pop(t), r)
    <3>1. \A i \in Len(r) + 1..Len(r) : FALSE
      BY <1>1, <2>2
    <3>2. Abandons(r, r)
      BY <3>1 DEF Abandons
    <3>3. QED
      BY <1>5, <1>8, <3>2
  <2>6. p = InitialProcess => r[Len(r)].exit # 1
    <3>1. n <= Len(stack[p]) /\ Len(stack[p]) \in Nat /\ \A i \in 1..n : i < n => t[i] = stack[p][i]
      BY LenProperties DEF Cut, ShapeInv, TypeOK
    <3>2. n - 1 \in 1..Len(stack[p]) /\ t[n - 1] = stack[p][n - 1]
      <4> HIDE DEF n
      <4>1. QED
        BY <1>1, <1>3, <3>1
    <3>3. QED
      BY <2>2, <3>2 DEF ShapeInv
  <2>7. abandoned' \subseteq Locks \union Timers
    BY <2>4 DEF ShapeInv, TypeOK
  <2>8. StackStep(p, r)
    BY <2>1, <2>3, <2>4, <2>6, <2>7, CutStep
  <2>9. QED
    BY <1>5, <1>8, <2>5, <2>8
<1>9. CASE k # 0
  <2>1. k \in 1..Len(t)
    BY <1>1, <1>2, <1>9
  <2>2. GoesOn(p, Pop(t), r)
    OBVIOUS
  <2> DEFINE from == Pop(t)
  <2>3. from = t \/ from = Pop(t)
    OBVIOUS
  <2> HIDE DEF from, k
  <2>4. StackStep(p, r) /\ Abandons(from, r)
    <3>1. GoesOn(p, from, r) /\ Thrown(t, k, r) /\ (k = 1 => p # InitialProcess)
      BY <1>6, <1>7, <1>9 DEF from
    <3>2. k \in 1..Len(t) /\ (k > 1 => t[k].kind = "timeout")
      BY <1>2, <2>1 DEF k
    <3>3. QED
      BY <2>3, <3>1, <3>2, ThrowStep
  <2>5. QED
    BY <1>6, <1>9, <2>1, <2>4 DEF from, k
<1>10. QED
  BY <1>8, <1>9

LEMMA ReturnIs ==
  ASSUME ShapeInv, NEW p \in Processes, Return(p)
  PROVE  LET t == Pop(stack[p]) IN
         \E r :
           /\ StackStep(p, r)
           /\ \/ t[Len(t)].at # "destroyed" /\ r = t /\ abandoned' = abandoned
              \/ /\ t[Len(t)].at = "destroyed" /\ Abandons(Pop(t), r)
                 /\ \/ t[Len(t)].exit = 0 /\ r = Pop(t)
                    \/ t[Len(t)].exit \in 1..Len(t) /\ Thrown(t, t[Len(t)].exit, r)
<1> DEFINE t == Pop(stack[p])
           n == Len(t)
<1>1. /\ stack[p] \in Seq(Frame) /\ StackShape(stack[p]) /\ Len(stack[p]) > 1
      /\ t \in Seq(Frame) /\ n = Len(stack[p]) - 1
      /\ \A i \in 1..Len(stack[p]) - 1 : t[i] = stack[p][i]
      /\ Cut(stack[p], t)
  BY ResumedIs DEF Return
<1>2. /\ Len(stack[p]) \in Nat /\ n \in Nat /\ n > 0 /\ n \in 1..n
      /\ t[n] = stack[p][n] /\ n \in 1..Len(stack[p])
  <2> HIDE DEF t
  <2>1. Len(stack[p]) \in Nat /\ n \in Nat
    BY <1>1, LenProperties
  <2>2. n > 0 /\ n \in 1..n /\ n \in 1..Len(stack[p]) - 1 /\ n \in 1..Len(stack[p])
    <3> HIDE DEF n
    <3>1. QED
      BY <1>1, <2>1
  <2>3. QED
    BY <1>1, <2>1, <2>2
<1>3. t[n].at \notin Waits
  BY <1>1 DEF Return, Waiting, Last
<1>4. StackShape(t) /\ t # <<>>
  <2>1. stack[p][Len(stack[p]) - 1].at \notin Waits
    BY <1>1, <1>2, <1>3
  <2>2. QED
    BY <1>1, <2>1, PopShape
<1>5. IF t[n].at = "destroyed" THEN GoesOn(p, Pop(t), AfterCleanup(t)) ELSE GoesOn(p, t, t)
  BY DEF Return, Last
<1>6. CASE t[n].at # "destroyed"
  <2>1. GoesOn(p, t, t) /\ Len(t) <= Len(t)
    BY <1>2, <1>5, <1>6
  <2>2. stack' = [stack EXCEPT ![p] = t] /\ current_process' = p /\ abandoned' = abandoned
    <3> HIDE DEF t
    <3>1. QED
      BY <1>1, <1>4, <2>1, GoesOnIs
  <2>3. StackStep(p, t)
    <3>1. Len(stack[p]) > 1 /\ stack[p][Len(stack[p]) - 1].at \notin Waits
      BY <1>1, <1>2, <1>3
    <3>2. QED
      BY <2>2, <3>1, PopStep
  <2>4. QED
    BY <1>6, <2>2, <2>3
<1>7. CASE t[n].at = "destroyed"
  <2> DEFINE r == AfterCleanup(t)
  <2>1. t[n].kind = "timeout"
    <3>1. FrameShape(t[n])
      BY <1>2, <1>4 DEF StackShape
    <3>2. QED
      BY <1>7, <3>1 DEF FrameShape, Waits
  <2>2. GoesOn(p, Pop(t), r)
    BY <1>5, <1>7
  <2> HIDE DEF t
  <2>3. r = AfterCleanup(t)
    OBVIOUS
  <2> HIDE DEF r
  <2>4. /\ StackStep(p, r) /\ Abandons(Pop(t), r)
        /\ \/ t[Len(t)].exit = 0 /\ r = Pop(t)
           \/ t[Len(t)].exit \in 1..Len(t) /\ Thrown(t, t[Len(t)].exit, r)
    BY <1>1, <1>2, <1>4, <1>7, <2>1, <2>2, <2>3, AfterStep
  <2>5. QED
    BY <1>7, <2>4 DEF t
<1>8. QED
  BY <1>6, <1>7

(* Who waits is below a call of process-yield. *)
LEMMA WaitingIs ==
  ASSUME ShapeInv, NEW p \in Processes, Len(stack[p]) > 1, Waiting(p)
  PROVE  LET n == Len(stack[p]) - 1
         IN  /\ n \in 1..Len(stack[p]) /\ n < Len(stack[p]) /\ Pop(stack[p])[n] = stack[p][n]
             /\ Last(Pop(stack[p])) = stack[p][n] /\ Len(Pop(stack[p])) = n
             /\ stack[p][n].kind = "lock" /\ stack[p][n].lock \in Locks
             /\ stack[p][n].at \in Waits /\ stack[p][n].exit = 0
             /\ stack[p][Len(stack[p])].kind = "yield"
<1> DEFINE s == stack[p]
           n == Len(s) - 1
<1>1. s \in Seq(Frame) /\ StackShape(s) /\ Len(s) \in Nat /\ Len(s) > 1
  BY LenProperties DEF ShapeInv, TypeOK
<1>2. n \in 1..Len(s) /\ n < Len(s) /\ n + 1 = Len(s)
  BY <1>1
<1>3. Len(Pop(s)) = n /\ Pop(s)[n] = s[n]
  BY <1>1, <1>2, PopIs
<1>4. s[n].at \in Waits
  BY <1>3 DEF Waiting, Last
<1>5. FrameShape(s[n]) /\ s[n + 1].kind = "yield"
  BY <1>1, <1>2, <1>4 DEF StackShape
<1>6. s[n].kind = "lock" /\ s[n].lock \in Locks /\ s[n].exit = 0
  BY <1>4, <1>5 DEF FrameShape, Waits
<1>7. QED
  BY <1>2, <1>3, <1>4, <1>5, <1>6 DEF Last

LEMMA WaitEndsIs ==
  ASSUME ShapeInv, NEW p \in Processes, MayResume(p), Waiting(p), NEW a \in {"body", "cleanup"},
         GoesOn(p, Pop(stack[p]), Moved(Pop(stack[p]), a))
  PROVE  StackStep(p, Moved(Pop(stack[p]), a)) /\ abandoned' = abandoned
<1> DEFINE t == Pop(stack[p])
           n == Len(t)
           r == Moved(t, a)
<1>1. /\ Len(stack[p]) > 1 /\ t \in Seq(Frame) /\ n = Len(stack[p]) - 1
      /\ Cut(stack[p], t) /\ stack[p] \in Seq(Frame)
  BY ResumedIs
<1>2. n \in Nat /\ n > 0
  BY <1>1, LenProperties
<1>3. t[n] = stack[p][n] /\ t[n].kind = "lock" /\ t[n].exit = 0
  BY <1>1, WaitingIs
<1>4. a \in Places \ Waits
  BY DEF Places, Waits
<1>5. r \in Seq(Frame) /\ Len(r) = n
  <2> HIDE DEF t
  <2>1. QED
    BY <1>1, <1>2, <1>4, MovedIs
<1>6. r # <<>>
  BY <1>2, <1>5, EmptySeq
<1>7. GoesOn(p, t, r) /\ Len(t) <= Len(r)
  BY <1>2, <1>5
<1> HIDE DEF t, r
<1>8. stack' = [stack EXCEPT ![p] = r] /\ current_process' = p /\ abandoned' = abandoned
  BY <1>1, <1>5, <1>6, <1>7, GoesOnIs
<1>9. stack' = [stack EXCEPT ![p] = Moved(t, a)]
  BY <1>8 DEF r
<1>10. StackStep(p, Moved(t, a))
  BY <1>1, <1>2, <1>3, <1>4, <1>8, <1>9, MoveStep
<1>11. QED
  BY <1>8, <1>10 DEF t

(* The activation that runs goes on at another place. *)
LEMMA RunsOnIs ==
  ASSUME ShapeInv, NEW p \in Processes, Runs(p), NEW a \in Places \ Waits,
         \/ Top(p).kind = "lock" /\ a \in {"body", "cleanup"}
         \/ Top(p).kind = "timeout" /\ a \in {"body", "cleanup", "destroyed"},
         a = "body" => Top(p).exit = 0,
         stack' = [stack EXCEPT ![p] = Moved(stack[p], a)],
         current_process' = current_process, abandoned' = abandoned
  PROVE  StackStep(p, Moved(stack[p], a))
<1> DEFINE s == stack[p]
<1>1. /\ p = current_process /\ s \in Seq(Frame) /\ Len(s) > 0 /\ Len(s) \in Nat
      /\ Top(p) = s[Len(s)]
  BY RunningIs
<1>2. Cut(s, s)
  BY <1>1 DEF Cut, SameCall
<1> HIDE DEF s
<1>3. s[Len(s)] = stack[p][Len(s)] /\ Cut(stack[p], s)
  BY <1>2 DEF s
<1>4. \/ s[Len(s)].kind = "lock" /\ a \in {"body", "cleanup"}
      \/ s[Len(s)].kind = "timeout" /\ a \in {"body", "cleanup", "destroyed", "forms"}
  BY <1>1
<1>5. s[Len(s)].exit # 0 => a \in {"cleanup", "destroyed"}
  BY <1>1
<1>6. stack' = [stack EXCEPT ![p] = Moved(s, a)]
  BY DEF s
<1>7. current_process' = p
  BY <1>1
<1>8. StackStep(p, Moved(s, a))
  BY <1>1, <1>3, <1>4, <1>5, <1>6, <1>7, MoveStep
<1>9. QED
  BY <1>8 DEF s

(* A call of what returns at once, or of another macro. *)
LEMMA CallsIs ==
  ASSUME ShapeInv, NEW p \in Processes, Runs(p),
         NEW f \in Frame, FrameShape(f), f.kind # "function", f.exit = 0, f.at \notin Waits,
         stack' = [stack EXCEPT ![p] = Append(stack[p], f)],
         current_process' = current_process, abandoned' = abandoned
  PROVE  StackStep(p, Append(stack[p], f))
<1>1. p = current_process /\ Len(stack[p]) > 0 /\ Top(p).at \notin Waits
  BY RunningIs
<1>2. current_process' = p
  BY <1>1
<1>3. QED
  BY <1>1, <1>2, PushStep

(* The activation that runs calls process-yield. *)
LEMMA YieldsIs ==
  ASSUME ShapeInv, NEW p \in Processes, Runs(p), NEW a \in Places,
         \/ Top(p).kind = "lock" /\ a \in Waits /\ Top(p).exit = 0
         \/ Top(p).kind = "timeout" /\ a = "destroyed",
         stack' = [stack EXCEPT ![p] = Append(Moved(stack[p], a), NewFrame("yield", "run"))],
         current_process' = current_process, abandoned' = abandoned
  PROVE  /\ StackStep(p, Append(Moved(stack[p], a), NewFrame("yield", "run")))
         /\ Grown(stack[p], Append(Moved(stack[p], a), NewFrame("yield", "run")))
<1> DEFINE s == stack[p]
           n == Len(s)
           m == Moved(s, a)
           f == NewFrame("yield", "run")
           r == Append(m, f)
<1>1. /\ p = current_process /\ s \in Seq(Frame) /\ StackShape(s) /\ n \in Nat /\ n > 0
      /\ Top(p) = s[n] /\ FrameShape(s[n])
  BY RunningIs
<1>2. /\ m \in Seq(Frame) /\ Len(m) = n /\ \A i \in 1..n : i < n => m[i] = s[i]
      /\ SameCall(m[n], s[n]) /\ m[n].at = a /\ m[n].exit = s[n].exit
  BY <1>1, MovedIs
<1>3. /\ f \in Frame /\ f.kind = "yield" /\ f.at = "run" /\ f.exit = 0
  BY NewFrameIs
<1> HIDE DEF m, f
<1>4. /\ r \in Seq(Frame) /\ Len(r) = n + 1
      /\ \A i \in 1..n : r[i] = m[i]
      /\ r[n + 1] = f
  BY <1>2, <1>3, PushIs
<1>5. r[n] = m[n]
  BY <1>1, <1>4
<1> HIDE DEF r
<1>6. Grown(s, r)
  BY <1>1, <1>2, <1>4 DEF Grown, SameCall
<1>7. FrameShape(r[n]) /\ FrameShape(r[n + 1])
  BY <1>1, <1>2, <1>3, <1>4, <1>5 DEF FrameShape, SameCall, Waits
<1>8. r[n + 1].at \notin Waits /\ r[n + 1].kind = "yield"
  BY <1>3, <1>4 DEF Waits
<1> HIDE DEF s
<1>9. StackShape(r)
  BY <1>1, <1>2, <1>3, <1>4, <1>5, <1>6, <1>7, <1>8, GrownShape
<1>10. stack' = [stack EXCEPT ![p] = r] /\ current_process' = p
  BY <1>1 DEF r, m, s, f
<1>11. StackStep(p, r)
  <2>1. /\ Grown(stack[p], r) /\ Len(stack[p]) > 0 /\ r[Len(stack[p])].exit = stack[p][Len(stack[p])].exit
        /\ r[Len(stack[p]) + 1].exit = 0
    BY <1>1, <1>2, <1>3, <1>4, <1>5, <1>6 DEF s
  <2>2. QED
    BY <1>9, <1>10, <2>1, GrownStep
<1>12. QED
  BY <1>6, <1>11 DEF r, m, s, f

(* The top frame, an interrupt or a with-timeout, returns. *)
LEMMA ReturnsIs ==
  ASSUME ShapeInv, NEW p \in Processes, Runs(p), Top(p).kind \in {"interrupt", "timeout"},
         stack' = [stack EXCEPT ![p] = Pop(stack[p])],
         current_process' = current_process, abandoned' = abandoned
  PROVE  StackStep(p, Pop(stack[p]))
<1> DEFINE s == stack[p]
           n == Len(s)
<1>1. /\ p = current_process /\ s \in Seq(Frame) /\ StackShape(s) /\ n \in Nat /\ n > 0
      /\ Top(p) = s[n]
  BY RunningIs
<1>2. n \in 1..n /\ n # 1
  <2>1. n \in 1..n
    BY <1>1
  <2>2. QED
    BY <1>1, <2>1 DEF StackShape
<1>3. n > 1 /\ n - 1 \in 1..n /\ n - 1 + 1 = n
  <2> HIDE DEF n
  <2>1. QED
    BY <1>1, <1>2
<1>4. s[n - 1].at \in Waits => s[n - 1 + 1].kind = "yield"
  BY <1>1, <1>3 DEF StackShape
<1>5. s[n - 1].at \notin Waits
  BY <1>1, <1>3, <1>4
<1>6. current_process' = p
  BY <1>1
<1>7. QED
  BY <1>3, <1>5, <1>6, PopStep

-----------------------------------------------------------------------------
(***************************************************************************)
(* Type correctness.                                                       *)
(***************************************************************************)
OthersTyped ==
  /\ lock_process \in [Locks -> Processes \union {None}]
  /\ interrupts \in [Processes -> Seq(Interrupts)]
  /\ timers \in [Timers -> {"unborn", "killed"} \union Processes]
  /\ expired \subseteq Timers /\ stray \in BOOLEAN /\ ops \in 0..MaxOps
  /\ \A i \in 1..Len(interrupts[InitialProcess]) : interrupts[InitialProcess][i] # "end"

LEMMA OthersAre ==
  ASSUME ShapeInv
  PROVE  OthersTyped
BY DEF ShapeInv, TypeOK, OthersTyped

LEMMA ShapeStep ==
  ASSUME ShapeInv, NEW p \in Processes, Runs(p) \/ MayResume(p), NEW r, StackStep(p, r), OthersTyped'
  PROVE  ShapeInv'
<1>1. /\ stack' = [stack EXCEPT ![p] = r] /\ r \in Seq(Frame) /\ StackShape(r)
      /\ current_process' = IF r = <<>> THEN InitialProcess ELSE p
      /\ p = InitialProcess => r # <<>> /\ \A i \in 1..Len(r) : r[i].exit # 1
      /\ abandoned' \subseteq Locks \union Timers
  BY DEF StackStep
<1>2. /\ stack \in [Processes -> Seq(Frame)] /\ current_process \in Processes
      /\ \A q \in Processes : StackShape(stack[q])
      /\ \A q \in Processes \ {current_process} : Alive(q) => Top(q).kind \in Yields
      /\ Alive(InitialProcess)
      /\ \A i \in 1..Len(stack[InitialProcess]) : stack[InitialProcess][i].exit # 1
  BY DEF ShapeInv, TypeOK
<1>3. InitialProcess \in Processes
  BY ConstantsAssumption
<1>4. /\ stack' \in [Processes -> Seq(Frame)] /\ stack'[p] = r
      /\ \A q \in Processes : q # p => stack'[q] = stack[q]
  BY <1>1, <1>2
<1>5. stack'[InitialProcess] # <<>>
  BY <1>1, <1>2, <1>3, <1>4 DEF Alive
<1>6. current_process' \in Processes /\ stack'[current_process'] # <<>>
  BY <1>1, <1>3, <1>4, <1>5
<1>7. TypeOK'
  BY <1>1, <1>4, <1>6 DEF TypeOK, OthersTyped, Alive
<1>8. \A q \in Processes : StackShape(stack'[q])
  BY <1>1, <1>2, <1>4
<1>9. ASSUME NEW q \in Processes \ {current_process'}, stack'[q] # <<>>
      PROVE  Last(stack'[q]).kind \in Yields
  <2>1. q # p
    BY <1>1, <1>4, <1>9
  <2>2. stack'[q] = stack[q] /\ Alive(q)
    BY <1>4, <1>9, <2>1 DEF Alive
  <2>3. CASE q # current_process
    BY <1>2, <2>2, <2>3 DEF Top
  <2>4. CASE q = current_process
    BY <2>1, <2>2, <2>4 DEF Runs, MayResume, Top
  <2>5. QED
    BY <2>3, <2>4
<1>10. \A i \in 1..Len(stack'[InitialProcess]) : stack'[InitialProcess][i].exit # 1
  BY <1>1, <1>2, <1>3, <1>4
<1>11. QED
  BY <1>5, <1>7, <1>8, <1>9, <1>10 DEF ShapeInv, OthersTyped, Alive, Top

LEMMA InitShape == Init => ShapeInv
<1> SUFFICES ASSUME Init
             PROVE  ShapeInv
  OBVIOUS
<1> DEFINE f == NewFrame("function", "run")
           y == NewFrame("yield", "run")
<1>1. /\ f \in Frame /\ f.kind = "function" /\ f.at = "run" /\ f.exit = 0
      /\ y \in Frame /\ y.kind = "yield" /\ y.at = "run" /\ y.exit = 0
  BY NewFrameIs
<1> HIDE DEF f, y
<1>2. FrameShape(f) /\ FrameShape(y)
  BY <1>1 DEF FrameShape
<1>3. StackShape(<<f>>) /\ StackShape(<<f, y>>)
  BY <1>1, <1>2 DEF StackShape, Waits
<1>4. stack = [p \in Processes |-> IF p = InitialProcess THEN <<f>> ELSE <<f, y>>]
  BY DEF Init, f, y
<1>5. \A p \in Processes : stack[p] = IF p = InitialProcess THEN <<f>> ELSE <<f, y>>
  BY <1>4
<1>6. InitialProcess \in Processes /\ MaxOps \in Nat /\ stack[InitialProcess] = <<f>>
  BY <1>5, ConstantsAssumption
<1>7. stack \in [Processes -> Seq(Frame)]
  BY <1>1, <1>4
<1>8. TypeOK
  <2>1. interrupts \in [Processes -> Seq(Interrupts)]
    BY DEF Init
  <2>2. current_process \in {p \in Processes : Alive(p)}
    BY <1>6 DEF Init, Alive
  <2>3. lock_process \in [Locks -> Processes \union {None}]
    BY DEF Init
  <2>4. timers \in [Timers -> {"unborn", "killed"} \union Processes]
    BY DEF Init
  <2>5. expired \subseteq Timers /\ abandoned \subseteq Locks \union Timers /\ stray \in BOOLEAN
    BY DEF Init
  <2>6. ops \in 0..MaxOps
    BY <1>6 DEF Init
  <2>7. QED
    BY <1>7, <2>1, <2>2, <2>3, <2>4, <2>5, <2>6 DEF TypeOK
<1>9. \A p \in Processes : StackShape(stack[p])
  BY <1>3, <1>5
<1>10. \A p \in Processes \ {current_process} : Top(p).kind \in Yields
  BY <1>1, <1>5 DEF Init, Top, Last, Yields
<1>11. Alive(InitialProcess) /\ \A i \in 1..Len(stack[InitialProcess]) : stack[InitialProcess][i].exit # 1
  BY <1>1, <1>6 DEF Alive
<1>12. \A i \in 1..Len(interrupts[InitialProcess]) : interrupts[InitialProcess][i] # "end"
  BY <1>6 DEF Init
<1>13. QED
  BY <1>8, <1>9, <1>10, <1>11, <1>12 DEF ShapeInv

(* The interrupts of a process after one was taken or put in front. *)
LEMMA PendingIs ==
  ASSUME NEW ints \in Seq(Interrupts)
  PROVE  /\ ints # <<>> =>
              /\ Tail(ints) \in Seq(Interrupts) /\ Len(Tail(ints)) = Len(ints) - 1
              /\ \A i \in 1..Len(ints) - 1 : Tail(ints)[i] = ints[i + 1]
              /\ Head(ints) = ints[1] /\ Len(ints) > 0
         /\ \A x \in Interrupts :
              /\ <<x>> \o ints \in Seq(Interrupts) /\ Len(<<x>> \o ints) = Len(ints) + 1
              /\ (<<x>> \o ints)[1] = x
              /\ \A i \in 2..Len(ints) + 1 : (<<x>> \o ints)[i] = ints[i - 1]
<1>1. ASSUME ints # <<>>
      PROVE  /\ Tail(ints) \in Seq(Interrupts) /\ Len(Tail(ints)) = Len(ints) - 1
             /\ \A i \in 1..Len(ints) - 1 : Tail(ints)[i] = ints[i + 1]
             /\ Head(ints) = ints[1] /\ Len(ints) > 0
  BY <1>1, HeadTailProperties, LenProperties, EmptySeq
<1>2. ASSUME NEW x \in Interrupts
      PROVE  /\ <<x>> \o ints \in Seq(Interrupts) /\ Len(<<x>> \o ints) = Len(ints) + 1
             /\ (<<x>> \o ints)[1] = x
             /\ \A i \in 2..Len(ints) + 1 : (<<x>> \o ints)[i] = ints[i - 1]
  OBVIOUS
<1>3. QED
  BY <1>1, <1>2

LEMMA RunInterruptShape ==
  ASSUME ShapeInv, NEW p \in Processes, RunInterrupt(p)
  PROVE  ShapeInv'
<1>1. MayResume(p) /\ interrupts[p] # <<>> /\ UNCHANGED <<lock_process, timers, expired, ops>>
  BY DEF RunInterrupt
<1>2. PICK r :
        /\ StackStep(p, r) /\ stray' \in BOOLEAN
        /\ interrupts' = [interrupts EXCEPT ![p] = IF r = <<>> THEN <<>> ELSE Tail(interrupts[p])]
  <2>1. stray \in BOOLEAN
    BY DEF ShapeInv, TypeOK
  <2>2. QED
    BY <2>1, RunInterruptIs
<1>3. OthersTyped /\ interrupts[p] \in Seq(Interrupts)
  BY OthersAre DEF OthersTyped
<1>4. /\ Tail(interrupts[p]) \in Seq(Interrupts) /\ Len(Tail(interrupts[p])) = Len(interrupts[p]) - 1
      /\ \A i \in 1..Len(interrupts[p]) - 1 : Tail(interrupts[p])[i] = interrupts[p][i + 1]
  BY <1>1, <1>3, PendingIs
<1>5. interrupts' \in [Processes -> Seq(Interrupts)]
  BY <1>2, <1>3, <1>4 DEF OthersTyped
<1>6. ASSUME NEW i \in 1..Len(interrupts'[InitialProcess])
      PROVE  interrupts'[InitialProcess][i] # "end"
  <2>1. InitialProcess \in Processes
    BY ConstantsAssumption
  <2>2. CASE p # InitialProcess
    <3>1. interrupts'[InitialProcess] = interrupts[InitialProcess]
      BY <1>2, <1>3, <2>1, <2>2 DEF OthersTyped
    <3>2. QED
      BY <1>3, <1>6, <3>1 DEF OthersTyped
  <2>3. CASE p = InitialProcess
    <3>1. interrupts'[p] = Tail(interrupts[p])
      BY <1>2, <1>3, <2>3 DEF OthersTyped, StackStep
    <3>2. i \in 1..Len(interrupts[p]) - 1 /\ i + 1 \in 1..Len(interrupts[p])
      BY <1>3, <1>4, <1>6, <2>3, <3>1, LenProperties
    <3>3. QED
      BY <1>3, <1>4, <2>3, <3>1, <3>2 DEF OthersTyped
  <2>4. QED
    BY <2>2, <2>3
<1>7. OthersTyped'
  BY <1>1, <1>2, <1>3, <1>5, <1>6 DEF OthersTyped
<1>8. QED
  BY <1>1, <1>2, <1>7, ShapeStep

LEMMA SendShape ==
  ASSUME ShapeInv, NEW p \in Processes, NEW q \in Processes, NEW x \in {"call", "end"}, Send(p, q, x)
  PROVE  /\ ShapeInv'
         /\ StackStep(p, Append(stack[p], NewFrame("yield", "run")))
<1>1. /\ Runs(p) /\ ops < MaxOps /\ (x = "end" => q # InitialProcess)
      /\ interrupts' = [interrupts EXCEPT ![q] = <<x>> \o interrupts[q]]
      /\ stack' = [stack EXCEPT ![p] = Append(stack[p], NewFrame("yield", "run"))]
      /\ ops' = ops + 1
      /\ UNCHANGED <<lock_process, current_process, timers, expired, abandoned, stray>>
  BY DEF Send, InCode
<1> DEFINE f == NewFrame("yield", "run")
<1>2. f \in Frame /\ FrameShape(f) /\ f.kind # "function" /\ f.exit = 0 /\ f.at \notin Waits
  BY NewFrameIs DEF FrameShape, Waits
<1>3. stack' = [stack EXCEPT ![p] = Append(stack[p], f)]
  BY <1>1
<1> HIDE DEF f
<1>4. StackStep(p, Append(stack[p], f))
  BY <1>1, <1>2, <1>3, CallsIs
<1>5. OthersTyped /\ interrupts[q] \in Seq(Interrupts) /\ x \in Interrupts
  BY OthersAre DEF OthersTyped, Interrupts
<1>6. /\ <<x>> \o interrupts[q] \in Seq(Interrupts) /\ Len(<<x>> \o interrupts[q]) = Len(interrupts[q]) + 1
      /\ (<<x>> \o interrupts[q])[1] = x
      /\ \A i \in 2..Len(interrupts[q]) + 1 : (<<x>> \o interrupts[q])[i] = interrupts[q][i - 1]
  BY <1>5, PendingIs
<1>7. interrupts' \in [Processes -> Seq(Interrupts)]
  BY <1>1, <1>5, <1>6 DEF OthersTyped
<1>8. ASSUME NEW i \in 1..Len(interrupts'[InitialProcess])
      PROVE  interrupts'[InitialProcess][i] # "end"
  <2>1. InitialProcess \in Processes
    BY ConstantsAssumption
  <2>2. CASE q # InitialProcess
    <3>1. interrupts'[InitialProcess] = interrupts[InitialProcess]
      BY <1>1, <1>5, <2>1, <2>2 DEF OthersTyped
    <3>2. QED
      BY <1>5, <1>8, <3>1 DEF OthersTyped
  <2>3. CASE q = InitialProcess
    <3>1. interrupts'[q] = <<x>> \o interrupts[q]
      BY <1>1, <1>5 DEF OthersTyped
    <3>2. CASE i = 1
      BY <1>1, <1>6, <2>3, <3>1, <3>2
    <3>3. CASE i # 1
      <4>1. i \in 2..Len(interrupts[q]) + 1 /\ i - 1 \in 1..Len(interrupts[q])
        BY <1>5, <1>6, <1>8, <2>3, <3>1, <3>3, LenProperties
      <4>2. QED
        BY <1>5, <1>6, <2>3, <3>1, <4>1 DEF OthersTyped
    <3>4. QED
      BY <3>2, <3>3
  <2>4. QED
    BY <2>2, <2>3
<1>9. ops' \in 0..MaxOps
  BY <1>1, <1>5, ConstantsAssumption DEF OthersTyped
<1>10. OthersTyped'
  BY <1>1, <1>5, <1>7, <1>8, <1>9 DEF OthersTyped
<1>11. ShapeInv'
  BY <1>1, <1>4, <1>10, ShapeStep
<1>12. QED
  BY <1>4, <1>11 DEF f

LEMMA TimerExpiresShape ==
  ASSUME ShapeInv, NEW t \in Timers, TimerExpires(t)
  PROVE  ShapeInv'
<1>1. /\ timers[t] \in Processes
      /\ interrupts' = IF Alive(timers[t])
           THEN [interrupts EXCEPT ![timers[t]] = << "timer" >> \o interrupts[timers[t]]]
           ELSE interrupts
      /\ timers' = [timers EXCEPT ![t] = "killed"]
      /\ expired' = expired \union {t}
      /\ UNCHANGED <<lock_process, stack, current_process, abandoned, stray, ops>>
  BY DEF TimerExpires
<1> DEFINE q == timers[t]
<1>2. OthersTyped /\ interrupts[q] \in Seq(Interrupts) /\ "timer" \in Interrupts
  BY <1>1, OthersAre DEF OthersTyped, Interrupts
<1>3. /\ << "timer" >> \o interrupts[q] \in Seq(Interrupts)
      /\ Len(<< "timer" >> \o interrupts[q]) = Len(interrupts[q]) + 1
      /\ (<< "timer" >> \o interrupts[q])[1] = "timer"
      /\ \A i \in 2..Len(interrupts[q]) + 1 : (<< "timer" >> \o interrupts[q])[i] = interrupts[q][i - 1]
  BY <1>2, PendingIs
<1>4. interrupts' \in [Processes -> Seq(Interrupts)]
  BY <1>1, <1>2, <1>3 DEF OthersTyped
<1>5. ASSUME NEW i \in 1..Len(interrupts'[InitialProcess])
      PROVE  interrupts'[InitialProcess][i] # "end"
  <2>1. InitialProcess \in Processes
    BY ConstantsAssumption
  <2>2. CASE q # InitialProcess \/ ~Alive(q)
    <3>1. interrupts'[InitialProcess] = interrupts[InitialProcess]
      BY <1>1, <1>2, <2>1, <2>2 DEF OthersTyped
    <3>2. QED
      BY <1>2, <1>5, <3>1 DEF OthersTyped
  <2>3. CASE q = InitialProcess /\ Alive(q)
    <3>1. interrupts'[q] = << "timer" >> \o interrupts[q]
      BY <1>1, <1>2, <2>1, <2>3 DEF OthersTyped
    <3>2. CASE i = 1
      BY <1>3, <2>3, <3>1, <3>2
    <3>3. CASE i # 1
      <4>1. i \in 2..Len(interrupts[q]) + 1 /\ i - 1 \in 1..Len(interrupts[q])
        BY <1>2, <1>3, <1>5, <2>3, <3>1, <3>3, LenProperties
      <4>2. QED
        BY <1>2, <1>3, <2>3, <3>1, <4>1 DEF OthersTyped
    <3>4. QED
      BY <3>2, <3>3
  <2>4. QED
    BY <2>2, <2>3
<1>6. timers' \in [Timers -> {"unborn", "killed"} \union Processes]
  BY <1>1, <1>2 DEF OthersTyped
<1>7. OthersTyped'
  BY <1>1, <1>2, <1>4, <1>5, <1>6 DEF OthersTyped
<1>8. QED
  BY <1>1, <1>7 DEF ShapeInv, TypeOK, OthersTyped, Alive, Top

LEMMA TakeLockIs ==
  ASSUME ShapeInv, NEW p \in Processes, NEW wait \in Waits \union {"cleanup"}, TakeLock(p, wait)
  PROVE  LET f == Top(p)
             free == lock_process[f.lock] = None
         IN  /\ Runs(p) /\ f.kind = "lock" /\ f.at = "try" /\ f.lock \in Locks /\ f.exit = 0
             /\ lock_process' = IF free THEN [lock_process EXCEPT ![f.lock] = p] ELSE lock_process
             /\ \E r :
                  /\ StackStep(p, r) /\ abandoned' = abandoned
                  /\ \/ (Reenters(f) \/ free) /\ r = Moved(stack[p], "body")
                     \/ ~Reenters(f) /\ ~free /\ r = Moved(stack[p], "cleanup")
                     \/ /\ ~Reenters(f) /\ ~free /\ ~f.have
                        /\ \E w \in Waits :
                             /\ r = Append(Moved(stack[p], w), NewFrame("yield", "run"))
                             /\ Grown(stack[p], r)
<1> DEFINE f == Top(p)
           free == lock_process[f.lock] = None
           place == IF Reenters(f) \/ free THEN "body" ELSE IF f.have THEN "cleanup" ELSE wait
           s == Moved(stack[p], place)
<1>1. /\ p = current_process /\ stack[p] \in Seq(Frame) /\ Len(stack[p]) > 0
      /\ f = stack[p][Len(stack[p])] /\ f \in Frame /\ FrameShape(f) /\ Runs(p)
      /\ f.kind = "lock" /\ f.at = "try"
  BY RunningIs DEF TakeLock, At
<1>2. f.lock \in Locks /\ f.exit = 0
  BY <1>1 DEF FrameShape
<1>3. place \in {"body", "cleanup"} \union Waits
  OBVIOUS
<1>4. place \in Places
  BY <1>3 DEF Places, Waits
<1>5. Last(s).at = place
  <2> HIDE DEF place
  <2>1. Len(s) = Len(stack[p]) /\ s[Len(stack[p])].at = place
    BY <1>1, <1>4, MovedIs
  <2>2. QED
    BY <2>1 DEF Last
<1>6. /\ lock_process' = IF free THEN [lock_process EXCEPT ![f.lock] = p] ELSE lock_process
      /\ stack' = [stack EXCEPT ![p] =
           IF Last(s).at \in Waits THEN Append(s, NewFrame("yield", "run")) ELSE s]
      /\ UNCHANGED <<interrupts, current_process, timers, expired, abandoned, stray, ops>>
  BY DEF TakeLock
<1>7. CASE place \in Waits
  <2>1. stack' = [stack EXCEPT ![p] = Append(s, NewFrame("yield", "run"))]
    BY <1>5, <1>6, <1>7
  <2>2. ~Reenters(f) /\ ~free /\ ~f.have
    BY <1>7 DEF Waits
  <2> HIDE DEF place
  <2>3. /\ StackStep(p, Append(s, NewFrame("yield", "run")))
        /\ Grown(stack[p], Append(s, NewFrame("yield", "run")))
    BY <1>1, <1>2, <1>4, <1>6, <1>7, <2>1, YieldsIs
  <2>4. QED
    BY <1>1, <1>2, <1>6, <1>7, <2>2, <2>3
<1>8. CASE place \in {"body", "cleanup"}
  <2>1. stack' = [stack EXCEPT ![p] = s] /\ place \in Places \ Waits
    BY <1>4, <1>5, <1>6, <1>8 DEF Waits
  <2>2. \/ (Reenters(f) \/ free) /\ place = "body"
        \/ ~Reenters(f) /\ ~free /\ place = "cleanup"
    BY <1>8 DEF Waits
  <2> HIDE DEF place
  <2>3. StackStep(p, s)
    BY <1>1, <1>2, <1>6, <1>8, <2>1, RunsOnIs
  <2>4. QED
    BY <1>1, <1>2, <1>6, <2>2, <2>3
<1>9. QED
  BY <1>3, <1>7, <1>8

(* The frame that with-lock-held puts on the stack. *)
LockFrame(p, l) == [NewFrame("lock", "try") EXCEPT !.lock = l, !.have = (lock_process[l] = p)]

LEMMA WithLockHeldIs ==
  ASSUME ShapeInv, NEW p \in Processes, NEW l \in Locks, WithLockHeld(p, l)
  PROVE  LET f == LockFrame(p, l)
         IN  /\ Runs(p) /\ f \in Frame /\ f.kind = "lock" /\ f.at = "try" /\ f.lock = l /\ f.exit = 0
             /\ f.have = (lock_process[l] = p)
             /\ StackStep(p, Append(stack[p], f))
<1> DEFINE f == LockFrame(p, l)
<1>1. /\ f \in Frame /\ f.kind = "lock" /\ f.at = "try" /\ f.lock = l /\ f.exit = 0
      /\ f.have = (lock_process[l] = p)
  BY DEF LockFrame, NewFrame, Frame
<1>2. FrameShape(f) /\ f.at \notin Waits
  BY <1>1 DEF FrameShape, Waits
<1>3. /\ Runs(p) /\ stack' = [stack EXCEPT ![p] = Append(stack[p], f)]
      /\ UNCHANGED <<lock_process, interrupts, current_process, timers, expired, abandoned, stray, ops>>
  BY DEF WithLockHeld, Calls, InCode, LockFrame
<1> HIDE DEF f
<1>4. StackStep(p, Append(stack[p], f))
  BY <1>1, <1>2, <1>3, CallsIs
<1>5. QED
  BY <1>1, <1>3, <1>4 DEF f

(* The frame that with-timeout puts on the stack. *)
TimeoutFrame(t) == [NewFrame("timeout", "start") EXCEPT !.timer = t]

LEMMA WithTimeoutIs ==
  ASSUME ShapeInv, NEW p \in Processes, NEW t \in Timers, WithTimeout(p, t)
  PROVE  LET f == TimeoutFrame(t)
         IN  /\ Runs(p) /\ f \in Frame /\ f.kind = "timeout" /\ f.at = "start" /\ f.timer = t
             /\ f.exit = 0
             /\ StackStep(p, Append(stack[p], f))
<1> DEFINE f == TimeoutFrame(t)
<1>1. /\ f \in Frame /\ f.kind = "timeout" /\ f.at = "start" /\ f.timer = t /\ f.exit = 0
  BY DEF TimeoutFrame, NewFrame, Frame
<1>2. FrameShape(f) /\ f.at \notin Waits
  BY <1>1 DEF FrameShape, Waits
<1>3. /\ Runs(p) /\ stack' = [stack EXCEPT ![p] = Append(stack[p], f)]
      /\ UNCHANGED <<lock_process, interrupts, current_process, expired, abandoned, stray, ops>>
  BY DEF WithTimeout, Calls, InCode, TimeoutFrame
<1> HIDE DEF f
<1>4. StackStep(p, Append(stack[p], f))
  BY <1>1, <1>2, <1>3, CallsIs
<1>5. QED
  BY <1>1, <1>3, <1>4 DEF f

LEMMA SigalrmIs ==
  ASSUME ShapeInv, NEW p \in Processes, Sigalrm(p)
  PROVE  Runs(p) /\ StackStep(p, Append(stack[p], NewFrame("sigalrm", "run")))
<1> DEFINE f == NewFrame("sigalrm", "run")
<1>1. f \in Frame /\ FrameShape(f) /\ f.kind # "function" /\ f.exit = 0 /\ f.at \notin Waits
  BY NewFrameIs DEF FrameShape, Waits
<1>2. /\ Runs(p) /\ stack' = [stack EXCEPT ![p] = Append(stack[p], f)]
      /\ UNCHANGED <<current_process, abandoned>>
  BY DEF Sigalrm
<1> HIDE DEF f
<1>3. StackStep(p, Append(stack[p], f))
  BY <1>1, <1>2, CallsIs
<1>4. QED
  BY <1>2, <1>3 DEF f

LEMMA BodyReturnsIs ==
  ASSUME ShapeInv, NEW p \in Processes, BodyReturns(p)
  PROVE  Runs(p) /\ StackStep(p, Moved(stack[p], "cleanup"))
<1>1. Runs(p) /\ "cleanup" \in Places \ Waits /\ Top(p).kind \in {"lock", "timeout"}
  BY DEF BodyReturns, Places, Waits
<1>2. /\ stack' = [stack EXCEPT ![p] = Moved(stack[p], "cleanup")]
      /\ current_process' = current_process /\ abandoned' = abandoned
  BY DEF BodyReturns
<1>3. QED
  BY <1>1, <1>2, RunsOnIs

LEMMA ProtectBodyIs ==
  ASSUME ShapeInv, NEW p \in Processes, ProtectBody(p)
  PROVE  Runs(p) /\ StackStep(p, Moved(stack[p], "body"))
<1>1. Runs(p) /\ "body" \in Places \ Waits /\ Top(p).kind = "timeout" /\ Top(p).at = "start"
  BY DEF ProtectBody, At, Places, Waits
<1>2. /\ stack' = [stack EXCEPT ![p] = Moved(stack[p], "body")]
      /\ current_process' = current_process /\ abandoned' = abandoned
  BY DEF ProtectBody
<1>3. Top(p).exit = 0
  BY <1>1, RunningIs DEF FrameShape
<1>4. QED
  BY <1>1, <1>2, <1>3, RunsOnIs

LEMMA DestroyTimerIs ==
  ASSUME ShapeInv, NEW p \in Processes, DestroyTimer(p)
  PROVE  LET r == Append(Moved(stack[p], "destroyed"), NewFrame("yield", "run"))
         IN  Runs(p) /\ StackStep(p, r) /\ Grown(stack[p], r)
<1>1. Runs(p) /\ "destroyed" \in Places /\ Top(p).kind = "timeout"
  BY DEF DestroyTimer, At, Places
<1>2. /\ stack' = [stack EXCEPT ![p] = Append(Moved(stack[p], "destroyed"), NewFrame("yield", "run"))]
      /\ current_process' = current_process /\ abandoned' = abandoned
  BY DEF DestroyTimer
<1>3. QED
  BY <1>1, <1>2, YieldsIs

LEMMA ReleaseLockIs ==
  ASSUME ShapeInv, NEW p \in Processes, ReleaseLock(p)
  PROVE  LET s == stack[p]
             f == s[Len(s)]
         IN  /\ Runs(p) /\ f.kind = "lock" /\ f.at = "cleanup" /\ f.lock \in Locks
             /\ lock_process' = IF ~f.have /\ lock_process[f.lock] = p
                                  THEN [lock_process EXCEPT ![f.lock] = None] ELSE lock_process
             /\ \E r :
                  /\ StackStep(p, r) /\ Abandons(Pop(s), r)
                  /\ interrupts' = [interrupts EXCEPT ![p] = IF r = <<>> THEN <<>> ELSE @]
                  /\ \/ f.exit = 0 /\ r = Pop(s)
                     \/ f.exit \in 1..Len(s) /\ Thrown(s, f.exit, r)
<1> DEFINE s == stack[p]
           f == s[Len(s)]
           r == AfterCleanup(s)
<1>1. /\ s \in Seq(Frame) /\ StackShape(s) /\ Len(s) > 0 /\ Len(s) \in Nat /\ Runs(p)
      /\ f.kind = "lock" /\ f.at = "cleanup" /\ FrameShape(f) /\ Top(p) = f
  BY RunningIs DEF ReleaseLock, At
<1>2. f.lock \in Locks
  BY <1>1 DEF FrameShape
<1>3. /\ lock_process' = IF ~f.have /\ lock_process[f.lock] = p
                           THEN [lock_process EXCEPT ![f.lock] = None] ELSE lock_process
      /\ GoesOn(p, Pop(s), r)
      /\ interrupts' = [interrupts EXCEPT ![p] = IF stack'[p] = <<>> THEN <<>> ELSE @]
  BY <1>1 DEF ReleaseLock
<1>4. Cut(s, s) /\ s[Len(s)] = stack[p][Len(s)]
  BY <1>1 DEF Cut, SameCall
<1>5. r = AfterCleanup(s)
  OBVIOUS
<1> HIDE DEF r
<1>6. /\ StackStep(p, r) /\ Abandons(Pop(s), r)
      /\ \/ f.exit = 0 /\ r = Pop(s)
         \/ f.exit \in 1..Len(s) /\ Thrown(s, f.exit, r)
  BY <1>1, <1>3, <1>4, <1>5, AfterStep
<1>7. stack'[p] = r
  BY <1>6 DEF StackStep, ShapeInv, TypeOK
<1>8. QED
  BY <1>1, <1>2, <1>3, <1>6, <1>7

LEMMA NextShape == ShapeInv /\ [Next]_vars => ShapeInv'
<1> SUFFICES ASSUME ShapeInv, [Next]_vars
             PROVE  ShapeInv'
  OBVIOUS
<1>1. OthersTyped
  BY OthersAre
<1>2. CASE UNCHANGED vars
  BY <1>2 DEF ShapeInv, TypeOK, vars, Alive, Top
<1>3. ASSUME NEW p \in Processes, RunInterrupt(p)
      PROVE  ShapeInv'
  BY <1>3, RunInterruptShape
<1>4. ASSUME NEW p \in Processes, Return(p)
      PROVE  ShapeInv'
  <2>1. MayResume(p) /\ OthersTyped'
    BY <1>1, <1>4 DEF Return, OthersTyped
  <2>2. PICK r : StackStep(p, r)
    BY <1>4, ReturnIs
  <2>3. QED
    BY <2>1, <2>2, ShapeStep
<1>5. ASSUME NEW p \in Processes, LockWaitSucceeds(p)
      PROVE  ShapeInv'
  <2>1. /\ MayResume(p) /\ Waiting(p) /\ GoesOn(p, Pop(stack[p]), Moved(Pop(stack[p]), "body"))
        /\ lock_process' = [lock_process EXCEPT ![Last(Pop(stack[p])).lock] = p]
        /\ UNCHANGED <<interrupts, timers, expired, stray, ops>>
    BY <1>5 DEF LockWaitSucceeds
  <2>2. StackStep(p, Moved(Pop(stack[p]), "body"))
    BY <2>1, WaitEndsIs
  <2>3. OthersTyped'
    BY <1>1, <2>1 DEF OthersTyped
  <2>4. QED
    BY <2>1, <2>2, <2>3, ShapeStep
<1>6. ASSUME NEW p \in Processes, LockWaitTimesOut(p)
      PROVE  ShapeInv'
  <2>1. /\ MayResume(p) /\ Waiting(p) /\ GoesOn(p, Pop(stack[p]), Moved(Pop(stack[p]), "cleanup"))
        /\ UNCHANGED <<lock_process, interrupts, timers, expired, stray, ops>>
    BY <1>6 DEF LockWaitTimesOut
  <2>2. StackStep(p, Moved(Pop(stack[p]), "cleanup"))
    BY <2>1, WaitEndsIs
  <2>3. OthersTyped'
    BY <1>1, <2>1 DEF OthersTyped
  <2>4. QED
    BY <2>1, <2>2, <2>3, ShapeStep
<1>7. ASSUME NEW p \in Processes, Sigalrm(p)
      PROVE  ShapeInv'
  <2>1. OthersTyped'
    BY <1>1, <1>7 DEF Sigalrm, OthersTyped
  <2>2. QED
    BY <1>7, <2>1, SigalrmIs, ShapeStep
<1>8. ASSUME NEW p \in Processes, InterruptReturn(p)
      PROVE  ShapeInv'
  <2>1. OthersTyped' /\ Runs(p)
    BY <1>1, <1>8 DEF InterruptReturn, At, OthersTyped
  <2>2. StackStep(p, Pop(stack[p]))
    BY <1>8, <2>1, ReturnsIs DEF InterruptReturn, At
  <2>3. QED
    BY <2>1, <2>2, ShapeStep
<1>9. ASSUME NEW p \in Processes, NEW q \in Processes, NEW x \in {"call", "end"}, Send(p, q, x)
      PROVE  ShapeInv'
  BY <1>9, SendShape
<1>10. ASSUME NEW p \in Processes, NEW l \in Locks, WithLockHeld(p, l)
       PROVE  ShapeInv'
  <2>1. OthersTyped'
    BY <1>1, <1>10 DEF WithLockHeld, OthersTyped
  <2>2. QED
    BY <1>10, <2>1, WithLockHeldIs, ShapeStep
<1>11. ASSUME NEW p \in Processes, NEW wait \in Waits \union {"cleanup"}, TakeLock(p, wait)
       PROVE  ShapeInv'
  <2>1. /\ Runs(p)
        /\ lock_process' = lock_process \/ lock_process' = [lock_process EXCEPT ![Top(p).lock] = p]
    BY <1>11, TakeLockIs
  <2>2. PICK r : StackStep(p, r)
    BY <1>11, TakeLockIs
  <2>3. OthersTyped'
    BY <1>1, <1>11, <2>1 DEF TakeLock, OthersTyped
  <2>4. QED
    BY <2>1, <2>2, <2>3, ShapeStep
<1>12. ASSUME NEW p \in Processes, BodyReturns(p)
       PROVE  ShapeInv'
  <2>1. OthersTyped'
    BY <1>1, <1>12 DEF BodyReturns, OthersTyped
  <2>2. QED
    BY <1>12, <2>1, BodyReturnsIs, ShapeStep
<1>13. ASSUME NEW p \in Processes, ReleaseLock(p)
       PROVE  ShapeInv'
  <2>1. PICK r : StackStep(p, r) /\ interrupts' = [interrupts EXCEPT ![p] = IF r = <<>> THEN <<>> ELSE @]
    BY <1>13, ReleaseLockIs
  <2>2. lock_process' \in [Locks -> Processes \union {None}]
    <3>1. \/ lock_process' = lock_process
          \/ \E l : lock_process' = [lock_process EXCEPT ![l] = None]
      BY <1>13, ReleaseLockIs
    <3>2. QED
      BY <1>1, <3>1 DEF OthersTyped
  <2>3. UNCHANGED <<timers, expired, stray, ops>>
    BY <1>13 DEF ReleaseLock
  <2>4. interrupts' \in [Processes -> Seq(Interrupts)]
    BY <1>1, <2>1 DEF OthersTyped
  <2>5. \A i \in 1..Len(interrupts'[InitialProcess]) : interrupts'[InitialProcess][i] # "end"
    <3>1. interrupts'[InitialProcess] = interrupts[InitialProcess]
      BY <1>1, <2>1, ConstantsAssumption DEF OthersTyped, StackStep
    <3>2. QED
      BY <1>1, <3>1 DEF OthersTyped
  <2>6. OthersTyped'
    BY <1>1, <2>2, <2>3, <2>4, <2>5 DEF OthersTyped
  <2>7. Runs(p)
    BY <1>13, ReleaseLockIs
  <2>8. QED
    BY <2>1, <2>6, <2>7, ShapeStep
<1>14. ASSUME NEW p \in Processes, NEW t \in Timers, WithTimeout(p, t)
       PROVE  ShapeInv'
  <2>1. OthersTyped'
    BY <1>1, <1>14 DEF WithTimeout, OthersTyped
  <2>2. QED
    BY <1>14, <2>1, WithTimeoutIs, ShapeStep
<1>15. ASSUME NEW p \in Processes, ProtectBody(p)
       PROVE  ShapeInv'
  <2>1. OthersTyped'
    BY <1>1, <1>15 DEF ProtectBody, OthersTyped
  <2>2. QED
    BY <1>15, <2>1, ProtectBodyIs, ShapeStep
<1>16. ASSUME NEW p \in Processes, DestroyTimer(p)
       PROVE  ShapeInv'
  <2>1. OthersTyped'
    BY <1>1, <1>16 DEF DestroyTimer, OthersTyped
  <2>2. QED
    BY <1>16, <2>1, DestroyTimerIs, ShapeStep
<1>17. ASSUME NEW p \in Processes, FormsReturn(p)
       PROVE  ShapeInv'
  <2>1. OthersTyped' /\ Runs(p)
    BY <1>1, <1>17 DEF FormsReturn, At, OthersTyped
  <2>2. StackStep(p, Pop(stack[p]))
    BY <1>17, <2>1, ReturnsIs DEF FormsReturn, At
  <2>3. QED
    BY <2>1, <2>2, ShapeStep
<1>18. ASSUME NEW t \in Timers, TimerExpires(t)
       PROVE  ShapeInv'
  BY <1>18, TimerExpiresShape
<1>19. QED
  BY <1>2, <1>3, <1>4, <1>5, <1>6, <1>7, <1>8, <1>9, <1>10, <1>11, <1>12, <1>13, <1>14, <1>15,
     <1>16, <1>17, <1>18 DEF Next

LEMMA StacksHaveShape == Spec => []ShapeInv
BY InitShape, NextShape, PTL DEF Spec

(* The variables have their types in every reachable state: no interrupt, throw or
   timeout leaves the scheduler with a process that has ended, and no stack has a
   frame that the macros do not make.                                      *)
THEOREM TypeCorrect == Spec => []TypeOK
<1>1. ShapeInv => TypeOK
  BY DEF ShapeInv
<1>2. QED
  BY <1>1, StacksHaveShape, PTL

-----------------------------------------------------------------------------
(***************************************************************************)
(* Locks and the activations that hold them.                               *)
(***************************************************************************)
Keeps(f) == f.kind = "lock" /\ (f.have \/ f.at = "body")

LEMMA LocksCut ==
  ASSUME NEW p, NEW s \in Seq(Frame), NEW r, Cut(s, r), NEW lp, NEW lp2, LocksOf(p, s, lp),
         \A i \in 1..Len(r) : Keeps(s[i]) /\ lp[s[i].lock] = p => lp2[s[i].lock] = p,
         r # <<>> /\ r[Len(r)].kind = "lock" =>
           /\ r[Len(r)].at = "body" =>
                lp2[r[Len(r)].lock] = p /\ (r[Len(r)].lock \in ErrorCheckLocks => ~r[Len(r)].have)
           /\ r[Len(r)].at \in Waits => ~r[Len(r)].have
  PROVE  LocksOf(p, r, lp2)
<1>1. Len(s) \in Nat /\ Len(r) \in Nat /\ Len(r) <= Len(s) /\ r \in Seq(Frame)
  BY LenProperties DEF Cut
<1>2. \A i \in 1..Len(r) : i \in 1..Len(s) /\ SameCall(r[i], s[i]) /\ (i < Len(r) => r[i] = s[i])
  BY <1>1 DEF Cut
<1>3. ASSUME NEW i \in 1..Len(r), r[i].kind = "lock"
      PROVE  /\ r[i].have \/ r[i].at = "body" => lp2[r[i].lock] = p
             /\ r[i].at \in Waits \/ (r[i].at = "body" /\ r[i].lock \in ErrorCheckLocks) => ~r[i].have
  <2>1. s[i].kind = "lock" /\ s[i].lock = r[i].lock /\ s[i].have = r[i].have
    BY <1>2, <1>3 DEF SameCall
  <2>2. /\ s[i].have \/ s[i].at = "body" => lp[s[i].lock] = p
        /\ s[i].at \in Waits \/ (s[i].at = "body" /\ s[i].lock \in ErrorCheckLocks) => ~s[i].have
    BY <1>2, <2>1 DEF LocksOf
  <2>3. s[i].have \/ s[i].at = "body" => lp2[s[i].lock] = p
    BY <2>1, <2>2 DEF Keeps
  <2>4. CASE i < Len(r)
    BY <1>2, <2>2, <2>3, <2>4
  <2>5. CASE i = Len(r)
    <3>1. r # <<>>
      BY <1>1, EmptySeq
    <3>2. QED
      BY <1>3, <2>1, <2>3, <2>5, <3>1
  <2>6. QED
    BY <1>1, <2>4, <2>5
<1>4. ASSUME NEW i \in 1..Len(r), NEW j \in 1..Len(r),
             i < j, r[i].kind = "lock", r[j].kind = "lock", r[i].lock = r[j].lock,
             r[i].have \/ r[i].at = "body"
      PROVE  r[j].have
  <2>1. i < Len(r)
    BY <1>1, <1>4
  <2>2. r[i] = s[i] /\ SameCall(r[j], s[j]) /\ i \in 1..Len(s) /\ j \in 1..Len(s)
    BY <1>2, <2>1
  <2>3. QED
    BY <1>4, <2>2 DEF LocksOf, SameCall
<1>5. QED
  BY <1>3, <1>4 DEF LocksOf

LEMMA LocksPush ==
  ASSUME NEW p, NEW s \in Seq(Frame), NEW f \in Frame, NEW lp, LocksOf(p, s, lp),
         f.kind = "lock" => f.at = "try" /\ f.have = (lp[f.lock] = p)
  PROVE  LocksOf(p, Append(s, f), lp)
<1> DEFINE r == Append(s, f)
<1>1. /\ r \in Seq(Frame) /\ Len(r) = Len(s) + 1 /\ Len(s) \in Nat
      /\ \A i \in 1..Len(s) : r[i] = s[i]
      /\ r[Len(s) + 1] = f
  BY PushIs, LenProperties
<1> HIDE DEF r
<1>2. ASSUME NEW i \in 1..Len(r), r[i].kind = "lock"
      PROVE  /\ r[i].have \/ r[i].at = "body" => lp[r[i].lock] = p
             /\ r[i].at \in Waits \/ (r[i].at = "body" /\ r[i].lock \in ErrorCheckLocks) => ~r[i].have
  <2>1. CASE i \in 1..Len(s)
    BY <1>1, <1>2, <2>1 DEF LocksOf
  <2>2. CASE i = Len(s) + 1
    BY <1>1, <1>2, <2>2 DEF Waits
  <2>3. QED
    BY <1>1, <2>1, <2>2
<1>3. ASSUME NEW i \in 1..Len(r), NEW j \in 1..Len(r),
             i < j, r[i].kind = "lock", r[j].kind = "lock", r[i].lock = r[j].lock,
             r[i].have \/ r[i].at = "body"
      PROVE  r[j].have
  <2>1. i \in 1..Len(s)
    BY <1>1, <1>3
  <2>2. CASE j \in 1..Len(s)
    BY <1>1, <1>3, <2>1, <2>2 DEF LocksOf
  <2>3. CASE j = Len(s) + 1
    <3>1. lp[s[i].lock] = p
      BY <1>1, <1>3, <2>1 DEF LocksOf
    <3>2. QED
      BY <1>1, <1>3, <2>1, <2>3, <3>1
  <2>4. QED
    BY <1>1, <2>2, <2>3
<1>4. LocksOf(p, r, lp)
  BY <1>2, <1>3 DEF LocksOf
<1>5. QED
  BY <1>4 DEF r

LEMMA LocksThrown ==
  ASSUME NEW p, NEW s \in Seq(Frame), NEW k, NEW r, Thrown(s, k, r), NEW lp, NEW lp2,
         LocksOf(p, s, lp),
         \A i \in 1..Len(r) : Keeps(s[i]) /\ lp[s[i].lock] = p => lp2[s[i].lock] = p
  PROVE  LocksOf(p, r, lp2)
<1>1. Cut(s, r) /\ (r # <<>> => r[Len(r)].at \in {"cleanup", "forms"})
  BY DEF Thrown
<1>2. QED
  BY <1>1, LocksCut DEF Waits

(* The activation i of lock l on the stack s will release it. *)
Holder(s, l, i) ==
  /\ IsLock(s[i], l) /\ ~s[i].have /\ s[i].at \in {"body", "cleanup"}
  /\ \A j \in i + 1..Len(s) : IsLock(s[j], l) => s[j].have

LEMMA HoldsIs ==
  ASSUME NEW s, NEW l
  PROVE  Holds(s, l) <=> \E i \in 1..Len(s) : Holder(s, l, i)
BY DEF Holds, Holder

LEMMA HolderCut ==
  ASSUME NEW s \in Seq(Frame), NEW r, Cut(s, r), NEW l, NEW i \in 1..Len(r), Holder(s, l, i),
         i = Len(r) => r[i].at \in {"body", "cleanup"}
  PROVE  Holds(r, l)
<1>1. Len(s) \in Nat /\ Len(r) \in Nat /\ Len(r) <= Len(s) /\ i \in Nat
  BY LenProperties DEF Cut
<1>2. IsLock(r[i], l) /\ ~r[i].have /\ r[i].at \in {"body", "cleanup"}
  BY <1>1 DEF Cut, Holder, IsLock, SameCall
<1>3. ASSUME NEW j \in i + 1..Len(r), IsLock(r[j], l)
      PROVE  r[j].have
  <2>1. j \in i + 1..Len(s) /\ j \in 1..Len(r)
    BY <1>1
  <2>2. SameCall(r[j], s[j])
    BY <2>1 DEF Cut
  <2>3. QED
    BY <1>3, <2>1, <2>2 DEF Holder, IsLock, SameCall
<1>4. QED
  BY <1>2, <1>3 DEF Holds

LEMMA HoldsPush ==
  ASSUME NEW s \in Seq(Frame), NEW f \in Frame, NEW l, Holds(s, l), IsLock(f, l) => f.have
  PROVE  Holds(Append(s, f), l)
<1> DEFINE r == Append(s, f)
<1>1. /\ r \in Seq(Frame) /\ Len(r) = Len(s) + 1 /\ Len(s) \in Nat
      /\ \A i \in 1..Len(s) : r[i] = s[i]
      /\ r[Len(s) + 1] = f
  BY PushIs, LenProperties
<1> HIDE DEF r
<1>2. PICK i \in 1..Len(s) : Holder(s, l, i)
  BY HoldsIs
<1>3. ASSUME NEW j \in i + 1..Len(r), IsLock(r[j], l)
      PROVE  r[j].have
  <2>1. CASE j = Len(s) + 1
    BY <1>1, <1>3, <2>1
  <2>2. CASE j # Len(s) + 1
    <3>1. j \in i + 1..Len(s) /\ j \in 1..Len(s)
      BY <1>1, <2>2
    <3>2. QED
      BY <1>1, <1>2, <1>3, <3>1 DEF Holder
  <2>3. QED
    BY <2>1, <2>2
<1>4. i \in 1..Len(r) /\ r[i] = s[i]
  BY <1>1
<1>5. Holds(r, l)
  BY <1>2, <1>3, <1>4 DEF Holds, Holder
<1>6. QED
  BY <1>5 DEF r

(* The lock of an activation that a throw has left is released, or abandoned. *)
LEMMA HoldsThrown ==
  ASSUME NEW s \in Seq(Frame), NEW k \in 1..Len(s), k > 1 => s[k].kind = "timeout",
         NEW r, Thrown(s, k, r), NEW l, NEW n \in {Len(s), Len(s) - 1}, NEW A,
         \A i \in Len(r) + 1..n : s[i].kind = "lock" /\ s[i].at = "cleanup" => s[i].lock \in A,
         n < Len(s) => (IsLock(s[Len(s)], l) => s[Len(s)].have),
         Holds(s, l)
  PROVE  Holds(r, l) \/ l \in A
<1>1. Len(s) \in Nat /\ Len(r) \in Nat /\ Len(r) <= Len(s) /\ Cut(s, r) /\ k \in Nat /\ k >= 1
  BY LenProperties DEF Thrown, Cut
<1>2. PICK i \in 1..Len(s) : Holder(s, l, i)
  BY HoldsIs
<1>3. CASE i \in 1..Len(r)
  <2>1. r # <<>>
    BY <1>3, EmptySeq
  <2>2. ASSUME i = Len(r)
        PROVE  r[i].at \in {"body", "cleanup"}
    BY <1>1, <1>2, <2>1, <2>2 DEF Thrown, Holder, IsLock
  <2>3. QED
    BY <1>1, <1>2, <1>3, <2>2, HolderCut
<1>4. CASE i \notin 1..Len(r)
  <2>1. i \in Len(r) + 1..Len(s)
    BY <1>1, <1>4
  <2>2. s[i].kind = "lock" /\ s[i].lock = l /\ s[i].at = "cleanup"
    BY <1>2, <2>1 DEF Thrown, Holder, IsLock, HasCleanup
  <2>3. i \in Len(r) + 1..n
    BY <1>1, <1>2, <2>1 DEF Holder
  <2>4. QED
    BY <2>2, <2>3
<1>5. QED
  BY <1>3, <1>4

LEMMA LockStep ==
  ASSUME ShapeInv, LockInv, NEW p \in Processes, NEW r, StackStep(p, r),
         \A l \in Locks, q \in Processes \ {p} : lock_process'[l] = q <=> lock_process[l] = q,
         LocksOf(p, r, lock_process'),
         \A l \in Locks : lock_process'[l] = p => l \in abandoned' \/ Holds(r, l)
  PROVE  LockInv'
<1>1. /\ stack \in [Processes -> Seq(Frame)] /\ stack' = [stack EXCEPT ![p] = r]
      /\ abandoned \subseteq abandoned'
  BY DEF ShapeInv, TypeOK, StackStep
<1>2. stack'[p] = r /\ \A q \in Processes : q # p => stack'[q] = stack[q]
  BY <1>1
<1>3. ASSUME NEW q \in Processes
      PROVE  LocksOf(q, stack'[q], lock_process')
  <2>1. CASE q = p
    BY <1>2, <2>1
  <2>2. CASE q # p
    <3> DEFINE s == stack[q]
    <3>1. LocksOf(q, s, lock_process) /\ StackShape(s)
      BY DEF LockInv, ShapeInv
    <3>2. \A l \in Locks : lock_process[l] = q => lock_process'[l] = q
      BY <2>2
    <3>3. \A i \in 1..Len(s) : s[i].kind = "lock" => s[i].lock \in Locks
      BY <3>1 DEF StackShape, FrameShape
    <3> HIDE DEF s
    <3>4. LocksOf(q, s, lock_process')
      BY <3>1, <3>2, <3>3 DEF LocksOf
    <3>5. QED
      BY <1>2, <2>2, <3>4 DEF s
  <2>3. QED
    BY <2>1, <2>2
<1>4. ASSUME NEW q \in Processes, NEW l \in Locks, lock_process'[l] = q
      PROVE  l \in abandoned' \/ Holds(stack'[q], l)
  <2>1. CASE q = p
    BY <1>2, <1>4, <2>1
  <2>2. CASE q # p
    BY <1>1, <1>2, <1>4, <2>2 DEF LockInv
  <2>3. QED
    BY <2>1, <2>2
<1>5. QED
  BY <1>3, <1>4 DEF LockInv

(* A stack on which no activation of a lock is put, and none is left. *)
LEMMA SameLocks ==
  ASSUME ShapeInv, LockInv, NEW p \in Processes, NEW r, StackStep(p, r),
         lock_process' = lock_process, LocksOf(p, r, lock_process),
         \A l \in Locks : Holds(stack[p], l) => Holds(r, l) \/ l \in abandoned'
  PROVE  LockInv'
<1>1. abandoned \subseteq abandoned'
  BY DEF StackStep
<1>2. \A l \in Locks : lock_process'[l] = p => l \in abandoned' \/ Holds(r, l)
  BY <1>1 DEF LockInv
<1>3. LocksOf(p, r, lock_process')
  OBVIOUS
<1>4. QED
  BY <1>2, <1>3, LockStep

LEMMA PushLocks ==
  ASSUME ShapeInv, LockInv, NEW p \in Processes, NEW f \in Frame,
         StackStep(p, Append(stack[p], f)), lock_process' = lock_process,
         f.kind = "lock" => f.at = "try" /\ f.have = (lock_process[f.lock] = p)
  PROVE  LockInv'
<1> DEFINE r == Append(stack[p], f)
<1>1. stack[p] \in Seq(Frame) /\ LocksOf(p, stack[p], lock_process)
  BY DEF ShapeInv, TypeOK, LockInv
<1>2. LocksOf(p, r, lock_process)
  BY <1>1, LocksPush
<1>3. ASSUME NEW l \in Locks, lock_process'[l] = p
      PROVE  l \in abandoned' \/ Holds(r, l)
  <2>1. IsLock(f, l) => f.have
    BY <1>3 DEF IsLock
  <2>2. l \in abandoned \/ Holds(stack[p], l)
    BY <1>3 DEF LockInv
  <2>3. Holds(stack[p], l) => Holds(r, l)
    BY <1>1, <2>1, HoldsPush
  <2>4. QED
    BY <2>2, <2>3 DEF StackStep
<1>4. LocksOf(p, r, lock_process')
  BY <1>2
<1> HIDE DEF r
<1>5. StackStep(p, r)
  BY DEF r
<1>6. QED
  BY <1>3, <1>4, <1>5, LockStep

(* A frame that holds no lock returns, or the one that is then on top moves. *)
LEMMA CutLocks ==
  ASSUME ShapeInv, LockInv, NEW p \in Processes, NEW r, StackStep(p, r), Cut(stack[p], r),
         lock_process' = lock_process,
         \A i \in Len(r) + 1..Len(stack[p]) : stack[p][i].kind # "lock",
         r # <<>> /\ r[Len(r)].kind = "lock" =>
           \/ r[Len(r)] = stack[p][Len(r)] /\ r[Len(r)].at \notin Waits
           \/ r[Len(r)].at = "cleanup"
  PROVE  LockInv'
<1> DEFINE s == stack[p]
<1>1. s \in Seq(Frame) /\ LocksOf(p, s, lock_process) /\ Len(s) \in Nat
  BY LenProperties DEF ShapeInv, TypeOK, LockInv
<1>2. Len(r) \in Nat /\ Len(r) <= Len(s) /\ Cut(s, r)
  BY LenProperties DEF Cut
<1>3. LocksOf(p, r, lock_process)
  <2>1. ASSUME r # <<>>, r[Len(r)].kind = "lock"
        PROVE  /\ r[Len(r)].at = "body" =>
                    /\ lock_process[r[Len(r)].lock] = p
                    /\ r[Len(r)].lock \in ErrorCheckLocks => ~r[Len(r)].have
               /\ r[Len(r)].at \notin Waits
    <3>1. Len(r) \in 1..Len(s)
      BY <1>1, <1>2, <2>1, EmptySeq DEF Cut
    <3>2. CASE r[Len(r)] = s[Len(r)] /\ r[Len(r)].at \notin Waits
      BY <1>1, <2>1, <3>1, <3>2 DEF LocksOf
    <3>3. CASE r[Len(r)].at = "cleanup"
      BY <3>3 DEF Waits
    <3>4. QED
      BY <2>1, <3>2, <3>3
  <2> HIDE DEF s
  <2>2. QED
    BY <1>1, <1>2, <2>1, LocksCut
<1>4. ASSUME NEW l \in Locks, Holds(s, l)
      PROVE  Holds(r, l)
  <2>1. PICK i \in 1..Len(s) : Holder(s, l, i)
    BY <1>4, HoldsIs
  <2>2. i \in 1..Len(r)
    <3>1. i \notin Len(r) + 1..Len(s)
      BY <2>1 DEF Holder, IsLock
    <3>2. QED
      BY <1>1, <1>2, <3>1
  <2>3. r # <<>>
    BY <2>2, EmptySeq
  <2>4. ASSUME i = Len(r)
        PROVE  r[i].at \in {"body", "cleanup"}
    <3>1. r[i].kind = "lock"
      BY <2>1, <2>2 DEF Cut, SameCall, Holder, IsLock
    <3>2. QED
      BY <2>1, <2>3, <2>4, <3>1 DEF Holder
  <2> HIDE DEF s
  <2>5. QED
    BY <1>1, <1>2, <2>1, <2>2, <2>4, HolderCut
<1>5. QED
  BY <1>3, <1>4, SameLocks

(* A throw from the stack, or from below a call of process-yield. *)
LEMMA ThrowLocks ==
  ASSUME ShapeInv, LockInv, NEW p \in Processes, NEW s \in Seq(Frame), Cut(stack[p], s),
         NEW k \in 1..Len(s), k > 1 => s[k].kind = "timeout",
         NEW r, Thrown(s, k, r), StackStep(p, r), lock_process' = lock_process,
         \/ s = stack[p] /\ Abandons(s, r)
         \/ /\ s[Len(s)].kind # "lock" /\ Abandons(Pop(s), r)
            /\ \A l \in Locks : Holds(stack[p], l) => Holds(s, l)
            /\ LocksOf(p, s, lock_process)
  PROVE  LockInv'
<1>1. LocksOf(p, s, lock_process) /\ Len(s) \in Nat /\ Len(s) > 0
  BY LenProperties DEF LockInv
<1>2. LocksOf(p, r, lock_process)
  BY <1>1, LocksThrown
<1>3. ASSUME NEW l \in Locks, Holds(stack[p], l)
      PROVE  Holds(r, l) \/ l \in abandoned'
  <2>1. CASE s = stack[p] /\ Abandons(s, r)
    <3>1. \A i \in Len(r) + 1..Len(s) : s[i].kind = "lock" /\ s[i].at = "cleanup" => s[i].lock \in abandoned'
      BY <2>1 DEF Abandons
    <3>2. QED
      BY <1>1, <1>3, <2>1, <3>1, HoldsThrown
  <2>2. CASE s[Len(s)].kind # "lock" /\ Abandons(Pop(s), r) /\ Holds(s, l)
    <3> DEFINE n == Len(s) - 1
               t == Pop(s)
    <3>1. Len(t) = n /\ \A i \in 1..n : t[i] = s[i]
      BY <1>1, PopIs
    <3>2. \A i \in Len(r) + 1..Len(t) :
            t[i].kind = "lock" /\ t[i].at = "cleanup" => t[i].lock \in abandoned'
      BY <2>2 DEF Abandons
    <3>3. \A i \in Len(r) + 1..n : i \in 1..n
      BY LenProperties DEF StackStep
    <3> HIDE DEF t
    <3>4. \A i \in Len(r) + 1..n : s[i].kind = "lock" /\ s[i].at = "cleanup" => s[i].lock \in abandoned'
      BY <3>1, <3>2, <3>3
    <3>5. ~IsLock(s[Len(s)], l)
      BY <2>2 DEF IsLock
    <3>6. n \in {Len(s), Len(s) - 1}
      OBVIOUS
    <3> HIDE DEF n
    <3>7. QED
      BY <2>2, <3>4, <3>5, <3>6, HoldsThrown
  <2>3. QED
    BY <1>3, <2>1, <2>2
<1>4. QED
  BY <1>2, <1>3, SameLocks

LEMMA MovedHolds ==
  ASSUME NEW s \in Seq(Frame), Len(s) > 0, NEW a \in Places, NEW l, Holds(s, l),
         a \in {"body", "cleanup"} \/ ~Holder(s, l, Len(s))
  PROVE  Holds(Moved(s, a), l)
<1> DEFINE r == Moved(s, a)
           n == Len(s)
<1>1. r \in Seq(Frame) /\ Len(r) = n /\ Cut(s, r) /\ r[n].at = a
  BY MovedIs
<1> HIDE DEF r
<1>2. PICK i \in 1..Len(s) : Holder(s, l, i)
  BY HoldsIs
<1>3. i \in 1..Len(r) /\ (i = Len(r) => r[i].at \in {"body", "cleanup"})
  BY <1>1, <1>2
<1>4. Holds(r, l)
  BY <1>1, <1>2, <1>3, HolderCut
<1>5. QED
  BY <1>4 DEF r

LEMMA MovedLocks ==
  ASSUME NEW p, NEW s \in Seq(Frame), Len(s) > 0, NEW a \in Places, NEW lp, NEW lp2, LocksOf(p, s, lp),
         \A i \in 1..Len(s) : Keeps(s[i]) /\ lp[s[i].lock] = p => lp2[s[i].lock] = p,
         s[Len(s)].kind = "lock" =>
           /\ a = "body" => lp2[s[Len(s)].lock] = p /\ (s[Len(s)].lock \in ErrorCheckLocks => ~s[Len(s)].have)
           /\ a \in Waits => ~s[Len(s)].have
  PROVE  LocksOf(p, Moved(s, a), lp2)
<1> DEFINE r == Moved(s, a)
           n == Len(s)
<1>1. r \in Seq(Frame) /\ Len(r) = n /\ Cut(s, r) /\ SameCall(r[n], s[n]) /\ r[n].at = a
  BY MovedIs
<1> HIDE DEF r
<1>2. r # <<>> /\ r[Len(r)].kind = "lock" =>
        /\ r[Len(r)].at = "body" =>
             lp2[r[Len(r)].lock] = p /\ (r[Len(r)].lock \in ErrorCheckLocks => ~r[Len(r)].have)
        /\ r[Len(r)].at \in Waits => ~r[Len(r)].have
  BY <1>1 DEF SameCall
<1>3. LocksOf(p, r, lp2)
  BY <1>1, <1>2, LocksCut
<1>4. QED
  BY <1>3 DEF r

(* An activation takes its lock. *)
LEMMA TakenLocks ==
  ASSUME ShapeInv, LockInv, NEW p \in Processes, NEW s \in Seq(Frame), Len(s) > 0,
         NEW l \in Locks, IsLock(s[Len(s)], l), ~s[Len(s)].have,
         s[Len(s)].at \in {"try"} \union Waits,
         lock_process[l] = None, lock_process' = [lock_process EXCEPT ![l] = p],
         LocksOf(p, s, lock_process), \A x \in Locks : Holds(stack[p], x) => Holds(s, x),
         StackStep(p, Moved(s, "body"))
  PROVE  LockInv'
<1> DEFINE r == Moved(s, "body")
           n == Len(s)
<1>1. lock_process \in [Locks -> Processes \union {None}] /\ None \notin Processes
  BY ConstantsAssumption DEF ShapeInv, TypeOK
<1>2. lock_process'[l] = p /\ \A x \in Locks : x # l => lock_process'[x] = lock_process[x]
  BY <1>1
<1>3. /\ r \in Seq(Frame) /\ Len(r) = n /\ SameCall(r[n], s[n]) /\ r[n].at = "body" /\ n \in Nat /\ n \in 1..n
  BY MovedIs, LenProperties DEF Places
<1>4. \A i \in 1..Len(s) : Keeps(s[i]) /\ lock_process[s[i].lock] = p => lock_process'[s[i].lock] = p
  <2> SUFFICES ASSUME NEW i \in 1..Len(s), lock_process[s[i].lock] = p
               PROVE  lock_process'[s[i].lock] = p
    OBVIOUS
  <2>1. s[i].lock # l
    BY <1>1
  <2>2. QED
    BY <1>1, <2>1
<1>5. /\ LocksOf(p, r, lock_process')
      /\ \A x : Holds(s, x) => Holds(r, x)
  <2>1. s[n].lock = l
    BY DEF IsLock
  <2>2. "body" \in Places /\ "body" \notin Waits
    BY DEF Places, Waits
  <2> HIDE DEF r
  <2>3. ASSUME NEW x, Holds(s, x)
        PROVE  Holds(Moved(s, "body"), x)
    BY <2>2, <2>3, MovedHolds
  <2>4. LocksOf(p, Moved(s, "body"), lock_process')
    BY <1>2, <1>4, <2>1, <2>2, MovedLocks
  <2>5. QED
    BY <2>3, <2>4 DEF r
<1> HIDE DEF r
<1>6. Holds(r, l)
  <2>1. IsLock(r[n], l) /\ ~r[n].have /\ n \in 1..Len(r)
    BY <1>3 DEF IsLock, SameCall
  <2>2. \A j \in n + 1..Len(r) : FALSE
    BY <1>3
  <2>3. QED
    BY <1>3, <2>1, <2>2 DEF Holds
<1>7. ASSUME NEW x \in Locks, lock_process'[x] = p
      PROVE  x \in abandoned' \/ Holds(r, x)
  <2>1. CASE x = l
    BY <1>6, <2>1
  <2>2. CASE x # l
    <3>1. x \in abandoned \/ Holds(stack[p], x)
      BY <1>2, <1>7, <2>2 DEF LockInv
    <3>2. abandoned \subseteq abandoned'
      BY DEF StackStep
    <3>3. QED
      BY <1>5, <3>1, <3>2
  <2>3. QED
    BY <2>1, <2>2
<1>8. \A x \in Locks, q \in Processes \ {p} : lock_process'[x] = q <=> lock_process[x] = q
  BY <1>1, <1>2
<1>9. StackStep(p, r)
  BY DEF r
<1>10. QED
  BY <1>5, <1>7, <1>8, <1>9, LockStep

LEMMA ReleaseLocks ==
  ASSUME ShapeInv, LockInv, NEW p \in Processes, ReleaseLock(p)
  PROVE  LockInv'
<1> DEFINE s == stack[p]
           n == Len(s)
           f == s[n]
<1>1. /\ s \in Seq(Frame) /\ StackShape(s) /\ n \in Nat /\ n > 0 /\ n \in 1..n /\ p = current_process
      /\ f.kind = "lock" /\ f.at = "cleanup" /\ f.lock \in Locks
      /\ LocksOf(p, s, lock_process)
  BY ReleaseLockIs, RunningIs DEF LockInv
<1>2. lock_process' = IF ~f.have /\ lock_process[f.lock] = p
                        THEN [lock_process EXCEPT ![f.lock] = None] ELSE lock_process
  BY ReleaseLockIs
<1>3. PICK r :
        /\ StackStep(p, r) /\ Abandons(Pop(s), r)
        /\ \/ f.exit = 0 /\ r = Pop(s)
           \/ f.exit \in 1..n /\ Thrown(s, f.exit, r)
  BY ReleaseLockIs
<1>4. /\ f.exit > 1 => s[f.exit].kind = "timeout"
      /\ ~HasCleanup(f)
  BY <1>1 DEF StackShape, HasCleanup
<1>5. /\ Pop(s) \in Seq(Frame) /\ Len(Pop(s)) = n - 1
      /\ \A i \in 1..n - 1 : Pop(s)[i] = s[i]
      /\ Cut(s, Pop(s))
  BY <1>1, PopIs
<1>6. r \in Seq(Frame) /\ Cut(s, r) /\ Len(r) \in Nat /\ Len(r) < n
  <2>1. r \in Seq(Frame) /\ Cut(s, r)
    BY <1>3, <1>5 DEF Thrown, StackStep
  <2>2. Len(r) \in Nat /\ Len(r) <= n
    BY <2>1, LenProperties DEF Cut
  <2>3. CASE r = Pop(s)
    BY <1>1, <1>5, <2>3
  <2>4. CASE f.exit \in 1..n /\ Thrown(s, f.exit, r)
    <3>1. r # <<>> => Len(r) # n
      <4>1. ASSUME r # <<>>, Len(r) = n
            PROVE  FALSE
        <5>1. f.exit = n /\ f.exit # 1
          BY <1>4, <2>4, <4>1 DEF Thrown
        <5> HIDE DEF f, n
        <5>2. f.exit > 1
          BY <1>1, <5>1
        <5>3. s[n].kind = "timeout"
          BY <1>4, <5>1, <5>2
        <5>4. QED
          BY <1>1, <5>3 DEF f
      <4>2. QED
        BY <4>1
    <3>2. r = <<>> => Len(r) < n
      BY <1>1, EmptySeq
    <3>3. QED
      BY <1>1, <2>1, <2>2, <3>1, <3>2
  <2>5. QED
    BY <1>3, <2>1, <2>2, <2>3, <2>4
<1>7. lock_process \in [Locks -> Processes \union {None}] /\ None \notin Processes
  BY ConstantsAssumption DEF ShapeInv, TypeOK
<1>8. \A i \in 1..Len(r) : Keeps(s[i]) /\ lock_process[s[i].lock] = p => lock_process'[s[i].lock] = p
  <2> SUFFICES ASSUME NEW i \in 1..Len(r), Keeps(s[i]), lock_process[s[i].lock] = p
               PROVE  lock_process'[s[i].lock] = p
    OBVIOUS
  <2>1. i \in 1..n /\ i < n
    BY <1>1, <1>6
  <2>2. s[i].lock = f.lock => f.have
    BY <1>1, <2>1 DEF Keeps, LocksOf
  <2>3. s[i].lock \in Locks
    BY <1>1, <2>1 DEF StackShape, FrameShape, Keeps
  <2>4. QED
    BY <1>2, <1>7, <2>2, <2>3
<1>9. LocksOf(p, r, lock_process')
  <2>1. CASE r = Pop(s)
    <3>1. r # <<>> => Len(r) \in 1..n - 1 /\ r[Len(r)] = s[Len(r)]
      BY <1>1, <1>5, <1>6, <2>1, EmptySeq
    <3>2. r # <<>> /\ r[Len(r)].kind = "lock" =>
            /\ r[Len(r)].at = "body" =>
                 lock_process'[r[Len(r)].lock] = p /\ (r[Len(r)].lock \in ErrorCheckLocks => ~r[Len(r)].have)
            /\ r[Len(r)].at \in Waits => ~r[Len(r)].have
      <4>1. r # <<>> => Len(r) \in 1..n /\ Len(r) \in 1..Len(r)
        BY <1>1, <3>1, <1>6
      <4>2. r # <<>> /\ r[Len(r)].kind = "lock" /\ r[Len(r)].at = "body" =>
              lock_process'[r[Len(r)].lock] = p
        BY <1>1, <1>8, <3>1, <4>1 DEF LocksOf, Keeps
      <4>3. QED
        BY <1>1, <3>1, <4>1, <4>2 DEF LocksOf
    <3> HIDE DEF s
    <3>3. QED
      BY <1>1, <1>6, <1>8, <3>2, LocksCut
  <2>2. CASE Thrown(s, f.exit, r)
    <3> HIDE DEF s
    <3>1. QED
      BY <1>1, <1>8, <2>2, LocksThrown
  <2>3. QED
    BY <1>3, <2>1, <2>2
<1>10. ASSUME NEW l \in Locks, lock_process'[l] = p
       PROVE  l \in abandoned' \/ Holds(r, l)
  <2>1. lock_process[l] = p /\ (IsLock(f, l) => f.have)
    BY <1>1, <1>2, <1>7, <1>10 DEF IsLock
  <2>2. l \in abandoned \/ Holds(s, l)
    BY <2>1 DEF LockInv
  <2>3. abandoned \subseteq abandoned'
    BY <1>3 DEF StackStep
  <2>4. CASE Holds(s, l) /\ r = Pop(s)
    <3>1. PICK i \in 1..n : Holder(s, l, i)
      BY <2>4, HoldsIs
    <3>2. i # n
      BY <2>1, <3>1 DEF Holder
    <3>3. i \in 1..Len(r) /\ r[i] = s[i]
      BY <1>1, <1>5, <2>4, <3>2
    <3>4. r[i].at \in {"body", "cleanup"}
      BY <3>1, <3>3 DEF Holder
    <3> HIDE DEF s
    <3>5. QED
      BY <1>1, <1>6, <3>1, <3>3, <3>4, HolderCut
  <2>5. CASE Holds(s, l) /\ f.exit \in 1..n /\ Thrown(s, f.exit, r)
    <3> DEFINE t == Pop(s)
               m == n - 1
               k == f.exit
    <3>1. \A i \in Len(r) + 1..Len(t) :
            t[i].kind = "lock" /\ t[i].at = "cleanup" => t[i].lock \in abandoned'
      BY <1>3 DEF Abandons
    <3>2. \A i \in Len(r) + 1..m : i \in 1..m
      BY <1>6
    <3>3. \A i \in Len(r) + 1..m : s[i].kind = "lock" /\ s[i].at = "cleanup" => s[i].lock \in abandoned'
      <4> HIDE DEF t
      <4>1. Len(t) = m /\ \A i \in 1..m : t[i] = s[i]
        BY <1>5 DEF t
      <4>2. QED
        BY <3>1, <3>2, <4>1
    <3>4. m \in {Len(s), Len(s) - 1} /\ (k > 1 => s[k].kind = "timeout")
      BY <1>4
    <3> HIDE DEF m, k
    <3>5. k \in 1..Len(s) /\ Thrown(s, k, r)
      BY <2>5 DEF k
    <3>6. IsLock(s[Len(s)], l) => s[Len(s)].have
      BY <2>1
    <3> HIDE DEF s
    <3>7. QED
      BY <1>1, <2>5, <3>3, <3>4, <3>5, <3>6, HoldsThrown
  <2>6. QED
    BY <1>3, <2>2, <2>3, <2>4, <2>5
<1>11. \A l \in Locks, q \in Processes \ {p} : lock_process'[l] = q <=> lock_process[l] = q
  BY <1>1, <1>2, <1>7
<1>12. QED
  BY <1>3, <1>9, <1>10, <1>11, LockStep

LEMMA PopHolds ==
  ASSUME NEW s \in Seq(Frame), Len(s) > 0, s[Len(s)].kind # "lock", NEW l, Holds(s, l)
  PROVE  Holds(Pop(s), l)
<1> DEFINE r == Pop(s)
<1>1. /\ r \in Seq(Frame) /\ Len(r) = Len(s) - 1 /\ Cut(s, r) /\ Len(s) \in Nat
      /\ \A i \in 1..Len(s) - 1 : r[i] = s[i]
  BY PopIs, LenProperties
<1> HIDE DEF r
<1>2. PICK i \in 1..Len(s) : Holder(s, l, i)
  BY HoldsIs
<1>3. i \in 1..Len(r) /\ r[i] = s[i]
  BY <1>1, <1>2 DEF Holder, IsLock
<1>4. Holds(r, l)
  BY <1>1, <1>2, <1>3, HolderCut DEF Holder
<1>5. QED
  BY <1>4 DEF r

LEMMA PopLocks ==
  ASSUME NEW p, NEW s \in Seq(Frame), Len(s) > 0, NEW lp, LocksOf(p, s, lp)
  PROVE  LocksOf(p, Pop(s), lp)
<1> DEFINE r == Pop(s)
           n == Len(r)
<1>1. /\ r \in Seq(Frame) /\ Len(r) = Len(s) - 1 /\ Cut(s, r) /\ Len(s) \in Nat
      /\ \A i \in 1..Len(s) - 1 : r[i] = s[i]
  BY PopIs, LenProperties
<1> HIDE DEF r
<1>2. r # <<>> => n \in 1..Len(s) /\ r[n] = s[n]
  BY <1>1, EmptySeq
<1>3. r # <<>> /\ r[n].kind = "lock" =>
        /\ r[n].at = "body" => lp[r[n].lock] = p /\ (r[n].lock \in ErrorCheckLocks => ~r[n].have)
        /\ r[n].at \in Waits => ~r[n].have
  BY <1>2 DEF LocksOf
<1>4. LocksOf(p, r, lp)
  BY <1>1, <1>3, LocksCut
<1>5. QED
  BY <1>4 DEF r

LEMMA InitLocks == Init => LockInv
<1> SUFFICES ASSUME Init
             PROVE  LockInv
  OBVIOUS
<1> DEFINE f == NewFrame("function", "run")
           y == NewFrame("yield", "run")
<1>1. /\ f \in Frame /\ f.kind = "function" /\ y \in Frame /\ y.kind = "yield"
  BY NewFrameIs
<1>2. stack = [p \in Processes |-> IF p = InitialProcess THEN <<f>> ELSE <<f, y>>]
  BY DEF Init
<1> HIDE DEF f, y
<1>3. \A p \in Processes : stack[p] = <<f>> \/ stack[p] = <<f, y>>
  BY <1>2
<1>4. \A p : LocksOf(p, <<f>>, lock_process) /\ LocksOf(p, <<f, y>>, lock_process)
  BY <1>1 DEF LocksOf
<1>5. \A l \in Locks, p \in Processes : lock_process[l] # p
  BY ConstantsAssumption DEF Init
<1>6. QED
  BY <1>3, <1>4, <1>5 DEF LockInv

LEMMA RunInterruptLocks ==
  ASSUME ShapeInv, LockInv, NEW p \in Processes, RunInterrupt(p)
  PROVE  LockInv'
<1> DEFINE s == stack[p]
<1>1. /\ s \in Seq(Frame) /\ StackShape(s) /\ Len(s) > 1 /\ Len(s) \in Nat
      /\ lock_process' = lock_process
  BY ResumedIs, LenProperties DEF RunInterrupt
<1>2. Cut(s, s)
  BY <1>1 DEF Cut, SameCall
<1>3. PICK r :
        /\ StackStep(p, r)
        /\ \/ r = Append(s, NewFrame("interrupt", "run"))
           \/ Thrown(s, 1, r) /\ Abandons(s, r)
           \/ r = s
           \/ Abandons(s, r) /\ \E k \in 1..Len(s) : Catches(s[k]) /\ Thrown(s, k, r)
  BY RunInterruptIs
<1>4. CASE r = Append(s, NewFrame("interrupt", "run"))
  <2> DEFINE f == NewFrame("interrupt", "run")
  <2>1. f \in Frame /\ f.kind = "interrupt"
    BY NewFrameIs
  <2> HIDE DEF f
  <2>2. StackStep(p, Append(stack[p], f))
    BY <1>3, <1>4 DEF f
  <2>3. QED
    BY <1>1, <2>1, <2>2, PushLocks
<1>5. CASE Thrown(s, 1, r) /\ Abandons(s, r)
  <2>1. 1 \in 1..Len(s)
    BY <1>1
  <2>2. QED
    BY <1>1, <1>2, <1>3, <1>5, <2>1, ThrowLocks
<1>6. CASE r = s
  <2>1. s[Len(s)].at \notin Waits
    BY <1>1 DEF StackShape
  <2>2. \A i \in Len(r) + 1..Len(s) : FALSE
    BY <1>1, <1>6
  <2>3. QED
    BY <1>1, <1>2, <1>3, <1>6, <2>1, <2>2, CutLocks
<1>7. CASE Abandons(s, r) /\ \E k \in 1..Len(s) : Catches(s[k]) /\ Thrown(s, k, r)
  <2>1. PICK k \in 1..Len(s) : Catches(s[k]) /\ Thrown(s, k, r)
    BY <1>7
  <2>2. s[k].kind = "timeout"
    BY <2>1 DEF Catches
  <2>3. QED
    BY <1>1, <1>2, <1>3, <1>7, <2>1, <2>2, ThrowLocks
<1>8. QED
  BY <1>3, <1>4, <1>5, <1>6, <1>7

LEMMA ReturnLocks ==
  ASSUME ShapeInv, LockInv, NEW p \in Processes, Return(p)
  PROVE  LockInv'
<1> DEFINE s == stack[p]
           t == Pop(s)
           n == Len(t)
<1>1. /\ s \in Seq(Frame) /\ StackShape(s) /\ Len(s) > 1 /\ Len(s) \in Nat
      /\ s[Len(s)].kind # "lock" /\ lock_process' = lock_process
      /\ t \in Seq(Frame) /\ n = Len(s) - 1 /\ \A i \in 1..Len(s) - 1 : t[i] = s[i]
      /\ Cut(s, t)
  <2>1. MayResume(p) /\ lock_process' = lock_process
    BY DEF Return
  <2>2. QED
    BY <2>1, ResumedIs, LenProperties DEF Top, Last, Yields
<1>2. PICK r :
        /\ StackStep(p, r)
        /\ \/ t[n].at # "destroyed" /\ r = t
           \/ /\ t[n].at = "destroyed" /\ Abandons(Pop(t), r)
              /\ \/ t[n].exit = 0 /\ r = Pop(t)
                 \/ t[n].exit \in 1..n /\ Thrown(t, t[n].exit, r)
  BY ReturnIs
<1>3. n \in 1..n /\ t[n] = s[n] /\ n \in 1..Len(s) /\ n \in Nat
  BY <1>1
<1>4. CASE r = t
  <2>1. t[n].at \notin Waits
    BY <1>1 DEF Return, Waiting, Last
  <2>2. \A i \in Len(t) + 1..Len(s) : i = Len(s)
    BY <1>1
  <2> HIDE DEF t
  <2>3. QED
    BY <1>1, <1>2, <1>3, <1>4, <2>1, <2>2, CutLocks
<1>5. ASSUME t[n].at = "destroyed"
      PROVE  t[n].kind = "timeout" /\ (t[n].exit > 1 => t[t[n].exit].kind = "timeout")
  <2>1. FrameShape(t[n]) /\ t[n].exit <= n /\ (t[n].exit > 1 => s[t[n].exit].kind = "timeout")
    BY <1>1, <1>3 DEF StackShape
  <2>2. t[n].exit \in Nat
    BY <1>1, <1>3, FrameIs
  <2>3. t[n].exit > 1 => t[t[n].exit] = s[t[n].exit]
    BY <1>1, <2>1, <2>2
  <2>4. QED
    BY <1>5, <2>1, <2>3 DEF FrameShape, Waits
<1>6. CASE t[n].at = "destroyed" /\ r = Pop(t)
  <2>1. Cut(t, r) /\ Len(r) = n - 1 /\ \A i \in 1..n - 1 : r[i] = t[i]
    <3> HIDE DEF t
    <3>1. QED
      BY <1>1, <1>3, <1>6, PopIs
  <2> HIDE DEF t
  <2>2. Cut(s, r)
    BY <1>1, <2>1, CutCut
  <2>3. ASSUME NEW i \in Len(r) + 1..Len(s)
        PROVE  s[i].kind # "lock"
    <3>1. i = n \/ i = Len(s)
      BY <1>1, <1>3, <2>1, <2>3
    <3>2. QED
      BY <1>1, <1>3, <1>5, <1>6, <3>1
  <2>4. r # <<>> => r[Len(r)] = s[Len(r)] /\ r[Len(r)].at \notin Waits
    <3>1. r # <<>> => Len(r) \in 1..n - 1
      BY <1>2, <1>3, <2>1, LenProperties, EmptySeq DEF StackStep
    <3>2. r # <<>> => Len(r) \in 1..Len(r)
      BY <1>3, <2>1, <3>1
    <3>3. r # <<>> => r[Len(r)].at \notin Waits
      BY <1>2, <1>3, <2>1, <3>2 DEF StackStep, StackShape
    <3>4. QED
      BY <1>1, <2>1, <3>1, <3>3
  <2>5. QED
    BY <1>1, <1>2, <2>2, <2>3, <2>4, CutLocks
<1>7. CASE /\ t[n].at = "destroyed" /\ Abandons(Pop(t), r)
           /\ t[n].exit \in 1..n /\ Thrown(t, t[n].exit, r)
  <2>1. LocksOf(p, t, lock_process)
    BY <1>1, PopLocks DEF LockInv
  <2>2. \A l \in Locks : Holds(s, l) => Holds(t, l)
    BY <1>1, PopHolds
  <2> HIDE DEF t
  <2>3. QED
    BY <1>1, <1>2, <1>5, <1>7, <2>1, <2>2, ThrowLocks
<1>8. QED
  BY <1>2, <1>4, <1>6, <1>7

LEMMA LockWaitSucceedsLocks ==
  ASSUME ShapeInv, LockInv, NEW p \in Processes, LockWaitSucceeds(p)
  PROVE  LockInv'
<1> DEFINE s == stack[p]
           t == Pop(s)
           n == Len(t)
           l == t[n].lock
<1>1. /\ MayResume(p) /\ Waiting(p) /\ lock_process[l] = None
      /\ lock_process' = [lock_process EXCEPT ![l] = p]
      /\ GoesOn(p, t, Moved(t, "body"))
  BY DEF LockWaitSucceeds, Last
<1>2. /\ s \in Seq(Frame) /\ StackShape(s) /\ Len(s) > 1 /\ Len(s) \in Nat
      /\ s[Len(s)].kind # "lock"
      /\ t \in Seq(Frame) /\ n = Len(s) - 1
  BY <1>1, ResumedIs, LenProperties DEF Top, Last, Yields
<1>3. t[n].kind = "lock" /\ l \in Locks /\ t[n].at \in Waits /\ n > 0 /\ n \in 1..n
  <2>1. n = Len(s) - 1
    BY <1>2
  <2>2. t[n].kind = "lock" /\ t[n].lock \in Locks /\ t[n].at \in Waits /\ n \in 1..Len(s)
    BY <1>1, <1>2, <2>1, WaitingIs
  <2> HIDE DEF s, t
  <2>3. QED
    BY <1>2, <2>2
<1>4. LocksOf(p, t, lock_process)
  BY <1>2, PopLocks DEF LockInv
<1>5. ~t[n].have
  BY <1>3, <1>4 DEF LocksOf
<1>6. \A x \in Locks : Holds(s, x) => Holds(t, x)
  BY <1>2, PopHolds
<1>7. StackStep(p, Moved(t, "body"))
  BY <1>1, WaitEndsIs
<1> HIDE DEF t
<1>8. IsLock(t[Len(t)], l)
  BY <1>3 DEF IsLock
<1> HIDE DEF l
<1>9. QED
  BY <1>1, <1>2, <1>3, <1>4, <1>5, <1>6, <1>7, <1>8, TakenLocks

LEMMA LockWaitTimesOutLocks ==
  ASSUME ShapeInv, LockInv, NEW p \in Processes, LockWaitTimesOut(p)
  PROVE  LockInv'
<1> DEFINE s == stack[p]
           t == Pop(s)
           r == Moved(t, "cleanup")
<1>1. /\ MayResume(p) /\ Waiting(p) /\ lock_process' = lock_process
      /\ GoesOn(p, t, Moved(t, "cleanup"))
  BY DEF LockWaitTimesOut
<1>2. /\ s \in Seq(Frame) /\ Len(s) > 1 /\ Len(s) \in Nat /\ s[Len(s)].kind # "lock"
      /\ t \in Seq(Frame) /\ Len(t) = Len(s) - 1 /\ Cut(s, t)
  BY <1>1, ResumedIs, LenProperties DEF Top, Last, Yields
<1>3. StackStep(p, r)
  BY <1>1, WaitEndsIs
<1> HIDE DEF t
<1>4. r \in Seq(Frame) /\ Len(r) = Len(t) /\ Cut(t, r) /\ r[Len(t)].at = "cleanup"
  <2>1. Len(t) > 0 /\ "cleanup" \in Places
    BY <1>2 DEF Places
  <2>2. QED
    BY <1>2, <2>1, MovedIs
<1> HIDE DEF r
<1>5. Cut(s, r)
  BY <1>2, <1>4, CutCut
<1>6. \A i \in Len(r) + 1..Len(s) : s[i].kind # "lock"
  <2>1. \A i \in Len(r) + 1..Len(s) : i = Len(s)
    BY <1>2, <1>4
  <2>2. QED
    BY <1>2, <2>1
<1>7. QED
  BY <1>1, <1>3, <1>4, <1>5, <1>6, CutLocks

LEMMA TakeLockLocks ==
  ASSUME ShapeInv, LockInv, NEW p \in Processes, NEW wait \in Waits \union {"cleanup"}, TakeLock(p, wait)
  PROVE  LockInv'
<1> DEFINE s == stack[p]
           n == Len(s)
           f == s[n]
           free == lock_process[f.lock] = None
<1>1. /\ s \in Seq(Frame) /\ StackShape(s) /\ n \in Nat /\ n > 0 /\ n \in 1..n /\ Runs(p)
      /\ f.kind = "lock" /\ f.at = "try" /\ f.lock \in Locks /\ Top(p) = f
      /\ LocksOf(p, s, lock_process)
      /\ lock_process' = IF free THEN [lock_process EXCEPT ![f.lock] = p] ELSE lock_process
  BY TakeLockIs, RunningIs DEF LockInv
<1>2. PICK r :
        /\ StackStep(p, r)
        /\ \/ (Reenters(f) \/ free) /\ r = Moved(s, "body")
           \/ ~Reenters(f) /\ ~free /\ r = Moved(s, "cleanup")
           \/ /\ ~Reenters(f) /\ ~free /\ ~f.have
              /\ \E w \in Waits : r = Append(Moved(s, w), NewFrame("yield", "run"))
  BY <1>1, TakeLockIs
<1>3. f.have => lock_process[f.lock] = p /\ ~free
  <2>1. f.have => lock_process[f.lock] = p
    BY <1>1 DEF LocksOf
  <2>2. QED
    BY <2>1, ConstantsAssumption
<1>4. Cut(s, s)
  BY <1>1 DEF Cut, SameCall
<1>5. \A x : ~Holder(s, x, n)
  BY <1>1 DEF Holder
<1>6. CASE free /\ r = Moved(s, "body")
  <2>1. IsLock(s[Len(s)], f.lock) /\ ~s[Len(s)].have
    BY <1>1, <1>3, <1>6 DEF IsLock
  <2>2. lock_process' = [lock_process EXCEPT ![f.lock] = p] /\ lock_process[f.lock] = None
    BY <1>1, <1>6
  <2>3. \A x \in Locks : Holds(stack[p], x) => Holds(s, x)
    OBVIOUS
  <2> DEFINE l == f.lock
  <2> HIDE DEF l
  <2>4. l \in Locks /\ IsLock(s[Len(s)], l)
    BY <1>1, <2>1 DEF l
  <2>5. lock_process' = [lock_process EXCEPT ![l] = p] /\ lock_process[l] = None
    BY <2>2 DEF l
  <2>6. StackStep(p, Moved(s, "body")) /\ s[Len(s)].at \in {"try"} \union Waits
    BY <1>1, <1>2, <1>6
  <2> HIDE DEF s
  <2>7. QED
    BY <1>1, <2>1, <2>3, <2>4, <2>5, <2>6, TakenLocks
<1>7. CASE ~free /\ Reenters(f) /\ r = Moved(s, "body")
  <2>1. lock_process' = lock_process /\ f.have /\ f.lock \notin ErrorCheckLocks
    BY <1>1, <1>7 DEF Reenters
  <2>2. "body" \in Places /\ "body" \notin Waits
    BY DEF Places, Waits
  <2>3. LocksOf(p, r, lock_process)
    <3> HIDE DEF s
    <3>1. QED
      BY <1>1, <1>3, <1>7, <2>1, <2>2, MovedLocks
  <2>4. \A x \in Locks : Holds(s, x) => Holds(r, x)
    <3> HIDE DEF s
    <3>1. QED
      BY <1>1, <1>5, <1>7, <2>2, MovedHolds
  <2>5. QED
    BY <1>2, <2>1, <2>3, <2>4, SameLocks
<1>8. CASE ~free /\ r = Moved(s, "cleanup")
  <2>1. /\ Len(r) = n /\ Cut(s, r) /\ r[n].at = "cleanup"
    <3>1. "cleanup" \in Places
      BY DEF Places
    <3> HIDE DEF s
    <3>2. QED
      BY <1>1, <1>8, <3>1, MovedIs
  <2>2. \A i \in Len(r) + 1..n : FALSE
    BY <1>1, <2>1
  <2>3. lock_process' = lock_process
    BY <1>1, <1>8
  <2>4. QED
    BY <1>2, <2>1, <2>2, <2>3, CutLocks
<1>9. ASSUME ~free, ~f.have, NEW w \in Waits, r = Append(Moved(s, w), NewFrame("yield", "run"))
      PROVE  LockInv'
  <2> DEFINE m == Moved(s, w)
             y == NewFrame("yield", "run")
  <2>1. lock_process' = lock_process /\ w \in Places /\ w # "body"
    BY <1>1, <1>9 DEF Places, Waits
  <2>2. m \in Seq(Frame) /\ y \in Frame /\ y.kind = "yield"
    BY <1>1, <2>1, MovedIs, NewFrameIs
  <2>3. LocksOf(p, m, lock_process)
    <3> HIDE DEF s
    <3>1. QED
      BY <1>1, <1>9, <2>1, MovedLocks
  <2>4. \A x \in Locks : Holds(s, x) => Holds(m, x)
    <3> HIDE DEF s
    <3>1. QED
      BY <1>1, <1>5, <2>1, MovedHolds
  <2> HIDE DEF m, y
  <2>5. LocksOf(p, Append(m, y), lock_process)
    BY <2>2, <2>3, LocksPush
  <2>6. ASSUME NEW x \in Locks, Holds(s, x)
        PROVE  Holds(Append(m, y), x)
    BY <2>2, <2>4, <2>6, HoldsPush DEF IsLock
  <2>7. r = Append(m, y)
    BY <1>9 DEF m, y
  <2>8. QED
    BY <1>2, <2>1, <2>5, <2>6, <2>7, SameLocks
<1>10. QED
  BY <1>2, <1>6, <1>7, <1>8, <1>9

LEMMA DestroyTimerLocks ==
  ASSUME ShapeInv, LockInv, NEW p \in Processes, DestroyTimer(p)
  PROVE  LockInv'
<1> DEFINE s == stack[p]
           m == Moved(s, "destroyed")
           y == NewFrame("yield", "run")
<1>1. /\ s \in Seq(Frame) /\ Len(s) > 0 /\ s[Len(s)].kind = "timeout"
      /\ LocksOf(p, s, lock_process) /\ lock_process' = lock_process
      /\ StackStep(p, Append(m, y))
  BY DestroyTimerIs, RunningIs DEF LockInv, DestroyTimer, At
<1>2. "destroyed" \in Places
  BY DEF Places
<1>3. m \in Seq(Frame) /\ y \in Frame /\ y.kind = "yield"
  BY <1>1, <1>2, MovedIs, NewFrameIs
<1>4. LocksOf(p, m, lock_process)
  <2> HIDE DEF s
  <2>1. QED
    BY <1>1, <1>2, MovedLocks
<1>5. \A x \in Locks : Holds(s, x) => Holds(m, x)
  <2>1. \A x : ~Holder(s, x, Len(s))
    BY <1>1 DEF Holder, IsLock
  <2> HIDE DEF s
  <2>2. QED
    BY <1>1, <1>2, <2>1, MovedHolds
<1> HIDE DEF m, y
<1>6. LocksOf(p, Append(m, y), lock_process)
  BY <1>3, <1>4, LocksPush
<1>7. ASSUME NEW x \in Locks, Holds(s, x)
      PROVE  Holds(Append(m, y), x)
  BY <1>3, <1>5, <1>7, HoldsPush DEF IsLock
<1>8. QED
  BY <1>1, <1>6, <1>7, SameLocks

(* The top frame is popped or moved to its clean-up form or its body. *)
LEMMA TopLocks ==
  ASSUME ShapeInv, LockInv, NEW p \in Processes, Runs(p), lock_process' = lock_process,
         NEW r, StackStep(p, r),
         \/ Top(p).kind # "lock" /\ r = Pop(stack[p])
         \/ r = Moved(stack[p], "cleanup")
         \/ Top(p).kind # "lock" /\ r = Moved(stack[p], "body")
  PROVE  LockInv'
<1> DEFINE s == stack[p]
           n == Len(s)
<1>1. s \in Seq(Frame) /\ StackShape(s) /\ n \in Nat /\ n > 0 /\ Top(p) = s[n]
  BY RunningIs
<1>2. CASE s[n].kind # "lock" /\ r = Pop(s)
  <2>1. /\ r \in Seq(Frame) /\ Len(r) = n - 1 /\ Cut(s, r)
        /\ \A i \in 1..n - 1 : r[i] = s[i]
    <3> HIDE DEF s
    <3>1. QED
      BY <1>1, <1>2, PopIs
  <2>2. \A i \in Len(r) + 1..n : s[i].kind # "lock"
    <3>1. \A i \in Len(r) + 1..n : i = n
      BY <1>1, <2>1
    <3>2. QED
      BY <1>2, <3>1
  <2>3. r # <<>> => r[Len(r)] = s[Len(r)] /\ r[Len(r)].at \notin Waits
    <3>1. r # <<>> => Len(r) \in 1..n - 1
      BY <1>1, <2>1, EmptySeq
    <3>2. r # <<>> => Len(r) \in 1..Len(r)
      BY <1>1, <2>1, <3>1
    <3>3. r # <<>> => r[Len(r)].at \notin Waits
      BY <1>1, <2>1, <3>2 DEF StackStep, StackShape
    <3>4. QED
      BY <2>1, <3>1, <3>3
  <2>4. QED
    BY <2>1, <2>2, <2>3, CutLocks
<1>3. ASSUME NEW a \in {"cleanup", "body"}, r = Moved(s, a), a = "body" => s[n].kind # "lock"
      PROVE  LockInv'
  <2>1. Len(r) = n /\ Cut(s, r) /\ r[n].at = a /\ SameCall(r[n], s[n])
    <3>1. a \in Places
      BY DEF Places
    <3> HIDE DEF s
    <3>2. QED
      BY <1>1, <1>3, <3>1, MovedIs
  <2>2. \A i \in Len(r) + 1..n : FALSE
    BY <1>1, <2>1
  <2>3. r # <<>> /\ r[Len(r)].kind = "lock" => r[Len(r)].at = "cleanup"
    BY <1>3, <2>1 DEF SameCall
  <2>4. QED
    BY <2>1, <2>2, <2>3, CutLocks
<1>4. QED
  BY <1>1, <1>2, <1>3

LEMMA NextLocks == ShapeInv /\ LockInv /\ [Next]_vars => LockInv'
<1> SUFFICES ASSUME ShapeInv, LockInv, [Next]_vars
             PROVE  LockInv'
  OBVIOUS
<1>1. CASE UNCHANGED vars
  BY <1>1 DEF LockInv, vars
<1>2. ASSUME NEW p \in Processes, RunInterrupt(p)
      PROVE  LockInv'
  BY <1>2, RunInterruptLocks
<1>3. ASSUME NEW p \in Processes, Return(p)
      PROVE  LockInv'
  BY <1>3, ReturnLocks
<1>4. ASSUME NEW p \in Processes, LockWaitSucceeds(p)
      PROVE  LockInv'
  BY <1>4, LockWaitSucceedsLocks
<1>5. ASSUME NEW p \in Processes, LockWaitTimesOut(p)
      PROVE  LockInv'
  BY <1>5, LockWaitTimesOutLocks
<1>6. ASSUME NEW p \in Processes, Sigalrm(p)
      PROVE  LockInv'
  <2> DEFINE f == NewFrame("sigalrm", "run")
  <2>1. f \in Frame /\ f.kind # "lock" /\ StackStep(p, Append(stack[p], f))
    BY <1>6, SigalrmIs, NewFrameIs
  <2>2. lock_process' = lock_process
    BY <1>6 DEF Sigalrm
  <2> HIDE DEF f
  <2>3. QED
    BY <2>1, <2>2, PushLocks
<1>7. ASSUME NEW p \in Processes, InterruptReturn(p)
      PROVE  LockInv'
  <2>1. Runs(p) /\ Top(p).kind = "interrupt" /\ lock_process' = lock_process
    BY <1>7 DEF InterruptReturn, At
  <2>2. StackStep(p, Pop(stack[p]))
    BY <1>7, <2>1, ReturnsIs DEF InterruptReturn
  <2>3. QED
    BY <2>1, <2>2, TopLocks
<1>8. ASSUME NEW p \in Processes, NEW q \in Processes, NEW x \in {"call", "end"}, Send(p, q, x)
      PROVE  LockInv'
  <2> DEFINE f == NewFrame("yield", "run")
  <2>1. f \in Frame /\ f.kind # "lock" /\ StackStep(p, Append(stack[p], f))
    BY <1>8, SendShape, NewFrameIs
  <2>2. lock_process' = lock_process
    BY <1>8 DEF Send
  <2> HIDE DEF f
  <2>3. QED
    BY <2>1, <2>2, PushLocks
<1>9. ASSUME NEW p \in Processes, NEW l \in Locks, WithLockHeld(p, l)
      PROVE  LockInv'
  <2> DEFINE f == LockFrame(p, l)
  <2>1. /\ f \in Frame /\ f.at = "try" /\ f.have = (lock_process[f.lock] = p)
        /\ StackStep(p, Append(stack[p], f))
    BY <1>9, WithLockHeldIs
  <2>2. lock_process' = lock_process
    BY <1>9 DEF WithLockHeld
  <2> HIDE DEF f
  <2>3. QED
    BY <2>1, <2>2, PushLocks
<1>10. ASSUME NEW p \in Processes, NEW wait \in Waits \union {"cleanup"}, TakeLock(p, wait)
       PROVE  LockInv'
  BY <1>10, TakeLockLocks
<1>11. ASSUME NEW p \in Processes, BodyReturns(p)
       PROVE  LockInv'
  <2>1. lock_process' = lock_process
    BY <1>11 DEF BodyReturns
  <2>2. QED
    BY <1>11, <2>1, BodyReturnsIs, TopLocks
<1>12. ASSUME NEW p \in Processes, ReleaseLock(p)
       PROVE  LockInv'
  BY <1>12, ReleaseLocks
<1>13. ASSUME NEW p \in Processes, NEW t \in Timers, WithTimeout(p, t)
       PROVE  LockInv'
  <2> DEFINE f == TimeoutFrame(t)
  <2>1. f \in Frame /\ f.kind # "lock" /\ StackStep(p, Append(stack[p], f))
    BY <1>13, WithTimeoutIs
  <2>2. lock_process' = lock_process
    BY <1>13 DEF WithTimeout
  <2> HIDE DEF f
  <2>3. QED
    BY <2>1, <2>2, PushLocks
<1>14. ASSUME NEW p \in Processes, ProtectBody(p)
       PROVE  LockInv'
  <2>1. lock_process' = lock_process /\ Top(p).kind # "lock"
    BY <1>14 DEF ProtectBody, At
  <2>2. QED
    BY <1>14, <2>1, ProtectBodyIs, TopLocks
<1>15. ASSUME NEW p \in Processes, DestroyTimer(p)
       PROVE  LockInv'
  BY <1>15, DestroyTimerLocks
<1>16. ASSUME NEW p \in Processes, FormsReturn(p)
       PROVE  LockInv'
  <2>1. Runs(p) /\ Top(p).kind = "timeout" /\ lock_process' = lock_process
    BY <1>16 DEF FormsReturn, At
  <2>2. StackStep(p, Pop(stack[p]))
    BY <1>16, <2>1, ReturnsIs DEF FormsReturn
  <2>3. QED
    BY <2>1, <2>2, TopLocks
<1>17. ASSUME NEW t \in Timers, TimerExpires(t)
       PROVE  LockInv'
  BY <1>17 DEF TimerExpires, LockInv
<1>18. QED
  BY <1>1, <1>2, <1>3, <1>4, <1>5, <1>6, <1>7, <1>8, <1>9, <1>10, <1>11, <1>12, <1>13, <1>14, <1>15,
     <1>16, <1>17 DEF Next

LEMMA LocksHaveHolders == Spec => []LockInv
BY InitLocks, InitShape, NextLocks, NextShape, PTL DEF Spec

(* The lock frames of a process, in terms of its stack. *)
LEMMA LockFramesAre ==
  ASSUME ShapeInv, NEW p \in Processes, NEW l
  PROVE  LockFrames(p, l) = {i \in 1..Len(stack[p]) : IsLock(stack[p][i], l)}
<1>1. DOMAIN stack[p] = 1..Len(stack[p])
  BY DEF ShapeInv, TypeOK
<1>2. QED
  BY <1>1 DEF LockFrames, IsLock

LEMMA BodiesHoldLocks == ShapeInv /\ LockInv => LockIsKept
<1> SUFFICES ASSUME ShapeInv, LockInv
             PROVE  LockIsKept
  OBVIOUS
<1>1. ASSUME NEW p \in Processes, NEW l \in Locks, NEW i \in LockFrames(p, l), stack[p][i].at = "body"
      PROVE  lock_process[l] = p
  <2>1. i \in 1..Len(stack[p]) /\ IsLock(stack[p][i], l)
    BY LockFramesAre
  <2>2. QED
    BY <1>1, <2>1 DEF LockInv, LocksOf, IsLock
<1>2. ASSUME NEW p \in Processes, NEW l \in Locks, lock_process[l] = p, l \notin abandoned
      PROVE  \E i \in LockFrames(p, l) : ~stack[p][i].have /\ stack[p][i].at \in {"body", "cleanup"}
  <2>1. PICK i \in 1..Len(stack[p]) :
          IsLock(stack[p][i], l) /\ ~stack[p][i].have /\ stack[p][i].at \in {"body", "cleanup"}
    BY <1>2 DEF LockInv, Holds
  <2>2. i \in LockFrames(p, l)
    BY <2>1, LockFramesAre
  <2>3. QED
    BY <2>1, <2>2
<1>3. QED
  BY <1>1, <1>2 DEF LockIsKept, BodyHoldsLock, HeldIsReleased

(* The body of with-lock-held runs with the lock held, from its first to its last
   instruction, and a lock that is held has an activation that will release it:
   whatever interrupts, throws and timeouts come, on stacks of any depth.   *)
THEOREM LockKept == Spec => []LockIsKept
BY StacksHaveShape, LocksHaveHolders, BodiesHoldLocks, PTL

LEMMA WaitsAreForOthers == ShapeInv /\ LockInv => NoSelfWait
<1> SUFFICES ASSUME ShapeInv, LockInv, NEW p \in Processes, Waiting(p),
                    lock_process[Last(Pop(stack[p])).lock] = p,
                    Last(Pop(stack[p])).lock \notin abandoned
             PROVE  FALSE
  BY DEF NoSelfWait
<1> DEFINE s == stack[p]
           n == Len(s) - 1
<1>1. s \in Seq(Frame) /\ Len(s) \in Nat /\ Len(s) > 1 /\ LocksOf(p, s, lock_process)
  BY LenProperties DEF ShapeInv, TypeOK, LockInv, Waiting
<1>2. /\ n \in 1..Len(s) /\ n < Len(s) /\ Last(Pop(s)) = s[n]
      /\ s[n].kind = "lock" /\ s[n].lock \in Locks /\ s[n].at \in Waits
      /\ s[Len(s)].kind = "yield"
  BY <1>1, WaitingIs
<1>3. Holds(s, s[n].lock)
  BY <1>2 DEF LockInv
<1>4. PICK i \in 1..Len(s) : Holder(s, s[n].lock, i)
  BY <1>3, HoldsIs
<1>5. ~s[n].have
  BY <1>2, <1>1 DEF LocksOf
<1>6. i # n /\ i # Len(s)
  BY <1>2, <1>4 DEF Holder, IsLock, Waits
<1>7. n \in i + 1..Len(s)
  BY <1>1, <1>2, <1>6
<1>8. s[n].have
  BY <1>2, <1>4, <1>7 DEF Holder, IsLock
<1>9. QED
  BY <1>5, <1>8

LEMMA BodiesDoNotNest == ShapeInv /\ LockInv => ErrorCheckOnce
<1> SUFFICES ASSUME ShapeInv, LockInv, NEW p \in Processes, NEW l \in ErrorCheckLocks
             PROVE  Cardinality({i \in LockFrames(p, l) : stack[p][i].at = "body"}) <= 1
  BY DEF ErrorCheckOnce
<1> DEFINE s == stack[p]
           B == {i \in LockFrames(p, l) : s[i].at = "body"}
<1>1. B \subseteq 1..Len(s) /\ \A i \in B : IsLock(s[i], l) /\ s[i].at = "body"
  BY LockFramesAre
<1>2. LocksOf(p, s, lock_process) /\ Len(s) \in Nat
  BY LenProperties DEF LockInv, ShapeInv, TypeOK
<1>3. ASSUME NEW i \in B, NEW j \in B, i < j
      PROVE  FALSE
  BY <1>1, <1>2, <1>3 DEF LocksOf, IsLock
<1>4. \A i, j \in B : i = j
  <2>1. \A i, j \in B : ~(i < j) /\ ~(j < i) /\ i \in Nat /\ j \in Nat
    BY <1>1, <1>3
  <2> HIDE DEF B
  <2>2. QED
    BY <2>1
<1> HIDE DEF B
<1>5. Cardinality(B) <= 1
  <2>1. CASE B = {}
    BY <2>1, FS_EmptySet
  <2>2. CASE B # {}
    <3>1. PICK i \in B : TRUE
      BY <2>2
    <3>2. B = {i}
      BY <1>4, <3>1
    <3>3. QED
      BY <3>2, FS_Singleton
  <2>3. QED
    BY <2>1, <2>2
<1>6. QED
  BY <1>5 DEF B

(* No process waits for a lock that it holds, and the bodies of an error-check lock
   do not nest: "Dead lock" is signalled in time, also through interrupts.  *)
THEOREM NestingKept == Spec => []NestingIsKept
<1>1. ShapeInv /\ LockInv => NestingIsKept
  BY WaitsAreForOthers, BodiesDoNotNest DEF NestingIsKept
<1>2. QED
  BY <1>1, StacksHaveShape, LocksHaveHolders, PTL

-----------------------------------------------------------------------------
(***************************************************************************)
(* with-lock-held implements mutual exclusion.                             *)
(***************************************************************************)
In(s, l) == \E i \in 1..Len(s) : IsLock(s[i], l) /\ s[i].at = "body"

LEMMA InBodyIs ==
  ASSUME ShapeInv
  PROVE  InBody = [l \in Locks |-> {p \in Processes : In(stack[p], l)}]
<1>1. \A p \in Processes, l \in Locks :
        (\E i \in LockFrames(p, l) : stack[p][i].at = "body") <=> In(stack[p], l)
  BY LockFramesAre DEF In
<1>2. QED
  BY <1>1 DEF InBody

LEMMA InCut ==
  ASSUME NEW s \in Seq(Frame), NEW r, Cut(s, r),
         r # <<>> /\ r[Len(r)].kind = "lock" => r[Len(r)] = s[Len(r)] \/ r[Len(r)].at # "body"
  PROVE  \A l : In(r, l) => In(s, l)
<1> SUFFICES ASSUME NEW l, NEW i \in 1..Len(r), IsLock(r[i], l), r[i].at = "body"
             PROVE  In(s, l)
  BY DEF In
<1>1. Len(s) \in Nat /\ Len(r) \in Nat /\ Len(r) <= Len(s) /\ i \in 1..Len(s)
  BY LenProperties DEF Cut
<1>2. r # <<>>
  BY <1>1, EmptySeq
<1>3. r[i] = s[i]
  <2>1. CASE i < Len(r)
    BY <2>1 DEF Cut
  <2>2. CASE i = Len(r)
    BY <1>2, <2>2 DEF IsLock
  <2>3. QED
    BY <1>1, <2>1, <2>2
<1>4. QED
  BY <1>1, <1>3 DEF In

LEMMA InThrown ==
  ASSUME NEW s \in Seq(Frame), NEW k, NEW r, Thrown(s, k, r)
  PROVE  \A l : In(r, l) => In(s, l)
<1>1. Cut(s, r) /\ (r # <<>> => r[Len(r)].at # "body")
  BY DEF Thrown
<1>2. QED
  BY <1>1, InCut

LEMMA InPop ==
  ASSUME NEW s \in Seq(Frame), Len(s) > 0
  PROVE  \A l : In(Pop(s), l) => In(s, l)
<1> DEFINE r == Pop(s)
<1>1. /\ r \in Seq(Frame) /\ Len(r) = Len(s) - 1 /\ Cut(s, r) /\ Len(s) \in Nat
      /\ \A i \in 1..Len(s) - 1 : r[i] = s[i]
  BY PopIs, LenProperties
<1> HIDE DEF r
<1>2. r # <<>> => r[Len(r)] = s[Len(r)]
  BY <1>1, EmptySeq
<1>3. \A l : In(r, l) => In(s, l)
  BY <1>1, <1>2, InCut
<1>4. QED
  BY <1>3 DEF r

LEMMA InMoved ==
  ASSUME NEW s \in Seq(Frame), Len(s) > 0, NEW a \in Places, a # "body" \/ s[Len(s)].kind # "lock"
  PROVE  \A l : In(Moved(s, a), l) => In(s, l)
<1> DEFINE r == Moved(s, a)
<1>1. Cut(s, r) /\ Len(r) = Len(s) /\ r[Len(s)].at = a /\ SameCall(r[Len(s)], s[Len(s)])
  BY MovedIs
<1> HIDE DEF r
<1>2. \A l : In(r, l) => In(s, l)
  BY <1>1, InCut DEF SameCall
<1>3. QED
  BY <1>2 DEF r

LEMMA InPush ==
  ASSUME NEW s \in Seq(Frame), NEW f \in Frame, f.at # "body"
  PROVE  \A l : In(Append(s, f), l) => In(s, l)
<1> DEFINE r == Append(s, f)
<1>1. /\ Len(r) = Len(s) + 1 /\ Len(s) \in Nat /\ r[Len(s) + 1] = f
      /\ \A i \in 1..Len(s) : r[i] = s[i]
  BY PushIs, LenProperties
<1> HIDE DEF r
<1>2. \A l : In(r, l) => In(s, l)
  BY <1>1 DEF In
<1>3. QED
  BY <1>2 DEF r

(* The activation on top of s enters its body. *)
LEMMA InEntered ==
  ASSUME NEW s \in Seq(Frame), Len(s) > 0, NEW l, IsLock(s[Len(s)], l), s[Len(s)].at # "body"
  PROVE  LET r == Moved(s, "body")
         IN  In(r, l) /\ \A x : x # l => (In(r, x) <=> In(s, x))
<1> DEFINE r == Moved(s, "body")
           n == Len(s)
<1>1. /\ Len(r) = n /\ n \in Nat /\ n \in 1..n /\ r[n].at = "body" /\ SameCall(r[n], s[n])
      /\ \A i \in 1..n : i < n => r[i] = s[i]
  <2>1. "body" \in Places
    BY DEF Places
  <2>2. QED
    BY <2>1, MovedIs, LenProperties
<1> HIDE DEF r
<1>2. IsLock(r[n], l)
  BY <1>1 DEF IsLock, SameCall
<1>3. In(r, l)
  BY <1>1, <1>2 DEF In
<1>4. ASSUME NEW x, x # l
      PROVE  In(r, x) <=> In(s, x)
  <2>1. \A i \in 1..n : i = n \/ i < n
    BY <1>1
  <2>2. ~IsLock(r[n], x) /\ ~IsLock(s[n], x)
    BY <1>2, <1>4 DEF IsLock
  <2>3. \A i \in 1..n : IsLock(r[i], x) \/ IsLock(s[i], x) => r[i] = s[i]
    BY <1>1, <2>1, <2>2
  <2>4. QED
    BY <1>1, <2>3 DEF In
<1>5. QED
  BY <1>3, <1>4 DEF r

Leaves(p, r) == \A l \in Locks : In(r, l) => In(stack[p], l)
Enters(p, r) ==
  \E l \in Locks :
    /\ In(r, l) /\ lock_process[l] \in {p, None}
    /\ \A x \in Locks \ {l} : In(r, x) <=> In(stack[p], x)

LEMMA StepMutex ==
  ASSUME ShapeInv, LockInv, ShapeInv', NEW p \in Processes, NEW r, StackStep(p, r),
         Leaves(p, r) \/ Enters(p, r)
  PROVE  [M!Next]_InBody
<1>1. /\ InBody = [l \in Locks |-> {q \in Processes : In(stack[q], l)}]
      /\ InBody' = [l \in Locks |-> {q \in Processes : In(stack'[q], l)}]
  <2>1. InBody = [l \in Locks |-> {q \in Processes : In(stack[q], l)}]
    BY InBodyIs
  <2>2. \A q \in Processes : DOMAIN stack'[q] = 1..Len(stack'[q])
    BY DEF ShapeInv, TypeOK
  <2>3. \A q \in Processes, l \in Locks :
          (\E i \in LockFrames(q, l)' : stack'[q][i].at = "body") <=> In(stack'[q], l)
    BY <2>2 DEF LockFrames, In, IsLock
  <2>4. QED
    BY <2>1, <2>3 DEF InBody
<1>2. stack'[p] = r /\ \A q \in Processes : q # p => stack'[q] = stack[q]
  BY DEF StackStep, ShapeInv, TypeOK
<1>3. \A q \in Processes, l \in Locks : In(stack[q], l) => lock_process[l] = q
  BY DEF In, LockInv, LocksOf, IsLock
<1>4. CASE Leaves(p, r)
  <2> DEFINE ls == {l \in Locks : In(stack[p], l) /\ ~In(r, l)}
  <2>1. ASSUME NEW l \in ls
        PROVE  InBody[l] = {p}
    BY <1>1, <1>3
  <2>2. ls \in SUBSET {l \in Locks : InBody[l] = {p}}
    BY <2>1
  <2>3. \A l \in Locks : {q \in Processes : In(stack'[q], l)} = IF l \in ls THEN {} ELSE InBody[l]
    <3> SUFFICES ASSUME NEW l \in Locks
                 PROVE  {q \in Processes : In(stack'[q], l)} = IF l \in ls THEN {} ELSE InBody[l]
      OBVIOUS
    <3>1. CASE l \in ls
      BY <1>2, <1>3, <3>1
    <3>2. CASE l \notin ls
      <4>1. InBody[l] = {q \in Processes : In(stack[q], l)}
        BY <1>1
      <4>2. In(r, l) <=> In(stack[p], l)
        BY <1>4, <3>2 DEF Leaves
      <4>3. QED
        BY <1>2, <3>2, <4>1, <4>2
    <3>3. QED
      BY <3>1, <3>2
  <2>4. InBody' = [l \in Locks |-> IF l \in ls THEN {} ELSE InBody[l]]
    BY <1>1, <2>3
  <2> HIDE DEF ls
  <2>5. M!Abandon(p)
    BY <2>2, <2>4 DEF M!Abandon
  <2>6. QED
    BY <2>5 DEF M!Next
<1>5. CASE Enters(p, r)
  <2>1. PICK l \in Locks :
          /\ In(r, l) /\ lock_process[l] \in {p, None}
          /\ \A x \in Locks \ {l} : In(r, x) <=> In(stack[p], x)
    BY <1>5 DEF Enters
  <2>2. \A q \in Processes : In(stack[q], l) => q = p
    BY <1>3, <2>1, ConstantsAssumption
  <2>3. \A x \in Locks : {q \in Processes : In(stack'[q], x)} = IF x = l THEN {p} ELSE InBody[x]
    <3> SUFFICES ASSUME NEW x \in Locks
                 PROVE  {q \in Processes : In(stack'[q], x)} = IF x = l THEN {p} ELSE InBody[x]
      OBVIOUS
    <3>1. CASE x = l
      BY <1>2, <2>1, <2>2, <3>1
    <3>2. CASE x # l
      <4>1. InBody[x] = {q \in Processes : In(stack[q], x)}
        BY <1>1
      <4>2. In(r, x) <=> In(stack[p], x)
        BY <2>1, <3>2
      <4>3. QED
        BY <1>2, <3>2, <4>1, <4>2
    <3>3. QED
      BY <3>1, <3>2
  <2>4. InBody' = [InBody EXCEPT ![l] = {p}]
    BY <1>1, <2>3
  <2>5. InBody[l] = {} \/ InBody[l] = {p}
    BY <1>1, <2>2
  <2>6. CASE InBody[l] = {}
    BY <2>4, <2>6 DEF M!Next, M!Enter
  <2>7. CASE InBody[l] = {p}
    BY <1>1, <2>4, <2>7
  <2>8. QED
    BY <2>5, <2>6, <2>7
<1>6. QED
  BY <1>4, <1>5

LEMMA RunInterruptLeaves ==
  ASSUME ShapeInv, NEW p \in Processes, RunInterrupt(p)
  PROVE  \E r : StackStep(p, r) /\ Leaves(p, r)
<1> DEFINE s == stack[p]
<1>1. s \in Seq(Frame)
  BY DEF ShapeInv, TypeOK
<1>2. PICK r :
        /\ StackStep(p, r)
        /\ \/ r = Append(s, NewFrame("interrupt", "run"))
           \/ Thrown(s, 1, r)
           \/ r = s
           \/ \E k \in 1..Len(s) : Thrown(s, k, r)
  BY RunInterruptIs
<1>3. CASE r = Append(s, NewFrame("interrupt", "run"))
  <2> DEFINE f == NewFrame("interrupt", "run")
  <2>1. f \in Frame /\ f.at # "body" /\ r = Append(s, f)
    BY <1>3, NewFrameIs
  <2> HIDE DEF f
  <2>2. Leaves(p, r)
    BY <1>1, <2>1, InPush DEF Leaves
  <2>3. QED
    BY <1>2, <2>2
<1>4. CASE \E k : Thrown(s, k, r)
  <2>1. Leaves(p, r)
    BY <1>1, <1>4, InThrown DEF Leaves
  <2>2. QED
    BY <1>2, <2>1
<1>5. CASE r = s
  BY <1>2, <1>5 DEF Leaves
<1>6. QED
  BY <1>2, <1>3, <1>4, <1>5

LEMMA ReturnLeaves ==
  ASSUME ShapeInv, NEW p \in Processes, Return(p)
  PROVE  \E r : StackStep(p, r) /\ Leaves(p, r)
<1> DEFINE s == stack[p]
           t == Pop(s)
<1>1. /\ s \in Seq(Frame) /\ Len(s) > 1 /\ Len(s) \in Nat
      /\ t \in Seq(Frame) /\ Len(t) = Len(s) - 1
  BY ResumedIs, LenProperties DEF Return
<1>2. \A l : In(t, l) => In(s, l)
  BY <1>1, InPop
<1>3. PICK r : StackStep(p, r) /\ (r = t \/ r = Pop(t) \/ \E k : Thrown(t, k, r))
  BY ReturnIs
<1> HIDE DEF t
<1>4. \A l : In(r, l) => In(t, l)
  BY <1>1, <1>3, InPop, InThrown
<1>5. QED
  BY <1>2, <1>3, <1>4 DEF Leaves

LEMMA ReleaseLockLeaves ==
  ASSUME ShapeInv, NEW p \in Processes, ReleaseLock(p)
  PROVE  \E r : StackStep(p, r) /\ Leaves(p, r)
<1> DEFINE s == stack[p]
<1>1. s \in Seq(Frame) /\ Len(s) > 0
  BY RunningIs DEF ReleaseLock, At
<1>2. PICK r : StackStep(p, r) /\ (r = Pop(s) \/ \E k : Thrown(s, k, r))
  BY ReleaseLockIs
<1>3. \A l : In(r, l) => In(s, l)
  <2> HIDE DEF s
  <2>1. QED
    BY <1>1, <1>2, InPop, InThrown
<1>4. QED
  BY <1>2, <1>3 DEF Leaves

LEMMA LockWaitSucceedsEnters ==
  ASSUME ShapeInv, NEW p \in Processes, LockWaitSucceeds(p)
  PROVE  \E r : StackStep(p, r) /\ Enters(p, r)
<1> DEFINE s == stack[p]
           t == Pop(s)
           n == Len(t)
           l == t[n].lock
<1>1. /\ MayResume(p) /\ Waiting(p) /\ lock_process[l] = None
      /\ GoesOn(p, t, Moved(t, "body"))
  BY DEF LockWaitSucceeds, Last
<1>2. /\ s \in Seq(Frame) /\ Len(s) > 1 /\ Len(s) \in Nat /\ s[Len(s)].kind = "yield" /\ StackShape(s)
      /\ t \in Seq(Frame) /\ n = Len(s) - 1 /\ \A i \in 1..Len(s) - 1 : t[i] = s[i]
  BY <1>1, ResumedIs, WaitingIs, LenProperties
<1>3. t[n].kind = "lock" /\ l \in Locks /\ t[n].at \in Waits /\ n > 0
  <2>1. n = Len(s) - 1
    BY <1>2
  <2>2. t[n].kind = "lock" /\ t[n].lock \in Locks /\ t[n].at \in Waits /\ n \in 1..Len(s)
    BY <1>1, <1>2, <2>1, WaitingIs
  <2> HIDE DEF s, t
  <2>3. QED
    BY <1>2, <2>2
<1>4. StackStep(p, Moved(t, "body"))
  BY <1>1, WaitEndsIs
<1>5. \A x : In(t, x) <=> In(s, x)
  <2>1. \A x : In(t, x) => In(s, x)
    BY <1>2, InPop
  <2>2. ASSUME NEW x, NEW i \in 1..Len(s), IsLock(s[i], x), s[i].at = "body"
        PROVE  In(t, x)
    <3>1. i # Len(s)
      BY <1>2, <2>2 DEF IsLock
    <3>2. i \in 1..n /\ t[i] = s[i]
      BY <1>2, <3>1
    <3> HIDE DEF t
    <3>3. QED
      BY <2>2, <3>2 DEF In
  <2>3. QED
    BY <2>1, <2>2 DEF In
<1> HIDE DEF t
<1>6. IsLock(t[Len(t)], l) /\ t[Len(t)].at # "body"
  BY <1>3 DEF IsLock, Waits
<1> DEFINE r == Moved(t, "body")
<1>7. In(r, l) /\ \A x : x # l => (In(r, x) <=> In(t, x))
  BY <1>2, <1>3, <1>6, InEntered
<1> HIDE DEF r
<1>8. Enters(p, r)
  BY <1>1, <1>3, <1>5, <1>7 DEF Enters
<1>9. QED
  BY <1>4, <1>8 DEF r

LEMMA LockWaitTimesOutLeaves ==
  ASSUME ShapeInv, NEW p \in Processes, LockWaitTimesOut(p)
  PROVE  \E r : StackStep(p, r) /\ Leaves(p, r)
<1> DEFINE s == stack[p]
           t == Pop(s)
           r == Moved(t, "cleanup")
<1>1. MayResume(p) /\ Waiting(p) /\ GoesOn(p, t, Moved(t, "cleanup"))
  BY DEF LockWaitTimesOut
<1>2. s \in Seq(Frame) /\ Len(s) > 1 /\ Len(s) \in Nat /\ t \in Seq(Frame) /\ Len(t) = Len(s) - 1
  BY <1>1, ResumedIs, LenProperties
<1>3. StackStep(p, r)
  BY <1>1, WaitEndsIs
<1>4. \A l : In(t, l) => In(s, l)
  BY <1>2, InPop
<1> HIDE DEF t
<1>5. \A l : In(r, l) => In(t, l)
  <2>1. Len(t) > 0 /\ "cleanup" \in Places
    BY <1>2 DEF Places
  <2>2. QED
    BY <1>2, <2>1, InMoved
<1>6. QED
  BY <1>3, <1>4, <1>5 DEF Leaves

LEMMA TakeLockSteps ==
  ASSUME ShapeInv, LockInv, NEW p \in Processes, NEW wait \in Waits \union {"cleanup"}, TakeLock(p, wait)
  PROVE  \E r : StackStep(p, r) /\ (Leaves(p, r) \/ Enters(p, r))
<1> DEFINE s == stack[p]
           n == Len(s)
           f == s[n]
           free == lock_process[f.lock] = None
<1>1. /\ s \in Seq(Frame) /\ n \in Nat /\ n > 0 /\ n \in 1..n
      /\ f.kind = "lock" /\ f.at = "try" /\ f.lock \in Locks /\ Top(p) = f
      /\ LocksOf(p, s, lock_process)
  BY TakeLockIs, RunningIs DEF LockInv
<1>2. PICK r :
        /\ StackStep(p, r)
        /\ \/ (Reenters(f) \/ free) /\ r = Moved(s, "body")
           \/ r = Moved(s, "cleanup")
           \/ \E w \in Waits : r = Append(Moved(s, w), NewFrame("yield", "run"))
  BY <1>1, TakeLockIs
<1>3. CASE (Reenters(f) \/ free) /\ r = Moved(s, "body")
  <2>1. lock_process[f.lock] \in {p, None}
    BY <1>1, <1>3 DEF Reenters, LocksOf
  <2> DEFINE l == f.lock
  <2>2. IsLock(s[n], l) /\ s[n].at # "body" /\ l \in Locks
    BY <1>1 DEF IsLock
  <2> HIDE DEF l
  <2>3. In(r, l) /\ \A x : x # l => (In(r, x) <=> In(s, x))
    <3> HIDE DEF s
    <3>1. QED
      BY <1>1, <1>3, <2>2, InEntered
  <2>4. Enters(p, r)
    BY <2>1, <2>2, <2>3 DEF Enters, l
  <2>5. QED
    BY <1>2, <2>4
<1>4. CASE r = Moved(s, "cleanup")
  <2>1. "cleanup" \in Places
    BY DEF Places
  <2>2. \A l : In(r, l) => In(s, l)
    <3> HIDE DEF s
    <3>1. QED
      BY <1>1, <1>4, <2>1, InMoved
  <2>3. QED
    BY <1>2, <2>2 DEF Leaves
<1>5. ASSUME NEW w \in Waits, r = Append(Moved(s, w), NewFrame("yield", "run"))
      PROVE  Leaves(p, r)
  <2> DEFINE m == Moved(s, w)
             y == NewFrame("yield", "run")
  <2>1. w \in Places /\ w # "body"
    BY DEF Places, Waits
  <2>2. m \in Seq(Frame) /\ y \in Frame /\ y.at # "body"
    BY <1>1, <2>1, MovedIs, NewFrameIs
  <2>3. \A l : In(m, l) => In(s, l)
    <3> HIDE DEF s
    <3>1. QED
      BY <1>1, <2>1, InMoved
  <2> HIDE DEF m, y
  <2>4. \A l : In(Append(m, y), l) => In(m, l)
    BY <2>2, InPush
  <2>5. r = Append(m, y)
    BY <1>5 DEF m, y
  <2>6. QED
    BY <2>3, <2>4, <2>5 DEF Leaves
<1>6. QED
  BY <1>2, <1>3, <1>4, <1>5

LEMMA DestroyTimerLeaves ==
  ASSUME ShapeInv, NEW p \in Processes, DestroyTimer(p)
  PROVE  \E r : StackStep(p, r) /\ Leaves(p, r)
<1> DEFINE s == stack[p]
           m == Moved(s, "destroyed")
           y == NewFrame("yield", "run")
<1>1. s \in Seq(Frame) /\ Len(s) > 0 /\ StackStep(p, Append(m, y))
  BY DestroyTimerIs, RunningIs
<1>2. "destroyed" \in Places
  BY DEF Places
<1>3. m \in Seq(Frame) /\ y \in Frame /\ y.at # "body"
  BY <1>1, <1>2, MovedIs, NewFrameIs
<1>4. \A l : In(m, l) => In(s, l)
  <2> HIDE DEF s
  <2>1. QED
    BY <1>1, <1>2, InMoved
<1> HIDE DEF m, y
<1>5. \A l : In(Append(m, y), l) => In(m, l)
  BY <1>3, InPush
<1>6. QED
  BY <1>1, <1>4, <1>5 DEF Leaves

(* A frame that does not run a body is put on the stack; the top one is popped, or
   moved to a place that is not the body of with-lock-held.                *)
LEMMA PushLeaves ==
  ASSUME ShapeInv, NEW p \in Processes, NEW f \in Frame, f.at # "body"
  PROVE  Leaves(p, Append(stack[p], f))
<1>1. stack[p] \in Seq(Frame)
  BY DEF ShapeInv, TypeOK
<1>2. QED
  BY <1>1, InPush DEF Leaves

LEMMA TopLeaves ==
  ASSUME ShapeInv, NEW p \in Processes, Runs(p)
  PROVE  /\ Leaves(p, Pop(stack[p]))
         /\ Leaves(p, Moved(stack[p], "cleanup"))
         /\ Top(p).kind # "lock" => Leaves(p, Moved(stack[p], "body"))
<1> DEFINE s == stack[p]
<1>1. s \in Seq(Frame) /\ Len(s) > 0 /\ Top(p) = s[Len(s)]
  BY RunningIs
<1>2. "cleanup" \in Places /\ "body" \in Places
  BY DEF Places
<1>3. /\ \A l : In(Pop(s), l) => In(s, l)
      /\ \A l : In(Moved(s, "cleanup"), l) => In(s, l)
      /\ s[Len(s)].kind # "lock" => \A l : In(Moved(s, "body"), l) => In(s, l)
  <2> HIDE DEF s
  <2>1. QED
    BY <1>1, <1>2, InPop, InMoved
<1>4. QED
  BY <1>1, <1>3 DEF Leaves

LEMMA NextMutex ==
  ShapeInv /\ LockInv /\ ShapeInv' /\ [Next]_vars => [M!Next]_InBody
<1> SUFFICES ASSUME ShapeInv, LockInv, ShapeInv', [Next]_vars
             PROVE  [M!Next]_InBody
  OBVIOUS
<1>1. CASE UNCHANGED stack
  BY <1>1 DEF InBody, LockFrames
<1>2. ASSUME NEW p \in Processes, \E r : StackStep(p, r) /\ (Leaves(p, r) \/ Enters(p, r))
      PROVE  [M!Next]_InBody
  BY <1>2, StepMutex
<1>3. ASSUME NEW p \in Processes, RunInterrupt(p)
      PROVE  [M!Next]_InBody
  BY <1>2, <1>3, RunInterruptLeaves
<1>4. ASSUME NEW p \in Processes, Return(p)
      PROVE  [M!Next]_InBody
  BY <1>2, <1>4, ReturnLeaves
<1>5. ASSUME NEW p \in Processes, LockWaitSucceeds(p)
      PROVE  [M!Next]_InBody
  BY <1>2, <1>5, LockWaitSucceedsEnters
<1>6. ASSUME NEW p \in Processes, LockWaitTimesOut(p)
      PROVE  [M!Next]_InBody
  BY <1>2, <1>6, LockWaitTimesOutLeaves
<1>7. ASSUME NEW p \in Processes, Sigalrm(p)
      PROVE  [M!Next]_InBody
  <2> DEFINE f == NewFrame("sigalrm", "run")
  <2>1. f \in Frame /\ f.at # "body" /\ StackStep(p, Append(stack[p], f))
    BY <1>7, SigalrmIs, NewFrameIs
  <2> HIDE DEF f
  <2>2. QED
    BY <1>2, <2>1, PushLeaves
<1>8. ASSUME NEW p \in Processes, InterruptReturn(p)
      PROVE  [M!Next]_InBody
  <2>1. Runs(p) /\ StackStep(p, Pop(stack[p]))
    BY <1>8, ReturnsIs DEF InterruptReturn, At
  <2>2. QED
    BY <1>2, <2>1, TopLeaves
<1>9. ASSUME NEW p \in Processes, NEW q \in Processes, NEW x \in {"call", "end"}, Send(p, q, x)
      PROVE  [M!Next]_InBody
  <2> DEFINE f == NewFrame("yield", "run")
  <2>1. f \in Frame /\ f.at # "body" /\ StackStep(p, Append(stack[p], f))
    BY <1>9, SendShape, NewFrameIs
  <2> HIDE DEF f
  <2>2. QED
    BY <1>2, <2>1, PushLeaves
<1>10. ASSUME NEW p \in Processes, NEW l \in Locks, WithLockHeld(p, l)
       PROVE  [M!Next]_InBody
  <2> DEFINE f == LockFrame(p, l)
  <2>1. f \in Frame /\ f.at # "body" /\ StackStep(p, Append(stack[p], f))
    BY <1>10, WithLockHeldIs
  <2> HIDE DEF f
  <2>2. QED
    BY <1>2, <2>1, PushLeaves
<1>11. ASSUME NEW p \in Processes, NEW wait \in Waits \union {"cleanup"}, TakeLock(p, wait)
       PROVE  [M!Next]_InBody
  BY <1>2, <1>11, TakeLockSteps
<1>12. ASSUME NEW p \in Processes, BodyReturns(p)
       PROVE  [M!Next]_InBody
  BY <1>2, <1>12, BodyReturnsIs, TopLeaves
<1>13. ASSUME NEW p \in Processes, ReleaseLock(p)
       PROVE  [M!Next]_InBody
  BY <1>2, <1>13, ReleaseLockLeaves
<1>14. ASSUME NEW p \in Processes, NEW t \in Timers, WithTimeout(p, t)
       PROVE  [M!Next]_InBody
  <2> DEFINE f == TimeoutFrame(t)
  <2>1. f \in Frame /\ f.at # "body" /\ StackStep(p, Append(stack[p], f))
    BY <1>14, WithTimeoutIs
  <2> HIDE DEF f
  <2>2. QED
    BY <1>2, <2>1, PushLeaves
<1>15. ASSUME NEW p \in Processes, ProtectBody(p)
       PROVE  [M!Next]_InBody
  <2>1. Top(p).kind # "lock"
    BY <1>15 DEF ProtectBody, At
  <2>2. QED
    BY <1>2, <1>15, <2>1, ProtectBodyIs, TopLeaves
<1>16. ASSUME NEW p \in Processes, DestroyTimer(p)
       PROVE  [M!Next]_InBody
  BY <1>2, <1>16, DestroyTimerLeaves
<1>17. ASSUME NEW p \in Processes, FormsReturn(p)
       PROVE  [M!Next]_InBody
  <2>1. Runs(p) /\ StackStep(p, Pop(stack[p]))
    BY <1>17, ReturnsIs DEF FormsReturn, At
  <2>2. QED
    BY <1>2, <2>1, TopLeaves
<1>18. ASSUME NEW t \in Timers, TimerExpires(t)
       PROVE  [M!Next]_InBody
  BY <1>1, <1>18 DEF TimerExpires
<1>19. CASE UNCHANGED vars
  BY <1>1, <1>19 DEF vars
<1>20. QED
  BY <1>3, <1>4, <1>5, <1>6, <1>7, <1>8, <1>9, <1>10, <1>11, <1>12, <1>13, <1>14, <1>15,
     <1>16, <1>17, <1>18, <1>19 DEF Next

LEMMA InitMutex == Init => M!Init
<1> SUFFICES ASSUME Init
             PROVE  M!Init
  OBVIOUS
<1> DEFINE f == NewFrame("function", "run")
           y == NewFrame("yield", "run")
<1>1. f.kind = "function" /\ y.kind = "yield"
  BY NewFrameIs
<1>2. stack = [p \in Processes |-> IF p = InitialProcess THEN <<f>> ELSE <<f, y>>]
  BY DEF Init
<1> HIDE DEF f, y
<1>3. \A p \in Processes, l \in Locks : LockFrames(p, l) = {}
  <2> SUFFICES ASSUME NEW p \in Processes, NEW l \in Locks
               PROVE  LockFrames(p, l) = {}
    OBVIOUS
  <2>1. stack[p] = <<f>> \/ stack[p] = <<f, y>>
    BY <1>2
  <2>2. \A i \in DOMAIN stack[p] : stack[p][i].kind # "lock"
    BY <1>1, <2>1
  <2>3. QED
    BY <2>2 DEF LockFrames
<1>4. QED
  BY <1>3 DEF M!Init, InBody

(* with-lock-held implements mutual exclusion: every step enters a free body, ends
   some that only this process was in, or changes nothing that Mutex sees.  *)
THEOREM ImplementsMutex == Spec => MutexSpec
BY InitMutex, NextMutex, InitShape, NextShape, InitLocks, NextLocks, PTL DEF Spec, MutexSpec, M!Spec

-----------------------------------------------------------------------------
(***************************************************************************)
(* Timeouts, where with-timeouts do not nest.                              *)
(***************************************************************************)
LEMMA OnceTail ==
  ASSUME NEW ints \in Seq(Interrupts), ints # <<>>
  PROVE  /\ Times(Tail(ints)) # {} => Times(ints) # {}
         /\ Once(ints) => Once(Tail(ints))
         /\ Once(ints) /\ Head(ints) = "timer" => Times(Tail(ints)) = {}
<1> DEFINE r == Tail(ints)
<1>1. /\ r \in Seq(Interrupts) /\ Len(r) = Len(ints) - 1 /\ Len(ints) \in Nat
      /\ \A i \in 1..Len(ints) - 1 : r[i] = ints[i + 1]
      /\ Head(ints) = ints[1] /\ Len(ints) > 0
  BY PendingIs, LenProperties
<1> HIDE DEF r
<1>2. \A i \in Times(r) : i \in 1..Len(ints) - 1 /\ i \in Nat /\ i + 1 \in Times(ints)
  BY <1>1 DEF Times
<1>3. Times(r) # {} => Times(ints) # {}
  BY <1>2
<1>4. ASSUME Once(ints)
      PROVE  Once(r)
  <2> SUFFICES ASSUME NEW i \in Times(r), NEW j \in Times(r)
               PROVE  i = j
    BY DEF Once
  <2>1. i + 1 = j + 1 /\ i \in Nat /\ j \in Nat
    BY <1>2, <1>4 DEF Once
  <2>2. QED
    BY <2>1
<1>5. ASSUME Once(ints), Head(ints) = "timer", NEW i \in Times(r)
      PROVE  FALSE
  <2>1. 1 \in Times(ints)
    BY <1>1, <1>5 DEF Times
  <2>2. i + 1 = 1 /\ i \in Nat /\ i > 0
    BY <1>1, <1>2, <1>5, <2>1 DEF Once
  <2>3. QED
    BY <2>2
<1>6. QED
  BY <1>3, <1>4, <1>5 DEF r

LEMMA OnceAfter ==
  ASSUME NEW ints \in Seq(Interrupts), NEW x \in Interrupts
  PROVE  LET r == <<x>> \o ints
         IN  /\ x # "timer" => (Times(r) # {} => Times(ints) # {}) /\ (Once(ints) => Once(r))
             /\ Times(ints) = {} => Once(r)
<1> DEFINE r == <<x>> \o ints
<1>1. /\ r \in Seq(Interrupts) /\ Len(r) = Len(ints) + 1 /\ Len(ints) \in Nat
      /\ r[1] = x
      /\ \A i \in 2..Len(ints) + 1 : r[i] = ints[i - 1]
  BY PendingIs, LenProperties
<1> HIDE DEF r
<1>2. \A i \in Times(r) : i \in Nat /\ (i # 1 => i - 1 \in Times(ints)) /\ (x # "timer" => i # 1)
  <2> SUFFICES ASSUME NEW i \in Times(r)
               PROVE  i \in Nat /\ (i # 1 => i - 1 \in Times(ints)) /\ (x # "timer" => i # 1)
    OBVIOUS
  <2>1. i \in 1..Len(ints) + 1 /\ r[i] = "timer"
    BY <1>1 DEF Times
  <2>2. i # 1 => i \in 2..Len(ints) + 1 /\ i - 1 \in 1..Len(ints)
    BY <1>1, <2>1
  <2>3. QED
    BY <1>1, <2>1, <2>2 DEF Times
<1>3. Times(ints) = {} => Once(r)
  BY <1>2 DEF Once
<1>4. ASSUME x # "timer"
      PROVE  (Times(r) # {} => Times(ints) # {}) /\ (Once(ints) => Once(r))
  <2>1. Times(r) # {} => Times(ints) # {}
    BY <1>2, <1>4
  <2>2. ASSUME Once(ints), NEW i \in Times(r), NEW j \in Times(r)
        PROVE  i = j
    <3>1. i - 1 = j - 1 /\ i \in Nat /\ j \in Nat
      BY <1>2, <1>4, <2>2 DEF Once
    <3>2. QED
      BY <3>1
  <2>3. QED
    BY <2>1, <2>2 DEF Once
<1>5. QED
  BY <1>3, <1>4 DEF r

LEMMA TimedLess ==
  ASSUME NEW s, NEW exp, NEW pend \in BOOLEAN, NEW less \in BOOLEAN, less => pend, Timed(s, exp, pend)
  PROVE  Timed(s, exp, less)
BY DEF Timed

LEMMA TimedCut ==
  ASSUME NEW s \in Seq(Frame), StackShape(s), NEW exp, NEW pend \in BOOLEAN, Timed(s, exp, pend),
         NEW r, Cut(s, r), NEW less \in BOOLEAN, less => pend,
         r # <<>> =>
           LET f == r[Len(r)]
               g == s[Len(r)]
           IN  /\ f.at = "forms" => g.at = "forms" \/ f.timer \in exp
               /\ f.exit > 1 => f.exit = g.exit \/ (f.exit <= Len(s) /\ s[f.exit].timer \in exp /\ ~less)
               /\ less /\ Catches(g) => Catches(f)
               /\ f.exit <= Len(r),
         less => \A i \in Len(r) + 1..Len(s) : Catches(s[i]) => s[i].timer \notin exp
  PROVE  Timed(r, exp, less)
<1> DEFINE n == Len(r)
<1>1. Len(s) \in Nat /\ n \in Nat /\ n <= Len(s) /\ r \in Seq(Frame)
  BY LenProperties DEF Cut
<1>2. \A i \in 1..n : i \in 1..Len(s) /\ SameCall(r[i], s[i]) /\ (i < n => r[i] = s[i]) /\ r # <<>>
  BY <1>1, EmptySeq DEF Cut
<1>3. ASSUME NEW i \in 1..n, r[i].at = "forms"
      PROVE  r[i].timer \in exp
  <2>1. CASE i < n
    BY <1>2, <1>3, <2>1 DEF Timed
  <2>2. CASE i = n
    BY <1>2, <1>3, <2>2 DEF Timed, SameCall
  <2>3. QED
    BY <1>1, <2>1, <2>2
<1>4. ASSUME NEW i \in 1..n, r[i].exit > 1
      PROVE  r[r[i].exit].timer \in exp /\ ~less
  <2>1. r[i].exit \in Nat /\ r[i].exit <= n
    <3>1. r[i].exit \in Nat
      BY <1>1, FrameIs
    <3>2. CASE i < n
      BY <1>1, <1>2, <3>1, <3>2 DEF StackShape
    <3>3. CASE i = n
      BY <1>2, <3>1, <3>3
    <3>4. QED
      BY <1>1, <3>1, <3>2, <3>3
  <2>2. r[i].exit \in 1..n
    BY <1>1, <1>4, <2>1
  <2>3. r[r[i].exit].timer = s[r[i].exit].timer
    BY <1>2, <2>2 DEF SameCall
  <2>4. r[i].exit = s[i].exit => s[r[i].exit].timer \in exp /\ ~less
    BY <1>2, <1>4 DEF Timed
  <2>5. CASE i < n
    BY <1>2, <2>3, <2>4, <2>5
  <2>6. CASE i = n
    BY <1>2, <1>4, <2>3, <2>4, <2>6
  <2>7. QED
    BY <1>1, <2>5, <2>6
<1>5. ASSUME less
      PROVE  \E i \in 1..n : Catches(r[i]) /\ r[i].timer \in exp
  <2>1. PICK i \in 1..Len(s) : Catches(s[i]) /\ s[i].timer \in exp
    BY <1>5 DEF Timed
  <2>2. i \in 1..n
    BY <1>1, <1>5, <2>1
  <2>3. Catches(r[i])
    <3>1. CASE i < n
      BY <1>2, <2>1, <2>2, <3>1
    <3>2. CASE i = n
      BY <1>2, <1>5, <2>1, <2>2, <3>2
    <3>3. QED
      BY <1>1, <2>2, <3>1, <3>2
  <2>4. QED
    BY <1>2, <2>1, <2>2, <2>3 DEF SameCall
<1>6. QED
  BY <1>3, <1>4, <1>5 DEF Timed

LEMMA TimedPush ==
  ASSUME NEW s \in Seq(Frame), \A i \in 1..Len(s) : s[i].exit <= i, NEW exp, NEW pend \in BOOLEAN, Timed(s, exp, pend),
         NEW f \in Frame, f.at # "forms", f.exit = 0
  PROVE  Timed(Append(s, f), exp, pend)
<1> DEFINE r == Append(s, f)
<1>1. /\ Len(r) = Len(s) + 1 /\ Len(s) \in Nat /\ r[Len(s) + 1] = f
      /\ \A i \in 1..Len(s) : r[i] = s[i]
  BY PushIs, LenProperties
<1> HIDE DEF r
<1>2. \A i \in 1..Len(r) : i \in 1..Len(s) \/ i = Len(s) + 1
  BY <1>1
<1>3. \A i \in 1..Len(r) : r[i].at = "forms" => r[i].timer \in exp
  BY <1>1, <1>2 DEF Timed
<1>4. ASSUME NEW i \in 1..Len(r), r[i].exit > 1
      PROVE  r[r[i].exit].timer \in exp /\ ~pend
  <2>1. i \in 1..Len(s) /\ r[i] = s[i]
    BY <1>1, <1>2, <1>4
  <2>2. s[i].exit \in Nat /\ s[i].exit <= i
    BY <2>1, FrameIs
  <2>3. s[i].exit \in 1..Len(s)
    BY <1>1, <1>4, <2>1, <2>2
  <2>4. QED
    BY <1>1, <1>4, <2>1, <2>3 DEF Timed
<1>5. pend => \E i \in 1..Len(r) : Catches(r[i]) /\ r[i].timer \in exp
  BY <1>1 DEF Timed
<1>6. Timed(r, exp, pend)
  BY <1>3, <1>4, <1>5 DEF Timed
<1>7. QED
  BY <1>6 DEF r

LEMMA TimedThrown ==
  ASSUME NEW s \in Seq(Frame), StackShape(s), NEW exp, NEW pend \in BOOLEAN, Timed(s, exp, pend),
         NEW k \in 1..Len(s), NEW r, Thrown(s, k, r), NEW less \in BOOLEAN, less => pend,
         k > 1 => s[k].timer \in exp /\ ~less,
         less => \A i \in Len(r) + 1..Len(s) : Catches(s[i]) => s[i].timer \notin exp
  PROVE  Timed(r, exp, less)
<1>1. Len(s) \in Nat /\ Len(r) \in Nat /\ Cut(s, r) /\ k \in Nat /\ k >= 1 /\ k <= Len(s)
  BY LenProperties DEF Thrown, Cut
<1>2. ASSUME r # <<>>
      PROVE  LET f == r[Len(r)]
                 g == s[Len(r)]
             IN  /\ f.at = "forms" => g.at = "forms" \/ f.timer \in exp
                 /\ f.exit > 1 => f.exit = g.exit \/ (f.exit <= Len(s) /\ s[f.exit].timer \in exp /\ ~less)
                 /\ less /\ Catches(g) => Catches(f)
                 /\ f.exit <= Len(r)
  <2>1. SameCall(r[Len(r)], s[Len(r)])
    BY <1>1, <1>2, EmptySeq DEF Cut
  <2>2. CASE k <= Len(r) /\ HasCleanup(s[Len(r)]) /\ r[Len(r)].at = "cleanup" /\ r[Len(r)].exit = k
    BY <1>1, <2>1, <2>2 DEF HasCleanup, Catches, SameCall
  <2>3. CASE k = Len(r) /\ k # 1 /\ r[k].at = "forms" /\ r[k].exit = 0
    BY <1>1, <2>1, <2>3 DEF SameCall
  <2>4. QED
    BY <1>2, <2>2, <2>3 DEF Thrown
<1>3. QED
  BY <1>1, <1>2, TimedCut

Owner(f, t) == f.kind = "timeout" /\ f.timer = t /\ f.at \in {"start", "body", "cleanup"}

LEMMA OwnsCut ==
  ASSUME NEW s \in Seq(Frame), NEW r, Cut(s, r), NEW t, Owns(s, t),
         r # <<>> /\ Owner(s[Len(r)], t) => Owner(r[Len(r)], t),
         \A i \in Len(r) + 1..Len(s) : ~Owner(s[i], t)
  PROVE  Owns(r, t)
<1>1. Len(s) \in Nat /\ Len(r) \in Nat /\ Len(r) <= Len(s)
  BY LenProperties DEF Cut
<1>2. PICK i \in 1..Len(s) : Owner(s[i], t)
  BY DEF Owns, Owner
<1>3. i \in 1..Len(r)
  BY <1>1, <1>2
<1>4. r # <<>>
  BY <1>1, <1>3, EmptySeq
<1>5. Owner(r[i], t)
  <2>1. CASE i < Len(r)
    BY <1>2, <1>3, <2>1 DEF Cut
  <2>2. CASE i = Len(r)
    BY <1>2, <1>4, <2>2
  <2>3. QED
    BY <1>1, <1>3, <2>1, <2>2
<1>6. QED
  BY <1>3, <1>5 DEF Owns, Owner

LEMMA OwnsPush ==
  ASSUME NEW s \in Seq(Frame), NEW f \in Frame, NEW t, Owns(s, t) \/ Owner(f, t)
  PROVE  Owns(Append(s, f), t)
<1> DEFINE r == Append(s, f)
<1>1. /\ Len(r) = Len(s) + 1 /\ Len(s) \in Nat /\ r[Len(s) + 1] = f
      /\ \A i \in 1..Len(s) : r[i] = s[i]
  BY PushIs, LenProperties
<1> HIDE DEF r
<1>2. CASE Owns(s, t)
  <2>1. \A i \in 1..Len(s) : i \in 1..Len(r)
    BY <1>1
  <2>2. Owns(r, t)
    BY <1>1, <1>2, <2>1 DEF Owns
  <2>3. QED
    BY <2>2 DEF r
<1>3. CASE Owner(f, t)
  <2>1. Len(s) + 1 \in 1..Len(r)
    BY <1>1
  <2>2. Owns(r, t)
    BY <1>1, <1>3, <2>1 DEF Owns, Owner
  <2>3. QED
    BY <2>2 DEF r
<1>4. QED
  BY <1>2, <1>3

LEMMA OwnsThrown ==
  ASSUME NEW s \in Seq(Frame), NEW k \in 1..Len(s), NEW r, Thrown(s, k, r), NEW t, Owns(s, t),
         NEW n \in {Len(s), Len(s) - 1}, NEW A,
         \A i \in Len(r) + 1..n :
           s[i].kind = "timeout" /\ s[i].at \in {"start", "cleanup", "destroyed"} => s[i].timer \in A,
         n < Len(s) => ~Owner(s[Len(s)], t),
         k > 1 => s[k].timer # t
  PROVE  Owns(r, t) \/ t \in A
<1>1. Len(s) \in Nat /\ Len(r) \in Nat /\ Len(r) <= Len(s) /\ Cut(s, r) /\ k \in Nat /\ k >= 1
  BY LenProperties DEF Thrown, Cut
<1>2. CASE \E i \in Len(r) + 1..Len(s) : Owner(s[i], t)
  <2>1. PICK i \in Len(r) + 1..Len(s) : Owner(s[i], t)
    BY <1>2
  <2>2. i \in Len(r) + 1..n
    BY <1>1, <2>1
  <2>3. s[i].kind = "timeout" /\ s[i].at \in {"start", "cleanup"} /\ s[i].timer = t
    BY <2>1 DEF Thrown, HasCleanup, Owner
  <2>4. QED
    BY <2>2, <2>3
<1>3. CASE \A i \in Len(r) + 1..Len(s) : ~Owner(s[i], t)
  <2>1. ASSUME r # <<>>, Owner(s[Len(r)], t)
        PROVE  Owner(r[Len(r)], t)
    <3>1. SameCall(r[Len(r)], s[Len(r)])
      BY <1>1, <2>1, EmptySeq DEF Cut
    <3>2. k = Len(r) => k = 1
      BY <1>1, <2>1 DEF Owner
    <3>3. r[Len(r)].at = "cleanup"
      BY <2>1, <3>2 DEF Thrown
    <3>4. QED
      BY <2>1, <3>1, <3>3 DEF Owner, SameCall
  <2>2. QED
    BY <1>1, <1>3, <2>1, OwnsCut
<1>4. QED
  BY <1>2, <1>3

LEMMA OneCut ==
  ASSUME NEW s \in Seq(Frame), NEW r, Cut(s, r), OneTimeout(s)
  PROVE  OneTimeout(r)
<1>1. Len(s) \in Nat /\ Len(r) \in Nat /\ Len(r) <= Len(s)
  BY LenProperties DEF Cut
<1>2. \A i \in 1..Len(r) : i \in 1..Len(s) /\ r[i].kind = s[i].kind
  BY <1>1 DEF Cut, SameCall
<1>3. QED
  BY <1>2 DEF OneTimeout

LEMMA OnePush ==
  ASSUME NEW s \in Seq(Frame), NEW f \in Frame, OneTimeout(s),
         f.kind = "timeout" => \A i \in 1..Len(s) : s[i].kind # "timeout"
  PROVE  OneTimeout(Append(s, f))
<1> DEFINE r == Append(s, f)
<1>1. /\ Len(r) = Len(s) + 1 /\ Len(s) \in Nat /\ r[Len(s) + 1] = f
      /\ \A i \in 1..Len(s) : r[i] = s[i]
  BY PushIs, LenProperties
<1> HIDE DEF r
<1>2. \A i \in 1..Len(r) : i \in 1..Len(s) \/ i = Len(s) + 1
  BY <1>1
<1>3. OneTimeout(r)
  BY <1>1, <1>2 DEF OneTimeout
<1>4. QED
  BY <1>3 DEF r

LEMMA DestroyedCut ==
  ASSUME NEW s \in Seq(Frame), NEW r, Cut(s, r), NEW tm, Destroyed(s, tm),
         r # <<>> /\ r[Len(r)].at = "destroyed" => s[Len(r)].at = "destroyed"
  PROVE  Destroyed(r, tm)
<1>1. Len(s) \in Nat /\ Len(r) \in Nat /\ Len(r) <= Len(s)
  BY LenProperties DEF Cut
<1>2. ASSUME NEW i \in 1..Len(r), r[i].at = "destroyed"
      PROVE  tm[r[i].timer] = "killed"
  <2>1. i \in 1..Len(s) /\ r[i].timer = s[i].timer /\ r # <<>>
    BY <1>1, EmptySeq DEF Cut, SameCall
  <2>2. s[i].at = "destroyed"
    <3>1. CASE i < Len(r)
      BY <1>2, <3>1 DEF Cut
    <3>2. CASE i = Len(r)
      BY <1>2, <2>1, <3>2
    <3>3. QED
      BY <1>1, <3>1, <3>2
  <2>3. QED
    BY <2>1, <2>2 DEF Destroyed
<1>3. QED
  BY <1>2 DEF Destroyed

LEMMA DestroyedPush ==
  ASSUME NEW s \in Seq(Frame), NEW f \in Frame, NEW tm, Destroyed(s, tm), f.at # "destroyed"
  PROVE  Destroyed(Append(s, f), tm)
<1> DEFINE r == Append(s, f)
<1>1. /\ Len(r) = Len(s) + 1 /\ Len(s) \in Nat /\ r[Len(s) + 1] = f
      /\ \A i \in 1..Len(s) : r[i] = s[i]
  BY PushIs, LenProperties
<1> HIDE DEF r
<1>2. \A i \in 1..Len(r) : i \in 1..Len(s) \/ i = Len(s) + 1
  BY <1>1
<1>3. Destroyed(r, tm)
  BY <1>1, <1>2 DEF Destroyed
<1>4. QED
  BY <1>3 DEF r
(* A step of process p, that goes on with stack r. *)
LEMMA TimerStep ==
  ASSUME ShapeInv, TimerInv, NEW p \in Processes, NEW r, StackStep(p, r),
         expired' = expired,
         \A t \in Timers :
           /\ timers[t] = "killed" => timers'[t] = "killed"
           /\ \A q \in Processes \ {p} : timers'[t] = q => timers[t] = q,
         \A q \in Processes \ {p} :
           /\ Times(interrupts'[q]) # {} => Times(interrupts[q]) # {}
           /\ Once(interrupts[q]) => Once(interrupts'[q]),
         OneTimeout(r), Destroyed(r, timers'),
         abandoned' \cap expired = {} =>
           /\ ~stray'
           /\ Timed(r, expired, Times(interrupts'[p]) # {})
           /\ Once(interrupts'[p])
           /\ \A t \in Timers : timers'[t] = p => t \in abandoned' \/ Owns(r, t)
  PROVE  TimerInv'
<1>1. /\ stack \in [Processes -> Seq(Frame)] /\ stack' = [stack EXCEPT ![p] = r]
      /\ abandoned \subseteq abandoned' /\ expired \subseteq Timers
  BY DEF ShapeInv, TypeOK, StackStep
<1>2. stack'[p] = r /\ \A q \in Processes : q # p => stack'[q] = stack[q]
  BY <1>1
<1>3. ASSUME NEW q \in Processes
      PROVE  OneTimeout(stack'[q]) /\ Destroyed(stack'[q], timers')
  <2>1. CASE q = p
    BY <1>2, <2>1
  <2>2. CASE q # p
    <3> DEFINE s == stack[q]
    <3>1. OneTimeout(s) /\ Destroyed(s, timers) /\ StackShape(s)
      BY DEF TimerInv, ShapeInv
    <3>2. \A i \in 1..Len(s) : s[i].at = "destroyed" => s[i].timer \in Timers
      BY <3>1 DEF StackShape, FrameShape, Waits
    <3> HIDE DEF s
    <3>3. Destroyed(s, timers')
      BY <3>1, <3>2 DEF Destroyed
    <3>4. QED
      BY <1>2, <2>2, <3>1, <3>3 DEF s
  <2>3. QED
    BY <2>1, <2>2
<1>4. \A t \in expired' : timers'[t] = "killed"
  BY <1>1 DEF TimerInv
<1>5. ASSUME abandoned' \cap expired' = {}, NEW q \in Processes
      PROVE  TimersOf(q)'
  <2>1. CASE q = p
    BY <1>2, <1>5, <2>1 DEF TimersOf
  <2>2. CASE q # p
    <3>1. TimersOf(q)
      BY <1>1, <1>5 DEF TimerInv
    <3> DEFINE s == stack[q]
               pend == Times(interrupts[q]) # {}
               less == Times(interrupts'[q]) # {}
    <3>2. Timed(s, expired, pend) /\ pend \in BOOLEAN /\ less \in BOOLEAN /\ (less => pend)
      BY <2>2, <3>1 DEF TimersOf
    <3> HIDE DEF s, pend, less
    <3>3. Timed(s, expired, less)
      BY <3>2, TimedLess
    <3>4. Timed(stack'[q], expired', Times(interrupts'[q]) # {})
      BY <1>2, <2>2, <3>3 DEF s, less
    <3>5. Once(interrupts'[q])
      BY <2>2, <3>1 DEF TimersOf
    <3>6. \A t \in Timers : timers'[t] = q => t \in abandoned' \/ Owns(stack'[q], t)
      BY <1>1, <1>2, <2>2, <3>1 DEF TimersOf
    <3>7. QED
      BY <3>4, <3>5, <3>6 DEF TimersOf
  <2>3. QED
    BY <2>1, <2>2
<1>6. QED
  BY <1>3, <1>4, <1>5 DEF TimerInv

(* What is known of process p, when no timer that a throw left has expired. *)
LEMMA TimersAre ==
  ASSUME ShapeInv, TimerInv, NEW p \in Processes
  PROVE  /\ OneTimeout(stack[p]) /\ Destroyed(stack[p], timers)
         /\ stack[p] \in Seq(Frame) /\ StackShape(stack[p]) /\ Len(stack[p]) \in Nat
         /\ \A t \in expired : t \in Timers /\ timers[t] = "killed" /\ timers[t] \notin Processes
         /\ abandoned \cap expired = {} =>
              /\ ~stray
              /\ Timed(stack[p], expired, Times(interrupts[p]) # {})
              /\ Once(interrupts[p])
              /\ \A t \in Timers : timers[t] = p => t \in abandoned \/ Owns(stack[p], t)
         /\ interrupts \in [Processes -> Seq(Interrupts)]
<1>1. stack[p] \in Seq(Frame) /\ StackShape(stack[p]) /\ Len(stack[p]) \in Nat /\ expired \subseteq Timers
  BY LenProperties DEF ShapeInv, TypeOK
<1>2. interrupts \in [Processes -> Seq(Interrupts)]
  BY DEF ShapeInv, TypeOK
<1>3. "killed" \notin Processes
  BY ConstantsAssumption
<1>4. QED
  BY <1>1, <1>2, <1>3 DEF TimerInv, TimersOf
(* A stack r that s is cut to, when no with-timeout is left that counts. *)
LEMMA QuietCut ==
  ASSUME NEW s \in Seq(Frame), StackShape(s), NEW exp, NEW pend \in BOOLEAN, NEW r, Cut(s, r), r # <<>>,
         LET f == r[Len(r)]
             g == s[Len(r)]
         IN  /\ f.exit = g.exit
             /\ f.at = "forms" => g.at = "forms"
             /\ Catches(g) => Catches(f)
             /\ \A t : Owner(g, t) => Owner(f, t),
         \A i \in Len(r) + 1..Len(s) :
           \/ s[i].kind # "timeout" \/ s[i].at = "forms"
           \/ s[i].at = "destroyed" /\ ~pend
  PROVE  /\ Timed(s, exp, pend) => Timed(r, exp, pend)
         /\ \A t : Owns(s, t) => Owns(r, t)
<1>1. Len(s) \in Nat /\ Len(r) \in Nat /\ Len(r) <= Len(s) /\ Len(r) \in 1..Len(s)
  BY LenProperties, EmptySeq DEF Cut
<1>2. r[Len(r)].exit <= Len(r)
  BY <1>1 DEF StackShape
<1>3. \A i \in Len(r) + 1..Len(s) : (pend => ~Catches(s[i])) /\ \A t : ~Owner(s[i], t)
  BY DEF Catches, Owner
<1>4. ASSUME Timed(s, exp, pend)
      PROVE  Timed(r, exp, pend)
  <2>1. LET f == r[Len(r)]
            g == s[Len(r)]
        IN  /\ f.at = "forms" => g.at = "forms" \/ f.timer \in exp
            /\ f.exit > 1 => f.exit = g.exit \/ (f.exit <= Len(s) /\ s[f.exit].timer \in exp /\ ~pend)
            /\ pend /\ Catches(g) => Catches(f)
            /\ f.exit <= Len(r)
    BY <1>2
  <2>2. QED
    BY <1>3, <1>4, <2>1, TimedCut
<1>5. ASSUME NEW t, Owns(s, t)
      PROVE  Owns(r, t)
  BY <1>3, <1>5, OwnsCut
<1>6. QED
  BY <1>4, <1>5

(* Process p cuts its stack, and nothing else that matters to timers happens. *)
LEMMA CutTimers ==
  ASSUME ShapeInv, TimerInv, NEW p \in Processes, NEW r, StackStep(p, r), Cut(stack[p], r), r # <<>>,
         UNCHANGED <<interrupts, timers, expired, stray>>,
         LET f == r[Len(r)]
             g == stack[p][Len(r)]
         IN  /\ f.exit = g.exit
             /\ f.at = "forms" => g.at = "forms"
             /\ f.at = "destroyed" => g.at = "destroyed"
             /\ Catches(g) => Catches(f)
             /\ \A t : Owner(g, t) => Owner(f, t),
         \A i \in Len(r) + 1..Len(stack[p]) :
           \/ stack[p][i].kind # "timeout" \/ stack[p][i].at = "forms"
           \/ stack[p][i].at = "destroyed" /\ interrupts[p] = <<>>
  PROVE  TimerInv'
<1> DEFINE s == stack[p]
           pend == Times(interrupts[p]) # {}
<1>1. /\ OneTimeout(s) /\ Destroyed(s, timers) /\ s \in Seq(Frame) /\ StackShape(s) /\ Cut(s, r)
      /\ pend \in BOOLEAN /\ (interrupts[p] = <<>> => ~pend)
      /\ abandoned \cap expired = {} =>
           /\ ~stray /\ Timed(s, expired, pend) /\ Once(interrupts[p])
           /\ \A t \in Timers : timers[t] = p => t \in abandoned \/ Owns(s, t)
  <2>1. interrupts[p] = <<>> => Len(interrupts[p]) = 0
    OBVIOUS
  <2>2. interrupts[p] = <<>> => ~pend
    BY <2>1 DEF Times
  <2>3. QED
    BY <2>2, TimersAre
<1>2. abandoned \subseteq abandoned'
  BY DEF StackStep
<1>3. OneTimeout(r) /\ Destroyed(r, timers)
  BY <1>1, OneCut, DestroyedCut
<1>4. \A i \in Len(r) + 1..Len(s) :
        \/ s[i].kind # "timeout" \/ s[i].at = "forms"
        \/ s[i].at = "destroyed" /\ ~pend
  BY <1>1
<1>5. LET f == r[Len(r)]
          g == s[Len(r)]
      IN  /\ f.exit = g.exit
          /\ f.at = "forms" => g.at = "forms"
          /\ Catches(g) => Catches(f)
          /\ \A t : Owner(g, t) => Owner(f, t)
  OBVIOUS
<1> HIDE DEF s, pend
<1>6. (Timed(s, expired, pend) => Timed(r, expired, pend)) /\ \A t : Owns(s, t) => Owns(r, t)
  BY <1>1, <1>4, <1>5, QuietCut
<1>7. ASSUME abandoned' \cap expired = {}
      PROVE  /\ ~stray'
             /\ Timed(r, expired, Times(interrupts'[p]) # {})
             /\ Once(interrupts'[p])
             /\ \A t \in Timers : timers'[t] = p => t \in abandoned' \/ Owns(r, t)
  BY <1>1, <1>2, <1>6, <1>7 DEF pend
<1>8. QED
  BY <1>3, <1>7, TimerStep
(* Process p puts frame f on its stack; if f is a with-timeout, its timer is made. *)
LEMMA PushTimers ==
  ASSUME ShapeInv, TimerInv, NEW p \in Processes, NEW f \in Frame, StackStep(p, Append(stack[p], f)),
         UNCHANGED <<expired, abandoned, stray>>,
         f.at \notin {"forms", "destroyed"}, f.exit = 0,
         f.kind = "timeout" => \A i \in 1..Len(stack[p]) : stack[p][i].kind # "timeout",
         \A t \in Timers :
           timers'[t] = timers[t] \/ (timers[t] = "unborn" /\ timers'[t] = p /\ Owner(f, t)),
         \A q \in Processes :
           /\ Times(interrupts'[q]) # {} => Times(interrupts[q]) # {}
           /\ Once(interrupts[q]) => Once(interrupts'[q])
  PROVE  TimerInv'
<1> DEFINE s == stack[p]
           r == Append(s, f)
           pend == Times(interrupts[p]) # {}
           less == Times(interrupts'[p]) # {}
<1>1. /\ OneTimeout(s) /\ Destroyed(s, timers) /\ s \in Seq(Frame) /\ StackShape(s)
      /\ pend \in BOOLEAN /\ less \in BOOLEAN /\ (less => pend)
      /\ abandoned \cap expired = {} =>
           /\ ~stray /\ Timed(s, expired, pend) /\ Once(interrupts[p])
           /\ \A t \in Timers : timers[t] = p => t \in abandoned \/ Owns(s, t)
  BY TimersAre
<1>2. \A i \in 1..Len(s) : s[i].exit <= i /\ (s[i].at = "destroyed" => s[i].timer \in Timers)
  BY <1>1 DEF StackShape, FrameShape, Waits
<1>3. \A t \in Timers : timers[t] = "killed" => timers'[t] = "killed"
  OBVIOUS
<1>4. StackStep(p, r) /\ (f.kind = "timeout" => \A i \in 1..Len(s) : s[i].kind # "timeout")
  OBVIOUS
<1> HIDE DEF s, pend, less
<1>5. Destroyed(s, timers')
  BY <1>1, <1>2, <1>3 DEF Destroyed
<1>6. OneTimeout(r) /\ Destroyed(r, timers')
  BY <1>1, <1>4, <1>5, OnePush, DestroyedPush
<1>7. ASSUME abandoned' \cap expired = {}
      PROVE  /\ ~stray'
             /\ Timed(r, expired, less)
             /\ Once(interrupts'[p])
             /\ \A t \in Timers : timers'[t] = p => t \in abandoned' \/ Owns(r, t)
  <2>1. Timed(s, expired, less)
    BY <1>1, <1>7, TimedLess
  <2>2. Timed(r, expired, less)
    BY <1>1, <1>2, <2>1, TimedPush
  <2>3. ASSUME NEW t \in Timers, timers'[t] = p
        PROVE  t \in abandoned' \/ Owns(r, t)
    <3>1. t \in abandoned \/ Owns(s, t) \/ Owner(f, t)
      BY <1>1, <1>7, <2>3
    <3>2. QED
      BY <1>1, <3>1, OwnsPush
  <2>4. QED
    BY <1>1, <1>7, <2>2, <2>3
<1> HIDE DEF r
<1>8. StackStep(p, r)
  BY <1>4
<1>9. QED
  BY <1>3, <1>6, <1>7, <1>8, TimerStep DEF less

(* Process p calls process-yield from the activation on top of its stack, either to
   wait for a lock or because it destroys the timer.                       *)
LEMMA YieldTimers ==
  ASSUME ShapeInv, TimerInv, NEW p \in Processes, Len(stack[p]) > 0, NEW a \in Places,
         StackStep(p, Append(Moved(stack[p], a), NewFrame("yield", "run"))),
         UNCHANGED <<interrupts, expired, abandoned, stray>>,
         \/ Top(p).kind = "lock" /\ a \in Waits /\ timers' = timers
         \/ /\ Top(p).kind = "timeout" /\ Top(p).at = "cleanup" /\ Top(p).timer \in Timers
            /\ a = "destroyed" /\ timers' = [timers EXCEPT ![Top(p).timer] = "killed"]
  PROVE  TimerInv'
<1> DEFINE s == stack[p]
           m == Moved(s, a)
           f == NewFrame("yield", "run")
           r == Append(m, f)
           pend == Times(interrupts[p]) # {}
<1>1. /\ OneTimeout(s) /\ Destroyed(s, timers) /\ s \in Seq(Frame) /\ StackShape(s)
      /\ Len(s) \in Nat /\ Len(s) > 0 /\ s[Len(s)] = Top(p)
      /\ pend \in BOOLEAN
      /\ abandoned \cap expired = {} =>
           /\ ~stray /\ Timed(s, expired, pend) /\ Once(interrupts[p])
           /\ \A t \in Timers : timers[t] = p => t \in abandoned \/ Owns(s, t)
  BY TimersAre DEF Top, Last
<1>2. timers \in [Timers -> {"unborn", "killed"} \union Processes] /\ StackStep(p, r)
  BY DEF ShapeInv, TypeOK
<1>3. \A t \in Timers : timers'[t] = timers[t] \/ (timers'[t] = "killed" /\ timers'[t] \notin Processes)
  BY <1>2, ConstantsAssumption
<1>4. /\ f \in Frame /\ f.kind = "yield" /\ f.at = "run" /\ f.exit = 0
  BY NewFrameIs
<1> HIDE DEF s, pend, f
<1>5. /\ m \in Seq(Frame) /\ Len(m) = Len(s) /\ Cut(s, m)
      /\ SameCall(m[Len(s)], s[Len(s)]) /\ m[Len(s)].at = a /\ m[Len(s)].exit = s[Len(s)].exit
  BY <1>1, MovedIs
<1> HIDE DEF m
<1>6. m # <<>> /\ \A i \in 1..Len(m) : m[i].exit <= i
  <2>1. ASSUME NEW i \in 1..Len(m)
        PROVE  m[i].exit = s[i].exit
    BY <1>1, <1>5, <2>1 DEF Cut
  <2>2. QED
    BY <1>1, <1>5, <2>1, EmptySeq DEF StackShape
<1>7. OneTimeout(r)
  BY <1>1, <1>4, <1>5, OneCut, OnePush
<1>8. Destroyed(m, timers')
  <2>1. ASSUME NEW i \in 1..Len(m), m[i].at = "destroyed"
        PROVE  timers'[m[i].timer] = "killed"
    <3>1. i \in 1..Len(s) /\ m[i].timer = s[i].timer
      BY <1>5, <2>1 DEF Cut, SameCall
    <3>2. CASE i = Len(s)
      BY <1>1, <1>2, <1>5, <2>1, <3>1, <3>2 DEF Waits
    <3>3. CASE i # Len(s)
      <4>1. m[i] = s[i]
        BY <1>1, <1>5, <2>1, <3>3 DEF Cut
      <4>2. timers[s[i].timer] = "killed" /\ s[i].timer \in Timers
        BY <1>1, <2>1, <3>1, <4>1 DEF Destroyed, StackShape, FrameShape, Waits
      <4>3. QED
        BY <1>3, <3>1, <4>2
    <3>4. QED
      BY <3>2, <3>3
  <2>2. QED
    BY <2>1 DEF Destroyed
<1>9. Destroyed(r, timers')
  BY <1>4, <1>5, <1>8, DestroyedPush
<1>10. ASSUME abandoned' \cap expired = {}
      PROVE  /\ ~stray'
             /\ Timed(r, expired, pend)
             /\ Once(interrupts'[p])
             /\ \A t \in Timers : timers'[t] = p => t \in abandoned' \/ Owns(r, t)
  <2>1. LET g == m[Len(m)]
            h == s[Len(m)]
        IN  /\ g.at = "forms" => h.at = "forms" \/ g.timer \in expired
            /\ g.exit > 1 => g.exit = h.exit \/ (g.exit <= Len(s) /\ s[g.exit].timer \in expired /\ ~pend)
            /\ pend /\ Catches(h) => Catches(g)
            /\ g.exit <= Len(m)
    <3>1. m[Len(m)].exit <= Len(m)
      BY <1>1, <1>5, <1>6
    <3>2. QED
      BY <1>1, <1>5, <3>1 DEF Catches, SameCall, Waits
  <2>2. \A i \in Len(m) + 1..Len(s) : FALSE
    BY <1>1, <1>5
  <2>3. Timed(m, expired, pend)
    BY <1>1, <1>5, <1>10, <2>1, <2>2, TimedCut
  <2>4. Timed(r, expired, pend)
    BY <1>1, <1>4, <1>5, <1>6, <2>3, TimedPush
  <2>5. ASSUME NEW t \in Timers, timers'[t] = p
        PROVE  t \in abandoned' \/ Owns(r, t)
    <3>1. timers[t] = p /\ (t \in abandoned \/ Owns(s, t))
      BY <1>1, <1>3, <1>10, <2>5
    <3>2. Owner(s[Len(m)], t) => FALSE
      BY <1>1, <1>2, <1>5, <2>5, ConstantsAssumption DEF Owner
    <3>3. Owns(s, t) => Owns(m, t)
      BY <1>1, <1>5, <2>2, <3>2, OwnsCut
    <3>4. QED
      BY <1>4, <1>5, <3>1, <3>3, OwnsPush
  <2>6. QED
    BY <1>1, <1>10, <2>4, <2>5
<1> HIDE DEF r
<1>11. TimerInv'
  <2>1. \A t \in Timers :
          /\ timers[t] = "killed" => timers'[t] = "killed"
          /\ \A q \in Processes \ {p} : timers'[t] = q => timers[t] = q
    BY <1>3
  <2>2. \A q \in Processes \ {p} :
           /\ Times(interrupts'[q]) # {} => Times(interrupts[q]) # {}
           /\ Once(interrupts[q]) => Once(interrupts'[q])
    OBVIOUS
  <2>3. interrupts' = interrupts
    OBVIOUS
  <2>4. QED
    BY <1>2, <1>7, <1>9, <1>10, <2>1, <2>2, <2>3, TimerStep DEF pend
<1>12. QED
  BY <1>11
LEMMA QuietReturn ==
  ASSUME NEW s \in Seq(Frame), StackShape(s), NEW exp, NEW pend \in BOOLEAN,
         NEW r, Cut(s, r), r # <<>>, r[Len(r)] = s[Len(r)],
         \A i \in Len(r) + 1..Len(s) : s[i].kind # "timeout"
  PROVE  /\ Timed(s, exp, pend) => Timed(r, exp, pend)
         /\ \A t : Owns(s, t) => Owns(r, t)
<1>1. LET f == r[Len(r)]
          g == s[Len(r)]
      IN  /\ f.exit = g.exit
          /\ f.at = "forms" => g.at = "forms"
          /\ Catches(g) => Catches(f)
          /\ \A t : Owner(g, t) => Owner(f, t)
  OBVIOUS
<1>2. \A i \in Len(r) + 1..Len(s) :
        \/ s[i].kind # "timeout" \/ s[i].at = "forms"
        \/ s[i].at = "destroyed" /\ ~pend
  OBVIOUS
<1>3. QED
  BY <1>1, <1>2, QuietCut

(* A throw in process p, to frame k of t: its stack, or that without what has returned. *)
LEMMA ThrowTimers ==
  ASSUME ShapeInv, TimerInv, NEW p \in Processes,
         NEW t \in Seq(Frame), StackShape(t), Cut(stack[p], t), t # <<>>, t[Len(t)] = stack[p][Len(t)],
         \A i \in Len(t) + 1..Len(stack[p]) : stack[p][i].kind # "timeout",
         NEW k \in 1..Len(t), NEW r, Thrown(t, k, r), StackStep(p, r),
         NEW from, Abandons(from, r),
         \/ from = t
         \/ /\ from = Pop(t)
            /\ \/ t[Len(t)].kind # "timeout"
               \/ t[Len(t)].at = "destroyed" /\ interrupts[p] = <<>>,
         UNCHANGED <<timers, expired, stray>>,
         NEW ints, interrupts' = [interrupts EXCEPT ![p] = ints],
         Times(ints) # {} => Times(interrupts[p]) # {},
         Once(interrupts[p]) => Once(ints),
         k > 1 /\ abandoned' \cap expired = {} => t[k].timer \in expired /\ Times(ints) = {}
  PROVE  TimerInv'
<1> DEFINE s == stack[p]
           pend == Times(interrupts[p]) # {}
           less == Times(ints) # {}
<1>1. /\ OneTimeout(s) /\ Destroyed(s, timers) /\ s \in Seq(Frame) /\ StackShape(s)
      /\ \A x \in expired : timers[x] \notin Processes
      /\ pend \in BOOLEAN /\ less \in BOOLEAN /\ (less => pend)
      /\ abandoned \cap expired = {} =>
           /\ ~stray /\ Timed(s, expired, pend) /\ Once(interrupts[p])
           /\ \A x \in Timers : timers[x] = p => x \in abandoned \/ Owns(s, x)
      /\ interrupts \in [Processes -> Seq(Interrupts)]
  BY TimersAre
<1>2. interrupts'[p] = ints /\ \A q \in Processes \ {p} : interrupts'[q] = interrupts[q]
  BY <1>1
<1>3. abandoned \subseteq abandoned'
  BY DEF StackStep
<1>4. interrupts[p] = <<>> => ~pend
  <2>1. interrupts[p] = <<>> => Len(interrupts[p]) = 0
    OBVIOUS
  <2>2. QED
    BY <2>1 DEF Times
<1>5. Len(t) \in Nat /\ Len(t) > 0 /\ Len(t) \in 1..Len(t)
  BY LenProperties, EmptySeq
<1>6. PICK n \in {Len(t), Len(t) - 1} :
        /\ \A i \in Len(r) + 1..n :
             t[i].kind = "timeout" /\ t[i].at \in {"start", "cleanup", "destroyed"} => t[i].timer \in abandoned'
        /\ n < Len(t) => t[Len(t)].kind # "timeout" \/ (t[Len(t)].at = "destroyed" /\ ~pend)
  <2>1. CASE from = t
    <3>1. \A i \in Len(r) + 1..Len(t) :
             t[i].kind = "timeout" /\ t[i].at \in {"start", "cleanup", "destroyed"} => t[i].timer \in abandoned'
      BY <2>1 DEF Abandons
    <3>2. ~(Len(t) < Len(t))
      BY <1>5
    <3>3. QED
      BY <3>1, <3>2
  <2>2. CASE /\ from = Pop(t)
             /\ \/ t[Len(t)].kind # "timeout"
                \/ t[Len(t)].at = "destroyed" /\ interrupts[p] = <<>>
    <3>1. Len(from) = Len(t) - 1 /\ \A i \in 1..Len(t) - 1 : from[i] = t[i]
      BY <1>5, <2>2, PopIs
    <3>2. Len(r) \in Nat
      BY LenProperties DEF Thrown, Cut
    <3>3. ASSUME NEW i \in Len(r) + 1..Len(t) - 1, t[i].kind = "timeout",
                 t[i].at \in {"start", "cleanup", "destroyed"}
          PROVE  t[i].timer \in abandoned'
      <4>1. i \in Len(r) + 1..Len(from) /\ from[i] = t[i]
        BY <1>5, <3>1, <3>2, <3>3
      <4>2. QED
        BY <3>3, <4>1 DEF Abandons
    <3>4. QED
      BY <1>4, <2>2, <3>3
  <2>3. QED
    BY <2>1, <2>2
<1> HIDE DEF s, pend, less
<1>7. /\ Cut(s, t) /\ t[Len(t)] = s[Len(t)]
      /\ \A i \in Len(t) + 1..Len(s) : s[i].kind # "timeout"
  BY DEF s
<1>8. (Timed(s, expired, pend) => Timed(t, expired, pend)) /\ \A x : Owns(s, x) => Owns(t, x)
  <2>1. s \in Seq(Frame) /\ StackShape(s) /\ pend \in BOOLEAN /\ t # <<>>
    BY <1>1
  <2>2. Timed(s, expired, pend) => Timed(t, expired, pend)
    BY <1>7, <2>1, QuietReturn
  <2>3. \A x : Owns(s, x) => Owns(t, x)
    BY <1>7, <2>1, QuietReturn
  <2>4. QED
    BY <2>2, <2>3
<1>9. OneTimeout(r) /\ Destroyed(r, timers)
  <2>1. OneTimeout(t) /\ Destroyed(t, timers)
    BY <1>1, <1>7, OneCut, DestroyedCut
  <2>2. r # <<>> => r[Len(r)].at # "destroyed"
    BY DEF Thrown
  <2>3. Cut(t, r)
    BY DEF Thrown
  <2>4. QED
    BY <2>1, <2>2, <2>3, OneCut, DestroyedCut
<1>10. ASSUME abandoned' \cap expired = {}
       PROVE  /\ ~stray'
              /\ Timed(r, expired, less)
              /\ Once(interrupts'[p])
              /\ \A x \in Timers : timers'[x] = p => x \in abandoned' \/ Owns(r, x)
  <2>1. Timed(t, expired, pend) /\ ~stray' /\ Once(interrupts'[p])
    BY <1>1, <1>2, <1>3, <1>8, <1>10
  <2>2. k > 1 => t[k].timer \in expired /\ ~less
    BY <1>10 DEF less
  <2>3. ASSUME less, NEW i \in Len(r) + 1..Len(t), Catches(t[i])
        PROVE  t[i].timer \notin expired
    <3>1. t[i].kind = "timeout" /\ t[i].at \in {"start", "cleanup", "destroyed"}
      BY <2>3 DEF Thrown, HasCleanup, Catches
    <3>2. i = Len(t) => n = Len(t)
      BY <1>1, <1>5, <1>6, <2>3, <3>1
    <3>3. Len(r) \in Nat
      BY LenProperties DEF Thrown, Cut
    <3>4. i \in Len(r) + 1..n
      BY <1>5, <1>6, <2>3, <3>2, <3>3
    <3>5. QED
      BY <1>6, <1>10, <3>1, <3>4
  <2>4. Timed(r, expired, less)
    BY <1>1, <2>1, <2>2, <2>3, TimedThrown
  <2>5. ASSUME NEW x \in Timers, timers'[x] = p
        PROVE  x \in abandoned' \/ Owns(r, x)
    <3>1. timers[x] = p /\ (x \in abandoned \/ Owns(t, x))
      BY <1>1, <1>3, <1>8, <1>10, <2>5
    <3>2. k > 1 => t[k].timer # x
      BY <1>1, <2>2, <3>1
    <3>3. n < Len(t) => ~Owner(t[Len(t)], x)
      BY <1>6 DEF Owner
    <3>4. Owns(t, x) => Owns(r, x) \/ x \in abandoned'
      BY <1>6, <3>2, <3>3, OwnsThrown
    <3>5. QED
      BY <1>3, <3>1, <3>4
  <2>6. QED
    BY <2>1, <2>4, <2>5
<1>11. QED
  <2>1. \A q \in Processes \ {p} :
           /\ Times(interrupts'[q]) # {} => Times(interrupts[q]) # {}
           /\ Once(interrupts[q]) => Once(interrupts'[q])
    BY <1>2
  <2>2. QED
    BY <1>2, <1>9, <1>10, <2>1, TimerStep DEF less
LEMMA RunInterruptTimers ==
  ASSUME ShapeInv, TimerInv, NEW p \in Processes, RunInterrupt(p)
  PROVE  TimerInv'
<1> DEFINE s == stack[p]
           pending == interrupts[p]
           Ints(r) == IF r = <<>> THEN <<>> ELSE Tail(pending)
<1>1. /\ MayResume(p) /\ pending # <<>> /\ UNCHANGED <<timers, expired>>
      /\ interrupts \in [Processes -> Seq(Interrupts)] /\ pending \in Seq(Interrupts)
      /\ OneTimeout(s) /\ Destroyed(s, timers)
      /\ \A x \in expired : timers[x] = "killed"
      /\ abandoned \cap expired = {} => Timed(s, expired, Times(pending) # {}) /\ Once(pending)
  BY TimersAre DEF RunInterrupt
<1>2. /\ s \in Seq(Frame) /\ StackShape(s) /\ Cut(s, s) /\ s # <<>> /\ Len(s) > 1 /\ Len(s) \in Nat
  <2>1. s \in Seq(Frame) /\ StackShape(s) /\ Len(s) > 1
    BY <1>1, ResumedIs
  <2>2. Len(s) \in Nat
    BY <2>1, LenProperties
  <2>3. QED
    BY <2>1, <2>2, EmptySeq DEF Cut, SameCall
<1>3. ASSUME NEW r
      PROVE  /\ Times(Ints(r)) # {} => Times(pending) # {}
             /\ Once(pending) => Once(Ints(r))
  <2>1. Times(<<>>) = {} /\ Once(<<>>)
    <3>1. Len(<<>>) = 0
      OBVIOUS
    <3>2. QED
      BY <3>1 DEF Times, Once
  <2>2. /\ Times(Tail(pending)) # {} => Times(pending) # {}
        /\ Once(pending) => Once(Tail(pending))
    BY <1>1, OnceTail
  <2>3. QED
    BY <2>1, <2>2
<1>4. PICK r :
    /\ StackStep(p, r)
    /\ interrupts' = [interrupts EXCEPT ![p] = Ints(r)]
    /\ \/ /\ Head(pending) = "call" /\ r = Append(s, NewFrame("interrupt", "run"))
          /\ stray' = stray /\ abandoned' = abandoned
       \/ /\ Head(pending) = "end" /\ Thrown(s, 1, r) /\ Abandons(s, r)
          /\ stray' = stray
       \/ /\ Head(pending) = "timer" /\ \A i \in 1..Len(s) : ~Catches(s[i])
          /\ r = s /\ stray' = TRUE /\ abandoned' = abandoned
       \/ /\ Head(pending) = "timer" /\ Abandons(s, r)
          /\ \E k \in 1..Len(s) : Catches(s[k]) /\ Thrown(s, k, r)
          /\ stray' = stray
  BY RunInterruptIs
<1>5. /\ abandoned \subseteq abandoned'
      /\ interrupts'[p] = Ints(r) /\ \A q \in Processes \ {p} : interrupts'[q] = interrupts[q]
  BY <1>1, <1>4 DEF StackStep
<1>6. Head(pending) = "timer" => Times(pending) # {}
  <2>1. Head(pending) = pending[1] /\ Len(pending) > 0 /\ Len(pending) \in Nat
    BY <1>1, PendingIs, LenProperties
  <2>2. 1 \in 1..Len(pending)
    BY <2>1
  <2>3. QED
    BY <2>1, <2>2 DEF Times
<1> HIDE DEF Ints
<1>7. CASE /\ Head(pending) = "call" /\ r = Append(s, NewFrame("interrupt", "run"))
           /\ stray' = stray /\ abandoned' = abandoned
  <2> DEFINE f == NewFrame("interrupt", "run")
  <2>1. f \in Frame /\ f.at \notin {"forms", "destroyed"} /\ f.exit = 0 /\ f.kind # "timeout"
    BY NewFrameIs
  <2> HIDE DEF f
  <2>2. StackStep(p, Append(stack[p], f))
    BY <1>4, <1>7 DEF f
  <2>3. ASSUME NEW q \in Processes
        PROVE  /\ Times(interrupts'[q]) # {} => Times(interrupts[q]) # {}
               /\ Once(interrupts[q]) => Once(interrupts'[q])
    BY <1>3, <1>5
  <2>4. UNCHANGED <<expired, abandoned, stray>> /\ \A t \in Timers : timers'[t] = timers[t]
    BY <1>1, <1>7
  <2>5. QED
    BY <2>1, <2>2, <2>3, <2>4, PushTimers
<1>8. ASSUME NEW k \in 1..Len(s), Thrown(s, k, r), Abandons(s, r), stray' = stray,
             k > 1 => Head(pending) = "timer" /\ Catches(s[k])
      PROVE  TimerInv'
  <2>1. ASSUME k > 1, abandoned' \cap expired = {}
        PROVE  s[k].timer \in expired /\ Times(Ints(r)) = {}
    <3>1. Timed(s, expired, Times(pending) # {}) /\ Once(pending)
      BY <1>1, <1>5, <2>1
    <3>2. PICK i \in 1..Len(s) : Catches(s[i]) /\ s[i].timer \in expired
      BY <1>6, <1>8, <2>1, <3>1 DEF Timed
    <3>3. i = k
      BY <1>1, <1>8, <2>1, <3>2 DEF OneTimeout, Catches
    <3>4. Times(Tail(pending)) = {}
      BY <1>1, <1>8, <2>1, <3>1, OnceTail
    <3>5. Times(<<>>) = {}
      <4>1. Len(<<>>) = 0
        OBVIOUS
      <4>2. QED
        BY <4>1 DEF Times
    <3>6. QED
      BY <3>2, <3>3, <3>4, <3>5 DEF Ints
  <2> DEFINE ints == Ints(r)
             t == s
             from == t
  <2>2. interrupts' = [interrupts EXCEPT ![p] = ints]
    BY <1>4
  <2>3. /\ Times(ints) # {} => Times(interrupts[p]) # {}
        /\ Once(interrupts[p]) => Once(ints)
    BY <1>3
  <2>4. k > 1 /\ abandoned' \cap expired = {} => t[k].timer \in expired /\ Times(ints) = {}
    BY <2>1
  <2>5. \A i \in Len(t) + 1..Len(stack[p]) : stack[p][i].kind # "timeout"
    BY <1>2
  <2>6. /\ t \in Seq(Frame) /\ StackShape(t) /\ Cut(stack[p], t) /\ t # <<>> /\ t[Len(t)] = stack[p][Len(t)]
        /\ k \in 1..Len(t) /\ Thrown(t, k, r) /\ Abandons(from, r) /\ from = t
        /\ StackStep(p, r) /\ UNCHANGED <<timers, expired, stray>>
    BY <1>1, <1>2, <1>4, <1>8
  <2> HIDE DEF ints, from, t
  <2>7. QED
    BY <2>2, <2>3, <2>4, <2>5, <2>6, ThrowTimers
<1>9. CASE /\ Head(pending) = "timer" /\ \A i \in 1..Len(s) : ~Catches(s[i])
           /\ r = s
  <2>1. abandoned' \cap expired # {}
    BY <1>1, <1>5, <1>6, <1>9 DEF Timed
  <2>2. OneTimeout(r) /\ Destroyed(r, timers')
    BY <1>1, <1>9
  <2>3. \A t \in Timers :
          /\ timers[t] = "killed" => timers'[t] = "killed"
          /\ \A q \in Processes \ {p} : timers'[t] = q => timers[t] = q
    BY <1>1
  <2>4. \A q \in Processes \ {p} :
           /\ Times(interrupts'[q]) # {} => Times(interrupts[q]) # {}
           /\ Once(interrupts[q]) => Once(interrupts'[q])
    BY <1>5
  <2>5. QED
    BY <1>1, <1>4, <2>1, <2>2, <2>3, <2>4, TimerStep
<1>10. 1 \in 1..Len(s)
  BY <1>2
<1>11. QED
  BY <1>4, <1>7, <1>8, <1>9, <1>10
(* The throw that the clean-up form of a frame leaves for goes to a with-timeout whose
   time has passed, and no other throw is pending.                         *)
LEMMA LeavesFor ==
  ASSUME ShapeInv, TimerInv, NEW p \in Processes, NEW n \in 1..Len(stack[p]),
         stack[p][n].exit > 1, abandoned' \cap expired = {}, abandoned \subseteq abandoned'
  PROVE  stack[p][stack[p][n].exit].timer \in expired /\ Times(interrupts[p]) = {}
<1>1. Timed(stack[p], expired, Times(interrupts[p]) # {})
  BY TimersAre
<1>2. QED
  BY <1>1 DEF Timed

(* A frame that is no with-timeout returns, or one that evaluates its forms. *)
LEMMA PopTimers ==
  ASSUME ShapeInv, TimerInv, NEW p \in Processes, Len(stack[p]) > 1, StackStep(p, Pop(stack[p])),
         UNCHANGED <<interrupts, timers, expired, stray>>,
         Top(p).kind # "timeout" \/ Top(p).at = "forms"
  PROVE  TimerInv'
<1> DEFINE s == stack[p]
           r == Pop(s)
<1>1. /\ s \in Seq(Frame) /\ Len(s) \in Nat /\ Len(s) > 1 /\ s[Len(s)] = Top(p)
  BY TimersAre DEF Top, Last
<1> HIDE DEF s
<1>2. /\ r \in Seq(Frame) /\ Len(r) = Len(s) - 1 /\ Cut(s, r)
      /\ \A i \in 1..Len(s) - 1 : r[i] = s[i]
  BY <1>1, PopIs
<1>3. StackStep(p, r)
  BY DEF s
<1> HIDE DEF r
<1>4. r # <<>> /\ r[Len(r)] = s[Len(r)]
  <2>1. Len(s) - 1 \in 1..Len(s) - 1
    BY <1>1
  <2>2. QED
    BY <1>1, <1>2, <2>1, EmptySeq
<1>5. \A i \in Len(r) + 1..Len(s) : s[i].kind # "timeout" \/ s[i].at = "forms"
  <2>1. \A i \in Len(r) + 1..Len(s) : i = Len(s)
    BY <1>1, <1>2
  <2>2. QED
    BY <1>1, <2>1
<1>6. QED
  BY <1>2, <1>3, <1>4, <1>5, CutTimers DEF s

LEMMA ReturnTimers ==
  ASSUME ShapeInv, TimerInv, NEW p \in Processes, Return(p)
  PROVE  TimerInv'
<1> DEFINE s == stack[p]
           t == Pop(s)
           n == Len(t)
<1>1. /\ MayResume(p) /\ interrupts[p] = <<>> /\ UNCHANGED <<interrupts, timers, expired, stray>>
  BY DEF Return
<1>2. /\ s \in Seq(Frame) /\ StackShape(s) /\ Len(s) > 1 /\ Len(s) \in Nat
      /\ s[Len(s)].kind # "timeout"
      /\ t \in Seq(Frame) /\ n = Len(s) - 1 /\ Cut(s, t) /\ n \in Nat
      /\ \A i \in 1..Len(s) - 1 : t[i] = s[i]
      /\ interrupts \in [Processes -> Seq(Interrupts)]
  BY <1>1, ResumedIs, LenProperties, TimersAre DEF Top, Last, Yields
<1>3. PICK r :
        /\ StackStep(p, r)
        /\ \/ t[n].at # "destroyed" /\ r = t
           \/ /\ t[n].at = "destroyed" /\ Abandons(Pop(t), r)
              /\ \/ t[n].exit = 0 /\ r = Pop(t)
                 \/ t[n].exit \in 1..n /\ Thrown(t, t[n].exit, r)
  BY ReturnIs
<1>4. n \in 1..n /\ t[n] = s[n] /\ t # <<>> /\ n \in 1..Len(s)
  <2>1. n \in Nat /\ n = Len(s) - 1 /\ Len(s) > 1 /\ Len(s) \in Nat /\ n = Len(t) /\ t \in Seq(Frame)
    BY <1>2
  <2> HIDE DEF n, t, s
  <2>2. n \in 1..n /\ n \in 1..Len(s) - 1 /\ n \in 1..Len(s)
    BY <2>1
  <2>3. t # <<>>
    BY <2>1, EmptySeq
  <2>4. QED
    BY <1>2, <2>2, <2>3
<1>5. \A i \in Len(t) + 1..Len(s) : i = Len(s)
  BY <1>2
<1>6. CASE r = t
  BY <1>1, <1>2, <1>3, <1>6, PopTimers DEF Top, Last
<1>7. CASE t[n].at = "destroyed" /\ r = Pop(t)
  <2>1. n # 1
    <3>1. StackShape(s) /\ s[1].kind = "function" /\ 1 \in 1..Len(s)
      BY <1>2 DEF StackShape
    <3>2. FrameShape(s[1])
      BY <3>1 DEF StackShape
    <3>3. s[1].at # "destroyed"
      BY <3>1, <3>2 DEF FrameShape
    <3>4. QED
      BY <1>4, <1>7, <3>3
  <2>2. n > 1 /\ n \in Nat
    <3>1. n \in Nat /\ n \in 1..n
      BY <1>2, <1>4
    <3> HIDE DEF n
    <3>2. QED
      BY <2>1, <3>1
  <2>3. /\ r \in Seq(Frame) /\ Len(r) = n - 1 /\ Cut(t, r)
        /\ \A i \in 1..n - 1 : r[i] = t[i]
    <3>1. t \in Seq(Frame) /\ r = Pop(t) /\ Len(t) > 0 /\ n = Len(t)
      BY <1>2, <1>7, <2>2
    <3> HIDE DEF t, n, s
    <3>2. /\ Pop(t) \in Seq(Frame) /\ Len(Pop(t)) = Len(t) - 1 /\ Cut(t, Pop(t))
          /\ \A i \in 1..Len(t) - 1 : Pop(t)[i] = t[i]
      BY <3>1, PopIs
    <3>3. QED
      BY <3>1, <3>2
  <2> HIDE DEF t, n, s
  <2>4. Cut(s, r) /\ r # <<>> /\ r[Len(r)] = s[Len(r)]
    <3>1. n - 1 \in 1..n - 1 /\ n - 1 \in 1..Len(s) - 1
      BY <1>2, <2>2
    <3>2. Cut(s, r)
      BY <1>2, <2>3, CutCut
    <3>3. r # <<>>
      BY <2>2, <2>3, EmptySeq
    <3>4. QED
      BY <1>2, <2>3, <3>1, <3>2, <3>3
  <2>5. \A i \in Len(r) + 1..Len(s) : s[i].kind # "timeout" \/ s[i].at = "destroyed"
    <3>1. \A i \in Len(r) + 1..Len(s) : i = Len(s) \/ i = n
      BY <1>2, <2>2, <2>3
    <3>2. QED
      BY <1>2, <1>4, <1>7, <3>1
  <2>6. QED
    BY <1>1, <1>3, <2>4, <2>5, CutTimers DEF s
<1>8. CASE t[n].at = "destroyed" /\ t[n].exit \in 1..n /\ Thrown(t, t[n].exit, r) /\ Abandons(Pop(t), r)
  <2> DEFINE k == t[n].exit
             ints == interrupts[p]
             from == Pop(t)
  <2>1. interrupts' = [interrupts EXCEPT ![p] = ints]
    BY <1>1, <1>2
  <2>2. ASSUME k > 1, abandoned' \cap expired = {}
        PROVE  t[k].timer \in expired /\ Times(ints) = {}
    <3>1. abandoned \subseteq abandoned'
      BY <1>3 DEF StackStep
    <3>2. s[k].timer \in expired /\ Times(ints) = {}
      BY <1>4, <2>2, <3>1, LeavesFor
    <3>3. s[k] = t[k]
      BY <1>2, <1>8
    <3>4. QED
      BY <3>2, <3>3
  <2>3. \A i \in Len(t) + 1..Len(stack[p]) : stack[p][i].kind # "timeout"
    BY <1>2, <1>5
  <2>4. k \in 1..Len(t) /\ Thrown(t, k, r) /\ Abandons(from, r) /\ from = Pop(t)
    BY <1>8
  <2>5. /\ t \in Seq(Frame) /\ StackShape(t) /\ Cut(stack[p], t) /\ t # <<>> /\ t[Len(t)] = stack[p][Len(t)]
        /\ t[Len(t)].at = "destroyed"
    <3>1. \A i \in 1..Len(t) : i < Len(s) /\ i \in 1..Len(s) - 1
      BY <1>2
    <3>2. t[n].at \notin Waits
      BY <1>8 DEF Waits
    <3>3. StackShape(t)
      <4>1. s[Len(s) - 1].at \notin Waits
        BY <1>2, <1>4, <3>2
      <4>2. QED
        BY <1>2, <4>1, PopShape
    <3>4. QED
      BY <1>2, <1>4, <1>8, <3>3
  <2>6. k > 1 /\ abandoned' \cap expired = {} => t[k].timer \in expired /\ Times(ints) = {}
    BY <2>2
  <2>7. Times(ints) # {} => Times(interrupts[p]) # {}
    OBVIOUS
  <2>8. Once(interrupts[p]) => Once(ints)
    OBVIOUS
  <2>9. StackStep(p, r) /\ interrupts[p] = <<>> /\ UNCHANGED <<timers, expired, stray>>
    BY <1>1, <1>3
  <2> HIDE DEF ints, from, t, n, k
  <2>10. \/ from = t
         \/ /\ from = Pop(t)
            /\ \/ t[Len(t)].kind # "timeout"
               \/ t[Len(t)].at = "destroyed" /\ interrupts[p] = <<>>
    BY <2>4, <2>5, <2>9
  <2>11. QED
    BY <2>1, <2>3, <2>4, <2>5, <2>6, <2>7, <2>8, <2>9, <2>10, ThrowTimers
<1>9. QED
  BY <1>3, <1>6, <1>7, <1>8
(* The frame on top of t, which is the stack or the stack without a call of
   process-yield, goes on in its body or in its clean-up form.             *)
LEMMA MoveTimers ==
  ASSUME ShapeInv, TimerInv, NEW p \in Processes, NEW t \in Seq(Frame), Len(t) > 0,
         Cut(stack[p], t), t[Len(t)] = stack[p][Len(t)],
         \A i \in Len(t) + 1..Len(stack[p]) : stack[p][i].kind # "timeout",
         NEW a \in {"body", "cleanup"}, StackStep(p, Moved(t, a)),
         UNCHANGED <<interrupts, timers, expired, stray>>,
         \/ t[Len(t)].kind = "lock"
         \/ t[Len(t)].kind = "timeout" /\ t[Len(t)].at \in {"start", "body"}
  PROVE  TimerInv'
<1> DEFINE s == stack[p]
           r == Moved(t, a)
<1>1. /\ r \in Seq(Frame) /\ Len(r) = Len(t) /\ Cut(t, r)
      /\ SameCall(r[Len(t)], t[Len(t)]) /\ r[Len(t)].at = a /\ r[Len(t)].exit = t[Len(t)].exit
  <2>1. a \in Places
    BY DEF Places
  <2>2. QED
    BY <2>1, MovedIs
<1>2. StackStep(p, r) /\ s \in Seq(Frame) /\ Cut(s, t) /\ Len(t) \in Nat
  BY TimersAre, LenProperties
<1> HIDE DEF r
<1>3. Cut(s, r) /\ r # <<>>
  BY <1>1, <1>2, CutCut, EmptySeq
<1>4. LET f == r[Len(r)]
          g == s[Len(r)]
      IN  /\ f.exit = g.exit
          /\ f.at = "forms" => g.at = "forms"
          /\ f.at = "destroyed" => g.at = "destroyed"
          /\ Catches(g) => Catches(f)
          /\ \A x : Owner(g, x) => Owner(f, x)
  BY <1>1 DEF Catches, Owner, SameCall
<1>5. \A i \in Len(r) + 1..Len(s) : s[i].kind # "timeout"
  BY <1>1
<1>6. QED
  BY <1>2, <1>3, <1>4, <1>5, CutTimers

LEMMA LockWaitTimers ==
  ASSUME ShapeInv, TimerInv, NEW p \in Processes, LockWaitSucceeds(p) \/ LockWaitTimesOut(p)
  PROVE  TimerInv'
<1> DEFINE s == stack[p]
           t == Pop(s)
<1>1. PICK a \in {"body", "cleanup"} :
        /\ MayResume(p) /\ Waiting(p) /\ GoesOn(p, t, Moved(t, a))
        /\ UNCHANGED <<interrupts, timers, expired, stray>>
  BY DEF LockWaitSucceeds, LockWaitTimesOut
<1>2. /\ s \in Seq(Frame) /\ Len(s) > 1 /\ Len(s) \in Nat /\ s[Len(s)].kind # "timeout"
      /\ t \in Seq(Frame) /\ Len(t) = Len(s) - 1 /\ Cut(s, t)
  BY <1>1, ResumedIs, LenProperties DEF Top, Last, Yields
<1>3. t[Len(t)] = s[Len(t)] /\ s[Len(t)].kind = "lock"
  <2>1. LET n == Len(s) - 1
        IN  Pop(s)[n] = s[n] /\ s[n].kind = "lock"
    BY <1>1, <1>2, WaitingIs
  <2>2. QED
    BY <1>2, <2>1
<1>4. StackStep(p, Moved(t, a))
  BY <1>1, WaitEndsIs
<1>5. \A i \in Len(t) + 1..Len(s) : s[i].kind # "timeout"
  <2>1. \A i \in Len(t) + 1..Len(s) : i = Len(s)
    BY <1>2
  <2>2. QED
    BY <1>2, <2>1
<1>6. Len(t) > 0
  BY <1>2
<1> HIDE DEF t
<1>7. QED
  BY <1>1, <1>2, <1>3, <1>4, <1>5, <1>6, MoveTimers

(* Likewise for the frame on top of the stack. *)
LEMMA TopTimers ==
  ASSUME ShapeInv, TimerInv, NEW p \in Processes, Runs(p),
         NEW a \in {"body", "cleanup"}, StackStep(p, Moved(stack[p], a)),
         UNCHANGED <<interrupts, timers, expired, stray>>,
         \/ Top(p).kind = "lock"
         \/ Top(p).kind = "timeout" /\ Top(p).at \in {"start", "body"}
  PROVE  TimerInv'
<1> DEFINE t == stack[p]
<1>1. t \in Seq(Frame) /\ Len(t) > 0 /\ Len(t) \in Nat /\ t[Len(t)] = Top(p)
  BY RunningIs
<1>2. Cut(t, t)
  BY <1>1 DEF Cut, SameCall
<1>3. \A i \in Len(t) + 1..Len(t) : FALSE
  BY <1>1
<1>4. QED
  BY <1>1, <1>2, <1>3, MoveTimers

LEMMA TakeLockTimers ==
  ASSUME ShapeInv, TimerInv, NEW p \in Processes, NEW wait \in Waits \union {"cleanup"}, TakeLock(p, wait)
  PROVE  TimerInv'
<1>1. Runs(p) /\ Top(p).kind = "lock" /\ UNCHANGED <<interrupts, timers, expired, stray, abandoned>>
  BY DEF TakeLock, At
<1>2. Len(stack[p]) > 0
  BY <1>1, RunningIs
<1>3. PICK r : /\ StackStep(p, r)
               /\ \/ r = Moved(stack[p], "body")
                  \/ r = Moved(stack[p], "cleanup")
                  \/ \E w \in Waits : r = Append(Moved(stack[p], w), NewFrame("yield", "run"))
  BY TakeLockIs
<1>4. CASE r = Moved(stack[p], "body") \/ r = Moved(stack[p], "cleanup")
  BY <1>1, <1>3, <1>4, TopTimers
<1>5. ASSUME NEW w \in Waits, r = Append(Moved(stack[p], w), NewFrame("yield", "run"))
      PROVE  TimerInv'
  <2>1. w \in Places
    BY DEF Waits, Places
  <2>2. QED
    BY <1>1, <1>2, <1>3, <1>5, <2>1, YieldTimers
<1>6. QED
  BY <1>3, <1>4, <1>5

LEMMA DestroyTimerTimers ==
  ASSUME ShapeInv, TimerInv, NEW p \in Processes, DestroyTimer(p)
  PROVE  TimerInv'
<1>1. /\ Runs(p) /\ Top(p).kind = "timeout" /\ Top(p).at = "cleanup"
      /\ timers' = [timers EXCEPT ![Top(p).timer] = "killed"]
      /\ UNCHANGED <<interrupts, expired, abandoned, stray>>
  BY DEF DestroyTimer, At
<1>2. Len(stack[p]) > 0 /\ Top(p).timer \in Timers
  BY <1>1, RunningIs DEF FrameShape
<1>3. "destroyed" \in Places /\ StackStep(p, Append(Moved(stack[p], "destroyed"), NewFrame("yield", "run")))
  BY DestroyTimerIs DEF Places
<1>4. QED
  BY <1>1, <1>2, <1>3, YieldTimers
LEMMA ReleaseLockTimers ==
  ASSUME ShapeInv, TimerInv, NEW p \in Processes, ReleaseLock(p)
  PROVE  TimerInv'
<1> DEFINE t == stack[p]
           k == t[Len(t)].exit
           from == Pop(t)
           Ints(r) == IF r = <<>> THEN <<>> ELSE interrupts[p]
<1>1. /\ Runs(p) /\ t[Len(t)].kind = "lock"
      /\ \E r : /\ StackStep(p, r) /\ Abandons(from, r)
                /\ interrupts' = [interrupts EXCEPT ![p] = Ints(r)]
                /\ \/ k = 0 /\ r = from
                   \/ k \in 1..Len(t) /\ Thrown(t, k, r)
  BY ReleaseLockIs
<1>2. /\ t \in Seq(Frame) /\ StackShape(t) /\ Len(t) \in Nat /\ Len(t) > 0 /\ t[Len(t)] = Top(p)
      /\ interrupts \in [Processes -> Seq(Interrupts)] /\ UNCHANGED <<timers, expired, stray>>
  BY <1>1, RunningIs, TimersAre DEF ReleaseLock
<1>3. PICK r : /\ StackStep(p, r) /\ Abandons(from, r)
               /\ interrupts' = [interrupts EXCEPT ![p] = Ints(r)]
               /\ \/ k = 0 /\ r = from
                  \/ k \in 1..Len(t) /\ Thrown(t, k, r)
  BY <1>1
<1>4. /\ Times(Ints(r)) # {} => Times(interrupts[p]) # {}
      /\ Once(interrupts[p]) => Once(Ints(r))
  <2>1. Times(<<>>) = {}
    <3>1. Len(<<>>) = 0
      OBVIOUS
    <3>2. QED
      BY <3>1 DEF Times
  <2>2. QED
    BY <2>1 DEF Once
<1>5. CASE r = from
  <2>1. Len(t) > 1
    <3> DEFINE n == Len(t)
    <3>1. n \in Nat /\ n > 0 /\ n # 1
      BY <1>1, <1>2 DEF StackShape
    <3> HIDE DEF n
    <3>2. n > 1
      BY <3>1
    <3>3. QED
      BY <3>2 DEF n
  <2>2. r # <<>>
    <3> HIDE DEF t
    <3>1. Len(from) = Len(t) - 1 /\ from \in Seq(Frame)
      BY <1>2, PopIs
    <3>2. QED
      BY <1>2, <1>5, <2>1, <3>1, EmptySeq
  <2>3. interrupts' = interrupts
    BY <1>2, <1>3, <2>2
  <2>4. QED
    BY <1>1, <1>2, <1>3, <1>5, <2>1, <2>3, PopTimers
<1>6. CASE k \in 1..Len(t) /\ Thrown(t, k, r)
  <2> DEFINE ints == Ints(r)
  <2>1. ASSUME k > 1, abandoned' \cap expired = {}
        PROVE  t[k].timer \in expired /\ Times(ints) = {}
    <3>1. abandoned \subseteq abandoned' /\ Len(t) \in 1..Len(t)
      BY <1>2, <1>3 DEF StackStep
    <3>2. t[k].timer \in expired /\ Times(interrupts[p]) = {}
      BY <2>1, <3>1, LeavesFor
    <3>3. QED
      BY <1>4, <3>2
  <2>2. /\ Times(ints) # {} => Times(interrupts[p]) # {}
        /\ Once(interrupts[p]) => Once(ints)
    BY <1>4
  <2>3. interrupts' = [interrupts EXCEPT ![p] = ints]
    BY <1>3
  <2>4. Cut(stack[p], t) /\ t # <<>> /\ t[Len(t)] = stack[p][Len(t)] /\ t[Len(t)].kind # "timeout"
    BY <1>1, <1>2, EmptySeq DEF Cut, SameCall
  <2>5. \A i \in Len(t) + 1..Len(stack[p]) : stack[p][i].kind # "timeout"
    BY <1>2
  <2>6. k > 1 /\ abandoned' \cap expired = {} => t[k].timer \in expired /\ Times(ints) = {}
    BY <2>1
  <2>7. from = Pop(t) /\ t \in Seq(Frame) /\ StackShape(t) /\ StackStep(p, r) /\ Abandons(from, r)
    BY <1>2, <1>3
  <2> HIDE DEF ints, from, t, k
  <2>8. \/ from = t
        \/ /\ from = Pop(t)
           /\ \/ t[Len(t)].kind # "timeout"
              \/ t[Len(t)].at = "destroyed" /\ interrupts[p] = <<>>
    BY <2>4, <2>7
  <2>9. QED
    BY <1>2, <1>6, <2>2, <2>3, <2>4, <2>5, <2>6, <2>7, <2>8, ThrowTimers
<1>7. QED
  BY <1>3, <1>5, <1>6

LEMMA WithTimeoutTimers ==
  ASSUME ~Nested, ShapeInv, TimerInv, NEW p \in Processes, NEW t \in Timers, WithTimeout(p, t)
  PROVE  TimerInv'
<1> DEFINE f == TimeoutFrame(t)
<1>1. /\ f \in Frame /\ f.kind = "timeout" /\ f.at = "start" /\ f.timer = t /\ f.exit = 0
      /\ StackStep(p, Append(stack[p], f))
  BY WithTimeoutIs
<1> HIDE DEF f
<1>2. /\ timers[t] = "unborn" /\ timers' = [timers EXCEPT ![t] = p]
      /\ UNCHANGED <<interrupts, expired, abandoned, stray>>
      /\ \A i \in DOMAIN stack[p] : stack[p][i].kind # "timeout"
  BY DEF WithTimeout
<1>3. \A i \in 1..Len(stack[p]) : stack[p][i].kind # "timeout"
  BY <1>2, TimersAre
<1>4. timers \in [Timers -> {"unborn", "killed"} \union Processes]
  BY DEF ShapeInv, TypeOK
<1>5. \A x \in Timers :
        timers'[x] = timers[x] \/ (timers[x] = "unborn" /\ timers'[x] = p /\ Owner(f, x))
  BY <1>1, <1>2, <1>4 DEF Owner
<1>6. \A q \in Processes :
        /\ Times(interrupts'[q]) # {} => Times(interrupts[q]) # {}
        /\ Once(interrupts[q]) => Once(interrupts'[q])
  BY <1>2
<1>7. f.at \notin {"forms", "destroyed"} /\ f.exit = 0
  BY <1>1
<1>8. QED
  BY <1>1, <1>2, <1>3, <1>5, <1>6, <1>7, PushTimers

LEMMA SendTimers ==
  ASSUME ShapeInv, TimerInv, NEW p \in Processes, NEW q \in Processes, NEW x \in {"call", "end"}, Send(p, q, x)
  PROVE  TimerInv'
<1> DEFINE f == NewFrame("yield", "run")
<1>1. /\ f \in Frame /\ f.at \notin {"forms", "destroyed"} /\ f.exit = 0 /\ f.kind # "timeout"
      /\ StackStep(p, Append(stack[p], f))
  BY SendShape, NewFrameIs
<1> HIDE DEF f
<1>2. /\ interrupts' = [interrupts EXCEPT ![q] = << x >> \o interrupts[q]]
      /\ UNCHANGED <<timers, expired, abandoned, stray>>
      /\ interrupts \in [Processes -> Seq(Interrupts)]
  BY TimersAre DEF Send
<1>3. ASSUME NEW o \in Processes
      PROVE  /\ Times(interrupts'[o]) # {} => Times(interrupts[o]) # {}
             /\ Once(interrupts[o]) => Once(interrupts'[o])
  <2>1. CASE o # q
    BY <1>2, <2>1
  <2>2. CASE o = q
    <3>1. interrupts'[o] = << x >> \o interrupts[o] /\ interrupts[o] \in Seq(Interrupts)
      BY <1>2, <2>2
    <3>2. x \in Interrupts /\ x # "timer"
      BY DEF Interrupts
    <3>3. QED
      BY <3>1, <3>2, OnceAfter
  <2>3. QED
    BY <2>1, <2>2
<1>4. QED
  BY <1>1, <1>2, <1>3, PushTimers
LEMMA TimerExpiresTimers ==
  ASSUME ShapeInv, TimerInv, NEW t \in Timers, TimerExpires(t)
  PROVE  TimerInv'
<1>1. PICK q \in Processes : q = timers[t]
  BY DEF TimerExpires
<1> DEFINE s == stack[q]
           ints == interrupts[q]
<1>2. /\ q = timers[t] /\ timers' = [timers EXCEPT ![t] = "killed"] /\ expired' = expired \union {t}
      /\ interrupts' = IF Alive(q) THEN [interrupts EXCEPT ![q] = << "timer" >> \o ints]
                       ELSE interrupts
      /\ UNCHANGED <<stack, abandoned, stray>>
  BY <1>1 DEF TimerExpires
<1>3. /\ timers \in [Timers -> {"unborn", "killed"} \union Processes]
      /\ interrupts \in [Processes -> Seq(Interrupts)] /\ expired \subseteq Timers
      /\ \A x \in expired : timers[x] = "killed"
      /\ timers[t] # "killed" /\ "killed" \notin Processes
  BY <1>2, TimersAre, ConstantsAssumption DEF ShapeInv, TypeOK
<1>4. \A x \in Timers : timers'[x] = IF x = t THEN "killed" ELSE timers[x]
  BY <1>3, <1>2
<1>5. ASSUME NEW p \in Processes
      PROVE  OneTimeout(stack'[p]) /\ Destroyed(stack'[p], timers')
  <2> DEFINE r == stack[p]
  <2>1. OneTimeout(r) /\ Destroyed(r, timers) /\ StackShape(r)
    BY TimersAre
  <2>2. \A i \in 1..Len(r) : r[i].at = "destroyed" => r[i].timer \in Timers
    BY <2>1 DEF StackShape, FrameShape, Waits
  <2> HIDE DEF r
  <2>3. Destroyed(r, timers')
    BY <1>4, <2>1, <2>2 DEF Destroyed
  <2>4. QED
    BY <1>2, <2>1, <2>3 DEF r
<1>6. \A x \in expired' : timers'[x] = "killed"
  BY <1>2, <1>3, <1>4
<1>7. ASSUME abandoned' \cap expired' = {}
      PROVE  ~stray' /\ \A p \in Processes : TimersOf(p)'
  <2>1. ~stray /\ t \notin abandoned /\ \A p \in Processes : TimersOf(p)
    BY <1>2, <1>7 DEF TimerInv
  <2>2. ASSUME NEW p \in Processes, p # q
        PROVE  TimersOf(p)'
    <3> DEFINE r == stack[p]
               pend == Times(interrupts[p]) # {}
    <3>1. /\ Timed(r, expired, pend) /\ Once(interrupts[p])
          /\ \A x \in Timers : timers[x] = p => x \in abandoned \/ Owns(r, x)
      BY <2>1 DEF TimersOf
    <3>2. stack'[p] = r /\ interrupts'[p] = interrupts[p]
      BY <1>2, <1>3, <2>2
    <3>3. \A x \in Timers : timers'[x] = p => timers[x] = p
      BY <1>3, <1>4, <2>2
    <3> HIDE DEF r, pend
    <3>4. Timed(r, expired', pend)
      BY <1>2, <3>1 DEF Timed
    <3>5. QED
      BY <1>2, <3>1, <3>2, <3>3, <3>4 DEF TimersOf, pend
  <2>3. TimersOf(q)'
    <3>1. /\ Timed(s, expired, Times(ints) # {}) /\ Once(ints) /\ Owns(s, t)
          /\ \A x \in Timers : timers[x] = q => x \in abandoned \/ Owns(s, x)
      BY <1>2, <2>1 DEF TimersOf
    <3>2. OneTimeout(s) /\ s \in Seq(Frame) /\ StackShape(s)
      BY <1>2, TimersAre
    <3>3. PICK i \in 1..Len(s) :
            s[i].kind = "timeout" /\ s[i].timer = t /\ s[i].at \in {"start", "body", "cleanup"}
      BY <3>1 DEF Owns
    <3>4. t \notin expired
      BY <1>3
    <3>5. Times(ints) = {}
      <4>1. \A j \in 1..Len(s) : Catches(s[j]) => j = i
        BY <3>2, <3>3 DEF OneTimeout, Catches
      <4>2. QED
        BY <3>1, <3>3, <3>4, <4>1 DEF Timed
    <3>6. \A j \in 1..Len(s) : ~(s[j].exit > 1)
      <4>1. SUFFICES ASSUME NEW j \in 1..Len(s), s[j].exit > 1
                     PROVE  FALSE
        OBVIOUS
      <4>2. s[j].exit <= j /\ s[s[j].exit].kind = "timeout" /\ s[s[j].exit].timer \in expired
        BY <3>1, <3>2, <4>1 DEF StackShape, Timed
      <4>3. s[j].exit \in Nat /\ Len(s) \in Nat
        BY <3>2, FrameIs, LenProperties
      <4> DEFINE k == s[j].exit
      <4>4. k \in Nat /\ k > 1 /\ k <= j /\ s[k].kind = "timeout" /\ s[k].timer \in expired
        BY <4>1, <4>2, <4>3
      <4> HIDE DEF k, s
      <4>5. k \in 1..Len(s)
        BY <4>1, <4>3, <4>4
      <4>6. k = i
        BY <3>2, <3>3, <4>4, <4>5 DEF OneTimeout
      <4>7. QED
        BY <3>3, <3>4, <4>4, <4>6
    <3>7. s # <<>>
      <4>1. Len(<<>>) = 0
        OBVIOUS
      <4>2. QED
        BY <3>3, <4>1
    <3>8. interrupts'[q] = << "timer" >> \o ints
      BY <1>2, <1>3, <3>7 DEF Alive
    <3>9. Once(interrupts'[q])
      <4>1. ints \in Seq(Interrupts) /\ "timer" \in Interrupts
        BY <1>2, <1>3 DEF Interrupts
      <4> HIDE DEF ints
      <4>2. Once(<< "timer" >> \o ints)
        BY <3>5, <4>1, OnceAfter
      <4>3. QED
        BY <3>8, <4>2
    <3>10. Timed(s, expired', Times(interrupts'[q]) # {})
      <4> DEFINE pend == Times(interrupts'[q]) # {}
      <4> HIDE DEF pend, s
      <4>1. \A j \in 1..Len(s) : s[j].at = "forms" => s[j].timer \in expired'
        BY <1>2, <3>1 DEF Timed
      <4>2. Catches(s[i]) /\ s[i].timer \in expired'
        BY <1>2, <3>3 DEF Catches
      <4>3. Timed(s, expired', pend)
        BY <3>3, <3>6, <4>1, <4>2 DEF Timed
      <4>4. QED
        BY <4>3 DEF pend
    <3>11. \A x \in Timers : timers'[x] = q => x \in abandoned' \/ Owns(s, x)
      BY <1>2, <1>4, <3>1
    <3>12. QED
      BY <1>2, <3>9, <3>10, <3>11 DEF TimersOf
  <2>4. QED
    BY <1>2, <2>1, <2>2, <2>3
<1>8. QED
  BY <1>2, <1>5, <1>6, <1>7 DEF TimerInv
(* Only the function of a process is alone on its stack. *)
LEMMA NotAlone ==
  ASSUME ShapeInv, NEW p \in Processes, Runs(p), Top(p).kind # "function"
  PROVE  Len(stack[p]) > 1
<1> DEFINE n == Len(stack[p])
<1>1. n \in Nat /\ n > 0 /\ n # 1
  BY RunningIs DEF StackShape
<1> HIDE DEF n
<1>2. n > 1
  BY <1>1
<1>3. QED
  BY <1>2 DEF n

LEMMA InitTimers == Init => TimerInv
<1> SUFFICES ASSUME Init
             PROVE  TimerInv
  OBVIOUS
<1> DEFINE f == NewFrame("function", "run")
           y == NewFrame("yield", "run")
<1>1. f.kind = "function" /\ f.at = "run" /\ f.exit = 0 /\ y.kind = "yield" /\ y.at = "run" /\ y.exit = 0
  BY NewFrameIs
<1> HIDE DEF f, y
<1>2. ASSUME NEW p \in Processes
      PROVE  /\ \A i \in 1..Len(stack[p]) : stack[p][i] \in {f, y}
             /\ interrupts[p] = <<>>
  BY DEF Init, f, y
<1>3. \A t \in Timers : timers[t] = "unborn" /\ timers[t] \notin Processes
  BY ConstantsAssumption DEF Init
<1>4. ASSUME NEW p \in Processes
      PROVE  OneTimeout(stack[p]) /\ Destroyed(stack[p], timers) /\ TimersOf(p)
  <2>1. \A i \in 1..Len(stack[p]) :
          stack[p][i].kind # "timeout" /\ stack[p][i].at = "run" /\ stack[p][i].exit = 0
    BY <1>1, <1>2
  <2>2. Times(interrupts[p]) = {}
    <3>1. Len(interrupts[p]) = 0
      BY <1>2
    <3>2. QED
      BY <3>1 DEF Times
  <2>3. OneTimeout(stack[p]) /\ Destroyed(stack[p], timers)
    BY <2>1 DEF OneTimeout, Destroyed
  <2>4. Timed(stack[p], expired, Times(interrupts[p]) # {}) /\ Once(interrupts[p])
    BY <2>1, <2>2 DEF Timed, Once
  <2>5. QED
    BY <1>3, <2>3, <2>4 DEF TimersOf
<1>5. expired = {} /\ ~stray
  BY DEF Init
<1>6. QED
  BY <1>4, <1>5 DEF TimerInv

LEMMA NextTimers == ~Nested /\ ShapeInv /\ TimerInv /\ [Next]_vars => TimerInv'
<1> SUFFICES ASSUME ~Nested, ShapeInv, TimerInv, [Next]_vars
             PROVE  TimerInv'
  OBVIOUS
<1>1. CASE UNCHANGED vars
  BY <1>1 DEF TimerInv, TimersOf, vars
<1>2. ASSUME NEW p \in Processes, RunInterrupt(p)
      PROVE  TimerInv'
  BY <1>2, RunInterruptTimers
<1>3. ASSUME NEW p \in Processes, Return(p)
      PROVE  TimerInv'
  BY <1>3, ReturnTimers
<1>4. ASSUME NEW p \in Processes, LockWaitSucceeds(p) \/ LockWaitTimesOut(p)
      PROVE  TimerInv'
  BY <1>4, LockWaitTimers
<1>5. ASSUME NEW p \in Processes, Sigalrm(p)
      PROVE  TimerInv'
  <2> DEFINE f == NewFrame("sigalrm", "run")
  <2>1. /\ f \in Frame /\ f.kind # "timeout" /\ f.at \notin {"forms", "destroyed"} /\ f.exit = 0
        /\ StackStep(p, Append(stack[p], f))
    BY <1>5, SigalrmIs, NewFrameIs
  <2>2. UNCHANGED <<interrupts, timers, expired, abandoned, stray>>
    BY <1>5 DEF Sigalrm
  <2> HIDE DEF f
  <2>3. QED
    BY <2>1, <2>2, PushTimers
<1>6. ASSUME NEW p \in Processes, InterruptReturn(p)
      PROVE  TimerInv'
  <2>1. Runs(p) /\ Top(p).kind = "interrupt" /\ UNCHANGED <<interrupts, timers, expired, stray>>
    BY <1>6 DEF InterruptReturn, At
  <2>2. StackStep(p, Pop(stack[p]))
    BY <1>6, <2>1, ReturnsIs DEF InterruptReturn
  <2>3. QED
    BY <2>1, <2>2, NotAlone, PopTimers
<1>7. ASSUME NEW p \in Processes, NEW q \in Processes, NEW x \in {"call", "end"}, Send(p, q, x)
      PROVE  TimerInv'
  BY <1>7, SendTimers
<1>8. ASSUME NEW p \in Processes, NEW l \in Locks, WithLockHeld(p, l)
      PROVE  TimerInv'
  <2> DEFINE f == LockFrame(p, l)
  <2>1. f \in Frame /\ f.kind = "lock" /\ f.at = "try" /\ f.exit = 0 /\ StackStep(p, Append(stack[p], f))
    BY <1>8, WithLockHeldIs
  <2>2. UNCHANGED <<interrupts, timers, expired, abandoned, stray>>
    BY <1>8 DEF WithLockHeld
  <2> HIDE DEF f
  <2>3. f.kind # "timeout" /\ f.at \notin {"forms", "destroyed"}
    BY <2>1
  <2>4. QED
    BY <2>1, <2>2, <2>3, PushTimers
<1>9. ASSUME NEW p \in Processes, NEW wait \in Waits \union {"cleanup"}, TakeLock(p, wait)
      PROVE  TimerInv'
  BY <1>9, TakeLockTimers
<1>10. ASSUME NEW p \in Processes, BodyReturns(p)
       PROVE  TimerInv'
  <2>1. /\ Runs(p) /\ Top(p).kind \in {"lock", "timeout"} /\ Top(p).at = "body"
        /\ UNCHANGED <<interrupts, timers, expired, stray>>
    BY <1>10 DEF BodyReturns
  <2>2. QED
    BY <1>10, <2>1, BodyReturnsIs, TopTimers
<1>11. ASSUME NEW p \in Processes, ReleaseLock(p)
       PROVE  TimerInv'
  BY <1>11, ReleaseLockTimers
<1>12. ASSUME NEW p \in Processes, NEW t \in Timers, WithTimeout(p, t)
       PROVE  TimerInv'
  BY <1>12, WithTimeoutTimers
<1>13. ASSUME NEW p \in Processes, ProtectBody(p)
       PROVE  TimerInv'
  <2>1. /\ Runs(p) /\ Top(p).kind = "timeout" /\ Top(p).at = "start"
        /\ UNCHANGED <<interrupts, timers, expired, stray>>
    BY <1>13 DEF ProtectBody, At
  <2>2. QED
    BY <1>13, <2>1, ProtectBodyIs, TopTimers
<1>14. ASSUME NEW p \in Processes, DestroyTimer(p)
       PROVE  TimerInv'
  BY <1>14, DestroyTimerTimers
<1>15. ASSUME NEW p \in Processes, FormsReturn(p)
       PROVE  TimerInv'
  <2>1. /\ Runs(p) /\ Top(p).kind = "timeout" /\ Top(p).at = "forms"
        /\ UNCHANGED <<interrupts, timers, expired, stray>>
    BY <1>15 DEF FormsReturn, At
  <2>2. StackStep(p, Pop(stack[p]))
    BY <1>15, <2>1, ReturnsIs DEF FormsReturn
  <2>3. QED
    BY <2>1, <2>2, NotAlone, PopTimers
<1>16. ASSUME NEW t \in Timers, TimerExpires(t)
       PROVE  TimerInv'
  BY <1>16, TimerExpiresTimers
<1>17. QED
  BY <1>1, <1>2, <1>3, <1>4, <1>5, <1>6, <1>7, <1>8, <1>9, <1>10, <1>11, <1>12, <1>13, <1>14, <1>15,
     <1>16 DEF Next

LEMMA TimersInTime == ShapeInv /\ TimerInv => TimeoutIsKept
<1> SUFFICES ASSUME ShapeInv, TimerInv, abandoned \cap expired = {}
             PROVE  TimeoutIsOwn /\ TimersEnd /\ ~stray
  BY DEF TimeoutIsKept
<1>1. ~stray /\ \A p \in Processes : TimersOf(p) /\ stack[p] \in Seq(Frame)
  BY DEF TimerInv, ShapeInv, TypeOK
<1>2. TimeoutIsOwn
  <2> SUFFICES ASSUME NEW p \in Processes, NEW i \in DOMAIN stack[p], stack[p][i].at = "forms"
               PROVE  stack[p][i].timer \in expired
    BY DEF TimeoutIsOwn
  <2>1. i \in 1..Len(stack[p])
    BY <1>1
  <2>2. QED
    BY <1>1, <2>1 DEF TimersOf, Timed
<1>3. TimersEnd
  <2> SUFFICES ASSUME NEW t \in Timers, timers[t] \in Processes, t \notin abandoned
               PROVE  \E i \in DOMAIN stack[timers[t]] : stack[timers[t]][i].timer = t
    BY DEF TimersEnd
  <2> DEFINE p == timers[t]
  <2>1. Owns(stack[p], t) /\ stack[p] \in Seq(Frame)
    BY <1>1 DEF TimersOf
  <2>2. QED
    BY <2>1 DEF Owns
<1>4. QED
  BY <1>1, <1>2, <1>3

(* "If the execution takes longer than timeout seconds, abort it and evaluate
   timeout-forms": the forms are evaluated after this with-timeout's own time, no
   timer outlives its with-timeout, and none throws where nobody catches; as long
   as with-timeouts do not nest, and until a timer expires whose clean-up form a
   throw has left.                                                         *)
THEOREM TimeoutKept ==
  ASSUME ~Nested
  PROVE  Spec => []TimeoutIsKept
<1>1. ~Nested
  OBVIOUS
<1>2. Init => ShapeInv /\ TimerInv
  BY InitShape, InitTimers
<1>3. ShapeInv /\ TimerInv /\ [Next]_vars => (ShapeInv /\ TimerInv)'
  BY <1>1, NextShape, NextTimers
<1>4. QED
  BY <1>2, <1>3, TimersInTime, PTL DEF Spec
=============================================================================
