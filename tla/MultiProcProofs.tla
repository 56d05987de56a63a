-------------------------- MODULE MultiProcProofs --------------------------
(***************************************************************************)
(* Proofs about MultiProc, for any number of processes, wait predicates and *)
(* operations: type correctness and the waits, for every program; the       *)
(* scheduler's assertions, the lists and restart-process, for programs in   *)
(* which no more than one function restarts processes (SoleRestarter).      *)
(*                                                                         *)
(* The invariant has three parts.  Inv: the shapes of the stacks, and the   *)
(* queue of the scheduler.  AllWaits: each call of process-wait finds its   *)
(* wait in the process structure, or saved by the process-yield above it.   *)
(* AllRestarts: where restart-process is on the stacks, and that its target *)
(* is dead once it is done waiting.                                         *)
(***************************************************************************)
EXTENDS MultiProc, SequenceTheorems, FiniteSetTheorems, TLAPS

Yields == {"yield", "sigalrm"}
IsAlive(r) == r.state \in {"active", "inactive"}

(* Where a call of each kind can be. *)
FrameShape(f) ==
  \/ f.kind = "function" /\ f.at \in {"start", "run"}
  \/ f.kind = "interrupt" /\ f.at \in {"run", "throw"}
  \/ f.kind = "wait" /\ f.at \in {"set", "yield", "read"}
  \/ /\ "restart" \in Ops /\ f.kind = "restart" /\ f.at \in {"wait", "build"}
     /\ f.target \in Processes \ {InitialProcess}
  \/ f.kind \in Yields /\ f.at \in {"rotate", "check", "handling"}

(* At the bottom is the initial function, and interrupts run on top of a call
   of process-yield.                                                       *)
StackShape(s) ==
  \A i \in 1..Len(s) :
    /\ FrameShape(s[i])
    /\ s[i].kind = "function" <=> i = 1
    /\ s[i].at = "start" => Len(s) = 1
    /\ s[i].kind = "interrupt" => s[i - 1].kind \in Yields

(* A process waits only in process-wait, from when it set the function on, or
   in the process-yield of SIGALRM on top of it.                           *)
WaitShape(r, s) ==
  r.wait_function # NoFunction =>
    /\ s # <<>>
    /\ \/ s[Len(s)].kind = "wait" /\ s[Len(s)].at = "yield"
       \/ s[Len(s)].kind \in Yields

Shape(r, s) ==
  /\ IsAlive(r) <=> s # <<>>
  /\ StackShape(s)
  /\ WaitShape(r, s)

Listed(q, list) == \E i \in 1..Len(list) : list[i] = q

(* Where a process that is not the current one can be resumed. *)
Suspended(s) ==
  \/ s[Len(s)].kind \in Yields /\ s[Len(s)].at = "check"
  \/ s[Len(s)].at = "start"

NoRepetition(list) == \A i, j \in 1..Len(list) : list[i] = list[j] => i = j

(* *all-processes* lists the live processes once.  The rest of the queue lists
   live processes once, behind a first one that may have died.             *)
QueueInv ==
  /\ \A i \in 1..Len(all_processes) : Alive(all_processes[i])
  /\ NoRepetition(all_processes)
  /\ \A i \in 2..Len(remaining_processes) : Alive(remaining_processes[i])
  /\ NoRepetition(remaining_processes)
  /\ ~inhibit_scheduling => Head(remaining_processes) = current_process
  /\ stack[current_process][1].at = "start" =>
       /\ inhibit_scheduling /\ Active(current_process)
       /\ Head(remaining_processes) = current_process
  /\ \A q \in Processes \ {current_process} : Alive(q) => Suspended(stack[q])

(* One function calls restart-process, if any; no interrupt does. *)
SoleRestarter ==
  "restart" \in Ops => \A x, y \in Restarters : x = y /\ x[2] = "function"

Inv ==
  /\ TypeOK
  /\ \A q \in Processes : Shape(process[q], stack[q])
  /\ \A q \in Processes : Alive(q) => Listed(q, all_processes)
  /\ Alive(current_process)
  /\ Alive(InitialProcess)
  /\ stack[InitialProcess][1].at = "run"
  /\ remaining_processes # <<>>
  /\ SoleRestarter => QueueInv

-----------------------------------------------------------------------------
(* Lemmas about the stacks and the queue. *)
LEMMA PushShape ==
  ASSUME NEW s \in Seq(Frame), s # <<>>, StackShape(s), s[Len(s)].at # "start",
         NEW f \in Frame, FrameShape(f), f.kind # "function", f.at # "start",
         f.kind = "interrupt" => s[Len(s)].kind \in Yields
  PROVE  /\ Append(s, f) \in Seq(Frame) /\ Append(s, f) # <<>>
         /\ StackShape(Append(s, f))
         /\ Len(Append(s, f)) = Len(s) + 1
         /\ Append(s, f)[Len(s) + 1] = f
         /\ Append(s, f)[1] = s[1]
<1>1. /\ Append(s, f) \in Seq(Frame)
      /\ Len(Append(s, f)) = Len(s) + 1
      /\ Append(s, f)[Len(s) + 1] = f
      /\ \A i \in 1..Len(s) : Append(s, f)[i] = s[i]
      /\ Len(s) \in Nat /\ Len(s) > 0
  OBVIOUS
<1>2. Append(s, f) # <<>> /\ Append(s, f)[1] = s[1]
  BY <1>1
<1> DEFINE t == Append(s, f)
<1> HIDE DEF t
<1>3. ASSUME NEW i \in 1..Len(t)
      PROVE  /\ FrameShape(t[i])
             /\ t[i].kind = "function" <=> i = 1
             /\ t[i].at = "start" => Len(t) = 1
             /\ t[i].kind = "interrupt" => t[i - 1].kind \in Yields
  <2>1. CASE i = Len(s) + 1
    <3>1. t[i] = f /\ i # 1 /\ i - 1 = Len(s) /\ t[i - 1] = s[Len(s)]
      BY <1>1, <2>1 DEF t
    <3>2. QED
      BY <3>1
  <2>2. CASE i # Len(s) + 1
    <3>1. i \in 1..Len(s) /\ t[i] = s[i]
      BY <1>1, <2>2 DEF t
    <3>2. i # 1 => i - 1 \in 1..Len(s) /\ t[i - 1] = s[i - 1]
      BY <1>1, <3>1 DEF t
    <3>3. t[i].at # "start"
      <4>1. Len(s) = 1 => i = Len(s)
        BY <3>1
      <4>2. QED
        BY <3>1, <4>1 DEF StackShape
    <3>4. QED
      BY <3>1, <3>2, <3>3 DEF StackShape
  <2>3. QED
    BY <2>1, <2>2
<1>4. QED
  BY <1>1, <1>2, <1>3 DEF StackShape, t

LEMMA PopShape ==
  ASSUME NEW s \in Seq(Frame), StackShape(s), Len(s) > 1
  PROVE  /\ SubSeq(s, 1, Len(s) - 1) \in Seq(Frame)
         /\ SubSeq(s, 1, Len(s) - 1) # <<>>
         /\ StackShape(SubSeq(s, 1, Len(s) - 1))
         /\ Len(SubSeq(s, 1, Len(s) - 1)) = Len(s) - 1
         /\ \A i \in 1..(Len(s) - 1) : SubSeq(s, 1, Len(s) - 1)[i] = s[i]
<1> DEFINE t == SubSeq(s, 1, Len(s) - 1)
<1>1. /\ t \in Seq(Frame) /\ Len(t) = Len(s) - 1
      /\ \A i \in 1..(Len(s) - 1) : t[i] = s[i]
      /\ Len(s) \in Nat
  OBVIOUS
<1> HIDE DEF t
<1>2. t # <<>>
  BY <1>1
<1>3. ASSUME NEW i \in 1..Len(t)
      PROVE  /\ FrameShape(t[i])
             /\ t[i].kind = "function" <=> i = 1
             /\ t[i].at = "start" => Len(t) = 1
             /\ t[i].kind = "interrupt" => t[i - 1].kind \in Yields
  <2>1. i \in 1..Len(s) /\ t[i] = s[i]
    BY <1>1
  <2>2. i # 1 => t[i - 1] = s[i - 1]
    BY <1>1
  <2>3. QED
    BY <2>1, <2>2 DEF StackShape
<1>4. QED
  BY <1>1, <1>2, <1>3 DEF StackShape, t

LEMMA TopShape ==
  ASSUME NEW s \in Seq(Frame), s # <<>>, StackShape(s),
         NEW f \in Frame, FrameShape(f), f.kind = s[Len(s)].kind, f.at # "start"
  PROVE  /\ [s EXCEPT ![Len(s)] = f] \in Seq(Frame)
         /\ [s EXCEPT ![Len(s)] = f] # <<>>
         /\ StackShape([s EXCEPT ![Len(s)] = f])
         /\ Len([s EXCEPT ![Len(s)] = f]) = Len(s)
         /\ [s EXCEPT ![Len(s)] = f][Len(s)] = f
         /\ \A i \in 1..(Len(s) - 1) : [s EXCEPT ![Len(s)] = f][i] = s[i]
<1> DEFINE t == [s EXCEPT ![Len(s)] = f]
<1>0. Len(s) \in 1..Len(s) /\ Len(s) \in Nat
  OBVIOUS
<1>1. /\ t \in Seq(Frame) /\ Len(t) = Len(s)
      /\ \A i \in 1..Len(s) : t[i] = IF i = Len(s) THEN f ELSE s[i]
  BY <1>0, ExceptSeq
<1>2. t # <<>>
  BY <1>1, <1>0
<1> HIDE DEF t
<1>3. ASSUME NEW i \in 1..Len(t)
      PROVE  /\ FrameShape(t[i])
             /\ t[i].kind = "function" <=> i = 1
             /\ t[i].at = "start" => Len(t) = 1
             /\ t[i].kind = "interrupt" => t[i - 1].kind \in Yields
  <2>1. i \in 1..Len(s) /\ t[i].kind = s[i].kind /\ FrameShape(t[i])
    BY <1>1 DEF StackShape
  <2>2. t[i].at = "start" => Len(t) = 1
    BY <1>1 DEF StackShape
  <2>3. i # 1 => i - 1 \in 1..Len(s) /\ t[i - 1] = s[i - 1]
    BY <1>1
  <2>4. QED
    BY <2>1, <2>2, <2>3 DEF StackShape
<1>4. StackShape(t)
  BY <1>3 DEF StackShape
<1>5. t[Len(s)] = f /\ \A i \in 1..(Len(s) - 1) : t[i] = s[i]
  BY <1>0, <1>1
<1>6. QED
  BY <1>1, <1>2, <1>4, <1>5 DEF t

(* Deleting a process from a list keeps the others, in order. *)
LEMMA WithoutFacts ==
  ASSUME NEW S, NEW list \in Seq(S), NEW p, Listed(p, list)
  PROVE  /\ Without(list, p) \in Seq(S)
         /\ Len(Without(list, p)) = Len(list) - 1
         /\ \E k \in 1..Len(list) :
              /\ list[k] = p
              /\ \A i \in 1..(Len(list) - 1) :
                   Without(list, p)[i] = IF i < k THEN list[i] ELSE list[i + 1]
<1> DEFINE k == CHOOSE i \in DOMAIN list : list[i] = p
           a == SubSeq(list, 1, k - 1)
           b == SubSeq(list, k + 1, Len(list))
<1>1. k \in 1..Len(list) /\ list[k] = p
  BY DEF Listed
<1>2. Without(list, p) = a \o b
  BY DEF Without
<1> HIDE DEF k
<1>3. Len(list) \in Nat /\ k \in Nat /\ k - 1 \in Nat
  BY <1>1
<1>4. /\ a \in Seq(S) /\ Len(a) = k - 1
      /\ \A i \in 1..(k - 1) : a[i] = list[i]
  BY <1>1, <1>3
<1>5. /\ b \in Seq(S) /\ Len(b) = Len(list) - k
      /\ \A i \in 1..(Len(list) - k) : b[i] = list[k + i]
  BY <1>1, <1>3
<1> HIDE DEF a, b
<1>6. /\ a \o b \in Seq(S) /\ Len(a \o b) = Len(list) - 1
      /\ \A i \in 1..(Len(list) - 1) :
           (a \o b)[i] = IF i <= k - 1 THEN a[i] ELSE b[i - (k - 1)]
  BY <1>1, <1>3, <1>4, <1>5
<1>7. ASSUME NEW i \in 1..(Len(list) - 1)
      PROVE  (a \o b)[i] = IF i < k THEN list[i] ELSE list[i + 1]
  <2>1. CASE i < k
    BY <1>3, <1>4, <1>6, <2>1
  <2>2. CASE ~(i < k)
    <3>1. i - (k - 1) \in 1..(Len(list) - k) /\ k + (i - (k - 1)) = i + 1
      BY <1>1, <1>3, <2>2
    <3>2. (a \o b)[i] = b[i - (k - 1)]
      BY <1>3, <1>6, <2>2
    <3>3. QED
      BY <1>5, <2>2, <3>1, <3>2
  <2>3. QED
    BY <2>1, <2>2
<1>8. QED
  BY <1>1, <1>2, <1>6, <1>7

(* The rotated queue is not empty, and holds processes of one of the lists. *)
LEMMA RotatedFacts ==
  ASSUME Inv
  PROVE  /\ Rotated \in Seq(Processes) /\ Rotated # <<>>
         /\ Head(Rotated) \in Processes
         /\ Head(Rotated) = Rotated[1]
         /\ \/ Rotated = all_processes
            \/ /\ Len(remaining_processes) > 1
               /\ Len(Rotated) = Len(remaining_processes) - 1
               /\ \A i \in 1..Len(Rotated) : Rotated[i] = remaining_processes[i + 1]
<1>1. /\ all_processes \in Seq(Processes) /\ all_processes # <<>>
      /\ remaining_processes \in Seq(Processes) /\ remaining_processes # <<>>
  BY ConstantsAssumption DEF Inv, TypeOK, Listed
<1>2. CASE Len(remaining_processes) > 1
  <2>1. Rotated = Tail(remaining_processes)
    BY <1>2 DEF Rotated
  <2>2. /\ Tail(remaining_processes) \in Seq(Processes)
        /\ Len(Tail(remaining_processes)) = Len(remaining_processes) - 1
        /\ \A i \in 1..(Len(remaining_processes) - 1) :
             Tail(remaining_processes)[i] = remaining_processes[i + 1]
    BY <1>1
  <2> HIDE DEF Rotated
  <2>3. /\ Rotated \in Seq(Processes)
        /\ Len(Rotated) = Len(remaining_processes) - 1
        /\ \A i \in 1..Len(Rotated) : Rotated[i] = remaining_processes[i + 1]
    BY <2>1, <2>2
  <2>4. Rotated # <<>> /\ Head(Rotated) = Rotated[1] /\ Head(Rotated) \in Processes
    <3>1. Len(Rotated) > 0
      BY <1>1, <1>2, <2>3
    <3>2. QED
      BY <3>1, <2>3
  <2>5. QED
    BY <1>2, <2>3, <2>4
<1>3. CASE ~(Len(remaining_processes) > 1)
  <2>1. Rotated = all_processes
    BY <1>3 DEF Rotated
  <2>2. QED
    BY <1>1, <2>1
<1>4. QED
  BY <1>2, <1>3

(* Rotating the queue keeps it a list of live processes, each of them once. *)
LEMMA RotatedInv ==
  ASSUME Inv, SoleRestarter
  PROVE  /\ \A i \in 1..Len(Rotated) : Alive(Rotated[i])
         /\ NoRepetition(Rotated)
<1>1. QueueInv /\ remaining_processes \in Seq(Processes)
  BY DEF Inv, TypeOK
<1>2. CASE Rotated = all_processes
  BY <1>1, <1>2 DEF QueueInv
<1>3. CASE /\ Len(remaining_processes) > 1
           /\ Len(Rotated) = Len(remaining_processes) - 1
           /\ \A i \in 1..Len(Rotated) : Rotated[i] = remaining_processes[i + 1]
  <2>1. Len(remaining_processes) \in Nat
    BY <1>1
  <2>2. \A i \in 1..Len(Rotated) : i + 1 \in 2..Len(remaining_processes) /\ i + 1 \in 1..Len(remaining_processes)
    BY <1>3, <2>1
  <2>3. \A i \in 1..Len(Rotated) : Alive(Rotated[i])
    BY <1>1, <1>3, <2>2 DEF QueueInv
  <2>4. ASSUME NEW i \in 1..Len(Rotated), NEW j \in 1..Len(Rotated), Rotated[i] = Rotated[j]
        PROVE  i = j
    <3>1. i + 1 = j + 1
      BY <1>1, <1>3, <2>2, <2>4 DEF QueueInv, NoRepetition
    <3>2. QED
      BY <3>1
  <2>5. QED
    BY <2>3, <2>4 DEF NoRepetition
<1>4. QED
  BY <1>2, <1>3, RotatedFacts

(* The stack of a live process. *)
LEMMA TopFacts ==
  ASSUME Inv, NEW p \in Processes, Alive(p)
  PROVE  /\ stack[p] \in Seq(Frame) /\ stack[p] # <<>> /\ StackShape(stack[p])
         /\ Len(stack[p]) \in Nat /\ Len(stack[p]) > 0
         /\ process[p] \in Process /\ WaitShape(process[p], stack[p])
         /\ Top(p) = stack[p][Len(stack[p])] /\ Top(p) \in Frame /\ FrameShape(Top(p))
         /\ Top(p).at # "start" => stack[p][1].at = "run"
         /\ Top(p).kind # "function" => Len(stack[p]) > 1 /\ stack[p][1].at = "run"
<1>1. /\ stack[p] \in Seq(Frame) /\ stack[p] # <<>> /\ StackShape(stack[p])
      /\ process[p] \in Process /\ WaitShape(process[p], stack[p])
  BY DEF Inv, TypeOK, Shape, Alive, IsAlive
<1>2. Len(stack[p]) \in Nat /\ Len(stack[p]) > 0 /\ Len(stack[p]) \in 1..Len(stack[p])
      /\ 1 \in 1..Len(stack[p])
  BY <1>1
<1>3. Top(p) = stack[p][Len(stack[p])]
  BY DEF Top
<1>4. Top(p) \in Frame /\ FrameShape(Top(p))
  BY <1>1, <1>2, <1>3 DEF StackShape
<1>5. /\ stack[p][1].kind = "function" /\ FrameShape(stack[p][1])
      /\ stack[p][1].at = "start" => Len(stack[p]) = 1
  BY <1>1, <1>2 DEF StackShape
<1>6. stack[p][1].at \in {"start", "run"}
  BY <1>5 DEF FrameShape, Yields
<1>7. Top(p).kind # "function" => Len(stack[p]) > 1
  BY <1>1, <1>2, <1>3 DEF StackShape
<1>8. QED
  BY <1>1, <1>2, <1>3, <1>4, <1>5, <1>6, <1>7

LEMMA AtShape ==
  ASSUME Inv, NEW p \in Processes, Alive(p), NEW a,
         [Top(p) EXCEPT !.at = a] \in Frame, FrameShape([Top(p) EXCEPT !.at = a]), a # "start"
  PROVE  /\ At(p, a) \in Seq(Frame) /\ At(p, a) # <<>> /\ StackShape(At(p, a))
         /\ Len(At(p, a)) = Len(stack[p])
         /\ At(p, a)[Len(stack[p])] = [Top(p) EXCEPT !.at = a]
         /\ Top(p).kind # "function" => At(p, a)[1].at = "run"
<1> DEFINE f == [Top(p) EXCEPT !.at = a]
<1>1. At(p, a) = [stack[p] EXCEPT ![Len(stack[p])] = f]
  BY DEF At, Top
<1>2. f.kind = stack[p][Len(stack[p])].kind /\ f.at = a
  BY TopFacts DEF Frame
<1> HIDE DEF f
<1>3. /\ [stack[p] EXCEPT ![Len(stack[p])] = f] \in Seq(Frame)
      /\ [stack[p] EXCEPT ![Len(stack[p])] = f] # <<>>
      /\ StackShape([stack[p] EXCEPT ![Len(stack[p])] = f])
      /\ Len([stack[p] EXCEPT ![Len(stack[p])] = f]) = Len(stack[p])
      /\ [stack[p] EXCEPT ![Len(stack[p])] = f][Len(stack[p])] = f
      /\ \A i \in 1..(Len(stack[p]) - 1) :
           [stack[p] EXCEPT ![Len(stack[p])] = f][i] = stack[p][i]
  <2>1. f \in Frame /\ FrameShape(f) /\ f.at # "start"
    BY <1>2 DEF f
  <2>2. stack[p] \in Seq(Frame) /\ stack[p] # <<>> /\ StackShape(stack[p])
    BY TopFacts
  <2>3. QED
    BY <1>2, <2>1, <2>2, TopShape
<1>4. Top(p).kind # "function" => At(p, a)[1] = stack[p][1] /\ stack[p][1].at = "run"
  <2>1. SUFFICES ASSUME Top(p).kind # "function" PROVE At(p, a)[1] = stack[p][1] /\ stack[p][1].at = "run"
    OBVIOUS
  <2>2. Len(stack[p]) > 1 /\ Len(stack[p]) \in Nat /\ stack[p][1].at = "run"
    BY <2>1, TopFacts
  <2>3. 1 \in 1..(Len(stack[p]) - 1)
    BY <2>2
  <2>4. QED
    BY <1>1, <1>3, <2>2, <2>3
<1>5. QED
  BY <1>1, <1>3, <1>4 DEF f

-----------------------------------------------------------------------------
(***************************************************************************)
(* Type correctness.                                                       *)
(***************************************************************************)
WorldOK ==
  /\ inhibit_scheduling \in BOOLEAN
  /\ flags \subseteq Flags /\ clock \in 0..MaxClock /\ ops \in 0..MaxOps /\ error \in BOOLEAN

(* What a step of process p, which leaves it with stack s, does to the queue. *)
QueueStep(p, s) ==
  /\ \A i \in 2..Len(remaining_processes') : Alive(remaining_processes'[i])
  /\ NoRepetition(remaining_processes')
  /\ ~inhibit_scheduling' => Head(remaining_processes') = current_process'
  /\ \/ current_process' = p
     \/ /\ inhibit_scheduling' /\ IsActive(process'[current_process'])
        /\ Head(remaining_processes') = current_process'
        /\ Suspended(s)

(* A step on the stack of one process that neither makes nor ends processes. *)
LEMMA LocalStep ==
  ASSUME Inv, NEW p \in Processes,
         NEW s \in Seq(Frame), s # <<>>, StackShape(s), s[1].at = "run",
         Alive(p), stack' = [stack EXCEPT ![p] = s],
         process' \in [Processes -> Process],
         \A q \in Processes : IsAlive(process'[q]) <=> IsAlive(process[q]),
         \A q \in Processes \ {p} : process'[q].wait_function \in {process[q].wait_function, NoFunction},
         WaitShape(process'[p], s),
         all_processes' = all_processes,
         remaining_processes' \in Seq(Processes), remaining_processes' # <<>>,
         current_process' \in Processes, Alive(current_process'),
         WorldOK',
         p = current_process,
         SoleRestarter => QueueStep(p, s)
  PROVE  Inv'
<1>1. /\ stack \in [Processes -> Seq(Frame)] /\ process \in [Processes -> Process]
      /\ \A q \in Processes : Shape(process[q], stack[q])
  BY DEF Inv, TypeOK
<1>2. stack' \in [Processes -> Seq(Frame)] /\ stack'[p] = s
      /\ \A q \in Processes \ {p} : stack'[q] = stack[q]
  BY <1>1
<1>3. TypeOK'
  BY <1>2 DEF Inv, TypeOK, WorldOK
<1>4. ASSUME NEW q \in Processes
      PROVE  Shape(process'[q], stack'[q])
  <2>1. CASE q = p
    BY <1>2, <2>1 DEF Shape, Alive, IsAlive
  <2>2. CASE q # p
    BY <1>1, <1>2, <2>2 DEF Shape, WaitShape
  <2>3. QED
    BY <2>1, <2>2
<1>5. \A q \in Processes : Alive(q)' <=> Alive(q)
  BY DEF Alive, IsAlive
<1>6. \A q \in Processes : Alive(q)' => Listed(q, all_processes)'
  BY <1>5 DEF Inv, Listed
<1>7. Alive(current_process)' /\ Alive(InitialProcess)'
  BY <1>5, ConstantsAssumption DEF Inv, Alive, IsAlive
<1>8. stack'[InitialProcess][1].at = "run"
  BY <1>2, ConstantsAssumption DEF Inv
<1>9. ASSUME SoleRestarter PROVE QueueInv'
  <2>1. QueueInv /\ QueueStep(p, s)
    BY <1>9 DEF Inv
  <2>2. /\ all_processes \in Seq(Processes) /\ remaining_processes' \in Seq(Processes)
        /\ \A i \in 1..Len(all_processes) : all_processes[i] \in Processes
        /\ \A i \in 1..Len(remaining_processes') : remaining_processes'[i] \in Processes
        /\ \A i \in 2..Len(remaining_processes') : i \in 1..Len(remaining_processes')
    BY DEF Inv, TypeOK
  <2>3. \A i \in 1..Len(all_processes) : IsAlive(process'[all_processes[i]])
    BY <2>1, <2>2 DEF QueueInv, Alive, IsAlive
  <2>4. \A i \in 2..Len(remaining_processes') : IsAlive(process'[remaining_processes'[i]])
    BY <2>1, <2>2 DEF QueueStep, Alive, IsAlive
  <2>5. stack'[current_process'][1].at = "start" =>
          /\ inhibit_scheduling' /\ IsActive(process'[current_process'])
          /\ Head(remaining_processes') = current_process'
    BY <1>2, <2>1 DEF QueueStep
  <2>6. ASSUME NEW q \in Processes \ {current_process'}, Alive(q)'
        PROVE  Suspended(stack'[q])
    <3>1. CASE q = p
      BY <1>2, <2>1, <2>6, <3>1 DEF QueueStep
    <3>2. CASE q # p
      BY <1>2, <1>5, <2>1, <2>6, <3>2 DEF QueueInv
    <3>3. QED
      BY <3>1, <3>2
  <2>7. QED
    BY <2>1, <2>3, <2>4, <2>5, <2>6
       DEF QueueInv, QueueStep, NoRepetition, Suspended, Alive, IsAlive, Active
<1>10. QED
  BY <1>3, <1>4, <1>6, <1>7, <1>8, <1>9 DEF Inv, SoleRestarter

(* Scheduling is enabled only for the process at the head of the queue. *)
MayRun(p) ==
  \/ inhibit_scheduling' \/ ~inhibit_scheduling
  \/ Head(remaining_processes) = p \/ stack[p][1].at = "start"

(* The same, when the queue and the current process stay. *)
LEMMA QuietStep ==
  ASSUME Inv, NEW p \in Processes,
         NEW s \in Seq(Frame), s # <<>>, StackShape(s), s[1].at = "run",
         Alive(p), stack' = [stack EXCEPT ![p] = s],
         process' \in [Processes -> Process],
         \A q \in Processes : IsAlive(process'[q]) <=> IsAlive(process[q]),
         \A q \in Processes \ {p} : process'[q].wait_function \in {process[q].wait_function, NoFunction},
         WaitShape(process'[p], s),
         UNCHANGED <<queue, current_process>>, WorldOK',
         p = current_process,
         MayRun(p)
  PROVE  Inv'
<1>1. /\ all_processes' = all_processes /\ remaining_processes' = remaining_processes
      /\ current_process' = current_process
  BY DEF queue
<1>2. /\ remaining_processes' \in Seq(Processes) /\ remaining_processes' # <<>>
      /\ current_process' \in Processes /\ Alive(current_process')
  BY <1>1 DEF Inv, TypeOK
<1>3. ASSUME SoleRestarter PROVE QueueStep(p, s)
  <2>1. QueueInv
    BY <1>3 DEF Inv
  <2>2. ~inhibit_scheduling' => Head(remaining_processes) = current_process
    BY <2>1 DEF QueueInv, MayRun
  <2>3. QED
    BY <1>1, <2>1, <2>2 DEF QueueInv, QueueStep
<1>4. QED
  BY <1>1, <1>2, <1>3, LocalStep

(* A call pushed on the stack of a process that executes and does not wait. *)
LEMMA PushStep ==
  ASSUME Inv, NEW p \in Processes, Alive(p), Top(p).at # "start",
         NEW f \in Frame, FrameShape(f), f.kind # "function", f.at # "start",
         f.kind = "interrupt" => Top(p).kind \in Yields,
         stack' = [stack EXCEPT ![p] = Append(@, f)],
         process' \in [Processes -> Process],
         \A q \in Processes : IsAlive(process'[q]) <=> IsAlive(process[q]),
         \A q \in Processes \ {p} : process'[q].wait_function \in {process[q].wait_function, NoFunction},
         process'[p].wait_function # NoFunction => f.kind \in Yields,
         UNCHANGED <<queue, current_process>>, WorldOK',
         p = current_process,
         MayRun(p)
  PROVE  Inv'
<1> DEFINE s == Append(stack[p], f)
<1>1. /\ stack[p] \in Seq(Frame) /\ stack[p] # <<>> /\ StackShape(stack[p])
      /\ Top(p) = stack[p][Len(stack[p])] /\ stack[p][1].at = "run"
  BY TopFacts
<1>2. /\ s \in Seq(Frame) /\ s # <<>> /\ StackShape(s)
      /\ Len(s) = Len(stack[p]) + 1 /\ s[Len(stack[p]) + 1] = f /\ s[1] = stack[p][1]
  BY <1>1, PushShape
<1>3. stack' = [stack EXCEPT ![p] = s]
  OBVIOUS
<1> HIDE DEF s
<1>4. WaitShape(process'[p], s)
  BY <1>2 DEF WaitShape
<1>5. s[1].at = "run"
  BY <1>1, <1>2
<1>6. QED
  BY <1>2, <1>3, <1>4, <1>5, QuietStep

LEMMA ExecutingFacts ==
  ASSUME Inv, NEW p \in Processes, p = current_process
  PROVE  Alive(p) /\ process[p] \in Process /\ WorldOK
  BY DEF Inv, TypeOK, WorldOK

LEMMA NewFrames ==
  /\ YieldFrame \in Frame /\ FrameShape(YieldFrame)
  /\ YieldFrame.kind = "yield" /\ YieldFrame.at = "rotate"
  /\ NewFrame("sigalrm", "rotate") \in Frame /\ FrameShape(NewFrame("sigalrm", "rotate"))
  /\ NothingSaved \in Saved
  /\ NewFrame("interrupt", "run") \in Frame /\ NewFrame("interrupt", "throw") \in Frame
  /\ NewFrame("function", "start") \in Frame
  /\ NewFrame("wait", "set") \in Frame /\ NewFrame("restart", "wait") \in Frame
<1>1. NoFunction \in WaitFunctions /\ None \in Timeouts /\ None \in Values
  BY DEF NoFunction, WaitFunctions, Timeouts, Values
<1>2. NothingSaved \in Saved
  BY <1>1 DEF NothingSaved, Saved
<1>3. QED
  BY <1>1, <1>2 DEF YieldFrame, NewFrame, Frame, FrameShape, Yields

THEOREM InitInv == Init => Inv
<1> SUFFICES ASSUME Init PROVE Inv
  OBVIOUS
<1> DEFINE f == NewFrame("function", "run")
<1>1. f \in Frame /\ f.kind = "function" /\ f.at = "run" /\ FrameShape(f)
  <2>1. NoFunction \in WaitFunctions /\ None \in Timeouts /\ None \in Values /\ NothingSaved \in Saved
    BY NewFrames DEF NoFunction, WaitFunctions, Timeouts, Values
  <2>2. QED
    BY <2>1 DEF NewFrame, Frame, FrameShape
<1> HIDE DEF f
<1>2. << f >> \in Seq(Frame) /\ << f >> # <<>> /\ Len(<< f >>) = 1 /\ << f >>[1] = f
  BY <1>1
<1>3. << >> \in Seq(Frame) /\ StackShape(<< >>)
  BY DEF StackShape
<1>4. StackShape(<< f >>)
  BY <1>1, <1>2 DEF StackShape
<1>5. \A st \in {"unborn", "active"}, rs \in SUBSET RunReasons : Fresh(st, rs) \in Process /\ Fresh(st, rs).wait_function = NoFunction /\ Fresh(st, rs).state = st
  BY DEF Fresh, Process, NoFunction, WaitFunctions, Timeouts, Values
<1>6. InitialProcess \in Processes /\ {"enable"} \in SUBSET RunReasons /\ {} \in SUBSET RunReasons
  BY ConstantsAssumption DEF RunReasons
<1>7. process \in [Processes -> Process]
  BY <1>5, <1>6 DEF Init
<1>8. stack \in [Processes -> Seq(Frame)]
  BY <1>2, <1>3 DEF Init, f
<1>9. TypeOK
  <2>1. all_processes \in Seq(Processes) /\ remaining_processes \in Seq(Processes)
    BY <1>6 DEF Init
  <2>2. 0 \in 0..MaxClock /\ 0 \in 0..MaxOps
    BY ConstantsAssumption
  <2>3. QED
    BY <1>6, <1>7, <1>8, <2>1, <2>2 DEF Init, TypeOK
<1>10. ASSUME NEW q \in Processes PROVE Shape(process[q], stack[q])
  <2>1. CASE q = InitialProcess
    BY <1>2, <1>4, <1>5, <1>6, <2>1 DEF Init, Shape, WaitShape, IsAlive, f
  <2>2. CASE q # InitialProcess
    BY <1>3, <1>5, <1>6, <2>2 DEF Init, Shape, WaitShape, IsAlive
  <2>3. QED
    BY <2>1, <2>2
<1>11. \A q \in Processes : Alive(q) <=> q = InitialProcess
  BY <1>5, <1>6 DEF Init, Alive
<1>12. Listed(InitialProcess, all_processes)
  BY DEF Init, Listed
<1>13. QED
  <2>1. QueueInv
    BY <1>1, <1>2, <1>6, <1>11 DEF Init, QueueInv, NoRepetition, f
  <2>2. QED
    BY <1>1, <1>2, <1>6, <1>9, <1>10, <1>11, <1>12, <2>1 DEF Init, Inv, f

-----------------------------------------------------------------------------
(* The code of the processes. *)
LEMMA YieldInv ==
  ASSUME Inv, NEW p \in Processes, Yield(p) \/ Sigalrm(p)
  PROVE  Inv'
<1>1. PICK f \in {YieldFrame, NewFrame("sigalrm", "rotate")} :
        /\ Top(p).at # "start" /\ p = current_process
        /\ stack' = [stack EXCEPT ![p] = Append(@, f)]
        /\ inhibit_scheduling' = TRUE
        /\ UNCHANGED <<process, queue, current_process, world>>
  BY DEF Yield, Sigalrm, InCode, Runs
<1>2. Alive(p) /\ process[p] \in Process /\ WorldOK /\ process \in [Processes -> Process]
  BY <1>1, ExecutingFacts DEF Inv, TypeOK
<1>3. f \in Frame /\ FrameShape(f) /\ f.kind \in Yields /\ f.at # "start"
  BY NewFrames DEF Yields, NewFrame
<1>4. f.kind # "function" /\ f.kind # "interrupt"
  BY <1>3 DEF Yields
<1>5. WorldOK'
  BY <1>1, <1>2 DEF WorldOK, world
<1>6. /\ process' \in [Processes -> Process]
      /\ \A q \in Processes : IsAlive(process'[q]) <=> IsAlive(process[q])
      /\ \A q \in Processes \ {p} : process'[q].wait_function \in {process[q].wait_function, NoFunction}
      /\ UNCHANGED <<queue, current_process>>
  BY <1>1, <1>2
<1>7. p = current_process /\ MayRun(p)
  BY <1>1 DEF MayRun
<1>8. QED
  BY <1>1, <1>2, <1>3, <1>4, <1>5, <1>6, <1>7, PushStep

LEMMA StartFunctionInv ==
  ASSUME Inv, NEW p \in Processes, StartFunction(p)
  PROVE  Inv'
<1>1. /\ Top(p).at = "start" /\ p = current_process
      /\ stack' = [stack EXCEPT ![p] = At(p, "run")]
      /\ inhibit_scheduling' = FALSE
      /\ UNCHANGED <<process, queue, current_process, world>>
  BY DEF StartFunction
<1>2. Alive(p) /\ WorldOK /\ process \in [Processes -> Process]
  BY <1>1, ExecutingFacts DEF Inv, TypeOK
<1>3. /\ Top(p) \in Frame /\ FrameShape(Top(p)) /\ WaitShape(process[p], stack[p])
      /\ stack[p] \in Seq(Frame) /\ stack[p] # <<>> /\ StackShape(stack[p])
      /\ Top(p) = stack[p][Len(stack[p])] /\ Len(stack[p]) \in 1..Len(stack[p])
  BY <1>2, TopFacts
<1>4. Top(p).kind = "function" /\ Len(stack[p]) = 1
  BY <1>1, <1>3 DEF StackShape, FrameShape, Yields
<1>5. [Top(p) EXCEPT !.at = "run"] \in Frame /\ FrameShape([Top(p) EXCEPT !.at = "run"])
      /\ [Top(p) EXCEPT !.at = "run"].at = "run"
  BY <1>3, <1>4 DEF Frame, FrameShape
<1>6. /\ At(p, "run") \in Seq(Frame) /\ At(p, "run") # <<>> /\ StackShape(At(p, "run"))
      /\ At(p, "run")[1].at = "run"
  BY <1>2, <1>4, <1>5, AtShape
<1>7. WorldOK'
  BY <1>1, <1>2 DEF WorldOK, world
<1>8. WaitShape(process'[p], At(p, "run"))
  BY <1>1, <1>3, <1>4 DEF WaitShape, Yields
<1>9. p = current_process /\ MayRun(p)
  BY <1>1, <1>3, <1>4 DEF MayRun
<1>10. QED
  BY <1>1, <1>2, <1>6, <1>7, <1>8, <1>9, QuietStep

LEMMA SetFlagInv ==
  ASSUME Inv, NEW p \in Processes, NEW f \in Flags, SetFlag(p, f)
  PROVE  Inv'
<1>1. /\ UNCHANGED <<process, stack, queue, current_process, inhibit_scheduling>>
      /\ flags' \subseteq Flags /\ UNCHANGED <<clock, ops, error>>
  BY DEF SetFlag, Inv, TypeOK
<1>2. TypeOK'
  BY <1>1 DEF Inv, TypeOK, queue
<1>3. QueueInv' <=> QueueInv
  BY <1>1 DEF queue, QueueInv, NoRepetition, Suspended, Active, IsActive, Alive
<1>4. QED
  BY <1>1, <1>2, <1>3 DEF Inv, queue, Alive, Listed, Shape, IsAlive, WaitShape, StackShape, SoleRestarter

LEMMA CallWaitInv ==
  ASSUME Inv, NEW p \in Processes, NEW call \in WaitCalls, NEW deadline \in Deadlines,
         CallWait(p, call[1], call[2], deadline)
  PROVE  Inv'
<1> DEFINE f == [NewFrame("wait", "set") EXCEPT !.fn = call[1], !.deadline = deadline]
           r == [process[p] EXCEPT !.wait_timeout = deadline, !.wait_function_args = call[2]]
<1>1. /\ Top(p).at = "run" /\ p = current_process /\ ~inhibit_scheduling
      /\ process' = [process EXCEPT ![p] = r]
      /\ stack' = [stack EXCEPT ![p] = Append(@, f)]
      /\ UNCHANGED <<queue, current_process, inhibit_scheduling, world>>
  BY DEF CallWait, InCode, Runs, StartWait
<1>2. Alive(p) /\ process[p] \in Process /\ WorldOK /\ process \in [Processes -> Process]
  BY <1>1, ExecutingFacts DEF Inv, TypeOK
<1>3. call[1] \in WaitFunctions /\ call[2] \in Flags \union {None} /\ deadline \in Timeouts
  <2>1. \A g \in Flags : FlagSet(g) \in WaitFunctions
    BY DEF FlagSet, WaitFunctions
  <2>2. FlagSetP \in WaitFunctions /\ Never \in WaitFunctions
    BY DEF FlagSetP, Never, WaitFunctions
  <2>3. clock \in 0..(MaxClock + 1)
    BY <1>2, ConstantsAssumption DEF WorldOK
  <2>4. QED
    BY <2>1, <2>2, <2>3 DEF WaitCalls, Deadlines, Timeouts
<1>4. f \in Frame /\ f.kind = "wait" /\ f.at = "set"
  <2>1. /\ NewFrame("wait", "set") \in Frame
        /\ NewFrame("wait", "set").kind = "wait" /\ NewFrame("wait", "set").at = "set"
    BY NewFrames DEF NewFrame
  <2> HIDE DEF NewFrame
  <2>2. QED
    BY <1>3, <2>1 DEF Frame
<1>5. r \in Process /\ r.state = process[p].state /\ r.wait_function = process[p].wait_function
  BY <1>2, <1>3 DEF Process
<1>6. process[p].wait_function = NoFunction
  <2>1. FrameShape(Top(p)) /\ WaitShape(process[p], stack[p]) /\ Top(p) = stack[p][Len(stack[p])]
    BY <1>2, TopFacts
  <2>2. QED
    BY <1>1, <2>1 DEF WaitShape, FrameShape, Yields
<1> HIDE DEF f, r
<1>7. FrameShape(f) /\ f.kind # "function" /\ f.at # "start" /\ f.kind # "interrupt"
  BY <1>4 DEF FrameShape
<1>8. /\ process' \in [Processes -> Process]
      /\ \A q \in Processes : IsAlive(process'[q]) <=> IsAlive(process[q])
      /\ \A q \in Processes \ {p} : process'[q].wait_function \in {process[q].wait_function, NoFunction}
      /\ process'[p].wait_function = NoFunction
  BY <1>1, <1>2, <1>5, <1>6 DEF IsAlive
<1>9. WorldOK' /\ UNCHANGED <<queue, current_process>>
  BY <1>1, <1>2 DEF WorldOK, world
<1>10. Top(p).at # "start"
  BY <1>1
<1>11. p = current_process /\ MayRun(p)
  BY <1>1 DEF MayRun
<1>12. QED
  BY <1>1, <1>2, <1>4, <1>7, <1>8, <1>9, <1>10, <1>11, PushStep

LEMMA WaitSetFunctionInv ==
  ASSUME Inv, NEW p \in Processes, WaitSetFunction(p)
  PROVE  Inv'
<1>1. /\ Top(p).kind = "wait" /\ Top(p).at = "set" /\ p = current_process /\ ~inhibit_scheduling
      /\ process' = [process EXCEPT ![p].wait_function = Top(p).fn]
      /\ stack' = [stack EXCEPT ![p] = At(p, "yield")]
      /\ UNCHANGED <<queue, current_process, inhibit_scheduling, world>>
  BY DEF WaitSetFunction, InCall, Runs
<1>2. Alive(p) /\ process[p] \in Process /\ WorldOK /\ process \in [Processes -> Process]
  BY <1>1, ExecutingFacts DEF Inv, TypeOK
<1>3. Top(p) \in Frame /\ Len(stack[p]) \in Nat /\ Len(stack[p]) > 0
  BY <1>2, TopFacts
<1>4. /\ [Top(p) EXCEPT !.at = "yield"] \in Frame
      /\ [Top(p) EXCEPT !.at = "yield"].kind = "wait" /\ [Top(p) EXCEPT !.at = "yield"].at = "yield"
  BY <1>1, <1>3 DEF Frame
<1>5. FrameShape([Top(p) EXCEPT !.at = "yield"])
  BY <1>4 DEF FrameShape
<1>6. /\ At(p, "yield") \in Seq(Frame) /\ At(p, "yield") # <<>> /\ StackShape(At(p, "yield"))
      /\ At(p, "yield")[1].at = "run" /\ Len(At(p, "yield")) = Len(stack[p])
      /\ At(p, "yield")[Len(stack[p])] = [Top(p) EXCEPT !.at = "yield"]
  BY <1>1, <1>2, <1>4, <1>5, AtShape
<1>7. WaitShape(process'[p], At(p, "yield"))
  BY <1>4, <1>6 DEF WaitShape
<1>8. /\ process' \in [Processes -> Process]
      /\ \A q \in Processes : IsAlive(process'[q]) <=> IsAlive(process[q])
      /\ \A q \in Processes \ {p} : process'[q].wait_function \in {process[q].wait_function, NoFunction}
  BY <1>1, <1>2, <1>3 DEF IsAlive, Process, Frame
<1>9. WorldOK' /\ UNCHANGED <<queue, current_process>>
  BY <1>1, <1>2 DEF WorldOK, world
<1>10. p = current_process /\ MayRun(p)
  BY <1>1 DEF MayRun
<1>11. QED
  BY <1>1, <1>2, <1>6, <1>7, <1>8, <1>9, <1>10, QuietStep

LEMMA WaitYieldInv ==
  ASSUME Inv, NEW p \in Processes, WaitYield(p)
  PROVE  Inv'
<1>1. /\ Top(p).kind = "wait" /\ p = current_process
      /\ stack' = [stack EXCEPT ![p] = Append(At(p, "read"), YieldFrame)]
      /\ inhibit_scheduling' = TRUE
      /\ UNCHANGED <<process, queue, current_process, world>>
  BY DEF WaitYield, InCall, Runs
<1>2. Alive(p) /\ process[p] \in Process /\ WorldOK /\ process \in [Processes -> Process]
  BY <1>1, ExecutingFacts DEF Inv, TypeOK
<1>3. Top(p) \in Frame /\ Len(stack[p]) \in Nat /\ Len(stack[p]) > 0
  BY <1>2, TopFacts
<1>4. /\ [Top(p) EXCEPT !.at = "read"] \in Frame
      /\ [Top(p) EXCEPT !.at = "read"].kind = "wait" /\ [Top(p) EXCEPT !.at = "read"].at = "read"
  BY <1>1, <1>3 DEF Frame
<1>5. FrameShape([Top(p) EXCEPT !.at = "read"])
  BY <1>4 DEF FrameShape
<1> DEFINE t == At(p, "read")
           s == Append(t, YieldFrame)
<1>6. /\ t \in Seq(Frame) /\ t # <<>> /\ StackShape(t) /\ t[1].at = "run"
      /\ Len(t) = Len(stack[p]) /\ t[Len(t)] = [Top(p) EXCEPT !.at = "read"]
  BY <1>1, <1>2, <1>4, <1>5, AtShape
<1> HIDE DEF t
<1>7. /\ s \in Seq(Frame) /\ s # <<>> /\ StackShape(s) /\ Len(s) = Len(t) + 1
      /\ s[Len(t) + 1] = YieldFrame /\ s[1] = t[1]
  BY <1>4, <1>6, NewFrames, PushShape
<1>8. stack' = [stack EXCEPT ![p] = s]
  BY <1>1 DEF t
<1> HIDE DEF s
<1>9. WaitShape(process'[p], s)
  BY <1>7, NewFrames DEF WaitShape, Yields
<1>10. WorldOK' /\ UNCHANGED <<queue, current_process>>
  BY <1>1, <1>2 DEF WorldOK, world
<1>11. p = current_process /\ MayRun(p)
  BY <1>1 DEF MayRun
<1>12. QED
  BY <1>1, <1>2, <1>6, <1>7, <1>8, <1>9, <1>10, <1>11, QuietStep

LEMMA WaitReadInv ==
  ASSUME Inv, NEW p \in Processes, WaitRead(p)
  PROVE  Inv'
<1>1. /\ Top(p).kind = "wait" /\ Top(p).at = "read" /\ p = current_process /\ ~inhibit_scheduling
      /\ stack' = [stack EXCEPT ![p] = Below(p)]
      /\ UNCHANGED <<process, queue, current_process, inhibit_scheduling, world>>
  BY DEF WaitRead, InCall, Runs
<1>2. Alive(p) /\ process[p] \in Process /\ WorldOK /\ process \in [Processes -> Process]
  BY <1>1, ExecutingFacts DEF Inv, TypeOK
<1>3. /\ stack[p] \in Seq(Frame) /\ StackShape(stack[p]) /\ WaitShape(process[p], stack[p])
      /\ Top(p) = stack[p][Len(stack[p])] /\ Len(stack[p]) \in Nat /\ Len(stack[p]) > 1
      /\ stack[p][1].at = "run"
  BY <1>1, <1>2, TopFacts
<1>4. Below(p) \in Seq(Frame) /\ Below(p) # <<>> /\ StackShape(Below(p)) /\ Below(p)[1].at = "run"
  BY <1>3, PopShape DEF Below
<1>5. process[p].wait_function = NoFunction
  BY <1>1, <1>3 DEF WaitShape, Yields
<1>6. WaitShape(process'[p], Below(p))
  BY <1>1, <1>5 DEF WaitShape
<1>7. WorldOK' /\ UNCHANGED <<queue, current_process>>
  BY <1>1, <1>2 DEF WorldOK, world
<1>8. p = current_process /\ MayRun(p)
  BY <1>1 DEF MayRun
<1>9. QED
  BY <1>1, <1>2, <1>4, <1>6, <1>7, <1>8, QuietStep

-----------------------------------------------------------------------------
(* The scheduler's loop. *)
LEMMA LoopFacts ==
  ASSUME Inv, NEW p \in Processes, NEW a, InLoop(p, a)
  PROVE  /\ p = current_process /\ Alive(p) /\ Top(p).kind \in Yields /\ Top(p).at = a
         /\ process[p] \in Process /\ WorldOK /\ process \in [Processes -> Process]
         /\ \A b \in {"rotate", "check", "handling"} :
              /\ [Top(p) EXCEPT !.at = b] \in Frame /\ FrameShape([Top(p) EXCEPT !.at = b])
              /\ At(p, b) \in Seq(Frame) /\ At(p, b) # <<>> /\ StackShape(At(p, b))
              /\ At(p, b)[1].at = "run" /\ Len(At(p, b)) = Len(stack[p])
              /\ At(p, b)[Len(stack[p])] = [Top(p) EXCEPT !.at = b]
              /\ At(p, b)[Len(stack[p])].kind \in Yields /\ At(p, b)[Len(stack[p])].at = b
<1>1. /\ p = current_process /\ Alive(p) /\ Top(p).kind \in Yields /\ Top(p).at = a
      /\ process[p] \in Process /\ WorldOK /\ process \in [Processes -> Process]
  BY ExecutingFacts DEF InLoop, Yields, Inv, TypeOK
<1>2. Top(p) \in Frame /\ Top(p).kind # "function"
  BY <1>1, TopFacts DEF Yields
<1>3. ASSUME NEW b \in {"rotate", "check", "handling"}
      PROVE  /\ [Top(p) EXCEPT !.at = b] \in Frame /\ FrameShape([Top(p) EXCEPT !.at = b])
             /\ [Top(p) EXCEPT !.at = b].kind \in Yields /\ [Top(p) EXCEPT !.at = b].at = b
             /\ At(p, b) \in Seq(Frame) /\ At(p, b) # <<>> /\ StackShape(At(p, b))
             /\ At(p, b)[1].at = "run" /\ Len(At(p, b)) = Len(stack[p])
             /\ At(p, b)[Len(stack[p])] = [Top(p) EXCEPT !.at = b]
             /\ At(p, b)[Len(stack[p])].kind \in Yields /\ At(p, b)[Len(stack[p])].at = b
  <2>1. /\ [Top(p) EXCEPT !.at = b] \in Frame
        /\ [Top(p) EXCEPT !.at = b].kind = Top(p).kind /\ [Top(p) EXCEPT !.at = b].at = b
    BY <1>2 DEF Frame
  <2>2. FrameShape([Top(p) EXCEPT !.at = b])
    BY <1>1, <2>1 DEF FrameShape
  <2>3. /\ At(p, b) \in Seq(Frame) /\ At(p, b) # <<>> /\ StackShape(At(p, b))
        /\ At(p, b)[1].at = "run" /\ Len(At(p, b)) = Len(stack[p])
        /\ At(p, b)[Len(stack[p])] = [Top(p) EXCEPT !.at = b]
    BY <1>1, <1>2, <2>1, <2>2, AtShape
  <2>4. QED
    BY <1>1, <2>1, <2>2, <2>3
<1>4. QED
  BY <1>1, <1>3

LEMMA LoopInv ==
  ASSUME Inv, NEW p \in Processes, Loop(p)
  PROVE  Inv'
<1>1. /\ InLoop(p, "check")
      /\ stack' = [stack EXCEPT ![p] = At(p, "rotate")]
      /\ UNCHANGED <<process, queue, current_process, inhibit_scheduling, world>>
  BY DEF Loop
<1>2. /\ Alive(p) /\ process[p] \in Process /\ WorldOK /\ process \in [Processes -> Process]
      /\ At(p, "rotate") \in Seq(Frame) /\ At(p, "rotate") # <<>> /\ StackShape(At(p, "rotate"))
      /\ At(p, "rotate")[1].at = "run" /\ Len(At(p, "rotate")) = Len(stack[p])
      /\ At(p, "rotate")[Len(stack[p])].kind \in Yields
  BY <1>1, LoopFacts
<1>3. WaitShape(process'[p], At(p, "rotate"))
  BY <1>2 DEF WaitShape
<1>4. WorldOK' /\ UNCHANGED <<queue, current_process>>
  BY <1>1, <1>2 DEF WorldOK, world
<1>5. p = current_process /\ MayRun(p)
  BY <1>1 DEF InLoop, MayRun
<1>6. QED
  BY <1>1, <1>2, <1>3, <1>4, <1>5, QuietStep

LEMMA RotateInv ==
  ASSUME Inv, NEW p \in Processes, Rotate(p)
  PROVE  Inv'
<1>1. /\ InLoop(p, "rotate")
      /\ remaining_processes' = Rotated
      /\ stack' = [stack EXCEPT ![p] = At(p, "check")]
      /\ UNCHANGED <<process, all_processes, current_process, inhibit_scheduling, world>>
  BY DEF Rotate
<1>2. /\ p = current_process /\ Alive(p) /\ WorldOK /\ process \in [Processes -> Process]
      /\ At(p, "check") \in Seq(Frame) /\ At(p, "check") # <<>> /\ StackShape(At(p, "check"))
      /\ At(p, "check")[1].at = "run" /\ Len(At(p, "check")) = Len(stack[p])
      /\ At(p, "check")[Len(stack[p])].kind \in Yields
  BY <1>1, LoopFacts
<1>3. WaitShape(process'[p], At(p, "check"))
  BY <1>2 DEF WaitShape
<1>4. remaining_processes' \in Seq(Processes) /\ remaining_processes' # <<>>
  BY <1>1, RotatedFacts
<1>5. WorldOK' /\ current_process' \in Processes /\ Alive(current_process')
  BY <1>1, <1>2 DEF WorldOK, world
<1>6. ASSUME SoleRestarter PROVE QueueStep(p, At(p, "check"))
  <2>1. /\ \A i \in 1..Len(Rotated) : Alive(Rotated[i])
        /\ NoRepetition(Rotated)
        /\ \A i \in 2..Len(Rotated) : i \in 1..Len(Rotated)
    BY <1>6, RotatedInv, RotatedFacts
  <2>2. current_process' = p /\ inhibit_scheduling'
    BY <1>1, <1>2 DEF InLoop
  <2>3. QED
    BY <1>1, <2>1, <2>2 DEF QueueStep
<1>7. QED
  BY <1>1, <1>2, <1>3, <1>4, <1>5, <1>6, LocalStep

(* What leaves a wait has the structure's type, and waits no more. *)
LEMMA WakingFacts ==
  ASSUME Inv, NEW q \in Processes, NEW arg \in Flags \union {None}, NEW r \in Wakings(q, arg)
  PROVE  /\ r \in Process /\ r.state = process[q].state /\ r.wait_function = NoFunction
         /\ r.run_reasons = process[q].run_reasons /\ r.arrest_reasons = process[q].arrest_reasons
<1>1. process[q] \in Process /\ flags \subseteq Flags
  BY DEF Inv, TypeOK
<1>2. process[q].wait_function.arg \in Values
  BY <1>1 DEF Process, WaitFunctions, Values
<1>3. None \in Values /\ arg \in Values
  BY DEF Values
<1>4. Value(q, arg) \in Values
  BY <1>2, <1>3 DEF Value
<1>5. PICK v \in Values : r = Flushed(q, v)
  BY <1>3, <1>4 DEF Wakings
<1>6. NoFunction \in WaitFunctions /\ None \in Timeouts
  BY DEF NoFunction, WaitFunctions, Timeouts
<1>7. QED
  BY <1>1, <1>5, <1>6 DEF Flushed, Process

LEMMA ResumptionFacts ==
  ASSUME Inv, NEW q \in Processes, NEW r \in Resumptions(q)
  PROVE  /\ r \in Process /\ r.state = process[q].state
         /\ r.wait_function \in {process[q].wait_function, NoFunction}
         /\ r.run_reasons = process[q].run_reasons /\ r.arrest_reasons = process[q].arrest_reasons
<1>1. process[q] \in Process /\ process[q].wait_function_args \in Flags \union {None}
  BY DEF Inv, TypeOK, Process
<1>2. r = process[q] \/ r \in Wakings(q, process[q].wait_function_args)
  BY DEF Resumptions
<1>3. QED
  BY <1>1, <1>2, WakingFacts

LEMMA ReturnFacts ==
  ASSUME Inv, NEW q \in Processes, NEW r \in Returns(q)
  PROVE  /\ r \in Process /\ r.state = process[q].state /\ r.wait_function = NoFunction
         /\ r.run_reasons = process[q].run_reasons /\ r.arrest_reasons = process[q].arrest_reasons
<1>1. process[q] \in Process
  BY DEF Inv, TypeOK
<1>2. \/ r = process[q] /\ process[q].wait_function = NoFunction
      \/ r \in Wakings(q, None)
  BY DEF Returns, Waits
<1>3. QED
  BY <1>1, <1>2, WakingFacts

LEMMA ResumeInv ==
  ASSUME Inv, NEW p \in Processes, Resume(p)
  PROVE  Inv'
<1> DEFINE next == Head(Rotated)
<1>1. /\ InLoop(p, "rotate")
      /\ remaining_processes' = Rotated
      /\ next # p /\ Active(next)
      /\ current_process' = next
      /\ stack' = [stack EXCEPT ![p] = At(p, "check")]
      /\ UNCHANGED <<all_processes, inhibit_scheduling, world>>
  BY DEF Resume
<1>2. PICK r \in Resumptions(next) : process' = [process EXCEPT ![next] = r]
  BY DEF Resume
<1>3. /\ next \in Processes /\ Rotated \in Seq(Processes) /\ Rotated # <<>>
  BY RotatedFacts
<1> HIDE DEF next
<1>4. /\ p = current_process /\ Alive(p) /\ WorldOK /\ process \in [Processes -> Process]
      /\ At(p, "check") \in Seq(Frame) /\ At(p, "check") # <<>> /\ StackShape(At(p, "check"))
      /\ At(p, "check")[1].at = "run" /\ Len(At(p, "check")) = Len(stack[p])
      /\ At(p, "check")[Len(stack[p])].kind \in Yields
      /\ At(p, "check")[Len(stack[p])].at = "check"
  BY <1>1, LoopFacts
<1>5. /\ r \in Process /\ r.state = process[next].state
      /\ r.wait_function \in {process[next].wait_function, NoFunction}
      /\ r.run_reasons = process[next].run_reasons /\ r.arrest_reasons = process[next].arrest_reasons
  BY <1>3, ResumptionFacts
<1>6. /\ process' \in [Processes -> Process]
      /\ \A q \in Processes : IsAlive(process'[q]) <=> IsAlive(process[q])
      /\ \A q \in Processes : process'[q].wait_function \in {process[q].wait_function, NoFunction}
  BY <1>2, <1>3, <1>4, <1>5 DEF IsAlive
<1>7. WaitShape(process'[p], At(p, "check"))
  BY <1>4 DEF WaitShape
<1>8. WorldOK' /\ current_process' \in Processes /\ Alive(current_process')
  BY <1>1, <1>3, <1>4 DEF WorldOK, world, Active, IsActive, Alive
<1>9. ASSUME SoleRestarter PROVE QueueStep(p, At(p, "check"))
  <2>1. /\ \A i \in 1..Len(Rotated) : Alive(Rotated[i])
        /\ NoRepetition(Rotated)
        /\ \A i \in 2..Len(Rotated) : i \in 1..Len(Rotated)
    BY <1>9, RotatedInv, RotatedFacts
  <2>2. inhibit_scheduling' /\ current_process' = next /\ Head(remaining_processes') = next
    BY <1>1 DEF InLoop, next
  <2>3. IsActive(process'[next])
    BY <1>1, <1>2, <1>3, <1>4, <1>5 DEF Active, IsActive
  <2>4. Suspended(At(p, "check"))
    BY <1>4 DEF Suspended
  <2>5. QED
    BY <1>1, <2>1, <2>2, <2>3, <2>4 DEF QueueStep
<1>10. QED
  BY <1>1, <1>3, <1>4, <1>6, <1>7, <1>8, <1>9, LocalStep

LEMMA RunInterruptInv ==
  ASSUME Inv, NEW p \in Processes, RunInterrupt(p)
  PROVE  Inv'
<1> DEFINE saved == [wait_function |-> process[p].wait_function,
                     wait_timeout |-> process[p].wait_timeout,
                     wait_return_value |-> process[p].wait_return_value]
           g == [[Top(p) EXCEPT !.at = "handling"] EXCEPT !.saved = saved]
           t == [At(p, "handling") EXCEPT ![Len(stack[p])] = g]
           f == NewFrame("interrupt", Head(process[p].interrupts))
           s == Append(t, f)
           r == [process[p] EXCEPT !.interrupts = Tail(@), !.wait_function = NoFunction,
                                   !.wait_timeout = None, !.wait_return_value = None]
<1>1. /\ InLoop(p, "check") /\ process[p].interrupts # <<>> /\ Head(remaining_processes) = p
      /\ process' = [process EXCEPT ![p] = r]
      /\ stack' = [stack EXCEPT ![p] =
           Append([At(p, "handling") EXCEPT ![Len(stack[p])].saved = saved], f)]
      /\ inhibit_scheduling' = FALSE
      /\ UNCHANGED <<queue, current_process, world>>
  BY DEF RunInterrupt
<1>2. /\ p = current_process /\ Alive(p) /\ WorldOK /\ process \in [Processes -> Process]
      /\ process[p] \in Process /\ Top(p).kind \in Yields
      /\ [Top(p) EXCEPT !.at = "handling"] \in Frame
      /\ At(p, "handling") \in Seq(Frame) /\ At(p, "handling") # <<>>
      /\ StackShape(At(p, "handling")) /\ At(p, "handling")[1].at = "run"
      /\ Len(At(p, "handling")) = Len(stack[p])
      /\ At(p, "handling")[Len(stack[p])] = [Top(p) EXCEPT !.at = "handling"]
      /\ Top(p) \in Frame /\ Len(stack[p]) > 1 /\ Len(stack[p]) \in Nat
  BY <1>1, LoopFacts, TopFacts DEF Yields
<1>3. saved \in Saved
  BY <1>2 DEF Saved, Process
<1>4. g \in Frame /\ g.kind = Top(p).kind /\ g.at = "handling" /\ FrameShape(g)
  BY <1>2, <1>3 DEF Frame, FrameShape
<1>5. [At(p, "handling") EXCEPT ![Len(stack[p])].saved = saved] = t
  BY <1>2
<1> HIDE DEF g
<1>6. /\ t \in Seq(Frame) /\ t # <<>> /\ StackShape(t) /\ Len(t) = Len(stack[p])
      /\ t[Len(t)] = g /\ t[1].at = "run"
  <2>1. At(p, "handling")[Len(stack[p])].kind = Top(p).kind
    BY <1>2 DEF Frame
  <2>2. /\ t \in Seq(Frame) /\ t # <<>> /\ StackShape(t) /\ Len(t) = Len(stack[p])
        /\ t[Len(t)] = g /\ \A i \in 1..(Len(stack[p]) - 1) : t[i] = At(p, "handling")[i]
    BY <1>2, <1>4, <2>1, TopShape
  <2>3. 1 \in 1..(Len(stack[p]) - 1)
    BY <1>2
  <2>4. QED
    BY <1>2, <2>2, <2>3
<1>7. f \in Frame /\ FrameShape(f) /\ f.kind = "interrupt" /\ f.at # "start"
  <2>1. process[p].interrupts \in Seq(Interrupt) /\ process[p].interrupts # <<>>
    BY <1>1, <1>2 DEF Process
  <2>2. Head(process[p].interrupts) \in {"run", "throw"}
    BY <2>1 DEF Interrupt
  <2>3. QED
    BY <2>2, NewFrames DEF NewFrame, FrameShape
<1>8. stack' = [stack EXCEPT ![p] = s]
  BY <1>1, <1>5
<1> HIDE DEF t, f
<1>9. s \in Seq(Frame) /\ s # <<>> /\ StackShape(s) /\ s[1].at = "run"
  <2>1. t[Len(t)].at # "start" /\ t[Len(t)].kind \in Yields /\ f.kind # "function"
    BY <1>2, <1>4, <1>6, <1>7
  <2>2. QED
    BY <1>6, <1>7, <2>1, PushShape
<1> HIDE DEF s
<1>10. r \in Process /\ r.state = process[p].state /\ r.wait_function = NoFunction
  <2>1. Tail(process[p].interrupts) \in Seq(Interrupt)
    BY <1>1, <1>2 DEF Process
  <2>2. NoFunction \in WaitFunctions /\ None \in Timeouts /\ None \in Values
    BY DEF NoFunction, WaitFunctions, Timeouts, Values
  <2>3. QED
    BY <1>2, <2>1, <2>2 DEF Process
<1> HIDE DEF r
<1>11. /\ process' \in [Processes -> Process]
       /\ \A q \in Processes : IsAlive(process'[q]) <=> IsAlive(process[q])
       /\ \A q \in Processes \ {p} : process'[q].wait_function \in {process[q].wait_function, NoFunction}
       /\ WaitShape(process'[p], s)
  BY <1>1, <1>2, <1>10 DEF IsAlive, WaitShape
<1>12. WorldOK' /\ UNCHANGED <<queue, current_process>>
  BY <1>1, <1>2 DEF WorldOK, world
<1>13. p = current_process /\ MayRun(p)
  BY <1>1, <1>2 DEF MayRun
<1>14. QED
  BY <1>2, <1>8, <1>9, <1>11, <1>12, <1>13, QuietStep

LEMMA InterruptReturnInv ==
  ASSUME Inv, NEW p \in Processes, InterruptReturn(p)
  PROVE  Inv'
<1> DEFINE b == Below(p)
           top == b[Len(b)]
           g == [[top EXCEPT !.at = "rotate"] EXCEPT !.saved = NothingSaved]
           s == [b EXCEPT ![Len(b)] = g]
           r == [process[p] EXCEPT !.wait_function = top.saved.wait_function,
                                   !.wait_timeout = top.saved.wait_timeout,
                                   !.wait_return_value = top.saved.wait_return_value]
<1>1. /\ Top(p).kind = "interrupt" /\ p = current_process
      /\ process' = [process EXCEPT ![p] = r]
      /\ stack' = [stack EXCEPT ![p] =
           [b EXCEPT ![Len(b)].at = "rotate", ![Len(b)].saved = NothingSaved]]
      /\ inhibit_scheduling' = TRUE
      /\ UNCHANGED <<queue, current_process, world>>
  BY DEF InterruptReturn, InCall, Runs
<1>2. Alive(p) /\ process[p] \in Process /\ WorldOK /\ process \in [Processes -> Process]
  BY <1>1, ExecutingFacts DEF Inv, TypeOK
<1>3. /\ stack[p] \in Seq(Frame) /\ StackShape(stack[p])
      /\ Top(p) = stack[p][Len(stack[p])] /\ Len(stack[p]) \in Nat /\ Len(stack[p]) > 1
      /\ stack[p][1].at = "run"
  BY <1>1, <1>2, TopFacts
<1>4. /\ b \in Seq(Frame) /\ b # <<>> /\ StackShape(b) /\ Len(b) = Len(stack[p]) - 1
      /\ \A i \in 1..(Len(stack[p]) - 1) : b[i] = stack[p][i]
  BY <1>3, PopShape DEF Below
<1> HIDE DEF b
<1>5. Len(b) \in 1..Len(b) /\ Len(b) \in 1..(Len(stack[p]) - 1) /\ Len(stack[p]) \in 1..Len(stack[p])
  BY <1>3, <1>4
<1>6. top \in Frame /\ top.kind \in Yields
  <2>1. top = stack[p][Len(stack[p]) - 1]
    BY <1>4, <1>5
  <2>2. stack[p][Len(stack[p])].kind = "interrupt"
    BY <1>1, <1>3
  <2>3. stack[p][Len(stack[p]) - 1].kind \in Yields
    BY <1>3, <1>5, <2>2 DEF StackShape
  <2>4. top \in Frame
    BY <1>4, <1>5
  <2>5. QED
    BY <2>1, <2>3, <2>4
<1>7. top.saved \in Saved
  BY <1>6 DEF Frame
<1>8. g \in Frame /\ g.kind = top.kind /\ g.at = "rotate" /\ FrameShape(g)
  BY <1>6, NewFrames DEF Frame, FrameShape
<1>9. [b EXCEPT ![Len(b)].at = "rotate", ![Len(b)].saved = NothingSaved] = s
  BY <1>4, <1>5
<1> HIDE DEF g
<1>10. /\ s \in Seq(Frame) /\ s # <<>> /\ StackShape(s) /\ Len(s) = Len(b) /\ s[Len(b)] = g
       /\ \A i \in 1..(Len(b) - 1) : s[i] = b[i]
  BY <1>4, <1>8, TopShape
<1>11. s[1].at = "run"
  <2>1. top.kind # "function"
    BY <1>6 DEF Yields
  <2>2. Len(b) # 1
    BY <1>4, <1>5, <2>1 DEF StackShape
  <2>3. 1 \in 1..(Len(b) - 1) /\ 1 \in 1..(Len(stack[p]) - 1)
    <3>1. Len(b) \in Nat
      BY <1>4
    <3>2. \A n, m \in Nat : n \in 1..(m - 1) /\ n # 1 => 1 \in 1..(n - 1) /\ 1 \in 1..(m - 1)
      OBVIOUS
    <3>3. Len(stack[p]) \in Nat /\ Len(b) \in 1..(Len(stack[p]) - 1)
      BY <1>3, <1>5
    <3>4. QED
      BY <2>2, <3>1, <3>2, <3>3
  <2>4. QED
    BY <1>3, <1>4, <1>10, <2>3
<1>12. stack' = [stack EXCEPT ![p] = s]
  BY <1>1, <1>9
<1> HIDE DEF s
<1>13. r \in Process /\ r.state = process[p].state
  BY <1>2, <1>7 DEF Process, Saved
<1> HIDE DEF r
<1>14. /\ process' \in [Processes -> Process]
       /\ \A q \in Processes : IsAlive(process'[q]) <=> IsAlive(process[q])
       /\ \A q \in Processes \ {p} : process'[q].wait_function \in {process[q].wait_function, NoFunction}
       /\ WaitShape(process'[p], s)
  BY <1>1, <1>2, <1>6, <1>8, <1>10, <1>13 DEF IsAlive, WaitShape
<1>15. WorldOK' /\ UNCHANGED <<queue, current_process>>
  BY <1>1, <1>2 DEF WorldOK, world
<1>16. p = current_process /\ MayRun(p)
  BY <1>1 DEF MayRun
<1>17. QED
  BY <1>2, <1>10, <1>11, <1>12, <1>14, <1>15, <1>16, QuietStep

LEMMA InterruptThrowInv ==
  ASSUME Inv, NEW p \in Processes, InterruptThrow(p)
  PROVE  Inv'
<1> DEFINE s == << stack[p][1] >>
<1>1. /\ Top(p).kind = "interrupt" /\ Top(p).at = "run" /\ p = current_process /\ ~inhibit_scheduling
      /\ stack' = [stack EXCEPT ![p] = s]
      /\ UNCHANGED <<process, queue, current_process, inhibit_scheduling, world>>
  BY DEF InterruptThrow, InCall, Runs
<1>2. Alive(p) /\ process[p] \in Process /\ WorldOK /\ process \in [Processes -> Process]
  BY <1>1, ExecutingFacts DEF Inv, TypeOK
<1>3. /\ stack[p] \in Seq(Frame) /\ StackShape(stack[p]) /\ WaitShape(process[p], stack[p])
      /\ Top(p) = stack[p][Len(stack[p])] /\ Len(stack[p]) \in Nat /\ Len(stack[p]) > 1
      /\ stack[p][1].at = "run"
  BY <1>1, <1>2, TopFacts
<1>4. /\ stack[p][1] \in Frame /\ FrameShape(stack[p][1]) /\ stack[p][1].kind = "function"
  BY <1>3 DEF StackShape
<1>5. s \in Seq(Frame) /\ s # <<>> /\ Len(s) = 1 /\ s[1] = stack[p][1]
  BY <1>4
<1> HIDE DEF s
<1>6. StackShape(s)
  BY <1>4, <1>5 DEF StackShape
<1>7. process[p].wait_function = NoFunction
  BY <1>1, <1>3 DEF WaitShape, Yields
<1>8. WaitShape(process'[p], s)
  BY <1>1, <1>7 DEF WaitShape
<1>9. WorldOK' /\ UNCHANGED <<queue, current_process>>
  BY <1>1, <1>2 DEF WorldOK, world
<1>10. s[1].at = "run"
  BY <1>3, <1>5
<1>11. p = current_process /\ MayRun(p)
  BY <1>1 DEF MayRun
<1>12. QED
  BY <1>1, <1>2, <1>5, <1>6, <1>8, <1>9, <1>10, <1>11, QuietStep

LEMMA ReturnInv ==
  ASSUME Inv, NEW p \in Processes, Return(p)
  PROVE  Inv'
<1>1. /\ InLoop(p, "check") /\ Head(remaining_processes) = p
      /\ stack' = [stack EXCEPT ![p] = Below(p)]
      /\ inhibit_scheduling' = FALSE
      /\ UNCHANGED <<queue, current_process, world>>
  BY DEF Return
<1>2. PICK r \in Returns(p) : process' = [process EXCEPT ![p] = r]
  BY DEF Return
<1>3. /\ Alive(p) /\ process[p] \in Process /\ WorldOK /\ process \in [Processes -> Process]
      /\ Top(p).kind # "function" /\ p = current_process
  BY <1>1, LoopFacts DEF Yields
<1>4. /\ stack[p] \in Seq(Frame) /\ StackShape(stack[p])
      /\ Len(stack[p]) \in Nat /\ Len(stack[p]) > 1 /\ stack[p][1].at = "run"
  BY <1>3, TopFacts
<1>5. Below(p) \in Seq(Frame) /\ Below(p) # <<>> /\ StackShape(Below(p)) /\ Below(p)[1].at = "run"
  BY <1>4, PopShape DEF Below
<1>6. r \in Process /\ r.state = process[p].state /\ r.wait_function = NoFunction
  BY ReturnFacts
<1>7. /\ process' \in [Processes -> Process]
      /\ \A q \in Processes : IsAlive(process'[q]) <=> IsAlive(process[q])
      /\ \A q \in Processes \ {p} : process'[q].wait_function \in {process[q].wait_function, NoFunction}
      /\ WaitShape(process'[p], Below(p))
  BY <1>2, <1>3, <1>6 DEF IsAlive, WaitShape
<1>8. WorldOK' /\ UNCHANGED <<queue, current_process>>
  BY <1>1, <1>3 DEF WorldOK, world
<1>9. p = current_process /\ MayRun(p)
  BY <1>1, <1>3 DEF MayRun
<1>10. QED
  BY <1>1, <1>3, <1>5, <1>7, <1>8, <1>9, QuietStep

-----------------------------------------------------------------------------
(* Operations on processes. *)
LEMMA SendThrowFacts ==
  ASSUME Inv, NEW q \in Processes, process[q].state # "unborn", ops < MaxOps, SendThrow(q)
  PROVE  /\ process' \in [Processes -> Process]
         /\ \A x \in Processes : IsAlive(process'[x]) <=> IsAlive(process[x])
         /\ \A x \in Processes : process'[x].wait_function = process[x].wait_function
<1>1. /\ process \in [Processes -> Process] /\ process[q] \in Process
      /\ ops + 1 \in 1..MaxOps
  BY ConstantsAssumption DEF Inv, TypeOK
<1>2. CASE process[q].state = "killed"
  BY <1>1, <1>2 DEF SendThrow
<1>3. CASE process[q].state # "killed"
  <2> DEFINE new == << "throw" >> \o process[q].interrupts
             r == [process[q] EXCEPT !.interrupts = new, !.state = "active",
                                     !.arrest_reasons = {}, !.run_reasons = @ \union {"destroyed"}]
  <2>1. process' = [process EXCEPT ![q] = r]
    BY <1>1, <1>3 DEF SendThrow
  <2>2. new \in Seq(Interrupt)
    <3>1. process[q].interrupts \in Seq(Interrupt)
      BY <1>1 DEF Process
    <3>2. "throw" \in Interrupt
      BY <1>1 DEF Interrupt
    <3>3. QED
      BY <3>1, <3>2
  <2> HIDE DEF new
  <2>3. r \in Process /\ r.state = "active" /\ r.wait_function = process[q].wait_function
    BY <1>1, <2>2 DEF Process, RunReasons
  <2>4. process[q].state \in {"active", "inactive"}
    BY <1>1, <1>3 DEF Process
  <2> HIDE DEF r
  <2>5. QED
    BY <1>1, <2>1, <2>3, <2>4 DEF IsAlive
<1>4. QED
  BY <1>2, <1>3

LEMMA ExecutesFacts ==
  ASSUME Inv, NEW p \in Processes, InCode(p)
  PROVE  /\ p = current_process /\ Alive(p) /\ Top(p).at = "run"
         /\ process[p].wait_function = NoFunction
         /\ stack[p] \in Seq(Frame) /\ stack[p] # <<>> /\ StackShape(stack[p])
         /\ stack[p][1].at = "run" /\ Top(p) = stack[p][Len(stack[p])]
<1>1. p = current_process /\ Alive(p) /\ Top(p).at = "run"
  BY ExecutingFacts DEF InCode, Runs
<1>2. /\ stack[p] \in Seq(Frame) /\ stack[p] # <<>> /\ StackShape(stack[p])
      /\ stack[p][1].at = "run" /\ Top(p) = stack[p][Len(stack[p])]
      /\ FrameShape(Top(p)) /\ WaitShape(process[p], stack[p])
  BY <1>1, TopFacts
<1>3. process[p].wait_function = NoFunction
  BY <1>1, <1>2 DEF WaitShape, FrameShape, Yields
<1>4. QED
  BY <1>1, <1>2, <1>3

LEMMA SendInv ==
  ASSUME Inv, NEW p \in Processes, NEW q \in Processes,
         ProcessInterrupt(p, q) \/ DestroyProcess(p, q)
  PROVE  Inv'
<1>1. /\ InCode(p) /\ ops < MaxOps /\ ops' = ops + 1 /\ UNCHANGED <<flags, clock, error>>
      /\ process[q].state # "unborn"
      /\ stack' = [stack EXCEPT ![p] = Append(@, YieldFrame)]
      /\ inhibit_scheduling' = TRUE
      /\ UNCHANGED <<queue, current_process>>
  BY DEF ProcessInterrupt, DestroyProcess, Operates, Destroyable
<1>2. /\ process \in [Processes -> Process] /\ process[q] \in Process /\ WorldOK
      /\ ops + 1 \in 1..MaxOps
  BY <1>1, ConstantsAssumption DEF Inv, TypeOK, WorldOK
<1>3. /\ process' \in [Processes -> Process]
      /\ \A x \in Processes : IsAlive(process'[x]) <=> IsAlive(process[x])
      /\ \A x \in Processes : process'[x].wait_function = process[x].wait_function
  <2>1. CASE ProcessInterrupt(p, q)
    <3> DEFINE new == << "run" >> \o process[q].interrupts
               r == [process[q] EXCEPT !.interrupts = new]
    <3>1. process' = [process EXCEPT ![q] = r]
      BY <1>2, <2>1 DEF ProcessInterrupt
    <3>2. new \in Seq(Interrupt)
      <4>1. process[q].interrupts \in Seq(Interrupt)
        BY <1>2 DEF Process
      <4>2. "run" \in Interrupt
        BY <1>2 DEF Interrupt
      <4>3. QED
        BY <4>1, <4>2
    <3> HIDE DEF new
    <3>3. r \in Process /\ r.state = process[q].state /\ r.wait_function = process[q].wait_function
      BY <1>2, <3>2 DEF Process
    <3> HIDE DEF r
    <3>4. QED
      BY <1>2, <3>1, <3>3 DEF IsAlive
  <2>2. CASE DestroyProcess(p, q)
    BY <1>1, <2>2, SendThrowFacts DEF DestroyProcess
  <2>3. QED
    BY <2>1, <2>2
<1>4. WorldOK'
  BY <1>1, <1>2 DEF WorldOK
<1>5. Alive(p) /\ p = current_process /\ Top(p).at # "start"
  BY <1>1, ExecutesFacts
<1>6. YieldFrame.kind # "function" /\ YieldFrame.at # "start" /\ YieldFrame.kind # "interrupt" /\ YieldFrame.kind \in Yields
  BY NewFrames DEF Yields
<1>7. MayRun(p)
  BY <1>1 DEF MayRun
<1>8. QED
  BY <1>1, <1>3, <1>4, <1>5, <1>6, <1>7, NewFrames, PushStep

LEMMA RestartProcessInv ==
  ASSUME Inv, NEW p \in Processes, NEW q \in Processes, RestartProcess(p, q)
  PROVE  Inv'
<1> DEFINE f == [NewFrame("restart", "wait") EXCEPT !.target = q]
           t == Append(stack[p], f)
           s == Append(t, YieldFrame)
<1>1. /\ InCode(p) /\ ops < MaxOps /\ ops' = ops + 1 /\ UNCHANGED <<flags, clock, error>>
      /\ process[q].state # "unborn" /\ q # InitialProcess /\ "restart" \in Ops
      /\ SendThrow(q)
      /\ stack' = [stack EXCEPT ![p] = @ \o << f, YieldFrame >>]
      /\ inhibit_scheduling' = TRUE
      /\ UNCHANGED <<queue, current_process>>
  BY DEF RestartProcess, Operates, Destroyable
<1>2. WorldOK /\ ops + 1 \in 1..MaxOps
  BY <1>1, ConstantsAssumption DEF Inv, TypeOK, WorldOK
<1>3. /\ process' \in [Processes -> Process]
      /\ \A x \in Processes : IsAlive(process'[x]) <=> IsAlive(process[x])
      /\ \A x \in Processes : process'[x].wait_function = process[x].wait_function
  BY <1>1, SendThrowFacts
<1>4. /\ Alive(p) /\ p = current_process /\ Top(p).at = "run"
      /\ stack[p] \in Seq(Frame) /\ stack[p] # <<>> /\ StackShape(stack[p])
      /\ stack[p][1].at = "run" /\ Top(p) = stack[p][Len(stack[p])]
  BY <1>1, ExecutesFacts
<1>5. f \in Frame /\ f.kind = "restart" /\ f.at = "wait" /\ f.target = q
  <2>1. /\ NewFrame("restart", "wait") \in Frame
        /\ NewFrame("restart", "wait").kind = "restart" /\ NewFrame("restart", "wait").at = "wait"
    BY NewFrames DEF NewFrame
  <2> HIDE DEF NewFrame
  <2>2. QED
    BY <2>1 DEF Frame
<1> HIDE DEF f
<1>6. FrameShape(f) /\ f.kind # "function" /\ f.at # "start" /\ f.kind # "interrupt"
  BY <1>1, <1>5 DEF FrameShape
<1>7. /\ t \in Seq(Frame) /\ t # <<>> /\ StackShape(t) /\ Len(t) = Len(stack[p]) + 1
      /\ t[Len(stack[p]) + 1] = f /\ t[1] = stack[p][1]
  BY <1>4, <1>5, <1>6, PushShape
<1>8. s = stack[p] \o << f, YieldFrame >>
  BY <1>4, <1>5, NewFrames
<1> HIDE DEF t
<1>9. /\ s \in Seq(Frame) /\ s # <<>> /\ StackShape(s) /\ Len(s) = Len(t) + 1
      /\ s[Len(t) + 1] = YieldFrame /\ s[1] = t[1]
  <2>1. YieldFrame.kind # "function" /\ YieldFrame.at # "start" /\ YieldFrame.kind # "interrupt"
    BY NewFrames
  <2>2. t[Len(t)].at # "start"
    BY <1>6, <1>7
  <2>3. QED
    BY <1>7, <2>1, <2>2, NewFrames, PushShape
<1> HIDE DEF s
<1>10. WaitShape(process'[p], s)
  BY <1>9, NewFrames DEF WaitShape, Yields
<1>11. stack' = [stack EXCEPT ![p] = s] /\ s[1].at = "run"
  BY <1>1, <1>4, <1>7, <1>8, <1>9
<1>12. WorldOK'
  BY <1>1, <1>2 DEF WorldOK
<1>13. p = current_process /\ MayRun(p)
  BY <1>1, <1>4 DEF MayRun
<1>14. QED
  BY <1>1, <1>3, <1>4, <1>9, <1>10, <1>11, <1>12, <1>13, QuietStep

LEMMA RestartWaitInv ==
  ASSUME Inv, NEW p \in Processes, RestartWait(p)
  PROVE  Inv'
<1> DEFINE fn == Killed(Top(p).target)
           t == At(p, "build")
           f == [NewFrame("wait", "set") EXCEPT !.fn = fn]
           s == Append(t, f)
           r == [process[p] EXCEPT !.wait_timeout = None, !.wait_function_args = None]
<1>1. /\ Top(p).kind = "restart" /\ p = current_process /\ ~inhibit_scheduling
      /\ process' = [process EXCEPT ![p] = r]
      /\ stack' = [stack EXCEPT ![p] = s]
      /\ UNCHANGED <<queue, current_process, inhibit_scheduling, world>>
  BY DEF RestartWait, InCall, Runs, StartWait
<1>2. Alive(p) /\ process[p] \in Process /\ WorldOK /\ process \in [Processes -> Process]
  BY <1>1, ExecutingFacts DEF Inv, TypeOK
<1>3. /\ Top(p) \in Frame /\ FrameShape(Top(p)) /\ WaitShape(process[p], stack[p])
      /\ Top(p) = stack[p][Len(stack[p])] /\ Len(stack[p]) \in Nat /\ Len(stack[p]) > 0
  BY <1>2, TopFacts
<1>4. process[p].wait_function = NoFunction /\ Top(p).target \in Processes \ {InitialProcess}
      /\ "restart" \in Ops
  BY <1>1, <1>3 DEF WaitShape, FrameShape, Yields
<1>5. /\ [Top(p) EXCEPT !.at = "build"] \in Frame /\ FrameShape([Top(p) EXCEPT !.at = "build"])
      /\ [Top(p) EXCEPT !.at = "build"].at = "build"
  BY <1>1, <1>3, <1>4 DEF Frame, FrameShape
<1>6. /\ t \in Seq(Frame) /\ t # <<>> /\ StackShape(t) /\ t[1].at = "run"
      /\ Len(t) = Len(stack[p]) /\ t[Len(t)] = [Top(p) EXCEPT !.at = "build"]
  BY <1>1, <1>2, <1>5, AtShape
<1>7. fn \in WaitFunctions
  BY <1>4 DEF Killed, WaitFunctions
<1>8. f \in Frame /\ f.kind = "wait" /\ f.at = "set"
  <2>1. /\ NewFrame("wait", "set") \in Frame
        /\ NewFrame("wait", "set").kind = "wait" /\ NewFrame("wait", "set").at = "set"
    BY NewFrames DEF NewFrame
  <2> HIDE DEF NewFrame, fn
  <2>2. QED
    BY <1>7, <2>1 DEF Frame
<1> HIDE DEF f, t
<1>9. /\ s \in Seq(Frame) /\ s # <<>> /\ StackShape(s) /\ s[1] = t[1]
  <2>1. FrameShape(f) /\ f.kind # "function" /\ f.at # "start" /\ f.kind # "interrupt" /\ t[Len(t)].at # "start"
    BY <1>5, <1>6, <1>8 DEF FrameShape
  <2>2. QED
    BY <1>6, <1>8, <2>1, PushShape
<1>10. r \in Process /\ r.state = process[p].state /\ r.wait_function = NoFunction
  BY <1>2, <1>4 DEF Process, Timeouts
<1> HIDE DEF s, r
<1>11. /\ process' \in [Processes -> Process]
       /\ \A q \in Processes : IsAlive(process'[q]) <=> IsAlive(process[q])
       /\ \A q \in Processes \ {p} : process'[q].wait_function \in {process[q].wait_function, NoFunction}
       /\ WaitShape(process'[p], s)
  BY <1>1, <1>2, <1>10 DEF IsAlive, WaitShape
<1>12. WorldOK' /\ UNCHANGED <<queue, current_process>>
  BY <1>1, <1>2 DEF WorldOK, world
<1>13. p = current_process /\ MayRun(p)
  BY <1>1 DEF MayRun
<1>14. QED
  BY <1>1, <1>2, <1>6, <1>9, <1>11, <1>12, <1>13, QuietStep

(* A change of the process structure that stops nobody's wait and ends no life,
   possibly followed by a call of process-yield.                           *)
LEMMA YieldIfInv ==
  ASSUME Inv, NEW p \in Processes, NEW q \in Processes, NEW r \in Process, NEW stops \in BOOLEAN,
         InCode(p), process' = [process EXCEPT ![q] = r],
         IsAlive(r) <=> IsAlive(process[q]), r.wait_function = process[q].wait_function,
         YieldIf(p, stops), ops < MaxOps, ops' = ops + 1, UNCHANGED <<flags, clock, error>>
  PROVE  Inv'
<1>1. /\ p = current_process /\ Alive(p) /\ Top(p).at # "start"
      /\ process[p].wait_function = NoFunction
      /\ stack[p] \in Seq(Frame) /\ stack[p] # <<>> /\ StackShape(stack[p]) /\ stack[p][1].at = "run"
  BY ExecutesFacts
<1>2. /\ process \in [Processes -> Process] /\ WorldOK /\ ops + 1 \in 0..MaxOps
      /\ stack \in [Processes -> Seq(Frame)]
  BY ConstantsAssumption DEF Inv, TypeOK, WorldOK
<1>3. /\ process' \in [Processes -> Process]
      /\ \A x \in Processes : IsAlive(process'[x]) <=> IsAlive(process[x])
      /\ \A x \in Processes : process'[x].wait_function = process[x].wait_function
  BY <1>2
<1>4. UNCHANGED <<queue, current_process>> /\ WorldOK'
  BY <1>2 DEF YieldIf, WorldOK
<1>5. MayRun(p)
  BY DEF MayRun, InCode, Runs
<1>6. CASE stops
  <2>1. stack' = [stack EXCEPT ![p] = Append(@, YieldFrame)]
    BY <1>6 DEF YieldIf
  <2>2. YieldFrame.kind # "function" /\ YieldFrame.at # "start" /\ YieldFrame.kind # "interrupt"
    BY NewFrames
  <2>3. QED
    BY <1>1, <1>3, <1>4, <1>5, <2>1, <2>2, NewFrames, PushStep
<1>7. CASE ~stops
  <2>1. stack' = [stack EXCEPT ![p] = stack[p]]
    BY <1>2, <1>7 DEF YieldIf
  <2>2. WaitShape(process'[p], stack[p])
    BY <1>1, <1>3 DEF WaitShape
  <2>3. QED
    BY <1>1, <1>3, <1>4, <1>5, <2>1, <2>2, QuietStep
<1>8. QED
  BY <1>6, <1>7

LEMMA ReasonsInv ==
  ASSUME Inv, NEW p \in Processes, NEW q \in Processes,
         \/ SetState(p, q, "active") \/ SetState(p, q, "inactive")
         \/ AddArrestReason(p, q) \/ RevokeArrestReason(p, q)
         \/ AddRunReason(p, q) \/ RevokeRunReason(p, q)
  PROVE  Inv'
<1>1. InCode(p) /\ ops < MaxOps /\ ops' = ops + 1 /\ UNCHANGED <<flags, clock, error>>
  BY DEF SetState, AddArrestReason, RevokeArrestReason, AddRunReason, RevokeRunReason, Operates
<1>2. process \in [Processes -> Process] /\ process[q] \in Process /\ inhibit_scheduling = FALSE
  BY <1>1 DEF Inv, TypeOK, InCode, Runs
<1>3. CASE \E state \in {"active", "inactive"} : SetState(p, q, state)
  <2>1. PICK state \in {"active", "inactive"} : SetState(p, q, state)
    BY <1>3
  <2> DEFINE r == [process[q] EXCEPT !.state = state]
  <2>2. r \in Process /\ IsAlive(r) /\ IsAlive(process[q]) /\ r.wait_function = process[q].wait_function
    BY <1>2, <2>1 DEF Process, IsAlive, SetState, Alive
  <2>3. process' = [process EXCEPT ![q] = r] /\ YieldIf(p, FALSE)
    BY <1>2, <2>1 DEF SetState, YieldIf
  <2> HIDE DEF r
  <2>4. QED
    BY <1>1, <2>2, <2>3, YieldIfInv
<1>4. CASE AddArrestReason(p, q) \/ RevokeArrestReason(p, q)
  <2>1. PICK a \in SUBSET {"arrest"}, stops \in BOOLEAN :
          process' = [process EXCEPT ![q].arrest_reasons = a] /\ YieldIf(p, stops)
    BY <1>4 DEF AddArrestReason, RevokeArrestReason
  <2> DEFINE r == [process[q] EXCEPT !.arrest_reasons = a]
  <2>2. r \in Process /\ r.state = process[q].state /\ r.wait_function = process[q].wait_function
    BY <1>2 DEF Process
  <2>3. process' = [process EXCEPT ![q] = r]
    BY <1>2, <2>1
  <2> HIDE DEF r
  <2>4. IsAlive(r) <=> IsAlive(process[q])
    BY <2>2 DEF IsAlive
  <2>5. QED
    BY <1>1, <2>1, <2>2, <2>3, <2>4, YieldIfInv
<1>5. CASE AddRunReason(p, q) \/ RevokeRunReason(p, q)
  <2>1. PICK a \in SUBSET RunReasons, stops \in BOOLEAN :
          process' = [process EXCEPT ![q].run_reasons = a] /\ YieldIf(p, stops)
    <3>1. /\ process[q].run_reasons \union {"enable"} \in SUBSET RunReasons
          /\ process[q].run_reasons \ {"enable"} \in SUBSET RunReasons
      BY <1>2 DEF Process, RunReasons
    <3>2. CASE AddRunReason(p, q)
      BY <1>2, <3>1, <3>2 DEF AddRunReason
    <3>3. CASE RevokeRunReason(p, q)
      BY <1>2, <3>1, <3>3 DEF RevokeRunReason
    <3>4. QED
      BY <1>5, <3>2, <3>3
  <2> DEFINE r == [process[q] EXCEPT !.run_reasons = a]
  <2>2. r \in Process /\ r.state = process[q].state /\ r.wait_function = process[q].wait_function
    BY <1>2 DEF Process
  <2>3. process' = [process EXCEPT ![q] = r]
    BY <1>2, <2>1
  <2> HIDE DEF r
  <2>4. IsAlive(r) <=> IsAlive(process[q])
    BY <2>2 DEF IsAlive
  <2>5. QED
    BY <1>1, <2>1, <2>2, <2>3, <2>4, YieldIfInv
<1>6. QED
  BY <1>3, <1>4, <1>5

(* A process that gets a new stack. *)
LEMMA BirthStep ==
  ASSUME Inv, NEW q \in Processes, NEW r \in Process, r.state = "active",
         r.wait_function = NoFunction,
         NEW old, old \in [Processes -> Seq(Frame)],
         \A x \in Processes \ {q} : Shape(process[x], old[x]),
         SoleRestarter => /\ ~Alive(q)
                          /\ \A x \in Processes \ {current_process} : old[x] = stack[x]
                          /\ old[current_process][1].at = "run",
         q # InitialProcess, old[InitialProcess][1].at = "run",
         process' = [process EXCEPT ![q] = r],
         stack' = [old EXCEPT ![q] = << NewFrame("function", "start") >>],
         all_processes' = << q >> \o all_processes,
         UNCHANGED <<remaining_processes, current_process, inhibit_scheduling, world>>
  PROVE  Inv'
<1> DEFINE f == NewFrame("function", "start")
<1>1. f \in Frame /\ f.kind = "function" /\ f.at = "start" /\ FrameShape(f)
  BY NewFrames DEF NewFrame, FrameShape
<1> HIDE DEF f
<1>2. << f >> \in Seq(Frame) /\ << f >> # <<>> /\ Len(<< f >>) = 1 /\ << f >>[1] = f
  BY <1>1
<1>3. StackShape(<< f >>)
  BY <1>1, <1>2 DEF StackShape
<1>4. /\ process \in [Processes -> Process] /\ all_processes \in Seq(Processes)
      /\ stack' = [old EXCEPT ![q] = << f >>]
  BY DEF Inv, TypeOK, f
<1>5. /\ all_processes' \in Seq(Processes) /\ Len(all_processes') = Len(all_processes) + 1
      /\ all_processes'[1] = q
      /\ \A i \in 1..Len(all_processes) : all_processes'[i + 1] = all_processes[i]
  BY <1>4
<1>6. TypeOK'
  BY <1>2, <1>4, <1>5 DEF Inv, TypeOK, world
<1>7. ASSUME NEW x \in Processes PROVE Shape(process'[x], stack'[x])
  <2>1. CASE x = q
    BY <1>2, <1>3, <1>4, <2>1 DEF Shape, WaitShape, IsAlive
  <2>2. CASE x # q
    BY <1>4, <2>2
  <2>3. QED
    BY <2>1, <2>2
<1>8. \A x \in Processes : Alive(x)' => x = q \/ Alive(x)
  BY <1>4 DEF Alive
<1>9. \A x \in Processes : Alive(x)' => Listed(x, all_processes)'
  <2>1. \A x \in Processes : Listed(x, all_processes) => Listed(x, all_processes')
    <3>1. \A i \in 1..Len(all_processes) : i + 1 \in 1..Len(all_processes')
      BY <1>4, <1>5
    <3>2. QED
      BY <1>5, <3>1 DEF Listed
  <2>2. Listed(q, all_processes')
    <3>1. 1 \in 1..Len(all_processes')
      BY <1>4, <1>5
    <3>2. QED
      BY <1>5, <3>1 DEF Listed
  <2>3. QED
    BY <1>8, <2>1, <2>2 DEF Inv, Listed
<1>10. Alive(current_process)' /\ Alive(InitialProcess)'
  BY <1>4, ConstantsAssumption DEF Inv, TypeOK, Alive
<1>11. stack'[InitialProcess][1].at = "run" /\ remaining_processes' # <<>>
  BY <1>4, ConstantsAssumption DEF Inv
<1>12. ASSUME SoleRestarter PROVE QueueInv'
  <2>1. /\ QueueInv /\ ~Alive(q) /\ stack \in [Processes -> Seq(Frame)]
        /\ \A x \in Processes \ {current_process} : old[x] = stack[x]
        /\ old[current_process][1].at = "run"
    BY <1>12 DEF Inv, TypeOK
  <2>2. \A x \in Processes : Alive(x) => IsAlive(process'[x])
    BY <1>4 DEF Alive, IsAlive
  <2>3. /\ \A i \in 1..Len(all_processes) : all_processes[i] \in Processes /\ all_processes[i] # q
        /\ Len(all_processes) \in Nat
        /\ \A i \in 2..Len(remaining_processes) : remaining_processes[i] \in Processes
        /\ current_process # q /\ current_process \in Processes
    <3>1. /\ remaining_processes \in Seq(Processes) /\ current_process \in Processes
          /\ Alive(current_process)
      BY DEF Inv, TypeOK
    <3>2. /\ \A i \in 1..Len(all_processes) : all_processes[i] \in Processes
          /\ \A i \in 2..Len(remaining_processes) : remaining_processes[i] \in Processes
          /\ Len(all_processes) \in Nat
      BY <1>4, <3>1
    <3>3. QED
      BY <2>1, <3>1, <3>2 DEF QueueInv
  <2>4. \A i \in 1..Len(all_processes') : i = 1 \/ (i - 1 \in 1..Len(all_processes) /\ all_processes'[i] = all_processes[i - 1])
    BY <1>5, <2>3
  <2>5. \A i \in 1..Len(all_processes') : IsAlive(process'[all_processes'[i]])
    <3>1. IsAlive(process'[q])
      BY <1>4 DEF IsAlive
    <3>2. QED
      BY <1>5, <2>1, <2>2, <2>3, <2>4, <3>1 DEF QueueInv
  <2>6. NoRepetition(all_processes')
    <3>1. ASSUME NEW i \in 1..Len(all_processes'), NEW j \in 1..Len(all_processes'),
                 all_processes'[i] = all_processes'[j]
          PROVE  i = j
      <4>1. CASE i = 1 \/ j = 1
        BY <1>5, <2>3, <2>4, <3>1, <4>1
      <4>2. CASE i # 1 /\ j # 1
        <5>1. i - 1 = j - 1
          BY <2>1, <2>4, <3>1, <4>2 DEF QueueInv, NoRepetition
        <5>2. QED
          BY <5>1
      <4>3. QED
        BY <4>1, <4>2
    <3>2. QED
      BY <3>1 DEF NoRepetition
  <2>7. \A i \in 2..Len(remaining_processes) : IsAlive(process'[remaining_processes[i]])
    BY <2>1, <2>2, <2>3 DEF QueueInv
  <2>8. stack'[current_process][1].at # "start" /\ process'[current_process] = process[current_process]
    BY <1>4, <2>1, <2>3
  <2>9. ASSUME NEW x \in Processes \ {current_process}, Alive(x)' PROVE Suspended(stack'[x])
    <3>1. CASE x = q
      BY <1>1, <1>2, <1>4, <3>1 DEF Suspended
    <3>2. CASE x # q
      BY <1>4, <1>8, <2>1, <2>9, <3>2 DEF QueueInv
    <3>3. QED
      BY <3>1, <3>2
  <2>10. QED
    BY <2>1, <2>5, <2>6, <2>7, <2>8, <2>9
       DEF QueueInv, NoRepetition, Suspended, Active, Alive, IsAlive
<1>13. QED
  BY <1>6, <1>7, <1>9, <1>10, <1>11, <1>12 DEF Inv, SoleRestarter

LEMMA FreshFacts ==
  ASSUME NEW state \in {"unborn", "active", "inactive", "killed"}, NEW reasons \in SUBSET RunReasons
  PROVE  /\ Fresh(state, reasons) \in Process /\ Fresh(state, reasons).state = state
         /\ Fresh(state, reasons).wait_function = NoFunction
         /\ Fresh(state, reasons).interrupts = <<>>
  BY DEF Fresh, Process, NoFunction, WaitFunctions, Timeouts, Values

LEMMA MakeProcessInv ==
  ASSUME Inv, NEW p \in Processes, NEW q \in Processes, MakeProcess(p, q)
  PROVE  Inv'
<1>1. /\ process[q].state = "unborn"
      /\ process' = [process EXCEPT ![q] = Fresh("active", {"enable"})]
      /\ stack' = [stack EXCEPT ![q] = << NewFrame("function", "start") >>]
      /\ all_processes' = << q >> \o all_processes
      /\ UNCHANGED <<remaining_processes, current_process, inhibit_scheduling, world>>
  BY DEF MakeProcess
<1>2. Fresh("active", {"enable"}) \in Process /\ Fresh("active", {"enable"}).state = "active"
      /\ Fresh("active", {"enable"}).wait_function = NoFunction
  BY FreshFacts DEF RunReasons
<1>3. q # InitialProcess /\ ~Alive(q)
  BY <1>1 DEF Inv, Alive
<1>4. /\ stack \in [Processes -> Seq(Frame)] /\ stack[InitialProcess][1].at = "run"
      /\ \A x \in Processes \ {q} : Shape(process[x], stack[x])
  BY DEF Inv, TypeOK
<1>5. stack[current_process][1].at = "run"
  <2>1. p = current_process /\ InCode(p)
    BY DEF MakeProcess, InCode, Runs
  <2>2. QED
    BY <2>1, ExecutesFacts
<1>6. QED
  BY <1>1, <1>2, <1>3, <1>4, <1>5, BirthStep

LEMMA RestartBuildInv ==
  ASSUME Inv, NEW p \in Processes, RestartBuild(p),
         SoleRestarter => process[Top(p).target].state = "killed"
  PROVE  Inv'
<1> DEFINE q == Top(p).target
           r == [Fresh("active", process[q].run_reasons) EXCEPT !.arrest_reasons = process[q].arrest_reasons]
           old == [stack EXCEPT ![p] = Below(p)]
<1>1. /\ Top(p).kind = "restart" /\ p = current_process
      /\ process' = [process EXCEPT ![q] =
           [Fresh("active", @.run_reasons) EXCEPT !.arrest_reasons = process[q].arrest_reasons]]
      /\ stack' = [stack EXCEPT ![p] = Below(p), ![q] = << NewFrame("function", "start") >>]
      /\ all_processes' = << q >> \o all_processes
      /\ UNCHANGED <<remaining_processes, current_process, inhibit_scheduling, world>>
  BY DEF RestartBuild, InCall, Runs
<1>2. /\ Alive(p) /\ process \in [Processes -> Process] /\ stack \in [Processes -> Seq(Frame)]
      /\ \A x \in Processes : Shape(process[x], stack[x])
      /\ stack[InitialProcess][1].at = "run"
  BY <1>1, ExecutingFacts DEF Inv, TypeOK
<1>3. /\ stack[p] \in Seq(Frame) /\ StackShape(stack[p]) /\ WaitShape(process[p], stack[p])
      /\ Top(p) = stack[p][Len(stack[p])] /\ Len(stack[p]) \in Nat /\ Len(stack[p]) > 1
      /\ FrameShape(Top(p)) /\ stack[p][1].at = "run"
  BY <1>1, <1>2, TopFacts
<1>4. q \in Processes /\ q # InitialProcess /\ "restart" \in Ops
  BY <1>1, <1>3 DEF FrameShape, Yields
<1>5. process[p].wait_function = NoFunction
  BY <1>1, <1>3 DEF WaitShape, Yields
<1>6. /\ Below(p) \in Seq(Frame) /\ Below(p) # <<>> /\ StackShape(Below(p))
      /\ Below(p)[1].at = "run"
  BY <1>3, PopShape DEF Below
<1>7. r \in Process /\ r.state = "active" /\ r.wait_function = NoFunction
  <2>1. process[q] \in Process
    BY <1>2, <1>4
  <2>2. process[q].run_reasons \in SUBSET RunReasons /\ process[q].arrest_reasons \in SUBSET {"arrest"}
    BY <2>1 DEF Process
  <2> DEFINE g == Fresh("active", process[q].run_reasons)
  <2>3. g \in Process /\ g.state = "active" /\ g.wait_function = NoFunction
    BY <2>2, FreshFacts
  <2> HIDE DEF g
  <2>4. r = [g EXCEPT !.arrest_reasons = process[q].arrest_reasons]
    BY DEF g
  <2>5. QED
    BY <2>2, <2>3, <2>4 DEF Process
<1>8. process' = [process EXCEPT ![q] = r]
  BY <1>1, <1>2, <1>4
<1>9. /\ old \in [Processes -> Seq(Frame)]
      /\ stack' = [old EXCEPT ![q] = << NewFrame("function", "start") >>]
      /\ old[InitialProcess][1].at = "run"
  BY <1>1, <1>2, <1>6, ConstantsAssumption
<1>10. ASSUME NEW x \in Processes \ {q} PROVE Shape(process[x], old[x])
  <2>1. CASE x = p
    BY <1>2, <1>5, <1>6, <2>1 DEF Shape, WaitShape, Alive, IsAlive
  <2>2. CASE x # p
    BY <1>2, <2>2
  <2>3. QED
    BY <2>1, <2>2
<1>11. SoleRestarter => /\ ~Alive(q)
                        /\ \A x \in Processes \ {current_process} : old[x] = stack[x]
                        /\ old[current_process][1].at = "run"
  BY <1>1, <1>2, <1>6 DEF Alive
<1> HIDE DEF q, r, old
<1>12. QED
  BY <1>1, <1>4, <1>7, <1>8, <1>9, <1>10, <1>11, BirthStep DEF q

LEMMA DieInv ==
  ASSUME Inv, NEW p \in Processes, Die(p)
  PROVE  Inv'
<1> DEFINE r == Fresh("killed", {})
<1>1. /\ p = current_process /\ p # InitialProcess /\ ~inhibit_scheduling
      /\ process' = [process EXCEPT ![p] = r]
      /\ stack' = [stack EXCEPT ![p] = <<>>]
      /\ all_processes' = Without(all_processes, p)
      /\ current_process' = InitialProcess
      /\ inhibit_scheduling' = TRUE
      /\ UNCHANGED <<remaining_processes, world>>
  BY DEF Die, Runs
<1>2. r \in Process /\ r.state = "killed" /\ r.wait_function = NoFunction
  BY FreshFacts DEF RunReasons
<1> HIDE DEF r
<1>3. /\ process \in [Processes -> Process] /\ stack \in [Processes -> Seq(Frame)]
      /\ all_processes \in Seq(Processes) /\ Listed(p, all_processes)
      /\ Alive(InitialProcess) /\ InitialProcess \in Processes
  BY <1>1, ConstantsAssumption DEF Inv, TypeOK
<1>4. PICK k \in 1..Len(all_processes) :
        /\ all_processes' \in Seq(Processes) /\ Len(all_processes') = Len(all_processes) - 1
        /\ all_processes[k] = p
        /\ \A i \in 1..(Len(all_processes) - 1) :
             all_processes'[i] = IF i < k THEN all_processes[i] ELSE all_processes[i + 1]
  <2> DEFINE rest == Without(all_processes, p)
  <2>1. /\ rest \in Seq(Processes) /\ Len(rest) = Len(all_processes) - 1
        /\ \E j \in 1..Len(all_processes) :
             /\ all_processes[j] = p
             /\ \A i \in 1..(Len(all_processes) - 1) :
                  rest[i] = IF i < j THEN all_processes[i] ELSE all_processes[i + 1]
    BY <1>3, WithoutFacts
  <2>2. all_processes' = rest
    BY <1>1
  <2> HIDE DEF rest
  <2>3. QED
    BY <2>1, <2>2
<1>5. ASSUME NEW x \in Processes, x # p, Listed(x, all_processes)
      PROVE  Listed(x, all_processes')
  <2>1. PICK i \in 1..Len(all_processes) : all_processes[i] = x
    BY <1>5 DEF Listed
  <2>2. i # k /\ Len(all_processes) \in Nat
    BY <1>3, <1>4, <1>5, <2>1
  <2>3. CASE i < k
    <3>1. i \in 1..(Len(all_processes) - 1) /\ i \in 1..Len(all_processes')
      BY <1>4, <2>2, <2>3
    <3>2. QED
      BY <1>4, <2>1, <2>3, <3>1 DEF Listed
  <2>4. CASE ~(i < k)
    <3>1. /\ i - 1 \in 1..(Len(all_processes) - 1) /\ i - 1 \in 1..Len(all_processes')
          /\ ~(i - 1 < k) /\ (i - 1) + 1 = i
      BY <1>4, <2>2, <2>4
    <3>2. all_processes'[i - 1] = x
      BY <1>4, <2>1, <3>1
    <3>3. QED
      BY <3>1, <3>2 DEF Listed
  <2>5. QED
    BY <2>3, <2>4
<1>6. <<>> \in Seq(Frame) /\ StackShape(<<>>)
  BY DEF StackShape
<1>7. TypeOK'
  BY <1>1, <1>2, <1>3, <1>4, <1>6 DEF Inv, TypeOK, world
<1>8. \A x \in Processes : Shape(process'[x], stack'[x])
  BY <1>1, <1>2, <1>3, <1>6 DEF Inv, Shape, WaitShape, IsAlive
<1>9. \A x \in Processes : Alive(x)' <=> x # p /\ Alive(x)
  BY <1>1, <1>2, <1>3 DEF Alive
<1>10. \A x \in Processes : Alive(x)' => Listed(x, all_processes)'
  BY <1>5, <1>9 DEF Inv, Listed
<1>11. Alive(current_process)' /\ Alive(InitialProcess)'
  BY <1>1, <1>2, <1>3 DEF Alive
<1>12. stack'[InitialProcess][1].at = "run" /\ remaining_processes' # <<>>
  BY <1>1, <1>3 DEF Inv
<1>13. ASSUME SoleRestarter PROVE QueueInv'
  <2>1. /\ QueueInv /\ Head(remaining_processes) = p
        /\ remaining_processes \in Seq(Processes) /\ remaining_processes # <<>>
    BY <1>1, <1>13 DEF Inv, TypeOK, QueueInv
  <2>2. \A i \in 1..Len(all_processes') :
          /\ i \in 1..(Len(all_processes) - 1) /\ i + 1 \in 1..Len(all_processes)
          /\ i \in 1..Len(all_processes) /\ i \in Nat /\ k \in Nat
    BY <1>3, <1>4
  <2>3. \A i \in 1..Len(all_processes) : i # k => all_processes[i] # p /\ all_processes[i] \in Processes
    <3>1. \A i \in 1..Len(all_processes) : all_processes[i] \in Processes
      BY <1>3
    <3>2. QED
      BY <1>4, <2>1, <3>1 DEF QueueInv, NoRepetition
  <2> DEFINE Lives(x) == IsAlive(process'[x])
  <2>3a. \A x \in Processes : Lives(x) <=> x # p /\ Alive(x)
    BY <1>9 DEF Alive, IsAlive
  <2> HIDE DEF Lives
  <2>4. \A i \in 1..Len(all_processes') : Lives(all_processes'[i])
    <3>1. ASSUME NEW i \in 1..Len(all_processes') PROVE Lives(all_processes'[i])
      <4>1. PICK j \in 1..Len(all_processes) : j # k /\ all_processes'[i] = all_processes[j]
        <5>1. CASE i < k
          BY <1>4, <2>2, <5>1
        <5>2. CASE ~(i < k)
          <6>1. i + 1 # k
            BY <2>2, <5>2
          <6>2. QED
            BY <1>4, <2>2, <5>2, <6>1
        <5>3. QED
          BY <5>1, <5>2
      <4>2. QED
        BY <2>1, <2>3, <2>3a, <4>1 DEF QueueInv
    <3>2. QED
      BY <3>1
  <2>5. NoRepetition(all_processes')
    <3>1. ASSUME NEW i \in 1..Len(all_processes'), NEW j \in 1..Len(all_processes'),
                 all_processes'[i] = all_processes'[j]
          PROVE  i = j
      <4> DEFINE a == IF i < k THEN i ELSE i + 1
                 b == IF j < k THEN j ELSE j + 1
      <4>1. /\ a \in 1..Len(all_processes) /\ all_processes'[i] = all_processes[a]
            /\ b \in 1..Len(all_processes) /\ all_processes'[j] = all_processes[b]
        BY <1>4, <2>2
      <4>2. a = b
        BY <2>1, <3>1, <4>1 DEF QueueInv, NoRepetition
      <4>3. QED
        BY <2>2, <4>2
    <3>2. QED
      BY <3>1 DEF NoRepetition
  <2>6. ASSUME NEW i \in 2..Len(remaining_processes) PROVE Lives(remaining_processes[i])
    <3>1. /\ i \in 1..Len(remaining_processes) /\ 1 \in 1..Len(remaining_processes) /\ i # 1
          /\ remaining_processes[1] = p /\ remaining_processes[i] \in Processes
      BY <2>1
    <3>2. remaining_processes[i] # p
      BY <2>1, <3>1 DEF QueueInv, NoRepetition
    <3>3. QED
      BY <2>1, <2>3a, <3>1, <3>2 DEF QueueInv
  <2>7. \A x \in Processes : Alive(x)' => Suspended(stack'[x])
    BY <1>1, <1>3, <1>9, <2>1 DEF QueueInv
  <2>8. QED
    BY <1>1, <1>12, <2>1, <2>4, <2>5, <2>6, <2>7
       DEF QueueInv, NoRepetition, Suspended, Lives, Alive, IsAlive
<1>14. QED
  BY <1>7, <1>8, <1>10, <1>11, <1>12, <1>13 DEF Inv, SoleRestarter

LEMMA StutterInv ==
  ASSUME Inv, \/ Tick \/ Stopped \/ UNCHANGED vars
                  \/ \E p \in Processes : PredicateError(p)
  PROVE  Inv'
<1>1. /\ UNCHANGED <<process, stack, queue, current_process, inhibit_scheduling>>
      /\ flags' = flags /\ ops' = ops /\ clock' \in 0..MaxClock /\ error' \in BOOLEAN
  <2>1. clock \in Nat /\ error \in BOOLEAN /\ clock \in 0..MaxClock
    BY DEF Inv, TypeOK
  <2>2. CASE Tick
    BY <2>1, <2>2, ConstantsAssumption DEF Tick
  <2>3. CASE Stopped \/ UNCHANGED vars
    BY <2>1, <2>3 DEF Stopped, vars, world, queue
  <2>4. CASE \E p \in Processes : PredicateError(p)
    BY <2>1, <2>4 DEF PredicateError, queue
  <2>5. QED
    BY <2>2, <2>3, <2>4
<1>2. TypeOK'
  BY <1>1 DEF Inv, TypeOK, queue
<1>3. QED
  BY <1>1, <1>2 DEF Inv, queue, Alive, Listed, Shape, IsAlive, WaitShape, StackShape,
                     QueueInv, NoRepetition, Suspended, Active, SoleRestarter

(* The invariant is inductive. *)
LEMMA NextInv ==
  ASSUME Inv, [Next]_vars,
         SoleRestarter => \A p \in Processes : RestartBuild(p) => process[Top(p).target].state = "killed"
  PROVE  Inv'
<1>1. ASSUME NEW p \in Processes, Scheduler(p) PROVE Inv'
  <2>1. PredicateError(p) => Inv'
    BY StutterInv
  <2>2. QED
    BY <1>1, <2>1, RotateInv, ResumeInv, LoopInv, ReturnInv, RunInterruptInv
       DEF Scheduler
<1>2. ASSUME NEW p \in Processes, Code(p) PROVE Inv'
  BY <1>2, YieldInv, StartFunctionInv, DieInv, InterruptReturnInv,
     InterruptThrowInv, WaitSetFunctionInv, WaitYieldInv, WaitReadInv,
     RestartWaitInv, RestartBuildInv, SetFlagInv, CallWaitInv
     DEF Code
<1>3. ASSUME NEW p \in Processes, NEW q \in Processes, Operation(p, q) PROVE Inv'
  BY <1>3, MakeProcessInv, SendInv, RestartProcessInv, ReasonsInv DEF Operation
<1>4. QED
  BY <1>1, <1>2, <1>3, StutterInv DEF Next

-----------------------------------------------------------------------------
(***************************************************************************)
(* Waits.                                                                  *)
(***************************************************************************)
\* A call of process-yield is interrupted, or on top; process-wait calls nothing else.
Nested(s) ==
  \A i \in 1..Len(s) :
    /\ s[i].kind \in Yields => (i < Len(s) <=> s[i].at = "handling")
    /\ s[i].kind \in Yields /\ i < Len(s) => s[i + 1].kind = "interrupt"
    /\ s[i].kind = "wait" /\ i < Len(s) => s[i + 1].kind \in Yields

\* What process-wait can be called with.
Tests == {FlagSet(f) : f \in Flags} \union {FlagSetP, Never} \union {Killed(q) : q \in Processes}

\* The wait in a process structure, and the one kept for the call at i of stack s.
WaitOf(r) == [wait_function |-> r.wait_function, wait_timeout |-> r.wait_timeout,
              wait_return_value |-> r.wait_return_value]
Kept(r, s, i) == IF i < Len(s) /\ s[i + 1].at = "handling" THEN s[i + 1].saved ELSE WaitOf(r)

\* The call f waits, or has its answer, in circumstances c: the time, and who is dead.
Waiting(f, k) == k.wait_function = f.fn /\ k.wait_timeout = f.deadline
Replied(f, v, c) ==
  /\ IF v = None THEN f.deadline # None /\ c.time > f.deadline
                 ELSE v = f.fn.arg \/ f.fn.test = "flag_p"
  /\ f.fn.test = "killed" => f.fn.arg \in c.dead
Answered(f, k, c) == k.wait_function = NoFunction /\ Replied(f, k.wait_return_value, c)

\* top: the call is at the top of the stack.
WaitFrame(f, top, k, c) ==
  /\ f.fn \in Tests
  /\ f.fn.test = "killed" => f.deadline = None
  /\ f.at = "set" => k.wait_function = NoFunction /\ k.wait_timeout = f.deadline
  /\ f.at \in {"yield", "read"} => Waiting(f, k) \/ Answered(f, k, c)
  /\ f.at = "read" /\ top => Answered(f, k, c)

WaitInv(r, s, c) ==
  /\ Nested(s)
  /\ \A i \in 1..Len(s) : s[i].kind = "wait" => WaitFrame(s[i], i = Len(s), Kept(r, s, i), c)

\* Only one function restarts processes: a dead one stays dead while it is waited for.
Now == [time |-> clock,
        dead |-> IF SoleRestarter THEN {q \in Processes : process[q].state = "killed"}
                                  ELSE Processes]
Later(c, c2) == c.time \in Nat /\ c2.time \in Nat /\ c.time <= c2.time /\ c.dead \subseteq c2.dead

AllWaits ==
  /\ \A q \in Processes : WaitInv(process[q], stack[q], Now)
  /\ ~inhibit_scheduling => Top(current_process).kind \notin Yields

\* A step after which time has passed and the dead are still dead.
LaterStep == Inv' /\ Later(Now, Now')

\* The function that restarts a process is at the bottom of the stack, and waits there
\* for the death of the process before it builds it.
KilledWait(f) == f.kind = "wait" /\ f.fn.test = "killed"
RestartStack(q, s, dead) ==
  /\ \A i \in 1..Len(s) : s[i].kind = "restart" => i = 2 /\ <<q, "function">> \in Restarters
  /\ \A i \in 1..Len(s) : KilledWait(s[i]) => i = 3 /\ s[2].kind = "restart" /\ s[2].at = "build"
  /\ Len(s) >= 2 /\ s[2].kind = "restart" /\ s[2].at = "build" =>
       \/ s[2].target \in dead
       \/ Len(s) >= 3 /\ s[3].kind = "wait" /\ s[3].fn = Killed(s[2].target)

AllRestarts == SoleRestarter => \A q \in Processes : RestartStack(q, stack[q], Now.dead)

\* A stack whose top is neither in process-wait nor in process-yield holds every wait itself.
LEMMA WaitsKept ==
  ASSUME NEW s \in Seq(Frame), NEW r, NEW r2, NEW c, WaitInv(r, s, c),
         NEW i \in 1..Len(s), s[i].kind = "wait",
         i + 1 < Len(s) \/ (i + 1 = Len(s) /\ s[Len(s)].at = "handling")
                        \/ (i < Len(s) /\ s[Len(s)].kind \notin Yields)
  PROVE  /\ i < Len(s) /\ s[i + 1].at = "handling"
         /\ WaitFrame(s[i], FALSE, s[i + 1].saved, c)
<1> DEFINE n == Len(s)
<1>1. n \in Nat /\ i \in Nat /\ 1 <= i /\ i <= n
  BY LenProperties
<1> HIDE DEF n
<1>2. i < n
  BY <1>1 DEF n
<1>3. i + 1 \in 1..n
  BY <1>1, <1>2
<1>4. s[i + 1].kind \in Yields
  BY <1>2 DEF WaitInv, Nested, n
<1>5. i + 1 < n \/ s[i + 1].at = "handling"
  BY <1>1, <1>2, <1>4 DEF n
<1>6. s[i + 1].at = "handling"
  BY <1>3, <1>4, <1>5 DEF WaitInv, Nested, n
<1>7. WaitFrame(s[i], i = n, Kept(r, s, i), c)
  BY DEF WaitInv, n
<1>8. Kept(r, s, i) = s[i + 1].saved /\ i # n
  BY <1>1, <1>2, <1>6 DEF Kept, n
<1>9. WaitFrame(s[i], FALSE, s[i + 1].saved, c)
  BY <1>7, <1>8 DEF WaitFrame
<1>10. QED
  BY <1>2, <1>6, <1>9 DEF n

\* The top of the stack moves, and the wait in the process structure with it.
LEMMA MoveWaits ==
  ASSUME NEW s \in Seq(Frame), NEW t \in Seq(Frame), NEW r, NEW r2, NEW c, WaitInv(r, s, c),
         s # <<>>, Len(t) = Len(s), \A i \in 1..(Len(s) - 1) : t[i] = s[i],
         NEW g, t[Len(s)] = g, g.kind = s[Len(s)].kind,
         g.kind \in Yields => g.at # "handling",
         g.kind \in Yields /\ Len(s) > 1 /\ s[Len(s) - 1].kind = "wait" =>
           WaitFrame(s[Len(s) - 1], FALSE, WaitOf(r2), c),
         g.kind = "wait" => WaitFrame(g, TRUE, WaitOf(r2), c)
  PROVE  WaitInv(r2, t, c)
<1> DEFINE n == Len(s)
<1>1. n \in Nat /\ n > 0 /\ n \in 1..n
  BY LenProperties, EmptySeq
<1> HIDE DEF n
<1>2. Len(t) = n /\ (\A i \in 1..n : i # n => i \in 1..(n - 1) /\ t[i] = s[i]) /\ t[n] = g
  BY <1>1 DEF n
<1>3. \A i \in 1..n : t[i].kind = s[i].kind
  BY <1>2 DEF n
<1>4. Nested(t)
  <2>1. ASSUME NEW i \in 1..n
        PROVE  /\ t[i].kind \in Yields => (i < n <=> t[i].at = "handling")
               /\ t[i].kind \in Yields /\ i < n => t[i + 1].kind = "interrupt"
               /\ t[i].kind = "wait" /\ i < n => t[i + 1].kind \in Yields
    <3>1. i < n => i + 1 \in 1..n /\ i # n
      BY <1>1
    <3>2. i = n => ~(i < n)
      BY <1>1
    <3>3. /\ s[i].kind \in Yields => (i < n <=> s[i].at = "handling")
          /\ s[i].kind \in Yields /\ i < n => s[i + 1].kind = "interrupt"
          /\ s[i].kind = "wait" /\ i < n => s[i + 1].kind \in Yields
      BY DEF WaitInv, Nested, n
    <3>4. CASE i = n
      BY <1>2, <3>2, <3>4
    <3>5. CASE i # n
      BY <1>2, <1>3, <3>1, <3>3, <3>5
    <3>6. QED
      BY <3>4, <3>5
  <2>2. QED
    BY <1>2, <2>1 DEF Nested
<1>5. ASSUME NEW i \in 1..n, t[i].kind = "wait"
      PROVE  WaitFrame(t[i], i = n, Kept(r2, t, i), c)
  <2>1. CASE i = n
    <3>1. Kept(r2, t, i) = WaitOf(r2)
      BY <1>1, <1>2, <2>1 DEF Kept
    <3>2. WaitFrame(g, TRUE, WaitOf(r2), c)
      BY <1>2, <1>5, <2>1
    <3>3. QED
      BY <1>2, <2>1, <3>1, <3>2 DEF WaitFrame
  <2>2. CASE i + 1 = n /\ g.kind \in Yields
    <3>1. i < n /\ i = n - 1 /\ n > 1 /\ i # n
      BY <1>1, <2>2
    <3>2. t[i + 1] = g
      BY <1>2, <2>2
    <3>3. Kept(r2, t, i) = WaitOf(r2)
      BY <2>2, <3>2 DEF Kept
    <3>4. t[i] = s[i]
      BY <1>2, <3>1
    <3>5. WaitFrame(s[i], FALSE, WaitOf(r2), c)
      BY <1>5, <2>2, <3>1, <3>4 DEF n
    <3>6. QED
      BY <3>1, <3>3, <3>4, <3>5 DEF WaitFrame
  <2>3. CASE i # n /\ ~(i + 1 = n /\ g.kind \in Yields)
    <3>1. t[i] = s[i] /\ i < n
      BY <1>1, <1>2, <2>3
    <3>2. i + 1 < n \/ s[n].kind \notin Yields
      BY <1>1, <2>3, <3>1 DEF n
    <3>3. s[i + 1].at = "handling" /\ WaitFrame(s[i], FALSE, s[i + 1].saved, c)
      BY <1>5, <3>1, <3>2, WaitsKept DEF n
    <3>4. s[i + 1].kind \in Yields
      BY <1>5, <3>1 DEF WaitInv, Nested, n
    <3>5. i + 1 # n
      BY <2>3, <3>4 DEF n
    <3>6. t[i + 1] = s[i + 1]
      BY <1>1, <1>2, <3>1, <3>5
    <3>7. Kept(r2, t, i) = s[i + 1].saved
      BY <1>2, <3>1, <3>3, <3>6 DEF Kept
    <3>8. QED
      BY <2>3, <3>1, <3>3, <3>7 DEF WaitFrame
  <2>4. QED
    BY <2>1, <2>2, <2>3
<1>6. QED
  BY <1>2, <1>4, <1>5 DEF WaitInv

\* The top of the stack, moved to g, calls f.
LEMMA CallWaits ==
  ASSUME NEW s \in Seq(Frame), NEW t \in Seq(Frame), NEW r, NEW r2, NEW c, WaitInv(r, s, c),
         s # <<>>, Len(t) = Len(s) + 1, \A i \in 1..(Len(s) - 1) : t[i] = s[i],
         NEW g, t[Len(s)] = g, g.kind = s[Len(s)].kind,
         NEW f, t[Len(s) + 1] = f,
         g.kind \in Yields => /\ g.at = "handling" /\ g.saved = WaitOf(r)
                              /\ s[Len(s)].at # "handling" /\ f.kind = "interrupt",
         g.kind = "wait" => f.kind \in Yields /\ WaitFrame(g, FALSE, WaitOf(r2), c),
         f.kind \in Yields => f.at # "handling",
         f.kind = "wait" => WaitFrame(f, TRUE, WaitOf(r2), c)
  PROVE  WaitInv(r2, t, c)
<1> DEFINE n == Len(s)
           m == n + 1
<1>1. n \in Nat /\ n > 0 /\ n \in 1..n /\ m \in Nat /\ n < m /\ n # m
  BY LenProperties, EmptySeq
<1> HIDE DEF n
<1>2. /\ Len(t) = m /\ t[n] = g /\ t[m] = f
      /\ \A i \in 1..m : i = m \/ i = n \/ (i \in 1..(n - 1) /\ t[i] = s[i] /\ i \in 1..n /\ i < n /\ i < m)
  BY <1>1 DEF n
<1> HIDE DEF m
<1>3. ASSUME NEW i \in 1..m, i # m, i # n
      PROVE  /\ i \in 1..n /\ i < n /\ i < m /\ t[i] = s[i]
             /\ i + 1 \in 1..n /\ t[i + 1].kind = s[i + 1].kind
             /\ i + 1 # n => t[i + 1] = s[i + 1]
  <2>1. i \in 1..n /\ i < n /\ i < m /\ t[i] = s[i]
    BY <1>2, <1>3
  <2>2. i + 1 \in 1..n /\ (i + 1 # n => i + 1 \in 1..(n - 1))
    BY <1>1, <2>1
  <2>3. t[i + 1].kind = s[i + 1].kind /\ (i + 1 # n => t[i + 1] = s[i + 1])
    BY <1>2, <2>2 DEF n
  <2>4. QED
    BY <2>1, <2>2, <2>3
<1>4. Nested(t)
  <2>1. ASSUME NEW i \in 1..m
        PROVE  /\ t[i].kind \in Yields => (i < m <=> t[i].at = "handling")
               /\ t[i].kind \in Yields /\ i < m => t[i + 1].kind = "interrupt"
               /\ t[i].kind = "wait" /\ i < m => t[i + 1].kind \in Yields
    <3>1. CASE i = m
      <4>1. ~(i < m)
        BY <1>1, <3>1
      <4>2. QED
        BY <1>2, <3>1, <4>1
    <3>2. CASE i = n
      <4>1. t[i] = g /\ t[i + 1] = f /\ i < m
        BY <1>1, <1>2, <3>2 DEF m
      <4>2. QED
        BY <4>1
    <3>3. CASE i # m /\ i # n
      <4>1. /\ s[i].kind \in Yields => (i < n <=> s[i].at = "handling")
            /\ s[i].kind \in Yields /\ i < n => s[i + 1].kind = "interrupt"
            /\ s[i].kind = "wait" /\ i < n => s[i + 1].kind \in Yields
        BY <1>3, <3>3 DEF WaitInv, Nested, n
      <4>2. QED
        BY <1>3, <3>3, <4>1
    <3>4. QED
      BY <3>1, <3>2, <3>3
  <2>2. QED
    BY <1>2, <2>1 DEF Nested
<1>5. ASSUME NEW i \in 1..m, t[i].kind = "wait"
      PROVE  WaitFrame(t[i], i = m, Kept(r2, t, i), c)
  <2>1. CASE i = m
    <3>1. Kept(r2, t, i) = WaitOf(r2)
      BY <1>1, <1>2, <2>1 DEF Kept
    <3>2. WaitFrame(f, TRUE, WaitOf(r2), c)
      BY <1>2, <1>5, <2>1
    <3>3. QED
      BY <1>2, <2>1, <3>1, <3>2 DEF WaitFrame
  <2>2. CASE i = n
    <3>1. t[i] = g /\ t[i + 1] = f /\ i < m /\ i # m
      BY <1>1, <1>2, <2>2 DEF m
    <3>2. f.kind \in Yields /\ WaitFrame(g, FALSE, WaitOf(r2), c)
      BY <1>5, <3>1
    <3>3. Kept(r2, t, i) = WaitOf(r2)
      BY <1>2, <3>1, <3>2 DEF Kept
    <3>4. QED
      BY <3>1, <3>2, <3>3 DEF WaitFrame
  <2>3. CASE i # m /\ i # n
    <3>1. /\ i \in 1..n /\ i < n /\ i < m /\ t[i] = s[i] /\ i + 1 \in 1..n
          /\ t[i + 1].kind = s[i + 1].kind /\ (i + 1 # n => t[i + 1] = s[i + 1])
      BY <1>3, <2>3
    <3>2. s[i + 1].kind \in Yields
      BY <1>5, <3>1 DEF WaitInv, Nested, n
    <3>3. CASE i + 1 = n
      <4>1. g.at = "handling" /\ g.saved = WaitOf(r) /\ s[n].at # "handling" /\ t[i + 1] = g
        BY <1>2, <3>1, <3>2, <3>3
      <4>2. Kept(r, s, i) = WaitOf(r)
        BY <3>3, <4>1 DEF Kept
      <4>3. Kept(r2, t, i) = WaitOf(r)
        BY <1>2, <3>1, <4>1 DEF Kept
      <4>4. WaitFrame(s[i], i = n, WaitOf(r), c)
        BY <1>5, <3>1, <4>2 DEF WaitInv, n
      <4>5. QED
        BY <2>3, <3>1, <4>3, <4>4 DEF WaitFrame
    <3>4. CASE i + 1 # n
      <4>1. i + 1 < n
        BY <1>1, <3>1, <3>4
      <4>2. s[i + 1].at = "handling" /\ WaitFrame(s[i], FALSE, s[i + 1].saved, c)
        BY <1>5, <3>1, <4>1, WaitsKept DEF n
      <4>3. Kept(r2, t, i) = s[i + 1].saved
        BY <1>2, <3>1, <3>4, <4>2 DEF Kept
      <4>4. QED
        BY <2>3, <3>1, <4>2, <4>3 DEF WaitFrame
    <3>5. QED
      BY <3>3, <3>4
  <2>4. QED
    BY <2>1, <2>2, <2>3
<1>6. QED
  BY <1>2, <1>4, <1>5 DEF WaitInv

\* The top of the stack returns to the frame below, which moves to g.
LEMMA ReturnWaits ==
  ASSUME NEW s \in Seq(Frame), NEW t \in Seq(Frame), NEW r, NEW r2, NEW c, WaitInv(r, s, c),
         Len(s) > 1, Len(t) = Len(s) - 1, \A i \in 1..(Len(t) - 1) : t[i] = s[i],
         NEW g, t[Len(t)] = g, g.kind = s[Len(t)].kind,
         g.kind \in Yields => g.at # "handling" /\ s[Len(t)].saved = WaitOf(r2),
         g.kind = "wait" => WaitFrame(g, TRUE, WaitOf(r2), c)
  PROVE  WaitInv(r2, t, c)
<1> DEFINE n == Len(s)
           m == Len(t)
<1>1. n \in Nat /\ m \in Nat /\ m = n - 1 /\ m > 0 /\ m \in 1..m /\ m < n
  BY LenProperties
<1> HIDE DEF n, m
<1>2. t[m] = g /\ \A i \in 1..m : i # m => i \in 1..(m - 1) /\ t[i] = s[i]
  BY <1>1 DEF m
<1>3. \A i \in 1..m : t[i].kind = s[i].kind /\ i \in 1..n /\ i < n
  BY <1>1, <1>2 DEF m
<1>4. Nested(t)
  <2>1. ASSUME NEW i \in 1..m
        PROVE  /\ t[i].kind \in Yields => (i < m <=> t[i].at = "handling")
               /\ t[i].kind \in Yields /\ i < m => t[i + 1].kind = "interrupt"
               /\ t[i].kind = "wait" /\ i < m => t[i + 1].kind \in Yields
    <3>1. CASE i = m
      <4>1. ~(i < m)
        BY <1>1, <3>1
      <4>2. QED
        BY <1>2, <3>1, <4>1
    <3>2. CASE i # m
      <4>1. i + 1 \in 1..m /\ i < m
        BY <1>1, <3>2
      <4>2. i \in 1..n /\ i < n /\ t[i] = s[i] /\ t[i + 1].kind = s[i + 1].kind
        BY <1>2, <1>3, <3>2, <4>1
      <4>3. /\ s[i].kind \in Yields => (i < n <=> s[i].at = "handling")
            /\ s[i].kind \in Yields /\ i < n => s[i + 1].kind = "interrupt"
            /\ s[i].kind = "wait" /\ i < n => s[i + 1].kind \in Yields
        BY <4>2 DEF WaitInv, Nested, n
      <4>4. QED
        BY <4>1, <4>2, <4>3
    <3>3. QED
      BY <3>1, <3>2
  <2>2. QED
    BY <2>1 DEF Nested, m
<1>5. ASSUME NEW i \in 1..m, t[i].kind = "wait"
      PROVE  WaitFrame(t[i], i = m, Kept(r2, t, i), c)
  <2>1. CASE i = m
    <3>1. Kept(r2, t, i) = WaitOf(r2)
      BY <1>1, <2>1 DEF Kept, m
    <3>2. WaitFrame(g, TRUE, WaitOf(r2), c)
      BY <1>2, <1>5, <2>1
    <3>3. QED
      BY <1>2, <2>1, <3>1, <3>2 DEF WaitFrame
  <2>2. CASE i # m
    <3>1. i + 1 \in 1..m /\ i < m /\ i + 1 < n
      BY <1>1, <2>2
    <3>2. i \in 1..n /\ i < n /\ t[i] = s[i] /\ t[i + 1].kind = s[i + 1].kind
      BY <1>2, <1>3, <2>2, <3>1
    <3>3. s[i + 1].at = "handling" /\ WaitFrame(s[i], FALSE, s[i + 1].saved, c)
      BY <1>5, <3>1, <3>2, WaitsKept DEF n
    <3>4. s[i + 1].kind \in Yields
      BY <1>5, <3>2 DEF WaitInv, Nested, n
    <3>5. Kept(r2, t, i) = s[i + 1].saved
      <4>1. CASE i + 1 = m
        <5>1. t[i + 1] = g /\ g.at # "handling" /\ s[i + 1].saved = WaitOf(r2)
          BY <1>2, <3>2, <3>4, <4>1 DEF m
        <5>2. QED
          BY <5>1 DEF Kept
      <4>2. CASE i + 1 # m
        <5>1. t[i + 1] = s[i + 1]
          BY <1>2, <3>1, <4>2
        <5>2. QED
          BY <3>1, <3>3, <5>1 DEF Kept, m
      <4>3. QED
        BY <4>1, <4>2
    <3>6. QED
      BY <2>2, <3>2, <3>3, <3>5 DEF WaitFrame
  <2>3. QED
    BY <2>1, <2>2
<1>6. QED
  BY <1>4, <1>5 DEF WaitInv, m

\* What does not touch the wait of a process keeps it.
LEMMA SameWaits ==
  ASSUME NEW s, NEW r, NEW r2, NEW c, WaitInv(r, s, c), WaitOf(r2) = WaitOf(r)
  PROVE  WaitInv(r2, s, c)
BY DEF WaitInv, Kept

\* Time passes, and processes die.
LEMMA LaterWaits ==
  ASSUME NEW s \in Seq(Frame), NEW r, NEW c, NEW c2, Later(c, c2), WaitInv(r, s, c)
  PROVE  WaitInv(r, s, c2)
<1>1. \A f \in Frame : \A v : Replied(f, v, c) => Replied(f, v, c2)
  <2> SUFFICES ASSUME NEW f \in Frame, NEW v, Replied(f, v, c)
               PROVE  Replied(f, v, c2)
    OBVIOUS
  <2>1. f.deadline = None \/ f.deadline \in Nat
    BY ConstantsAssumption DEF Frame, Timeouts
  <2>2. v = None => f.deadline # None /\ c2.time > f.deadline
    <3> SUFFICES ASSUME v = None PROVE f.deadline # None /\ c2.time > f.deadline
      OBVIOUS
    <3>1. f.deadline # None /\ c.time > f.deadline
      BY DEF Replied
    <3>2. QED
      BY <2>1, <3>1 DEF Later
  <2>3. f.fn.test = "killed" => f.fn.arg \in c2.dead
    BY DEF Replied, Later
  <2>4. QED
    BY <2>2, <2>3 DEF Replied
<1>2. ASSUME NEW i \in 1..Len(s), s[i].kind = "wait"
      PROVE  WaitFrame(s[i], i = Len(s), Kept(r, s, i), c2)
  <2>1. WaitFrame(s[i], i = Len(s), Kept(r, s, i), c) /\ s[i] \in Frame
    BY <1>2, ElementOfSeq DEF WaitInv
  <2>2. QED
    BY <1>1, <2>1 DEF WaitFrame, Answered
<1>3. QED
  BY <1>2 DEF WaitInv

\* A stack that does not wait for a death does not care who is dead.
LEMMA UnkilledWaits ==
  ASSUME NEW s \in Seq(Frame), NEW r, NEW c, NEW c2, c2.time = c.time, WaitInv(r, s, c),
         \A i \in 1..Len(s) : ~KilledWait(s[i])
  PROVE  WaitInv(r, s, c2)
<1>1. ASSUME NEW i \in 1..Len(s), s[i].kind = "wait"
      PROVE  WaitFrame(s[i], i = Len(s), Kept(r, s, i), c2)
  <2>1. WaitFrame(s[i], i = Len(s), Kept(r, s, i), c) /\ s[i].fn.test # "killed"
    BY <1>1 DEF WaitInv, KilledWait
  <2>2. \A v : Replied(s[i], v, c) => Replied(s[i], v, c2)
    BY <2>1 DEF Replied
  <2>3. QED
    BY <2>1, <2>2 DEF WaitFrame, Answered
<1>2. QED
  BY <1>1 DEF WaitInv

LEMMA NoWaits ==
  ASSUME NEW s \in Seq(Frame), Len(s) <= 1, s # <<>> => s[1].kind = "function", NEW r, NEW c
  PROVE  WaitInv(r, s, c)
<1>1. \A i \in 1..Len(s) : i = 1 /\ s # <<>>
  BY LenProperties
<1>2. QED
  BY <1>1 DEF WaitInv, Nested, Yields

\* A test is none of the processes that do not wait.
LEMMA TestsTest ==
  ASSUME NEW fn \in Tests
  PROVE  fn # NoFunction /\ fn.test \in {"flag", "flag_p", "never", "killed"}
BY DEF Tests, FlagSet, FlagSetP, Never, Killed, NoFunction

\* The wait that a process is in is answered.
LEMMA FlushWaits ==
  ASSUME NEW s \in Seq(Frame), NEW r, NEW r2, NEW c, WaitInv(r, s, c),
         r.wait_function # NoFunction, r2.wait_function = NoFunction,
         \A f \in Frame :
           f.fn \in Tests /\ (f.fn.test = "killed" => f.deadline = None) /\ Waiting(f, WaitOf(r))
             => Replied(f, r2.wait_return_value, c)
  PROVE  WaitInv(r2, s, c)
<1>1. ASSUME NEW i \in 1..Len(s), s[i].kind = "wait"
      PROVE  WaitFrame(s[i], i = Len(s), Kept(r2, s, i), c)
  <2>1. WaitFrame(s[i], i = Len(s), Kept(r, s, i), c) /\ s[i] \in Frame
    BY <1>1, ElementOfSeq DEF WaitInv
  <2>2. CASE Kept(r2, s, i) = Kept(r, s, i)
    BY <2>1, <2>2
  <2>3. CASE Kept(r, s, i) = WaitOf(r) /\ Kept(r2, s, i) = WaitOf(r2)
    <3>1. /\ WaitOf(r).wait_function # NoFunction /\ WaitOf(r2).wait_function = NoFunction
          /\ WaitOf(r2).wait_return_value = r2.wait_return_value
      BY DEF WaitOf
    <3>2. s[i].fn \in Tests /\ (s[i].fn.test = "killed" => s[i].deadline = None) /\ s[i].at # "set"
      BY <2>1, <2>3, <3>1 DEF WaitFrame
    <3>3. s[i].at \in {"yield", "read"} => Waiting(s[i], WaitOf(r))
      BY <2>1, <2>3, <3>1 DEF WaitFrame, Answered
    <3>4. s[i].at \in {"yield", "read"} => Answered(s[i], WaitOf(r2), c)
      BY <2>1, <3>1, <3>2, <3>3 DEF Answered
    <3>5. QED
      BY <2>3, <3>2, <3>4 DEF WaitFrame
  <2>4. QED
    BY <2>2, <2>3 DEF Kept
<1>2. QED
  BY <1>1 DEF WaitInv

LEMMA TopWaits ==
  ASSUME NEW s \in Seq(Frame), s # <<>>, NEW r, NEW c, WaitInv(r, s, c), s[Len(s)].kind = "wait"
  PROVE  WaitFrame(s[Len(s)], TRUE, WaitOf(r), c)
<1> DEFINE n == Len(s)
<1>1. n \in 1..n /\ ~(n < n)
  BY LenProperties, EmptySeq
<1> HIDE DEF n
<1>2. WaitFrame(s[n], n = n, Kept(r, s, n), c)
  BY <1>1 DEF WaitInv, n
<1>3. Kept(r, s, n) = WaitOf(r)
  BY <1>1 DEF Kept, n
<1>4. QED
  BY <1>2, <1>3 DEF WaitFrame, n

LEMMA DetachedWaits ==
  ASSUME NEW s \in Seq(Frame), s # <<>>, NEW r, NEW r2, NEW c, WaitInv(r, s, c),
         s[Len(s)].kind \notin Yields, s[Len(s)].kind # "wait"
  PROVE  WaitInv(r2, s, c)
BY MoveWaits

LEMMA PushWaits ==
  ASSUME NEW s \in Seq(Frame), s # <<>>, NEW r, NEW r2, NEW c, WaitInv(r, s, c),
         NEW f \in Frame, s[Len(s)].kind \notin Yields,
         s[Len(s)].kind = "wait" => f.kind \in Yields /\ WaitOf(r2) = WaitOf(r),
         f.kind \in Yields => f.at # "handling",
         f.kind = "wait" => WaitFrame(f, TRUE, WaitOf(r2), c)
  PROVE  WaitInv(r2, Append(s, f), c)
<1> DEFINE t == Append(s, f)
           g == s[Len(s)]
<1>1. /\ t \in Seq(Frame) /\ Len(t) = Len(s) + 1 /\ t[Len(s) + 1] = f
      /\ \A i \in 1..Len(s) : t[i] = s[i]
  BY AppendProperties
<1>2. Len(s) \in 1..Len(s) /\ \A i \in 1..(Len(s) - 1) : i \in 1..Len(s)
  BY LenProperties, EmptySeq
<1>3. t[Len(s)] = g /\ \A i \in 1..(Len(s) - 1) : t[i] = s[i]
  BY <1>1, <1>2
<1>4. g.kind = "wait" => f.kind \in Yields /\ WaitFrame(g, FALSE, WaitOf(r2), c)
  <2> SUFFICES ASSUME g.kind = "wait"
               PROVE  f.kind \in Yields /\ WaitFrame(g, FALSE, WaitOf(r2), c)
    OBVIOUS
  <2>1. WaitFrame(g, TRUE, WaitOf(r), c)
    BY TopWaits
  <2>2. QED
    BY <2>1 DEF WaitFrame
<1> HIDE DEF t
<1>5. WaitInv(r2, t, c)
  BY <1>1, <1>3, <1>4, CallWaits
<1>6. QED
  BY <1>5 DEF t

LEMMA PopWaits ==
  ASSUME NEW s \in Seq(Frame), Len(s) > 1, NEW r, NEW r2, NEW c, WaitInv(r, s, c),
         s[Len(s)].kind # "interrupt",
         s[Len(s)].kind \in Yields /\ s[Len(s) - 1].kind = "wait" =>
           WaitFrame(s[Len(s) - 1], TRUE, WaitOf(r2), c)
  PROVE  /\ WaitInv(r2, SubSeq(s, 1, Len(s) - 1), c)
         /\ s[Len(s) - 1].kind \notin Yields
<1> DEFINE n == Len(s)
           t == SubSeq(s, 1, n - 1)
           g == s[n - 1]
<1>1. n \in Nat /\ n > 1 /\ n - 1 \in 1..n /\ n - 1 < n /\ (n - 1) + 1 = n
  BY LenProperties
<1>2. t \in Seq(Frame) /\ Len(t) = n - 1 /\ \A i \in 1..(n - 1) : t[i] = s[i]
  BY <1>1
<1> HIDE DEF n
<1>3. g.kind \notin Yields
  BY <1>1 DEF WaitInv, Nested, n
<1>4. g.kind = "wait" => s[n].kind \in Yields
  BY <1>1 DEF WaitInv, Nested, n
<1>5. n - 1 \in 1..(n - 1) /\ \A i \in 1..(n - 1 - 1) : i \in 1..(n - 1)
  BY <1>1
<1> HIDE DEF t
<1>6. t[Len(t)] = g /\ \A i \in 1..(Len(t) - 1) : t[i] = s[i]
  BY <1>2, <1>5
<1>7. g.kind = "wait" => WaitFrame(g, TRUE, WaitOf(r2), c)
  BY <1>4 DEF n
<1>8. WaitInv(r2, t, c)
  <2>1. Len(s) > 1 /\ Len(t) = Len(s) - 1 /\ g.kind = s[Len(t)].kind
    BY <1>2 DEF n
  <2> HIDE DEF g
  <2>2. QED
    BY <1>2, <1>3, <1>6, <1>7, <2>1, ReturnWaits
<1>9. QED
  BY <1>3, <1>8 DEF t, n

\* The waits are kept in the circumstances after a step as before it.
LEMMA MovedWaits ==
  ASSUME LaterStep,
         \A q \in Processes : WaitInv(process'[q], stack'[q], Now),
         ~inhibit_scheduling' => Top(current_process)'.kind \notin Yields
  PROVE  AllWaits'
<1>1. stack' \in [Processes -> Seq(Frame)]
  BY DEF LaterStep, Inv, TypeOK
<1>2. ASSUME NEW q \in Processes
      PROVE  WaitInv(process'[q], stack'[q], Now')
  <2>1. stack'[q] \in Seq(Frame) /\ WaitInv(process'[q], stack'[q], Now) /\ Later(Now, Now')
    BY <1>1 DEF LaterStep
  <2> QED
    BY <2>1, LaterWaits
<1>3. QED
  BY <1>2 DEF AllWaits

(* A step of one process, on its own stack. *)
LEMMA OneWaits ==
  ASSUME Inv, AllWaits, LaterStep, NEW p \in Processes, NEW s, stack' = [stack EXCEPT ![p] = s],
         \A q \in Processes : q # p => WaitOf(process'[q]) = WaitOf(process[q]),
         WaitInv(process'[p], s, Now),
         inhibit_scheduling' \/ (current_process' = p /\ s[Len(s)].kind \notin Yields)
  PROVE  AllWaits'
<1>1. stack'[p] = s /\ \A q \in Processes : q # p => stack'[q] = stack[q]
  BY DEF Inv, TypeOK
<1>2. ASSUME NEW q \in Processes
      PROVE  WaitInv(process'[q], stack'[q], Now)
  <2>1. CASE q = p
    BY <1>1, <2>1
  <2>2. CASE q # p
    <3>1. WaitInv(process[q], stack[q], Now)
      BY DEF AllWaits
    <3>2. WaitInv(process'[q], stack[q], Now)
      BY <2>2, <3>1, SameWaits
    <3>3. QED
      BY <1>1, <2>2, <3>2
  <2>3. QED
    BY <2>1, <2>2
<1>3. ~inhibit_scheduling' => Top(current_process)'.kind \notin Yields
  BY <1>1 DEF Top
<1>4. QED
  BY <1>2, <1>3, MovedWaits

-----------------------------------------------------------------------------
(* Code: pushes and pops.                                                    *)
LEMMA CodeWaits ==
  ASSUME Inv, AllWaits, NEW p \in Processes, Runs(p)
  PROVE  /\ p = current_process /\ ~inhibit_scheduling /\ process[p] \in Process
         /\ stack[p] \in Seq(Frame) /\ stack[p] # <<>> /\ StackShape(stack[p])
         /\ Len(stack[p]) \in Nat /\ Len(stack[p]) > 0
         /\ Top(p) = stack[p][Len(stack[p])] /\ Top(p) \in Frame /\ FrameShape(Top(p))
         /\ Top(p).kind \notin Yields
         /\ Top(p).kind # "function" => Len(stack[p]) > 1
         /\ Top(p).at = "run" => Top(p).kind # "wait"
         /\ WaitInv(process[p], stack[p], Now)
         /\ process \in [Processes -> Process]
<1>1. p = current_process /\ ~inhibit_scheduling
  BY DEF Runs
<1>2. Alive(p)
  BY <1>1, ExecutingFacts
<1>3. /\ stack[p] \in Seq(Frame) /\ stack[p] # <<>> /\ StackShape(stack[p])
      /\ Len(stack[p]) \in Nat /\ Len(stack[p]) > 0
      /\ Top(p) = stack[p][Len(stack[p])] /\ Top(p) \in Frame /\ FrameShape(Top(p))
      /\ process[p] \in Process
      /\ Top(p).kind # "function" => Len(stack[p]) > 1
  BY <1>2, TopFacts
<1>4. Top(p).at = "run" => Top(p).kind # "wait"
  BY <1>3 DEF FrameShape, Yields
<1>5. Top(p).kind \notin Yields /\ WaitInv(process[p], stack[p], Now)
  BY <1>1 DEF AllWaits
<1>6. QED
  BY <1>1, <1>3, <1>4, <1>5 DEF Inv, TypeOK

\* A call of process-yield, from code.
LEMMA CallYieldWaits ==
  ASSUME Inv, AllWaits, LaterStep, NEW p \in Processes, InCode(p),
         stack' = [stack EXCEPT ![p] = Append(@, YieldFrame)], inhibit_scheduling',
         \A q \in Processes : q # p => WaitOf(process'[q]) = WaitOf(process[q])
  PROVE  AllWaits'
<1>1. /\ stack[p] \in Seq(Frame) /\ stack[p] # <<>> /\ WaitInv(process[p], stack[p], Now)
      /\ stack[p][Len(stack[p])].kind \notin Yields /\ stack[p][Len(stack[p])].kind # "wait"
  BY CodeWaits DEF InCode
<1>2. YieldFrame \in Frame /\ YieldFrame.kind = "yield" /\ YieldFrame.at = "rotate"
  BY NewFrames
<1>3. WaitInv(process'[p], Append(stack[p], YieldFrame), Now)
  BY <1>1, <1>2, PushWaits
<1>4. QED
  BY <1>3, OneWaits

\* Code that stays where it is.
LEMMA StayWaits ==
  ASSUME Inv, AllWaits, LaterStep, UNCHANGED <<stack, inhibit_scheduling, current_process>>,
         \A q \in Processes : WaitOf(process'[q]) = WaitOf(process[q])
  PROVE  AllWaits'
<1>1. ASSUME NEW q \in Processes
      PROVE  WaitInv(process'[q], stack'[q], Now)
  BY SameWaits DEF AllWaits
<1>2. QED
  BY <1>1, MovedWaits DEF AllWaits, Top

LEMMA YieldWaits ==
  ASSUME Inv, AllWaits, LaterStep, NEW p \in Processes, Yield(p)
  PROVE  AllWaits'
BY CallYieldWaits DEF Yield, world

LEMMA SigalrmWaits ==
  ASSUME Inv, AllWaits, LaterStep, NEW p \in Processes, Sigalrm(p)
  PROVE  AllWaits'
<1> DEFINE f == NewFrame("sigalrm", "rotate")
<1>1. /\ Runs(p) /\ stack' = [stack EXCEPT ![p] = Append(@, f)]
      /\ inhibit_scheduling' = TRUE /\ UNCHANGED process
  BY DEF Sigalrm, world
<1>2. /\ stack[p] \in Seq(Frame) /\ stack[p] # <<>> /\ WaitInv(process[p], stack[p], Now)
      /\ stack[p][Len(stack[p])].kind \notin Yields
  BY <1>1, CodeWaits
<1>3. f \in Frame /\ f.kind \in Yields /\ f.kind # "wait" /\ f.at # "handling"
  BY NewFrames DEF NewFrame, Yields
<1> HIDE DEF f
<1>4. WaitInv(process[p], Append(stack[p], f), Now)
  <2> DEFINE s == stack[p]
             r == process[p]
             c == Now
  <2>1. s \in Seq(Frame) /\ s # <<>> /\ WaitInv(r, s, c) /\ s[Len(s)].kind \notin Yields
    BY <1>2
  <2> HIDE DEF s, r, c
  <2>2. WaitInv(r, Append(s, f), c)
    BY <1>3, <2>1, PushWaits
  <2>3. QED
    BY <2>2 DEF s, r, c
<1>5. QED
  BY <1>1, <1>4, OneWaits

LEMMA StartFunctionWaits ==
  ASSUME Inv, AllWaits, LaterStep, NEW p \in Processes, StartFunction(p)
  PROVE  AllWaits'
<1> DEFINE s == At(p, "run")
<1>1. /\ p = current_process /\ Top(p).at = "start" /\ stack' = [stack EXCEPT ![p] = s]
      /\ UNCHANGED <<process, current_process>>
  BY DEF StartFunction, world
<1>2. Alive(p)
  BY <1>1, ExecutingFacts
<1>3. /\ stack[p] \in Seq(Frame) /\ stack[p] # <<>> /\ StackShape(stack[p])
      /\ Len(stack[p]) \in 1..Len(stack[p]) /\ stack[p][Len(stack[p])].at = "start"
      /\ Top(p) = stack[p][Len(stack[p])]
  BY <1>1, <1>2, TopFacts
<1>4. Len(stack[p]) = 1 /\ stack[p][1].kind = "function"
  BY <1>3 DEF StackShape
<1>5. /\ DOMAIN s = 1..1 /\ Len(s) = 1 /\ s[1].kind = "function" /\ s # <<>>
      /\ s \in Seq(Frame)
  <2>1. stack[p][1] \in Frame
    BY <1>3, <1>4
  <2>2. [stack[p][1] EXCEPT !.at = "run"] \in Frame /\ [stack[p][1] EXCEPT !.at = "run"].kind = "function"
    BY <1>4, <2>1 DEF Frame
  <2>3. s = [stack[p] EXCEPT ![1] = [stack[p][1] EXCEPT !.at = "run"]]
    BY <1>4 DEF At
  <2>4. 1 \in 1..Len(stack[p])
    BY <1>4
  <2>5. s \in Seq(Frame) /\ Len(s) = Len(stack[p]) /\ s[1] = [stack[p][1] EXCEPT !.at = "run"]
    BY <1>3, <1>4, <2>2, <2>3, <2>4, ExceptSeq
  <2> HIDE DEF s
  <2>6. DOMAIN s = 1..1 /\ s # <<>>
    BY <1>4, <2>5
  <2>7. QED
    BY <1>4, <2>2, <2>5, <2>6
<1> HIDE DEF s
<1>6. WaitInv(process[p], s, Now)
  <2>1. Len(s) <= 1
    BY <1>5
  <2>2. QED
    BY <1>5, <2>1, NoWaits
<1>7. s[Len(s)].kind \notin Yields
  BY <1>5 DEF Yields
<1>8. QED
  BY <1>1, <1>6, <1>7, OneWaits

LEMMA SetFlagWaits ==
  ASSUME Inv, AllWaits, LaterStep, NEW p \in Processes, NEW f \in Flags, SetFlag(p, f)
  PROVE  AllWaits'
BY StayWaits DEF SetFlag

\* A call of process-wait by the program tests a flag, or nothing.
LEMMA CallFacts ==
  ASSUME NEW call \in WaitCalls
  PROVE  call[1] \in Tests /\ call[1] \in WaitFunctions /\ call[1].test # "killed"
<1>1. \A g \in Flags : FlagSet(g) \in WaitFunctions
  BY DEF FlagSet, WaitFunctions
<1>2. FlagSetP \in WaitFunctions /\ Never \in WaitFunctions
  BY DEF FlagSetP, Never, WaitFunctions
<1>3. \A x \in WaitCalls : x[1] = FlagSetP \/ x[1] = Never \/ \E g \in Flags : x[1] = FlagSet(g)
  BY DEF WaitCalls
<1>4. FlagSetP.test # "killed" /\ Never.test # "killed" /\ \A g \in Flags : FlagSet(g).test # "killed"
  BY DEF FlagSet, FlagSetP, Never
<1>5. QED
  BY <1>1, <1>2, <1>3, <1>4 DEF Tests

LEMMA CallWaitWaits ==
  ASSUME Inv, AllWaits, LaterStep, NEW p \in Processes, NEW call \in WaitCalls, NEW deadline \in Deadlines,
         CallWait(p, call[1], call[2], deadline)
  PROVE  AllWaits'
<1> DEFINE f == [NewFrame("wait", "set") EXCEPT !.fn = call[1], !.deadline = deadline]
           r == [process[p] EXCEPT !.wait_timeout = deadline, !.wait_function_args = call[2]]
<1>1. /\ InCode(p) /\ process' = [process EXCEPT ![p] = r]
      /\ stack' = [stack EXCEPT ![p] = Append(@, f)]
      /\ UNCHANGED current_process
  BY DEF CallWait, StartWait, world
<1>2. /\ process[p] \in Process /\ process[p].wait_function = NoFunction /\ p = current_process
      /\ process \in [Processes -> Process]
  BY <1>1, ExecutesFacts DEF Inv, TypeOK
<1>3. /\ stack[p] \in Seq(Frame) /\ stack[p] # <<>> /\ WaitInv(process[p], stack[p], Now)
      /\ stack[p][Len(stack[p])].kind \notin Yields /\ stack[p][Len(stack[p])].kind # "wait"
  BY <1>1, CodeWaits DEF InCode
<1>4. call[1] \in Tests /\ call[1] \in WaitFunctions /\ call[1].test # "killed"
  BY CallFacts
<1>5. deadline \in Timeouts
  BY ConstantsAssumption DEF Deadlines, Timeouts, Inv, TypeOK
<1>6. f \in Frame /\ f.kind = "wait" /\ f.at = "set" /\ f.fn = call[1] /\ f.deadline = deadline
  <2>1. NewFrame("wait", "set") \in Frame /\ NewFrame("wait", "set").kind = "wait"
        /\ NewFrame("wait", "set").at = "set"
    BY NewFrames DEF NewFrame
  <2> HIDE DEF NewFrame
  <2>2. QED
    BY <1>4, <1>5, <2>1 DEF Frame
<1>7. r.wait_function = NoFunction /\ r.wait_timeout = deadline
  BY <1>2 DEF Process
<1> HIDE DEF f, r
<1>8. WaitFrame(f, TRUE, WaitOf(r), Now)
  BY <1>4, <1>6, <1>7 DEF WaitFrame, WaitOf
<1>9. WaitInv(r, Append(stack[p], f), Now)
  <2>1. f.kind \notin Yields
    BY <1>6 DEF Yields
  <2>2. QED
    BY <1>3, <1>6, <1>8, <2>1, PushWaits
<1>10. process'[p] = r /\ \A q \in Processes : q # p => process'[q] = process[q]
  BY <1>1, <1>2
<1>11. Append(stack[p], f)[Len(Append(stack[p], f))].kind \notin Yields
  BY <1>3, <1>6, AppendProperties DEF Yields
<1>12. QED
  BY <1>1, <1>2, <1>9, <1>10, <1>11, OneWaits

LEMMA WaitSetFunctionWaits ==
  ASSUME Inv, AllWaits, LaterStep, NEW p \in Processes, WaitSetFunction(p)
  PROVE  AllWaits'
<1> DEFINE g == [Top(p) EXCEPT !.at = "yield"]
           r == [process[p] EXCEPT !.wait_function = Top(p).fn]
           s == At(p, "yield")
           n == Len(stack[p])
<1>1. /\ Runs(p) /\ Top(p).kind = "wait" /\ Top(p).at = "set"
      /\ process' = [process EXCEPT ![p] = r]
      /\ stack' = [stack EXCEPT ![p] = s]
      /\ UNCHANGED current_process
  BY DEF WaitSetFunction, InCall, world
<1>2. /\ stack[p] \in Seq(Frame) /\ stack[p] # <<>> /\ WaitInv(process[p], stack[p], Now)
      /\ Top(p) = stack[p][n] /\ Top(p) \in Frame /\ process[p] \in Process
      /\ process \in [Processes -> Process] /\ p = current_process
  BY <1>1, CodeWaits
<1>3. WaitFrame(Top(p), TRUE, WaitOf(process[p]), Now)
  BY <1>1, <1>2, TopWaits
<1>4. /\ Top(p).fn \in Tests /\ process[p].wait_timeout = Top(p).deadline
      /\ Top(p).fn.test = "killed" => Top(p).deadline = None
  BY <1>1, <1>3 DEF WaitFrame, WaitOf
<1>5. /\ g \in Frame /\ g.kind = "wait" /\ g.at = "yield" /\ g.fn = Top(p).fn
      /\ g.deadline = Top(p).deadline
  BY <1>1, <1>2 DEF Frame
<1>6. r.wait_function = Top(p).fn /\ r.wait_timeout = Top(p).deadline
  BY <1>2, <1>4 DEF Process
<1>7. WaitFrame(g, TRUE, WaitOf(r), Now)
  <2> HIDE DEF g, r
  <2>1. QED
    BY <1>4, <1>5, <1>6 DEF WaitFrame, WaitOf, Waiting
<1>8. s = [stack[p] EXCEPT ![n] = g]
  BY <1>2 DEF At
<1>9. n \in 1..n /\ \A i \in 1..(n - 1) : i \in 1..n /\ i # n
  BY <1>2, LenProperties, EmptySeq
<1> HIDE DEF s, g, r
<1>10. s \in Seq(Frame) /\ Len(s) = n /\ s[n] = g /\ \A i \in 1..(n - 1) : s[i] = stack[p][i]
  BY <1>2, <1>5, <1>8, <1>9, ExceptSeq
<1>11. WaitInv(r, s, Now)
  <2>1. g.kind \notin Yields /\ g.kind = stack[p][n].kind
    BY <1>1, <1>2, <1>5 DEF Yields
  <2>2. QED
    BY <1>2, <1>7, <1>10, <2>1, MoveWaits
<1>12. process'[p] = r /\ \A q \in Processes : q # p => process'[q] = process[q]
  BY <1>1, <1>2
<1>13. s[Len(s)].kind \notin Yields
  BY <1>5, <1>10 DEF Yields
<1>14. QED
  BY <1>1, <1>2, <1>11, <1>12, <1>13, OneWaits

\* The top of the stack, called at: the stack that At makes.
LEMMA AtStack ==
  ASSUME NEW p \in Processes, stack[p] \in Seq(Frame), stack[p] # <<>>, NEW a,
         [Top(p) EXCEPT !.at = a] \in Frame
  PROVE  /\ At(p, a) \in Seq(Frame) /\ Len(At(p, a)) = Len(stack[p]) /\ At(p, a) # <<>>
         /\ At(p, a)[Len(stack[p])] = [Top(p) EXCEPT !.at = a]
         /\ \A i \in 1..(Len(stack[p]) - 1) : At(p, a)[i] = stack[p][i]
<1> DEFINE g == [Top(p) EXCEPT !.at = a]
           n == Len(stack[p])
           s == At(p, a)
<1>1. s = [stack[p] EXCEPT ![n] = g]
  BY DEF At, Top
<1>2. n \in 1..n /\ \A i \in 1..(n - 1) : i \in 1..n /\ i # n
  BY LenProperties, EmptySeq
<1> HIDE DEF s, g
<1>3. s \in Seq(Frame) /\ Len(s) = n /\ s[n] = g /\ \A i \in 1..(n - 1) : s[i] = stack[p][i]
  BY <1>1, <1>2, ExceptSeq DEF g
<1>4. s # <<>>
  BY <1>2, <1>3, EmptySeq
<1>5. QED
  BY <1>3, <1>4 DEF s, g

\* A frame of code, moved to another place, calls f.
LEMMA AtCallWaits ==
  ASSUME Inv, AllWaits, NEW p \in Processes, Runs(p), NEW a,
         [Top(p) EXCEPT !.at = a] \in Frame,
         NEW f \in Frame, f.kind # "interrupt", f.kind \in Yields => f.at # "handling",
         NEW r,
         Top(p).kind = "wait" => f.kind \in Yields /\ WaitFrame([Top(p) EXCEPT !.at = a], FALSE, WaitOf(r), Now),
         f.kind = "wait" => WaitFrame(f, TRUE, WaitOf(r), Now)
  PROVE  /\ WaitInv(r, Append(At(p, a), f), Now)
         /\ Append(At(p, a), f)[Len(Append(At(p, a), f))] = f
<1> DEFINE g == [Top(p) EXCEPT !.at = a]
           n == Len(stack[p])
           s == At(p, a)
           t == Append(s, f)
<1>1. /\ stack[p] \in Seq(Frame) /\ stack[p] # <<>> /\ WaitInv(process[p], stack[p], Now)
      /\ Top(p) = stack[p][n] /\ Top(p) \in Frame /\ Top(p).kind \notin Yields
  BY CodeWaits
<1>2. s \in Seq(Frame) /\ Len(s) = n /\ s[n] = g /\ \A i \in 1..(n - 1) : s[i] = stack[p][i]
  BY <1>1, AtStack
<1>3. g.kind = stack[p][n].kind /\ g \in Frame
  BY <1>1 DEF Frame
<1>4. n \in 1..n /\ \A i \in 1..(n - 1) : i \in 1..n
  BY <1>1, LenProperties, EmptySeq
<1>5. g.kind = "wait" => f.kind \in Yields /\ WaitFrame(g, FALSE, WaitOf(r), Now)
  BY <1>1, <1>3
<1> HIDE DEF s, g
<1>6. /\ t \in Seq(Frame) /\ Len(t) = n + 1 /\ t[n + 1] = f
      /\ \A i \in 1..n : t[i] = s[i]
  BY <1>2, AppendProperties
<1>7. t[n] = g /\ \A i \in 1..(n - 1) : t[i] = stack[p][i]
  BY <1>2, <1>4, <1>6
<1> HIDE DEF t
<1>8. g.kind \notin Yields
  BY <1>1, <1>3
<1>9. WaitInv(r, t, Now)
  <2> DEFINE s0 == stack[p]
             r0 == process[p]
             c == Now
  <2>1. /\ s0 \in Seq(Frame) /\ WaitInv(r0, s0, c) /\ s0 # <<>> /\ Len(t) = Len(s0) + 1
        /\ t[Len(s0)] = g /\ g.kind = s0[Len(s0)].kind /\ t[Len(s0) + 1] = f
        /\ \A i \in 1..(Len(s0) - 1) : t[i] = s0[i]
    BY <1>1, <1>3, <1>6, <1>7
  <2>2. g.kind = "wait" => f.kind \in Yields /\ WaitFrame(g, FALSE, WaitOf(r), c)
    BY <1>5
  <2>3. f.kind = "wait" => WaitFrame(f, TRUE, WaitOf(r), c)
    OBVIOUS
  <2> HIDE DEF s0, r0, c
  <2>4. WaitInv(r, t, c)
    BY <1>3, <1>6, <1>8, <2>1, <2>2, <2>3, CallWaits
  <2>5. QED
    BY <2>4 DEF c
<1>10. QED
  BY <1>6, <1>9 DEF t, s

LEMMA WaitYieldWaits ==
  ASSUME Inv, AllWaits, LaterStep, NEW p \in Processes, WaitYield(p)
  PROVE  AllWaits'
<1> DEFINE g == [Top(p) EXCEPT !.at = "read"]
           t == Append(At(p, "read"), YieldFrame)
<1>1. /\ Runs(p) /\ Top(p).kind = "wait" /\ Top(p).at = "yield"
      /\ stack' = [stack EXCEPT ![p] = t] /\ inhibit_scheduling' = TRUE /\ UNCHANGED process
  BY DEF WaitYield, InCall, world
<1>2. /\ stack[p] \in Seq(Frame) /\ stack[p] # <<>> /\ WaitInv(process[p], stack[p], Now)
      /\ Top(p) = stack[p][Len(stack[p])] /\ Top(p) \in Frame
  BY <1>1, CodeWaits
<1>3. WaitFrame(Top(p), TRUE, WaitOf(process[p]), Now)
  BY <1>1, <1>2, TopWaits
<1>4. /\ g \in Frame /\ g.kind = "wait" /\ g.at = "read" /\ g.fn = Top(p).fn /\ g.deadline = Top(p).deadline
  BY <1>1, <1>2 DEF Frame
<1>5. WaitFrame(g, FALSE, WaitOf(process[p]), Now)
  <2> HIDE DEF g
  <2>1. QED
    BY <1>1, <1>3, <1>4 DEF WaitFrame, Waiting, Answered, Replied
<1>6. YieldFrame \in Frame /\ YieldFrame.kind = "yield" /\ YieldFrame.at = "rotate" /\ YieldFrame.kind \in Yields
  BY NewFrames DEF Yields
<1>7. WaitInv(process[p], t, Now)
  BY <1>1, <1>4, <1>5, <1>6, AtCallWaits
<1> HIDE DEF t
<1>8. QED
  BY <1>1, <1>7, OneWaits

LEMMA WaitReadWaits ==
  ASSUME Inv, AllWaits, LaterStep, NEW p \in Processes, WaitRead(p)
  PROVE  AllWaits'
<1> DEFINE s == stack[p]
           t == Below(p)
<1>1. /\ Runs(p) /\ Top(p).kind = "wait"
      /\ stack' = [stack EXCEPT ![p] = t] /\ UNCHANGED <<process, current_process>>
  BY DEF WaitRead, InCall, world
<1>2. /\ s \in Seq(Frame) /\ WaitInv(process[p], s, Now) /\ Len(s) > 1 /\ Len(s) \in Nat
      /\ s[Len(s)].kind = "wait" /\ p = current_process /\ StackShape(s)
  BY <1>1, CodeWaits
<1>3. s[Len(s)].kind \notin Yields
  BY <1>2 DEF Yields
<1>4. t = SubSeq(s, 1, Len(s) - 1)
  BY DEF Below
<1>5. WaitInv(process[p], t, Now) /\ s[Len(s) - 1].kind \notin Yields
  BY <1>2, <1>3, <1>4, PopWaits
<1>6. t[Len(t)] = s[Len(s) - 1]
  <2> DEFINE n == Len(s)
  <2>1. n - 1 \in 1..(n - 1)
    BY <1>2
  <2>2. Len(t) = n - 1 /\ \A i \in 1..(n - 1) : t[i] = s[i]
    BY <1>2, <1>4, PopShape
  <2> HIDE DEF s, t, n
  <2>3. QED
    BY <2>1, <2>2 DEF n
<1> HIDE DEF t, s
<1>7. QED
  BY <1>1, <1>2, <1>5, <1>6, OneWaits

LEMMA RestartWaitWaits ==
  ASSUME Inv, AllWaits, LaterStep, NEW p \in Processes, RestartWait(p)
  PROVE  AllWaits'
<1> DEFINE fn == Killed(Top(p).target)
           f == [NewFrame("wait", "set") EXCEPT !.fn = fn]
           r == [process[p] EXCEPT !.wait_timeout = None, !.wait_function_args = None]
           t == Append(At(p, "build"), f)
<1>1. /\ Runs(p) /\ Top(p).kind = "restart" /\ Top(p).at = "wait"
      /\ process' = [process EXCEPT ![p] = r]
      /\ stack' = [stack EXCEPT ![p] = t] /\ UNCHANGED current_process
  BY DEF RestartWait, StartWait, InCall, world
<1>2. /\ Top(p) = stack[p][Len(stack[p])] /\ Top(p) \in Frame /\ process[p] \in Process
      /\ FrameShape(Top(p)) /\ process \in [Processes -> Process] /\ p = current_process
  BY <1>1, CodeWaits
<1>3. Top(p).target \in Processes
  BY <1>1, <1>2 DEF FrameShape, Yields
<1>4. fn \in Tests /\ fn \in WaitFunctions
  BY <1>3 DEF Tests, Killed, WaitFunctions
<1>5. process[p].wait_function = NoFunction
  <2>1. WaitShape(process[p], stack[p])
    BY <1>2 DEF Inv, Shape
  <2>2. QED
    BY <1>1, <1>2, <2>1 DEF WaitShape, Yields
<1>6. f \in Frame /\ f.kind = "wait" /\ f.at = "set" /\ f.fn = fn /\ f.deadline = None
  <2>1. NewFrame("wait", "set") \in Frame /\ NewFrame("wait", "set").kind = "wait"
        /\ NewFrame("wait", "set").at = "set" /\ NewFrame("wait", "set").deadline = None
    BY NewFrames DEF NewFrame
  <2> HIDE DEF NewFrame
  <2>2. QED
    BY <1>4, <2>1 DEF Frame
<1>7. r.wait_function = NoFunction /\ r.wait_timeout = None
  BY <1>2, <1>5 DEF Process
<1>8. [Top(p) EXCEPT !.at = "build"] \in Frame
  BY <1>2 DEF Frame
<1> HIDE DEF fn, f, r
<1>9. WaitFrame(f, TRUE, WaitOf(r), Now)
  BY <1>4, <1>6, <1>7 DEF WaitFrame, WaitOf
<1>10. WaitInv(r, t, Now) /\ t[Len(t)] = f
  BY <1>1, <1>6, <1>8, <1>9, AtCallWaits DEF Yields
<1>11. process'[p] = r /\ \A q \in Processes : q # p => process'[q] = process[q]
  BY <1>1, <1>2
<1> HIDE DEF t
<1>12. t[Len(t)].kind \notin Yields
  BY <1>6, <1>10 DEF Yields
<1>13. QED
  BY <1>1, <1>2, <1>10, <1>11, <1>12, OneWaits

LEMMA InterruptThrowWaits ==
  ASSUME Inv, AllWaits, LaterStep, NEW p \in Processes, InterruptThrow(p)
  PROVE  AllWaits'
<1> DEFINE s == << stack[p][1] >>
<1>1. /\ Runs(p) /\ stack' = [stack EXCEPT ![p] = s] /\ UNCHANGED <<process, current_process>>
  BY DEF InterruptThrow, InCall, world
<1>2. /\ stack[p] \in Seq(Frame) /\ 1 \in 1..Len(stack[p]) /\ StackShape(stack[p]) /\ p = current_process
  BY <1>1, CodeWaits
<1>3. stack[p][1] \in Frame /\ stack[p][1].kind = "function"
  BY <1>2 DEF StackShape
<1>4. s \in Seq(Frame) /\ Len(s) = 1 /\ s[1].kind = "function" /\ Len(s) <= 1
  BY <1>3
<1> HIDE DEF s
<1>5. WaitInv(process[p], s, Now)
  BY <1>4, NoWaits
<1>6. s[Len(s)].kind \notin Yields
  BY <1>4 DEF Yields
<1>7. QED
  BY <1>1, <1>2, <1>5, <1>6, OneWaits

-----------------------------------------------------------------------------
(* The scheduler's loop. *)
LEMMA YieldingWaits ==
  ASSUME NEW s \in Seq(Frame), Len(s) > 1, NEW r, NEW c, WaitInv(r, s, c), s[Len(s)].kind \in Yields
  PROVE  /\ s[Len(s)].at # "handling"
         /\ s[Len(s) - 1].kind = "wait" => WaitFrame(s[Len(s) - 1], FALSE, WaitOf(r), c)
<1> DEFINE n == Len(s)
<1>1. n \in 1..n /\ ~(n < n) /\ n - 1 \in 1..n /\ n - 1 < n /\ n - 1 # n /\ (n - 1) + 1 = n
  BY LenProperties
<1> HIDE DEF n
<1>2. s[n].at # "handling"
  BY <1>1 DEF WaitInv, Nested, n
<1>3. ASSUME s[n - 1].kind = "wait"
      PROVE  WaitFrame(s[n - 1], FALSE, WaitOf(r), c)
  <2>1. WaitFrame(s[n - 1], n - 1 = n, Kept(r, s, n - 1), c)
    BY <1>1, <1>3 DEF WaitInv, n
  <2>2. Kept(r, s, n - 1) = WaitOf(r)
    BY <1>1, <1>2 DEF Kept
  <2>3. QED
    BY <1>1, <2>1, <2>2 DEF WaitFrame
<1>4. QED
  BY <1>2, <1>3 DEF n

LEMMA LoopWaits ==
  ASSUME Inv, AllWaits, NEW p \in Processes, NEW a, InLoop(p, a)
  PROVE  /\ p = current_process /\ inhibit_scheduling /\ process[p] \in Process
         /\ stack[p] \in Seq(Frame) /\ stack[p] # <<>> /\ StackShape(stack[p])
         /\ Len(stack[p]) \in Nat /\ Len(stack[p]) > 1
         /\ Top(p) = stack[p][Len(stack[p])] /\ Top(p) \in Frame
         /\ Top(p).kind \in Yields /\ Top(p).at = a
         /\ WaitInv(process[p], stack[p], Now)
         /\ process \in [Processes -> Process]
<1>1. /\ p = current_process /\ Alive(p) /\ Top(p).kind \in Yields /\ Top(p).at = a
      /\ process[p] \in Process /\ process \in [Processes -> Process]
  BY LoopFacts
<1>2. Top(p).kind # "function"
  BY <1>1 DEF Yields
<1>3. /\ stack[p] \in Seq(Frame) /\ stack[p] # <<>> /\ StackShape(stack[p])
      /\ Len(stack[p]) \in Nat /\ Len(stack[p]) > 1
      /\ Top(p) = stack[p][Len(stack[p])] /\ Top(p) \in Frame
  BY <1>1, <1>2, TopFacts
<1>4. inhibit_scheduling /\ WaitInv(process[p], stack[p], Now)
  BY DEF InLoop, AllWaits
<1>5. QED
  BY <1>1, <1>3, <1>4

\* The call of process-yield goes on to another place in the loop.
LEMMA MoveLoopWaits ==
  ASSUME Inv, AllWaits, NEW p \in Processes, NEW a, InLoop(p, a), NEW b \in {"rotate", "check"}
  PROVE  WaitInv(process[p], At(p, b), Now)
<1> DEFINE s == stack[p]
           r == process[p]
           c == Now
           g == [Top(p) EXCEPT !.at = b]
           t == At(p, b)
<1>1. /\ s \in Seq(Frame) /\ s # <<>> /\ Len(s) > 1 /\ WaitInv(r, s, c) /\ s[Len(s)].kind \in Yields
      /\ Top(p) = s[Len(s)] /\ Top(p) \in Frame
  BY LoopWaits
<1>2. g.kind = s[Len(s)].kind /\ g.at = b /\ g \in Frame
  BY <1>1, LoopFacts DEF Frame
<1>3. /\ t \in Seq(Frame) /\ Len(t) = Len(s) /\ t[Len(s)] = g
      /\ \A i \in 1..(Len(s) - 1) : t[i] = s[i]
  BY <1>1, <1>2, AtStack
<1> HIDE DEF s, r, c, g, t
<1>4. s[Len(s) - 1].kind = "wait" => WaitFrame(s[Len(s) - 1], FALSE, WaitOf(r), c)
  BY <1>1, YieldingWaits
<1>5. g.kind # "wait" /\ g.at # "handling"
  BY <1>1, <1>2 DEF Yields
<1>6. WaitInv(r, t, c)
  BY <1>1, <1>2, <1>3, <1>4, <1>5, MoveWaits
<1>7. QED
  BY <1>6 DEF r, t, c

LEMMA RotateWaits ==
  ASSUME Inv, AllWaits, LaterStep, NEW p \in Processes, Rotate(p) \/ Loop(p)
  PROVE  AllWaits'
<1>1. PICK a \in {"rotate", "check"}, b \in {"rotate", "check"} :
        /\ InLoop(p, a) /\ stack' = [stack EXCEPT ![p] = At(p, b)]
        /\ UNCHANGED <<process, inhibit_scheduling>>
  BY DEF Rotate, Loop, world
<1>2. WaitInv(process[p], At(p, b), Now) /\ inhibit_scheduling
  BY <1>1, MoveLoopWaits, LoopWaits
<1>3. QED
  BY <1>1, <1>2, OneWaits

\* What ends a wait answers it.
LEMMA ValueFacts ==
  ASSUME NEW q, NEW arg, Value(q, arg) # None
  PROVE  /\ Value(q, arg) = process[q].wait_function.arg \/ process[q].wait_function.test = "flag_p"
         /\ process[q].wait_function.test = "killed" => process[process[q].wait_function.arg].state = "killed"
<1>1. Value(q, arg) = process[q].wait_function.arg \/ process[q].wait_function.test = "flag_p"
  BY Zenon DEF Value
<1>2. ASSUME process[q].wait_function.test = "killed"
      PROVE  process[process[q].wait_function.arg].state = "killed"
  <2> DEFINE fn == process[q].wait_function
  <2>1. fn.test # "flag" /\ fn.test # "flag_p"
    BY <1>2
  <2>2. Value(q, arg) = IF process[fn.arg].state = "killed" THEN fn.arg ELSE None
    BY <1>2, <2>1, Zenon DEF Value
  <2>3. QED
    BY <2>2
<1>3. QED
  BY <1>1, <1>2

LEMMA WakingReplies ==
  ASSUME Inv, NEW q \in Processes, NEW arg \in Flags \union {None}, NEW r \in Wakings(q, arg),
         NEW f, f.fn \in Tests, f.fn.test = "killed" => f.deadline = None,
         Waiting(f, WaitOf(process[q]))
  PROVE  Replied(f, r.wait_return_value, Now)
<1>1. process[q] \in Process
  BY DEF Inv, TypeOK
<1>2. /\ f.fn = process[q].wait_function
      /\ f.deadline = process[q].wait_timeout
  BY DEF Waiting, WaitOf
<1>3. CASE Value(q, arg) # None
  <2> DEFINE v == Value(q, arg)
  <2>1. r = Flushed(q, v)
    BY <1>3 DEF Wakings
  <2>2. v = f.fn.arg \/ f.fn.test = "flag_p"
    BY <1>2, <1>3, ValueFacts
  <2>3. v # None
    BY <1>3
  <2>4. f.fn.test = "killed" => f.fn.arg \in Now.dead
    <3> SUFFICES ASSUME f.fn.test = "killed" PROVE f.fn.arg \in Now.dead
      OBVIOUS
    <3>1. process[f.fn.arg].state = "killed"
      BY <1>2, <1>3, ValueFacts
    <3>2. f.fn.arg \in Processes
      BY DEF Tests, FlagSet, FlagSetP, Never, Killed
    <3>3. QED
      BY <3>1, <3>2 DEF Now
  <2> HIDE DEF v
  <2>5. r.wait_return_value = v
    BY <1>1, <2>1 DEF Flushed, Process
  <2>6. QED
    BY <2>2, <2>3, <2>4, <2>5 DEF Replied
<1>4. CASE Value(q, arg) = None
  <2>1. r = Flushed(q, None) /\ process[q].wait_timeout # None /\ clock > process[q].wait_timeout
    BY <1>4 DEF Wakings
  <2>2. r.wait_return_value = None
    BY <1>1, <2>1 DEF Flushed, Process
  <2>3. f.fn.test # "killed" /\ Now.time = clock
    BY <1>2, <2>1 DEF Now
  <2>4. QED
    BY <1>2, <2>1, <2>2, <2>3 DEF Replied
<1>5. QED
  BY <1>3, <1>4

\* ... on the stack of the process that waits.
LEMMA WakeWaits ==
  ASSUME Inv, AllWaits, NEW q \in Processes, NEW arg \in Flags \union {None}, NEW r \in Wakings(q, arg),
         Waits(q)
  PROVE  WaitInv(r, stack[q], Now)
<1> DEFINE s == stack[q]
           r0 == process[q]
           c == Now
<1>1. s \in Seq(Frame) /\ WaitInv(r0, s, c) /\ r0.wait_function # NoFunction
  BY DEF Inv, TypeOK, AllWaits, Waits
<1>2. r.wait_function = NoFunction
  BY WakingFacts
<1>3. \A f \in Frame :
        f.fn \in Tests /\ (f.fn.test = "killed" => f.deadline = None) /\ Waiting(f, WaitOf(r0))
          => Replied(f, r.wait_return_value, c)
  BY WakingReplies
<1> HIDE DEF s, r0, c
<1>4. WaitInv(r, s, c)
  BY <1>1, <1>2, <1>3, FlushWaits
<1>5. QED
  BY <1>4 DEF s, c

LEMMA ResumeWaits ==
  ASSUME Inv, AllWaits, LaterStep, NEW p \in Processes, Resume(p)
  PROVE  AllWaits'
<1> DEFINE next == Head(Rotated)
<1>1. /\ InLoop(p, "rotate") /\ next # p
      /\ stack' = [stack EXCEPT ![p] = At(p, "check")]
      /\ UNCHANGED inhibit_scheduling
  BY DEF Resume, world
<1>2. PICK r \in Resumptions(next) : process' = [process EXCEPT ![next] = r]
  BY DEF Resume
<1>3. next \in Processes
  BY RotatedFacts
<1> HIDE DEF next
<1>4. /\ inhibit_scheduling /\ process \in [Processes -> Process] /\ stack \in [Processes -> Seq(Frame)]
      /\ WaitInv(process[p], At(p, "check"), Now)
  BY <1>1, LoopWaits, MoveLoopWaits DEF Inv, TypeOK
<1>5. WaitInv(r, stack[next], Now)
  <2>1. process[next].wait_function_args \in Flags \union {None}
    BY <1>3, <1>4 DEF Process
  <2>2. WaitInv(process[next], stack[next], Now)
    BY <1>3 DEF AllWaits
  <2>3. r = process[next] \/ (Waits(next) /\ r \in Wakings(next, process[next].wait_function_args))
    BY DEF Resumptions
  <2>4. QED
    BY <1>3, <2>1, <2>2, <2>3, WakeWaits
<1>6. ASSUME NEW q \in Processes
      PROVE  WaitInv(process'[q], stack'[q], Now)
  <2>1. CASE q = p
    BY <1>1, <1>2, <1>3, <1>4, <2>1
  <2>2. CASE q = next
    BY <1>1, <1>2, <1>3, <1>4, <1>5, <2>2
  <2>3. CASE q # p /\ q # next
    BY <1>1, <1>2, <1>3, <1>4, <2>3 DEF AllWaits
  <2>4. QED
    BY <2>1, <2>2, <2>3
<1>7. QED
  BY <1>1, <1>4, <1>6, MovedWaits

LEMMA ReturnLoopWaits ==
  ASSUME Inv, AllWaits, LaterStep, NEW p \in Processes, Return(p)
  PROVE  AllWaits'
<1> DEFINE s == stack[p]
           c == Now
           t == Below(p)
<1>1. /\ InLoop(p, "check") /\ stack' = [stack EXCEPT ![p] = t]
      /\ UNCHANGED current_process
  BY DEF Return, world
<1>2. PICK r \in Returns(p) : process' = [process EXCEPT ![p] = r]
  BY DEF Return
<1>3. /\ s \in Seq(Frame) /\ Len(s) > 1 /\ Len(s) \in Nat /\ s[Len(s)].kind \in Yields
      /\ p = current_process /\ process \in [Processes -> Process] /\ StackShape(s)
      /\ WaitInv(process[p], s, c)
  BY <1>1, LoopWaits
<1>4. WaitInv(r, s, c) /\ r.wait_function = NoFunction
  <2>1. CASE Waits(p)
    <3>1. r \in Wakings(p, None)
      BY <2>1 DEF Returns
    <3>2. QED
      BY <2>1, <3>1, WakeWaits, WakingFacts
  <2>2. CASE ~Waits(p)
    BY <1>3, <2>2 DEF Returns, Waits
  <2>3. QED
    BY <2>1, <2>2
<1>5. t = SubSeq(s, 1, Len(s) - 1)
  BY DEF Below
<1>6. t[Len(t)] = s[Len(s) - 1]
  <2> DEFINE n == Len(s)
  <2>1. n - 1 \in 1..(n - 1)
    BY <1>3
  <2>2. Len(t) = n - 1 /\ \A i \in 1..(n - 1) : t[i] = s[i]
    BY <1>3, <1>5, PopShape
  <2> HIDE DEF s, t, n
  <2>3. QED
    BY <2>1, <2>2 DEF n
<1> HIDE DEF s, t, c
\* The call has its answer, where its wait was.
<1>7. s[Len(s) - 1].kind = "wait" => WaitFrame(s[Len(s) - 1], TRUE, WaitOf(r), c)
  <2> SUFFICES ASSUME s[Len(s) - 1].kind = "wait"
               PROVE  WaitFrame(s[Len(s) - 1], TRUE, WaitOf(r), c)
    OBVIOUS
  <2> DEFINE f == s[Len(s) - 1]
  <2>1. WaitFrame(f, FALSE, WaitOf(r), c)
    BY <1>3, <1>4, YieldingWaits
  <2>2. f.fn \in Tests /\ WaitOf(r).wait_function = NoFunction
    BY <1>4, <2>1 DEF WaitFrame, WaitOf
  <2> HIDE DEF f
  <2>3. ~Waiting(f, WaitOf(r))
    BY <2>2, TestsTest DEF Waiting
  <2>4. QED
    BY <2>1, <2>3 DEF WaitFrame, f
<1>8. WaitInv(r, t, c) /\ s[Len(s) - 1].kind \notin Yields
  BY <1>3, <1>4, <1>5, <1>7, PopWaits DEF Yields
<1>9. process'[p] = r /\ \A q \in Processes : q # p => process'[q] = process[q]
  BY <1>2, <1>3
<1>10. QED
  BY <1>1, <1>3, <1>6, <1>8, <1>9, OneWaits DEF c

LEMMA RunInterruptWaits ==
  ASSUME Inv, AllWaits, LaterStep, NEW p \in Processes, RunInterrupt(p)
  PROVE  AllWaits'
<1> DEFINE saved == WaitOf(process[p])
           g == [[Top(p) EXCEPT !.at = "handling"] EXCEPT !.saved = saved]
           u == [At(p, "handling") EXCEPT ![Len(stack[p])] = g]
           f == NewFrame("interrupt", Head(process[p].interrupts))
           t == Append(u, f)
           r == [process[p] EXCEPT !.interrupts = Tail(@), !.wait_function = NoFunction,
                                   !.wait_timeout = None, !.wait_return_value = None]
<1>1. /\ InLoop(p, "check") /\ process[p].interrupts # <<>>
      /\ process' = [process EXCEPT ![p] = r]
      /\ stack' = [stack EXCEPT ![p] =
           Append([At(p, "handling") EXCEPT ![Len(stack[p])].saved = saved], f)]
      /\ UNCHANGED current_process
  BY DEF RunInterrupt, WaitOf, world
<1>2. /\ stack[p] \in Seq(Frame) /\ stack[p] # <<>> /\ Len(stack[p]) > 1
      /\ WaitInv(process[p], stack[p], Now) /\ Top(p) = stack[p][Len(stack[p])]
      /\ Top(p).kind \in Yields /\ Top(p) \in Frame
      /\ p = current_process /\ process \in [Processes -> Process] /\ process[p] \in Process
  BY <1>1, LoopWaits
<1>3. [Top(p) EXCEPT !.at = "handling"] \in Frame
  BY <1>1, LoopFacts
<1>4. saved \in Saved
  BY <1>2 DEF WaitOf, Saved, Process
<1>5. g \in Frame /\ g.kind = Top(p).kind /\ g.at = "handling" /\ g.saved = saved
  BY <1>2, <1>4 DEF Frame
<1>6. /\ At(p, "handling") \in Seq(Frame) /\ Len(At(p, "handling")) = Len(stack[p])
      /\ At(p, "handling")[Len(stack[p])] = [Top(p) EXCEPT !.at = "handling"]
      /\ \A i \in 1..(Len(stack[p]) - 1) : At(p, "handling")[i] = stack[p][i]
  BY <1>2, <1>3, AtStack
<1>7. [At(p, "handling") EXCEPT ![Len(stack[p])].saved = saved] = u
  BY <1>6
<1>8. Len(stack[p]) \in 1..Len(stack[p]) /\ \A i \in 1..(Len(stack[p]) - 1) : i \in 1..Len(stack[p]) /\ i # Len(stack[p])
  BY <1>2, LenProperties, EmptySeq
<1> HIDE DEF g, saved
<1>9. /\ u \in Seq(Frame) /\ Len(u) = Len(stack[p]) /\ u[Len(stack[p])] = g
      /\ \A i \in 1..(Len(stack[p]) - 1) : u[i] = stack[p][i]
  BY <1>5, <1>6, <1>8, ExceptSeq
<1>10. f \in Frame /\ f.kind = "interrupt"
  <2>1. process[p].interrupts \in Seq(Interrupt) /\ process[p].interrupts # <<>>
    BY <1>1, <1>2 DEF Process
  <2>2. Head(process[p].interrupts) \in {"run", "throw"}
    BY <2>1, HeadTailProperties DEF Interrupt
  <2>3. QED
    BY <2>2, NewFrames DEF NewFrame
<1>11. stack' = [stack EXCEPT ![p] = t]
  BY <1>1, <1>7
<1> HIDE DEF u, f
<1>12. /\ t \in Seq(Frame) /\ Len(t) = Len(stack[p]) + 1 /\ t[Len(stack[p]) + 1] = f
       /\ \A i \in 1..Len(stack[p]) : t[i] = u[i]
  BY <1>9, <1>10, AppendProperties
<1>13. t[Len(stack[p])] = g /\ \A i \in 1..(Len(stack[p]) - 1) : t[i] = stack[p][i]
  BY <1>8, <1>9, <1>12
<1> HIDE DEF t, r
<1>14. WaitInv(r, t, Now)
  <2> DEFINE s0 == stack[p]
             r0 == process[p]
             c == Now
  <2>1. /\ s0 \in Seq(Frame) /\ WaitInv(r0, s0, c) /\ s0 # <<>> /\ Len(s0) > 1 /\ Len(t) = Len(s0) + 1
        /\ t[Len(s0)] = g /\ g.kind = s0[Len(s0)].kind /\ t[Len(s0) + 1] = f
        /\ \A i \in 1..(Len(s0) - 1) : t[i] = s0[i]
        /\ s0[Len(s0)].kind \in Yields /\ g.saved = WaitOf(r0)
    BY <1>2, <1>5, <1>12, <1>13 DEF saved
  <2> HIDE DEF s0, r0, c
  <2>2. s0[Len(s0)].at # "handling"
    BY <2>1, YieldingWaits
  <2>3. g.kind # "wait" /\ f.kind \notin Yields /\ f.kind # "wait"
    BY <1>10, <2>1 DEF Yields
  <2>4. /\ t \in Seq(Frame) /\ WaitInv(r0, s0, c) /\ s0 # <<>> /\ Len(t) = Len(s0) + 1
        /\ \A i \in 1..(Len(s0) - 1) : t[i] = s0[i]
        /\ t[Len(s0)] = g /\ g.kind = s0[Len(s0)].kind /\ t[Len(s0) + 1] = f
        /\ g.kind \in Yields => /\ g.at = "handling" /\ g.saved = WaitOf(r0)
                                /\ s0[Len(s0)].at # "handling" /\ f.kind = "interrupt"
    BY <1>5, <1>10, <1>12, <2>1, <2>2
  <2>5. /\ g.kind = "wait" => f.kind \in Yields /\ WaitFrame(g, FALSE, WaitOf(r), c)
        /\ f.kind \in Yields => f.at # "handling"
        /\ f.kind = "wait" => WaitFrame(f, TRUE, WaitOf(r), c)
    BY <2>3
  <2>6. WaitInv(r, t, c)
    BY <2>1, <2>4, <2>5, CallWaits
  <2>7. QED
    BY <2>6 DEF c
<1>15. t[Len(t)].kind \notin Yields
  BY <1>10, <1>12 DEF Yields
<1>16. process'[p] = r /\ \A q \in Processes : q # p => process'[q] = process[q]
  BY <1>1, <1>2
<1>17. QED
  BY <1>1, <1>2, <1>11, <1>14, <1>15, <1>16, OneWaits

LEMMA InterruptReturnWaits ==
  ASSUME Inv, AllWaits, LaterStep, NEW p \in Processes, InterruptReturn(p)
  PROVE  AllWaits'
<1> DEFINE b == Below(p)
           top == b[Len(b)]
           g == [[top EXCEPT !.at = "rotate"] EXCEPT !.saved = NothingSaved]
           t == [b EXCEPT ![Len(b)] = g]
           r == [process[p] EXCEPT !.wait_function = top.saved.wait_function,
                                   !.wait_timeout = top.saved.wait_timeout,
                                   !.wait_return_value = top.saved.wait_return_value]
<1>1. /\ Runs(p) /\ Top(p).kind = "interrupt"
      /\ process' = [process EXCEPT ![p] = r]
      /\ stack' = [stack EXCEPT ![p] =
           [b EXCEPT ![Len(b)].at = "rotate", ![Len(b)].saved = NothingSaved]]
      /\ inhibit_scheduling' = TRUE
  BY DEF InterruptReturn, InCall, world
<1>2. /\ stack[p] \in Seq(Frame) /\ StackShape(stack[p]) /\ WaitInv(process[p], stack[p], Now)
      /\ Top(p) = stack[p][Len(stack[p])] /\ Len(stack[p]) \in Nat /\ Len(stack[p]) > 1
      /\ process[p] \in Process /\ process \in [Processes -> Process]
  BY <1>1, CodeWaits
<1>3. /\ b \in Seq(Frame) /\ b # <<>> /\ Len(b) = Len(stack[p]) - 1
      /\ \A i \in 1..(Len(stack[p]) - 1) : b[i] = stack[p][i]
  BY <1>2, PopShape DEF Below
<1> HIDE DEF b
<1>4. /\ Len(b) \in 1..Len(b) /\ Len(b) \in 1..(Len(stack[p]) - 1) /\ Len(stack[p]) \in 1..Len(stack[p])
      /\ \A i \in 1..(Len(b) - 1) : i \in 1..Len(b) /\ i # Len(b) /\ i \in 1..(Len(stack[p]) - 1)
  BY <1>2, <1>3
<1>5. top \in Frame /\ top.kind \in Yields /\ top = stack[p][Len(stack[p]) - 1]
  <2>1. top = stack[p][Len(stack[p]) - 1] /\ top \in Frame
    BY <1>3, <1>4, ElementOfSeq
  <2>2. stack[p][Len(stack[p])].kind = "interrupt"
    BY <1>1, <1>2
  <2>3. stack[p][Len(stack[p]) - 1].kind \in Yields
    BY <1>2, <1>4, <2>2 DEF StackShape
  <2>4. QED
    BY <2>1, <2>3
<1>6. g \in Frame /\ g.kind = top.kind /\ g.at = "rotate"
  BY <1>5, NewFrames DEF Frame
<1>7. [b EXCEPT ![Len(b)].at = "rotate", ![Len(b)].saved = NothingSaved] = t
  BY <1>3, <1>4
<1>8. WaitOf(r) = top.saved
  BY <1>2, <1>5 DEF WaitOf, Process, Frame, Saved
<1>9. stack' = [stack EXCEPT ![p] = t]
  BY <1>1, <1>7
<1> HIDE DEF g, r
<1>10. /\ t \in Seq(Frame) /\ Len(t) = Len(b) /\ t[Len(b)] = g
       /\ \A i \in 1..(Len(b) - 1) : t[i] = b[i]
  BY <1>3, <1>4, <1>6, ExceptSeq
<1>11. \A i \in 1..(Len(b) - 1) : t[i] = stack[p][i]
  BY <1>3, <1>4, <1>10
<1> HIDE DEF t
<1>12. WaitInv(r, t, Now)
  <2> DEFINE s0 == stack[p]
             r0 == process[p]
             c == Now
  <2>1. /\ s0 \in Seq(Frame) /\ WaitInv(r0, s0, c) /\ Len(s0) > 1 /\ Len(t) = Len(s0) - 1
        /\ t[Len(t)] = g /\ s0[Len(t)] = top
        /\ \A i \in 1..(Len(t) - 1) : t[i] = s0[i]
    BY <1>2, <1>3, <1>5, <1>10, <1>11
  <2>2. g.kind = s0[Len(t)].kind /\ g.at # "handling" /\ s0[Len(t)].saved = WaitOf(r)
    BY <1>6, <1>8, <2>1
  <2>3. g.kind # "wait"
    BY <1>5, <1>6 DEF Yields
  <2> HIDE DEF s0, r0, c
  <2>4. WaitInv(r, t, c)
    BY <1>10, <2>1, <2>2, <2>3, ReturnWaits
  <2>5. QED
    BY <2>4 DEF c
<1>13. process'[p] = r /\ \A q \in Processes : q # p => process'[q] = process[q]
  BY <1>1, <1>2
<1>14. QED
  BY <1>1, <1>9, <1>12, <1>13, OneWaits

-----------------------------------------------------------------------------
(* Operations on processes, and their lives. *)
LEMMA SendThrowWaits ==
  ASSUME Inv, NEW q \in Processes, SendThrow(q)
  PROVE  \A x \in Processes : WaitOf(process'[x]) = WaitOf(process[x])
<1>1. process \in [Processes -> Process] /\ process[q] \in Process
  BY DEF Inv, TypeOK
<1>2. CASE process[q].state = "killed"
  BY <1>2 DEF SendThrow
<1>3. CASE process[q].state # "killed"
  <2> DEFINE r == [process[q] EXCEPT !.interrupts = << "throw" >> \o @, !.state = "active",
                                     !.arrest_reasons = {}, !.run_reasons = @ \union {"destroyed"}]
  <2>1. process' = [process EXCEPT ![q] = r]
    BY <1>1, <1>3 DEF SendThrow
  <2>2. WaitOf(r) = WaitOf(process[q])
    BY <1>1 DEF WaitOf, Process
  <2> HIDE DEF r
  <2>3. QED
    BY <1>1, <2>1, <2>2
<1>4. QED
  BY <1>2, <1>3

LEMMA SendWaits ==
  ASSUME Inv, AllWaits, LaterStep, NEW p \in Processes, NEW q \in Processes,
         ProcessInterrupt(p, q) \/ DestroyProcess(p, q)
  PROVE  AllWaits'
<1>1. /\ InCode(p)
      /\ stack' = [stack EXCEPT ![p] = Append(@, YieldFrame)] /\ inhibit_scheduling' = TRUE
  BY DEF ProcessInterrupt, DestroyProcess, Operates
<1>2. \A x \in Processes : WaitOf(process'[x]) = WaitOf(process[x])
  <2>1. CASE ProcessInterrupt(p, q)
    <3> DEFINE r == [process[q] EXCEPT !.interrupts = << "run" >> \o @]
    <3>1. process \in [Processes -> Process] /\ process[q] \in Process
      BY DEF Inv, TypeOK
    <3>2. process' = [process EXCEPT ![q] = r]
      BY <2>1, <3>1 DEF ProcessInterrupt
    <3>3. WaitOf(r) = WaitOf(process[q])
      BY <3>1 DEF WaitOf, Process
    <3> HIDE DEF r
    <3>4. QED
      BY <3>1, <3>2, <3>3
  <2>2. CASE DestroyProcess(p, q)
    BY <2>2, SendThrowWaits DEF DestroyProcess
  <2>3. QED
    BY <2>1, <2>2
<1>3. QED
  BY <1>1, <1>2, CallYieldWaits

LEMMA RestartProcessWaits ==
  ASSUME Inv, AllWaits, LaterStep, NEW p \in Processes, NEW q \in Processes, RestartProcess(p, q)
  PROVE  AllWaits'
<1> DEFINE f == [NewFrame("restart", "wait") EXCEPT !.target = q]
           t == Append(stack[p], f)
           s == Append(t, YieldFrame)
<1>1. /\ InCode(p) /\ SendThrow(q)
      /\ stack' = [stack EXCEPT ![p] = @ \o << f, YieldFrame >>]
      /\ inhibit_scheduling' = TRUE
  BY DEF RestartProcess, Operates
<1>2. \A x \in Processes : WaitOf(process'[x]) = WaitOf(process[x])
  BY <1>1, SendThrowWaits
<1>3. /\ stack[p] \in Seq(Frame) /\ stack[p] # <<>> /\ WaitInv(process[p], stack[p], Now)
      /\ stack[p][Len(stack[p])].kind \notin Yields /\ stack[p][Len(stack[p])].kind # "wait"
  BY <1>1, CodeWaits DEF InCode
<1>4. f \in Frame /\ f.kind = "restart" /\ f.at = "wait"
  <2>1. /\ NewFrame("restart", "wait") \in Frame
        /\ NewFrame("restart", "wait").kind = "restart" /\ NewFrame("restart", "wait").at = "wait"
    BY NewFrames DEF NewFrame
  <2> HIDE DEF NewFrame
  <2>2. QED
    BY <2>1 DEF Frame
<1> HIDE DEF f
<1>5. YieldFrame \in Frame /\ YieldFrame.kind \in Yields /\ YieldFrame.kind # "wait" /\ YieldFrame.at # "handling"
  BY NewFrames DEF Yields
<1>6. WaitInv(process[p], t, Now)
  <2>1. f.kind \notin Yields /\ f.kind # "wait"
    BY <1>4 DEF Yields
  <2>2. QED
    BY <1>3, <1>4, <2>1, PushWaits
<1>7. /\ t \in Seq(Frame) /\ t # <<>> /\ t[Len(t)] = f
      /\ s = stack[p] \o << f, YieldFrame >>
  BY <1>3, <1>4, <1>5
<1> HIDE DEF t
<1>8. WaitInv(process'[p], s, Now)
  <2>1. t[Len(t)].kind \notin Yields /\ t[Len(t)].kind # "wait"
    BY <1>4, <1>7 DEF Yields
  <2>2. QED
    BY <1>5, <1>6, <1>7, <2>1, PushWaits
<1>9. stack' = [stack EXCEPT ![p] = s]
  BY <1>1, <1>7
<1> HIDE DEF s
<1>10. QED
  BY <1>1, <1>2, <1>8, <1>9, OneWaits

\* A change of the process structure outside its wait, possibly followed by process-yield.
LEMMA YieldIfWaits ==
  ASSUME Inv, AllWaits, LaterStep, NEW p \in Processes, NEW q \in Processes, NEW r, NEW stops \in BOOLEAN,
         InCode(p), process' = [process EXCEPT ![q] = r], WaitOf(r) = WaitOf(process[q]),
         YieldIf(p, stops)
  PROVE  AllWaits'
<1>1. \A x \in Processes : WaitOf(process'[x]) = WaitOf(process[x])
  BY DEF Inv, TypeOK
<1>2. CASE stops
  BY <1>1, <1>2, CallYieldWaits DEF YieldIf
<1>3. CASE ~stops
  <2>1. UNCHANGED <<stack, current_process>> /\ inhibit_scheduling' = FALSE /\ inhibit_scheduling = FALSE
    BY <1>3 DEF YieldIf, InCode, Runs, Inv, TypeOK
  <2>2. QED
    BY <1>1, <2>1, StayWaits
<1>4. QED
  BY <1>2, <1>3

LEMMA ReasonsWaits ==
  ASSUME Inv, AllWaits, LaterStep, NEW p \in Processes, NEW q \in Processes,
         \/ SetState(p, q, "active") \/ SetState(p, q, "inactive")
         \/ AddArrestReason(p, q) \/ RevokeArrestReason(p, q)
         \/ AddRunReason(p, q) \/ RevokeRunReason(p, q)
  PROVE  AllWaits'
<1>1. InCode(p)
  BY DEF SetState, AddArrestReason, RevokeArrestReason, AddRunReason, RevokeRunReason, Operates
<1>2. process \in [Processes -> Process] /\ process[q] \in Process /\ inhibit_scheduling = FALSE
  BY <1>1 DEF Inv, TypeOK, InCode, Runs
<1>3. CASE \E state \in {"active", "inactive"} : SetState(p, q, state)
  <2>1. PICK state \in {"active", "inactive"} : SetState(p, q, state)
    BY <1>3
  <2> DEFINE r == [process[q] EXCEPT !.state = state]
  <2>2. WaitOf(r) = WaitOf(process[q])
    BY <1>2 DEF Process, WaitOf
  <2>3. process' = [process EXCEPT ![q] = r] /\ YieldIf(p, FALSE)
    BY <1>2, <2>1 DEF SetState, YieldIf
  <2> HIDE DEF r
  <2>4. QED
    BY <1>1, <2>2, <2>3, YieldIfWaits
<1>4. CASE AddArrestReason(p, q) \/ RevokeArrestReason(p, q)
  <2>1. PICK a \in SUBSET {"arrest"}, stops \in BOOLEAN :
          process' = [process EXCEPT ![q].arrest_reasons = a] /\ YieldIf(p, stops)
    BY <1>4 DEF AddArrestReason, RevokeArrestReason
  <2> DEFINE r == [process[q] EXCEPT !.arrest_reasons = a]
  <2>2. WaitOf(r) = WaitOf(process[q])
    BY <1>2 DEF Process, WaitOf
  <2>3. process' = [process EXCEPT ![q] = r]
    BY <1>2, <2>1
  <2> HIDE DEF r
  <2>4. QED
    BY <1>1, <2>1, <2>2, <2>3, YieldIfWaits
<1>5. CASE AddRunReason(p, q) \/ RevokeRunReason(p, q)
  <2>1. PICK a \in SUBSET RunReasons, stops \in BOOLEAN :
          process' = [process EXCEPT ![q].run_reasons = a] /\ YieldIf(p, stops)
    <3>1. /\ process[q].run_reasons \union {"enable"} \in SUBSET RunReasons
          /\ process[q].run_reasons \ {"enable"} \in SUBSET RunReasons
      BY <1>2 DEF Process, RunReasons
    <3>2. CASE AddRunReason(p, q)
      BY <1>2, <3>1, <3>2 DEF AddRunReason
    <3>3. CASE RevokeRunReason(p, q)
      BY <1>2, <3>1, <3>3 DEF RevokeRunReason
    <3>4. QED
      BY <1>5, <3>2, <3>3
  <2> DEFINE r == [process[q] EXCEPT !.run_reasons = a]
  <2>2. WaitOf(r) = WaitOf(process[q])
    BY <1>2 DEF Process, WaitOf
  <2>3. process' = [process EXCEPT ![q] = r]
    BY <1>2, <2>1
  <2> HIDE DEF r
  <2>4. QED
    BY <1>1, <2>1, <2>2, <2>3, YieldIfWaits
<1>6. QED
  BY <1>3, <1>4, <1>5

\* A process that gets a new stack.
LEMMA BirthWaits ==
  ASSUME NEW q \in Processes, NEW r, NEW old, old \in [Processes -> Seq(Frame)],
         process \in [Processes -> Process],
         \A x \in Processes \ {q} : WaitInv(process[x], old[x], Now'),
         current_process \in Processes,
         ~inhibit_scheduling => old[current_process][Len(old[current_process])].kind \notin Yields,
         process' = [process EXCEPT ![q] = r],
         stack' = [old EXCEPT ![q] = << NewFrame("function", "start") >>],
         UNCHANGED <<inhibit_scheduling, current_process>>
  PROVE  AllWaits'
<1> DEFINE f == NewFrame("function", "start")
           s == << f >>
<1>1. f \in Frame /\ f.kind = "function"
  BY NewFrames DEF NewFrame
<1> HIDE DEF f
<1>2. s \in Seq(Frame) /\ Len(s) = 1 /\ s[1].kind = "function" /\ Len(s) <= 1
  BY <1>1
<1>3. /\ stack'[q] = s /\ process'[q] = r
      /\ \A x \in Processes : x # q => stack'[x] = old[x] /\ process'[x] = process[x]
  BY DEF f
<1> HIDE DEF s
<1>4. WaitInv(r, s, Now') /\ s[Len(s)].kind \notin Yields
  BY <1>2, NoWaits DEF Yields
<1>5. ASSUME NEW x \in Processes
      PROVE  WaitInv(process'[x], stack'[x], Now')
  <2>1. CASE x = q
    BY <1>3, <1>4, <2>1
  <2>2. CASE x # q
    BY <1>3, <2>2
  <2>3. QED
    BY <2>1, <2>2
<1>6. ~inhibit_scheduling' => Top(current_process)'.kind \notin Yields
  BY <1>3, <1>4 DEF Top
<1>7. QED
  BY <1>5, <1>6 DEF AllWaits

LEMMA MakeProcessWaits ==
  ASSUME Inv, AllWaits, LaterStep, NEW p \in Processes, NEW q \in Processes, MakeProcess(p, q)
  PROVE  AllWaits'
<1>1. /\ process' = [process EXCEPT ![q] = Fresh("active", {"enable"})]
      /\ stack' = [stack EXCEPT ![q] = << NewFrame("function", "start") >>]
      /\ UNCHANGED <<inhibit_scheduling, current_process>>
  BY DEF MakeProcess, world
<1>2. \A x \in Processes : WaitInv(process[x], stack[x], Now')
  BY LaterWaits DEF AllWaits, LaterStep, Inv, TypeOK
<1>3. QED
  BY <1>1, <1>2, BirthWaits DEF AllWaits, Inv, TypeOK, Top

\* Whoever builds a process anew is on top of the only call of restart-process.
LEMMA RestartBuildFacts ==
  ASSUME Inv, AllRestarts, SoleRestarter, NEW p \in Processes, RestartBuild(p)
  PROVE  /\ Len(stack[p]) = 2 /\ stack[p][2] = Top(p) /\ Top(p).target \in Now.dead
         /\ \A x \in Processes : \A i \in 1..Len(stack[x]) :
              /\ ~KilledWait(stack[x][i])
              /\ stack[x][i].kind = "restart" => x = p /\ i = 2
<1>1. Runs(p) /\ Top(p).kind = "restart" /\ Top(p).at = "build"
  BY DEF RestartBuild, InCall
<1>2. /\ stack[p] \in Seq(Frame) /\ Len(stack[p]) \in Nat /\ Len(stack[p]) > 0
      /\ Top(p) = stack[p][Len(stack[p])] /\ FrameShape(Top(p))
  <2>1. Alive(p)
    BY <1>1, ExecutingFacts DEF Runs
  <2>2. QED
    BY <2>1, TopFacts
<1>3. \A x \in Processes : RestartStack(x, stack[x], Now.dead)
  BY DEF AllRestarts
<1>4. Len(stack[p]) = 2 /\ <<p, "function">> \in Restarters
  <2>1. Len(stack[p]) \in 1..Len(stack[p])
    BY <1>2
  <2>2. QED
    BY <1>1, <1>2, <1>3, <2>1 DEF RestartStack
<1>5. Top(p).target \in Now.dead
  BY <1>1, <1>2, <1>3, <1>4 DEF RestartStack
<1>6. "restart" \in Ops
  BY <1>1, <1>2 DEF FrameShape, Yields
<1>7. \A x \in Processes : <<x, "function">> \in Restarters => x = p
  BY <1>4, <1>6 DEF SoleRestarter
<1>8. ASSUME NEW x \in Processes, NEW i \in 1..Len(stack[x])
      PROVE  /\ ~KilledWait(stack[x][i])
             /\ stack[x][i].kind = "restart" => x = p /\ i = 2
  <2> DEFINE s == stack[x]
  <2>1. s \in Seq(Frame) /\ RestartStack(x, s, Now.dead) /\ i \in 1..Len(s)
    BY <1>3 DEF Inv, TypeOK
  <2>2. x = p => Len(s) = 2
    BY <1>4
  <2> HIDE DEF s
  <2>3. s[i].kind = "restart" => x = p /\ i = 2
    BY <1>7, <2>1 DEF RestartStack
  <2>4. ~KilledWait(s[i])
    <3> SUFFICES ASSUME KilledWait(s[i]) PROVE FALSE
      OBVIOUS
    <3>1. i = 3 /\ s[2].kind = "restart"
      BY <2>1 DEF RestartStack
    <3>2. Len(s) \in Nat /\ Len(s) >= 3 /\ 2 \in 1..Len(s)
      BY <2>1, <3>1, LenProperties
    <3>3. x = p
      BY <1>7, <2>1, <3>1, <3>2 DEF RestartStack
    <3>4. Len(s) = 2
      BY <2>2, <3>3
    <3>5. QED
      BY <3>2, <3>4
  <2>5. QED
    BY <2>3, <2>4 DEF s
<1>9. QED
  BY <1>2, <1>4, <1>5, <1>8

LEMMA RestartBuildNow ==
  ASSUME Inv, AllWaits, AllRestarts, NEW p \in Processes, RestartBuild(p)
  PROVE  \A x \in Processes : WaitInv(process[x], stack[x], Now')
<1>1. Now.time = clock /\ Now'.time = clock /\ clock \in Nat
  BY DEF Now, RestartBuild, world, Inv, TypeOK
<1> SUFFICES ASSUME NEW x \in Processes PROVE WaitInv(process[x], stack[x], Now')
  OBVIOUS
<1>2. stack[x] \in Seq(Frame) /\ WaitInv(process[x], stack[x], Now)
  BY DEF Inv, TypeOK, AllWaits
<1>3. CASE SoleRestarter
  <2>1. \A i \in 1..Len(stack[x]) : ~KilledWait(stack[x][i])
    BY <1>3, RestartBuildFacts
  <2>2. QED
    BY <1>1, <1>2, <2>1, UnkilledWaits
<1>4. CASE ~SoleRestarter
  <2>1. Now.dead = Processes /\ Now'.dead = Processes
    BY <1>4 DEF Now, SoleRestarter
  <2>2. Later(Now, Now')
    BY <1>1, <2>1 DEF Later
  <2>3. QED
    BY <1>2, <2>2, LaterWaits
<1>5. QED
  BY <1>3, <1>4

LEMMA RestartBuildWaits ==
  ASSUME Inv, AllWaits, AllRestarts, NEW p \in Processes, RestartBuild(p)
  PROVE  AllWaits'
<1> DEFINE q == Top(p).target
           r == [Fresh("active", process[q].run_reasons) EXCEPT !.arrest_reasons = process[q].arrest_reasons]
           s == stack[p]
           t == Below(p)
           old == [stack EXCEPT ![p] = t]
<1>1. /\ Runs(p) /\ Top(p).kind = "restart" /\ Top(p).at = "build"
      /\ process' = [process EXCEPT ![q] =
           [Fresh("active", @.run_reasons) EXCEPT !.arrest_reasons = process[q].arrest_reasons]]
      /\ stack' = [stack EXCEPT ![p] = Below(p), ![q] = << NewFrame("function", "start") >>]
      /\ UNCHANGED <<inhibit_scheduling, current_process>>
  BY DEF RestartBuild, InCall, world
<1>2. /\ s \in Seq(Frame) /\ StackShape(s) /\ Len(s) \in Nat /\ Len(s) > 1 /\ p = current_process
      /\ s[Len(s)].kind = "restart" /\ FrameShape(Top(p)) /\ WaitInv(process[p], s, Now')
      /\ process \in [Processes -> Process]
  BY <1>1, CodeWaits, RestartBuildNow
<1>3. q \in Processes
  BY <1>1, <1>2 DEF FrameShape, Yields
<1>4. t = SubSeq(s, 1, Len(s) - 1)
  BY DEF Below
<1>5. s[Len(s)].kind \notin Yields
  BY <1>2 DEF Yields
<1>6. WaitInv(process[p], t, Now') /\ s[Len(s) - 1].kind \notin Yields
  BY <1>2, <1>4, <1>5, PopWaits
<1>7. t \in Seq(Frame) /\ t[Len(t)] = s[Len(s) - 1]
  <2> DEFINE n == Len(s)
  <2>1. n - 1 \in 1..(n - 1)
    BY <1>2
  <2>2. t \in Seq(Frame) /\ Len(t) = n - 1 /\ \A i \in 1..(n - 1) : t[i] = s[i]
    BY <1>2, <1>4, PopShape
  <2> HIDE DEF s, t, n
  <2>3. QED
    BY <2>1, <2>2 DEF n
<1>8. process' = [process EXCEPT ![q] = r]
  BY <1>1, <1>2, <1>3
<1>9. stack \in [Processes -> Seq(Frame)] /\ current_process \in Processes
  BY DEF Inv, TypeOK
<1> HIDE DEF r, t
<1>10. /\ old \in [Processes -> Seq(Frame)] /\ old[p] = t
       /\ \A x \in Processes : x # p => old[x] = stack[x]
       /\ stack' = [old EXCEPT ![q] = << NewFrame("function", "start") >>]
  BY <1>1, <1>3, <1>7, <1>9 DEF t
<1> HIDE DEF q, s, old
<1>11. \A x \in Processes \ {q} : WaitInv(process[x], old[x], Now')
  BY <1>6, <1>10, RestartBuildNow
<1>12. old[current_process][Len(old[current_process])].kind \notin Yields
  BY <1>2, <1>6, <1>7, <1>10
<1>13. QED
  BY <1>1, <1>2, <1>3, <1>8, <1>9, <1>10, <1>11, <1>12, BirthWaits

LEMMA DieWaits ==
  ASSUME Inv, AllWaits, LaterStep, NEW p \in Processes, Die(p)
  PROVE  AllWaits'
<1>1. /\ process' = [process EXCEPT ![p] = Fresh("killed", {})]
      /\ stack' = [stack EXCEPT ![p] = <<>>] /\ inhibit_scheduling' = TRUE
  BY DEF Die, world
<1>2. <<>> \in Seq(Frame) /\ Len(<<>>) <= 1
  BY EmptySeq
<1>3. WaitInv(process'[p], <<>>, Now)
  BY <1>2, NoWaits
<1>4. \A q \in Processes : q # p => process'[q] = process[q]
  BY <1>1 DEF Inv, TypeOK
<1>5. QED
  BY <1>1, <1>3, <1>4, OneWaits

LEMMA StutterWaits ==
  ASSUME Inv, AllWaits, LaterStep, Tick \/ Stopped \/ UNCHANGED vars \/ \E p \in Processes : PredicateError(p)
  PROVE  AllWaits'
BY StayWaits DEF Tick, Stopped, vars, world, PredicateError

LEMMA InitWaits == Init => AllWaits
<1> SUFFICES ASSUME Init PROVE AllWaits
  OBVIOUS
<1> DEFINE f == NewFrame("function", "run")
<1>1. Inv /\ f.kind = "function"
  BY InitInv DEF NewFrame
<1>2. stack = [q \in Processes |-> IF q = InitialProcess THEN << f >> ELSE <<>>]
  BY DEF Init
<1> HIDE DEF f
<1>3. stack \in [Processes -> Seq(Frame)]
  BY <1>1 DEF Inv, TypeOK
<1>4. ASSUME NEW q \in Processes
      PROVE  WaitInv(process[q], stack[q], Now)
  <2> DEFINE s == stack[q]
  <2>1. s \in Seq(Frame) /\ (s = << f >> \/ s = <<>>)
    BY <1>2, <1>3
  <2>2. Len(s) <= 1 /\ (s # <<>> => s[1].kind = "function")
    <3>1. CASE s = << f >>
      <4>1. Len(<< f >>) = 1 /\ << f >>[1] = f
        OBVIOUS
      <4>2. QED
        BY <1>1, <3>1, <4>1
    <3>2. CASE s = <<>>
      <4>1. Len(<<>>) = 0
        OBVIOUS
      <4>2. QED
        BY <3>2, <4>1
    <3>3. QED
      BY <2>1, <3>1, <3>2
  <2> HIDE DEF s
  <2>3. WaitInv(process[q], s, Now)
    BY <2>1, <2>2, NoWaits
  <2>4. QED
    BY <2>3 DEF s
<1>5. Top(current_process) = f
  <2>1. stack[InitialProcess] = << f >> /\ current_process = InitialProcess
    BY <1>2, ConstantsAssumption DEF Init
  <2>2. QED
    BY <2>1 DEF Top
<1>6. QED
  BY <1>1, <1>4, <1>5 DEF AllWaits, Yields

-----------------------------------------------------------------------------
(* Restarts. *)
\* Stack t is s, of which frames moved or were popped, with calls that restart nothing on top.
Alike(f, g) ==
  f.kind = g.kind /\ f.fn = g.fn /\ f.target = g.target /\ (f.kind = "restart" => f.at = g.at)
Extends(s, t) ==
  \A i \in 1..Len(t) : \/ i <= Len(s) /\ Alike(t[i], s[i])
                       \/ i > Len(s) /\ t[i].kind # "restart" /\ ~KilledWait(t[i])

LEMMA ExtendsRestarts ==
  ASSUME NEW s \in Seq(Frame), NEW t \in Seq(Frame), NEW q, NEW dead, RestartStack(q, s, dead),
         Extends(s, t),
         \/ Len(t) >= Len(s)
         \/ Len(t) = Len(s) - 1 /\ (KilledWait(s[Len(s)]) => s[Len(s)].fn.arg \in dead)
  PROVE  RestartStack(q, t, dead)
<1>1. Len(s) \in Nat /\ Len(t) \in Nat
  BY LenProperties
<1>2. ASSUME NEW i \in 1..Len(t), t[i].kind = "restart"
      PROVE  i = 2 /\ <<q, "function">> \in Restarters
  <2>1. i \in 1..Len(s) /\ s[i].kind = "restart"
    BY <1>1, <1>2 DEF Extends, Alike
  <2>2. QED
    BY <2>1 DEF RestartStack
<1>3. ASSUME NEW i \in 1..Len(t), KilledWait(t[i])
      PROVE  i = 3 /\ t[2].kind = "restart" /\ t[2].at = "build"
  <2>1. i \in 1..Len(s) /\ KilledWait(s[i])
    BY <1>1, <1>3 DEF Extends, Alike, KilledWait
  <2>2. i = 3 /\ s[2].kind = "restart" /\ s[2].at = "build"
    BY <2>1 DEF RestartStack
  <2>3. 2 \in 1..Len(t) /\ ~(2 > Len(s))
    BY <1>1, <2>1, <2>2
  <2>4. Alike(t[2], s[2])
    BY <2>3 DEF Extends
  <2>5. QED
    BY <2>2, <2>4 DEF Alike
<1>4. ASSUME Len(t) >= 2, t[2].kind = "restart", t[2].at = "build"
      PROVE  \/ t[2].target \in dead
             \/ Len(t) >= 3 /\ t[3].kind = "wait" /\ t[3].fn = Killed(t[2].target)
  <2>1. 2 \in 1..Len(t)
    BY <1>1, <1>4
  <2>2. 2 <= Len(s) /\ Alike(t[2], s[2])
    BY <1>4, <2>1 DEF Extends
  <2>3. s[2].kind = "restart" /\ s[2].at = "build" /\ s[2].target = t[2].target
    BY <1>4, <2>2 DEF Alike
  <2>4. \/ s[2].target \in dead
        \/ Len(s) >= 3 /\ s[3].kind = "wait" /\ s[3].fn = Killed(s[2].target)
    BY <1>1, <2>2, <2>3 DEF RestartStack
  <2>5. CASE Len(s) >= 3 /\ s[3].kind = "wait" /\ s[3].fn = Killed(s[2].target)
    <3>1. CASE Len(t) >= 3
      <4>1. 3 \in 1..Len(t) /\ ~(3 > Len(s))
        BY <1>1, <2>5, <3>1
      <4>2. Alike(t[3], s[3])
        BY <4>1 DEF Extends
      <4>3. QED
        BY <2>3, <2>5, <3>1, <4>2 DEF Alike
    <3>2. CASE ~(Len(t) >= 3)
      <4>1. Len(s) = 3 /\ (KilledWait(s[Len(s)]) => s[Len(s)].fn.arg \in dead)
        <5>1. Len(t) = 2 /\ ~(Len(t) >= Len(s))
          <6> DEFINE m == Len(t)
                     n == Len(s)
          <6>1. m \in Nat /\ n \in Nat /\ m >= 2 /\ n >= 3 /\ ~(m >= 3)
            BY <1>1, <1>4, <2>5, <3>2
          <6> HIDE DEF m, n
          <6>2. m = 2 /\ ~(m >= n)
            BY <6>1
          <6>3. QED
            BY <6>2 DEF m, n
        <5>2. Len(t) = Len(s) - 1 /\ (KilledWait(s[Len(s)]) => s[Len(s)].fn.arg \in dead)
          BY <5>1
        <5>3. Len(s) = 3
          BY <1>1, <5>1, <5>2
        <5>4. QED
          BY <5>2, <5>3
      <4>2. KilledWait(s[3]) /\ s[3].fn.arg = s[2].target
        BY <2>5 DEF KilledWait, Killed
      <4>3. QED
        BY <2>3, <4>1, <4>2
    <3>3. QED
      BY <3>1, <3>2
  <2>6. QED
    BY <2>3, <2>4, <2>5
<1>5. QED
  BY <1>2, <1>3, <1>4 DEF RestartStack

\* A stack on which nothing is restarted.
LEMMA NoRestarts ==
  ASSUME NEW s \in Seq(Frame), NEW q, NEW dead,
         \A i \in 1..Len(s) : s[i].kind # "restart" /\ ~KilledWait(s[i])
  PROVE  RestartStack(q, s, dead)
<1>1. Len(s) >= 2 => 2 \in 1..Len(s)
  BY LenProperties
<1>2. QED
  BY <1>1 DEF RestartStack

LEMMA FunctionRestarts ==
  ASSUME NEW s \in Seq(Frame), Len(s) <= 1, s # <<>> => s[1].kind = "function", NEW q, NEW dead
  PROVE  RestartStack(q, s, dead)
<1>1. \A i \in 1..Len(s) : i = 1 /\ s # <<>>
  BY LenProperties
<1>2. QED
  BY <1>1, NoRestarts DEF KilledWait

LEMMA ExtendsAppend ==
  ASSUME NEW s \in Seq(Frame), NEW u \in Seq(Frame), Len(u) = Len(s), Extends(s, u),
         NEW f \in Frame, f.kind # "restart", ~KilledWait(f)
  PROVE  /\ Extends(s, Append(u, f)) /\ Append(u, f) \in Seq(Frame)
         /\ Len(Append(u, f)) >= Len(s)
<1> DEFINE t == Append(u, f)
<1>1. /\ t \in Seq(Frame) /\ Len(t) = Len(u) + 1 /\ t[Len(u) + 1] = f
      /\ \A i \in 1..Len(u) : t[i] = u[i]
  BY AppendProperties
<1> HIDE DEF t
<1>2. Len(s) \in Nat
  BY LenProperties
<1>3. \A i \in 1..Len(t) : i \in 1..Len(u) \/ (i = Len(u) + 1 /\ i > Len(s))
  BY <1>1, <1>2
<1>4. Extends(s, t)
  BY <1>1, <1>3 DEF Extends
<1>5. QED
  BY <1>1, <1>2, <1>4 DEF t

LEMMA ExtendsItself ==
  ASSUME NEW s \in Seq(Frame)
  PROVE  Extends(s, s)
<1>1. \A i \in 1..Len(s) : i <= Len(s)
  BY LenProperties
<1>2. QED
  BY <1>1 DEF Extends, Alike

LEMMA ExtendsAt ==
  ASSUME NEW p \in Processes, stack[p] \in Seq(Frame), stack[p] # <<>>, Top(p) \in Frame, NEW a,
         [Top(p) EXCEPT !.at = a] \in Frame, Top(p).kind # "restart"
  PROVE  /\ Extends(stack[p], At(p, a)) /\ At(p, a) \in Seq(Frame)
         /\ Len(At(p, a)) = Len(stack[p])
<1> DEFINE s == stack[p]
           t == At(p, a)
           g == [Top(p) EXCEPT !.at = a]
<1>1. /\ t \in Seq(Frame) /\ Len(t) = Len(s) /\ t[Len(s)] = g
      /\ \A i \in 1..(Len(s) - 1) : t[i] = s[i]
  BY AtStack
<1>2. Alike(g, s[Len(s)])
  BY DEF Alike, Frame, Top
<1> HIDE DEF s, t, g
<1>3. \A i \in 1..Len(t) : i <= Len(s) /\ (i = Len(s) \/ i \in 1..(Len(s) - 1))
  BY <1>1, LenProperties
<1>4. Extends(s, t)
  BY <1>1, <1>2, <1>3 DEF Extends, Alike
<1>5. QED
  BY <1>1, <1>4 DEF s, t

LEMMA ExtendsBelow ==
  ASSUME NEW p \in Processes, stack[p] \in Seq(Frame), Len(stack[p]) > 1
  PROVE  /\ Extends(stack[p], Below(p)) /\ Below(p) \in Seq(Frame)
         /\ Len(Below(p)) = Len(stack[p]) - 1
<1> DEFINE s == stack[p]
           t == Below(p)
<1>1. Len(s) \in Nat /\ t \in Seq(Frame) /\ Len(t) = Len(s) - 1 /\ \A i \in 1..(Len(s) - 1) : t[i] = s[i]
  BY DEF Below
<1> HIDE DEF s, t
<1>2. \A i \in 1..Len(t) : i <= Len(s) /\ t[i] = s[i]
  BY <1>1
<1>3. Extends(s, t)
  BY <1>2 DEF Extends, Alike
<1>4. QED
  BY <1>1, <1>3 DEF s, t

(* A step of one process, on its own stack. *)
LEMMA OneRestarts ==
  ASSUME Inv, AllRestarts, LaterStep, NEW p \in Processes, NEW t, stack' = [stack EXCEPT ![p] = t],
         SoleRestarter => RestartStack(p, t, Now.dead)
  PROVE  AllRestarts'
<1>1. stack'[p] = t /\ \A q \in Processes : q # p => stack'[q] = stack[q]
  BY DEF Inv, TypeOK
<1>2. ASSUME SoleRestarter, NEW q \in Processes
      PROVE  RestartStack(q, stack'[q], Now'.dead)
  <2>1. RestartStack(q, stack'[q], Now.dead)
    BY <1>1, <1>2 DEF AllRestarts
  <2>2. Now.dead \subseteq Now'.dead
    BY DEF LaterStep, Later
  <2>3. QED
    BY <2>1, <2>2 DEF RestartStack
<1>3. QED
  BY <1>2 DEF AllRestarts, SoleRestarter

LEMMA ExtendRestarts ==
  ASSUME Inv, AllRestarts, LaterStep, NEW p \in Processes, NEW t \in Seq(Frame),
         stack' = [stack EXCEPT ![p] = t], Extends(stack[p], t),
         \/ Len(t) >= Len(stack[p])
         \/ /\ Len(t) = Len(stack[p]) - 1
            /\ KilledWait(Top(p)) => Top(p).fn.arg \in Now.dead
  PROVE  AllRestarts'
<1>1. ASSUME SoleRestarter PROVE RestartStack(p, t, Now.dead)
  <2> DEFINE s == stack[p]
             dead == Now.dead
  <2>1. s \in Seq(Frame) /\ RestartStack(p, s, dead) /\ Extends(s, t)
    BY <1>1 DEF Inv, TypeOK, AllRestarts
  <2>2. \/ Len(t) >= Len(s)
        \/ Len(t) = Len(s) - 1 /\ (KilledWait(s[Len(s)]) => s[Len(s)].fn.arg \in dead)
    BY DEF Top
  <2> HIDE DEF s, dead
  <2>3. RestartStack(p, t, dead)
    BY <2>1, <2>2, ExtendsRestarts
  <2>4. QED
    BY <2>3 DEF dead
<1>2. QED
  BY <1>1, OneRestarts

LEMMA SameRestarts ==
  ASSUME Inv, AllRestarts, LaterStep, UNCHANGED stack
  PROVE  AllRestarts'
<1>1. stack' = [stack EXCEPT ![InitialProcess] = stack[InitialProcess]]
  BY DEF Inv, TypeOK
<1>2. QED
  BY <1>1, OneRestarts, ConstantsAssumption DEF AllRestarts

\* What code pushes, but for restart-process, restarts nothing.
LEMMA PushRestarts ==
  ASSUME Inv, AllRestarts, LaterStep, NEW p \in Processes, NEW f \in Frame,
         stack' = [stack EXCEPT ![p] = Append(@, f)], f.kind # "restart", ~KilledWait(f)
  PROVE  AllRestarts'
<1>1. stack[p] \in Seq(Frame)
  BY DEF Inv, TypeOK
<1>2. /\ Extends(stack[p], Append(stack[p], f)) /\ Append(stack[p], f) \in Seq(Frame)
      /\ Len(Append(stack[p], f)) >= Len(stack[p])
  BY <1>1, ExtendsItself, ExtendsAppend
<1>3. QED
  BY <1>2, ExtendRestarts

LEMMA YieldFrameRestarts == YieldFrame \in Frame /\ YieldFrame.kind # "restart" /\ ~KilledWait(YieldFrame)
BY NewFrames DEF KilledWait

LEMMA CallRestarts ==
  ASSUME Inv, AllWaits, AllRestarts, LaterStep, NEW p \in Processes,
         \/ Yield(p) \/ Sigalrm(p)
         \/ \E call \in WaitCalls, deadline \in Deadlines : CallWait(p, call[1], call[2], deadline)
         \/ \E q \in Processes : ProcessInterrupt(p, q) \/ DestroyProcess(p, q)
  PROVE  AllRestarts'
<1>1. CASE Yield(p) \/ \E q \in Processes : ProcessInterrupt(p, q) \/ DestroyProcess(p, q)
  <2>1. stack' = [stack EXCEPT ![p] = Append(@, YieldFrame)]
    BY <1>1 DEF Yield, ProcessInterrupt, DestroyProcess
  <2>2. QED
    BY <2>1, YieldFrameRestarts, PushRestarts
<1>2. CASE Sigalrm(p)
  <2> DEFINE f == NewFrame("sigalrm", "rotate")
  <2>1. f \in Frame /\ f.kind # "restart" /\ ~KilledWait(f)
    BY NewFrames DEF NewFrame, KilledWait
  <2>2. stack' = [stack EXCEPT ![p] = Append(@, f)]
    BY <1>2 DEF Sigalrm
  <2> HIDE DEF f
  <2>3. QED
    BY <2>1, <2>2, PushRestarts
<1>3. ASSUME NEW call \in WaitCalls, NEW deadline \in Deadlines, CallWait(p, call[1], call[2], deadline)
      PROVE  AllRestarts'
  <2> DEFINE f == [NewFrame("wait", "set") EXCEPT !.fn = call[1], !.deadline = deadline]
  <2>1. call[1] \in WaitFunctions /\ call[1].test # "killed"
    BY CallFacts
  <2>2. deadline \in Timeouts
    BY ConstantsAssumption DEF Deadlines, Timeouts, Inv, TypeOK
  <2>3. NewFrame("wait", "set") \in Frame /\ NewFrame("wait", "set").kind = "wait"
    BY NewFrames DEF NewFrame
  <2>4. stack' = [stack EXCEPT ![p] = Append(@, f)]
    BY <1>3 DEF CallWait
  <2> HIDE DEF NewFrame
  <2>5. f \in Frame /\ f.kind = "wait" /\ f.fn = call[1]
    BY <2>1, <2>2, <2>3 DEF Frame
  <2> HIDE DEF f
  <2>6. f.kind # "restart" /\ ~KilledWait(f)
    BY <2>1, <2>5 DEF KilledWait
  <2>7. QED
    BY <2>4, <2>5, <2>6, PushRestarts
<1>4. QED
  BY <1>1, <1>2, <1>3

\* The top of the stack moves, without a call of restart-process there.
LEMMA AtRestarts ==
  ASSUME Inv, AllRestarts, LaterStep, NEW p \in Processes, NEW a,
         stack[p] # <<>>, Top(p) \in Frame, [Top(p) EXCEPT !.at = a] \in Frame,
         Top(p).kind # "restart", stack' = [stack EXCEPT ![p] = At(p, a)]
  PROVE  AllRestarts'
<1>1. stack[p] \in Seq(Frame) /\ Len(stack[p]) \in Nat
  BY LenProperties DEF Inv, TypeOK
<1>2. /\ Extends(stack[p], At(p, a)) /\ At(p, a) \in Seq(Frame)
      /\ Len(At(p, a)) = Len(stack[p])
  BY <1>1, ExtendsAt
<1>3. Len(At(p, a)) >= Len(stack[p])
  BY <1>1, <1>2
<1>4. QED
  BY <1>2, <1>3, ExtendRestarts

LEMMA LoopRestarts ==
  ASSUME Inv, AllWaits, AllRestarts, LaterStep, NEW p \in Processes, Rotate(p) \/ Resume(p) \/ Loop(p)
  PROVE  AllRestarts'
<1>1. PICK a \in {"rotate", "check"}, b \in {"rotate", "check"} :
        InLoop(p, a) /\ stack' = [stack EXCEPT ![p] = At(p, b)]
  BY DEF Rotate, Resume, Loop
<1>2. stack[p] # <<>> /\ Top(p) \in Frame /\ Top(p).kind # "restart"
  BY <1>1, LoopWaits DEF Yields
<1>3. [Top(p) EXCEPT !.at = b] \in Frame
  BY <1>2 DEF Frame
<1>4. QED
  BY <1>1, <1>2, <1>3, AtRestarts

LEMMA MoveRestarts ==
  ASSUME Inv, AllWaits, AllRestarts, LaterStep, NEW p \in Processes,
         StartFunction(p) \/ WaitSetFunction(p)
  PROVE  AllRestarts'
<1>1. PICK b \in {"run", "yield"} :
        /\ p = current_process /\ stack' = [stack EXCEPT ![p] = At(p, b)]
        /\ Top(p).at = "start" \/ Top(p).kind = "wait"
  BY DEF StartFunction, WaitSetFunction, InCall, Runs
<1>2. Alive(p)
  BY <1>1, ExecutingFacts
<1>3. stack[p] # <<>> /\ Top(p) \in Frame /\ FrameShape(Top(p))
  BY <1>2, TopFacts
<1>4. Top(p).kind # "restart" /\ [Top(p) EXCEPT !.at = b] \in Frame
  BY <1>1, <1>3 DEF FrameShape, Yields, Frame
<1>5. QED
  BY <1>1, <1>3, <1>4, AtRestarts

LEMMA WaitYieldRestarts ==
  ASSUME Inv, AllWaits, AllRestarts, LaterStep, NEW p \in Processes, WaitYield(p)
  PROVE  AllRestarts'
<1> DEFINE s == stack[p]
           u == At(p, "read")
           t == Append(u, YieldFrame)
<1>1. Runs(p) /\ Top(p).kind = "wait" /\ stack' = [stack EXCEPT ![p] = t]
  BY DEF WaitYield, InCall
<1>2. s \in Seq(Frame) /\ s # <<>> /\ Top(p) \in Frame
  BY <1>1, CodeWaits
<1>3. [Top(p) EXCEPT !.at = "read"] \in Frame
  BY <1>2 DEF Frame
<1>4. Extends(s, u) /\ u \in Seq(Frame) /\ Len(u) = Len(s)
  BY <1>1, <1>2, <1>3, ExtendsAt
<1> HIDE DEF u
<1>5. Extends(s, t) /\ t \in Seq(Frame) /\ Len(t) >= Len(s)
  <2> HIDE DEF s
  <2>1. QED
    BY <1>2, <1>4, YieldFrameRestarts, ExtendsAppend
<1> HIDE DEF t
<1>6. QED
  BY <1>1, <1>5, ExtendRestarts

LEMMA PopRestarts ==
  ASSUME Inv, AllRestarts, LaterStep, NEW p \in Processes, Len(stack[p]) > 1,
         KilledWait(Top(p)) => Top(p).fn.arg \in Now.dead,
         stack' = [stack EXCEPT ![p] = Below(p)]
  PROVE  AllRestarts'
<1>1. stack[p] \in Seq(Frame)
  BY DEF Inv, TypeOK
<1>2. /\ Extends(stack[p], Below(p)) /\ Below(p) \in Seq(Frame)
      /\ Len(Below(p)) = Len(stack[p]) - 1
  BY <1>1, ExtendsBelow
<1>3. QED
  BY <1>2, ExtendRestarts

LEMMA ReturnRestarts ==
  ASSUME Inv, AllWaits, AllRestarts, LaterStep, NEW p \in Processes, Return(p)
  PROVE  AllRestarts'
<1>1. InLoop(p, "check") /\ stack' = [stack EXCEPT ![p] = Below(p)]
  BY DEF Return
<1>2. Len(stack[p]) > 1 /\ ~KilledWait(Top(p))
  BY <1>1, LoopWaits DEF KilledWait, Yields
<1>3. QED
  BY <1>1, <1>2, PopRestarts

\* process-wait returns the death of the process that it waited for.
LEMMA WaitReadRestarts ==
  ASSUME Inv, AllWaits, AllRestarts, LaterStep, NEW p \in Processes, WaitRead(p)
  PROVE  AllRestarts'
<1>1. Runs(p) /\ Top(p).kind = "wait" /\ Top(p).at = "read" /\ stack' = [stack EXCEPT ![p] = Below(p)]
  BY DEF WaitRead, InCall
<1>2. /\ stack[p] \in Seq(Frame) /\ stack[p] # <<>> /\ WaitInv(process[p], stack[p], Now)
      /\ Top(p) = stack[p][Len(stack[p])] /\ Len(stack[p]) > 1
  BY <1>1, CodeWaits
<1>3. WaitFrame(Top(p), TRUE, WaitOf(process[p]), Now)
  BY <1>1, <1>2, TopWaits
<1>4. KilledWait(Top(p)) => Top(p).fn.arg \in Now.dead
  BY <1>1, <1>3 DEF WaitFrame, Answered, Replied, KilledWait
<1>5. QED
  BY <1>1, <1>2, <1>4, PopRestarts

LEMMA ThrowRestarts ==
  ASSUME Inv, AllWaits, AllRestarts, LaterStep, NEW p \in Processes, InterruptThrow(p) \/ Die(p)
  PROVE  AllRestarts'
<1>1. CASE InterruptThrow(p)
  <2> DEFINE s == << stack[p][1] >>
  <2>1. Runs(p) /\ stack' = [stack EXCEPT ![p] = s]
    BY <1>1 DEF InterruptThrow, InCall
  <2>2. stack[p] \in Seq(Frame) /\ 1 \in 1..Len(stack[p]) /\ StackShape(stack[p])
    BY <2>1, CodeWaits
  <2>3. stack[p][1] \in Frame /\ stack[p][1].kind = "function"
    BY <2>2 DEF StackShape
  <2>4. s \in Seq(Frame) /\ Len(s) <= 1 /\ s[1].kind = "function"
    BY <2>3
  <2> HIDE DEF s
  <2>5. QED
    BY <2>1, <2>4, FunctionRestarts, OneRestarts
<1>2. CASE Die(p)
  <2>1. stack' = [stack EXCEPT ![p] = <<>>] /\ <<>> \in Seq(Frame) /\ Len(<<>>) <= 1
    BY <1>2, EmptySeq DEF Die
  <2>2. RestartStack(p, <<>>, Now.dead)
    BY <2>1, FunctionRestarts
  <2>3. QED
    BY <2>1, <2>2, OneRestarts
<1>3. QED
  BY <1>1, <1>2

LEMMA RunInterruptRestarts ==
  ASSUME Inv, AllWaits, AllRestarts, LaterStep, NEW p \in Processes, RunInterrupt(p)
  PROVE  AllRestarts'
<1> DEFINE saved == WaitOf(process[p])
           g == [Top(p) EXCEPT !.at = "handling"]
           h == [g EXCEPT !.saved = saved]
           v == At(p, "handling")
           u == [v EXCEPT ![Len(stack[p])] = h]
           f == NewFrame("interrupt", Head(process[p].interrupts))
           s == stack[p]
           t == Append(u, f)
<1>1. /\ InLoop(p, "check") /\ process[p].interrupts # <<>>
      /\ stack' = [stack EXCEPT ![p] = Append([v EXCEPT ![Len(stack[p])].saved = saved], f)]
  BY DEF RunInterrupt, WaitOf
<1>2. /\ s \in Seq(Frame) /\ s # <<>> /\ Top(p).kind \in Yields /\ Top(p) \in Frame
      /\ process[p] \in Process
  BY <1>1, LoopWaits
<1>3. g \in Frame /\ Top(p).kind # "restart"
  BY <1>2 DEF Frame, Yields
<1>4. /\ v \in Seq(Frame) /\ Len(v) = Len(s) /\ v[Len(s)] = g /\ Extends(s, v)
  BY <1>2, <1>3, AtStack, ExtendsAt
<1>5. saved \in Saved
  BY <1>2 DEF WaitOf, Saved, Process
<1>6. h \in Frame /\ Alike(h, g)
  BY <1>3, <1>5 DEF Frame, Alike
<1>7. Len(s) \in 1..Len(s)
  BY <1>2, LenProperties, EmptySeq
<1>8. f \in Frame /\ f.kind = "interrupt"
  <2>1. process[p].interrupts \in Seq(Interrupt) /\ process[p].interrupts # <<>>
    BY <1>1, <1>2 DEF Process
  <2>2. Head(process[p].interrupts) \in {"run", "throw"}
    BY <2>1, HeadTailProperties DEF Interrupt
  <2>3. QED
    BY <2>2, NewFrames DEF NewFrame
<1>9. stack' = [stack EXCEPT ![p] = t]
  BY <1>1, <1>4
<1> HIDE DEF saved, g, h, v, f, s
<1>10. u = [v EXCEPT ![Len(s)] = h]
  BY DEF s
<1> HIDE DEF u
<1>11. u \in Seq(Frame) /\ Len(u) = Len(s) /\ u[Len(s)] = h /\ \A i \in 1..Len(s) : i # Len(s) => u[i] = v[i]
  BY <1>4, <1>6, <1>7, <1>10, ExceptSeq
<1>12. Extends(s, u)
  <2>1. \A i \in 1..Len(s) : Alike(u[i], v[i])
    BY <1>4, <1>6, <1>11 DEF Alike
  <2>2. \A i \in 1..Len(s) : Alike(v[i], s[i])
    BY <1>2, <1>4, LenProperties DEF Extends
  <2>3. \A i \in 1..Len(s) : i <= Len(s)
    BY <1>2, LenProperties
  <2>4. QED
    BY <1>11, <2>1, <2>2, <2>3 DEF Extends, Alike
<1>13. Extends(s, t) /\ t \in Seq(Frame) /\ Len(t) >= Len(s)
  <2>1. f.kind # "restart" /\ ~KilledWait(f)
    BY <1>8 DEF KilledWait
  <2>2. QED
    BY <1>2, <1>8, <1>11, <1>12, <2>1, ExtendsAppend
<1> HIDE DEF t
<1>14. QED
  BY <1>9, <1>13, ExtendRestarts DEF s

LEMMA InterruptReturnRestarts ==
  ASSUME Inv, AllWaits, AllRestarts, LaterStep, NEW p \in Processes, InterruptReturn(p)
  PROVE  AllRestarts'
<1> DEFINE s == stack[p]
           b == Below(p)
           top == b[Len(b)]
           g == [[top EXCEPT !.at = "rotate"] EXCEPT !.saved = NothingSaved]
           t == [b EXCEPT ![Len(b)] = g]
<1>1. /\ Runs(p) /\ Top(p).kind = "interrupt"
      /\ stack' = [stack EXCEPT ![p] =
           [b EXCEPT ![Len(b)].at = "rotate", ![Len(b)].saved = NothingSaved]]
  BY DEF InterruptReturn, InCall
<1>2. /\ s \in Seq(Frame) /\ StackShape(s) /\ Len(s) \in Nat /\ Len(s) > 1
      /\ Top(p) = s[Len(s)]
  BY <1>1, CodeWaits
<1>3. /\ b \in Seq(Frame) /\ Extends(s, b) /\ Len(b) = Len(s) - 1
      /\ \A i \in 1..(Len(s) - 1) : b[i] = s[i]
  BY <1>2, ExtendsBelow, PopShape DEF Below
<1> HIDE DEF b
<1>4. Len(b) \in 1..Len(b) /\ Len(s) \in 1..Len(s) /\ Len(b) = Len(s) - 1 /\ Len(b) \in 1..(Len(s) - 1)
  BY <1>2, <1>3
<1>5. top \in Frame /\ top.kind \in Yields
  <2>1. top = s[Len(s) - 1] /\ top \in Frame
    BY <1>3, <1>4, ElementOfSeq
  <2>2. s[Len(s)].kind = "interrupt"
    BY <1>1, <1>2
  <2>3. s[Len(s) - 1].kind \in Yields
    BY <1>2, <1>4, <2>2 DEF StackShape
  <2>4. QED
    BY <2>1, <2>3
<1>6. g \in Frame /\ Alike(g, top)
  BY <1>5, NewFrames DEF Frame, Alike, Yields
<1>7. stack' = [stack EXCEPT ![p] = t]
  <2>1. [b EXCEPT ![Len(b)].at = "rotate", ![Len(b)].saved = NothingSaved] = t
    BY <1>3, <1>4
  <2>2. QED
    BY <1>1, <2>1
<1>8. ~KilledWait(Top(p))
  BY <1>1 DEF KilledWait
<1> HIDE DEF g, s
<1>9. /\ t \in Seq(Frame) /\ Len(t) = Len(b) /\ t[Len(b)] = g
      /\ \A i \in 1..Len(b) : i # Len(b) => t[i] = b[i]
  BY <1>3, <1>4, <1>6, ExceptSeq
<1>10. Extends(s, t)
  <2>1. \A i \in 1..Len(b) : Alike(t[i], b[i])
    BY <1>6, <1>9 DEF Alike
  <2>2. \A i \in 1..Len(b) : i <= Len(s)
    BY <1>2, <1>3
  <2>3. \A i \in 1..Len(b) : Alike(b[i], s[i])
    BY <1>2, <1>3, <2>2 DEF Extends, Alike
  <2>4. QED
    BY <1>9, <2>1, <2>2, <2>3 DEF Extends, Alike
<1> HIDE DEF t
<1>11. Len(t) = Len(s) - 1
  BY <1>3, <1>9
<1>12. QED
  BY <1>7, <1>8, <1>9, <1>10, <1>11, ExtendRestarts DEF s

LEMMA TwoAppends ==
  ASSUME NEW s \in Seq(Frame), NEW f \in Frame, NEW g \in Frame, Len(s) = 1
  PROVE  /\ Len(s \o << f, g >>) = 3 /\ (s \o << f, g >>)[1] = s[1]
         /\ (s \o << f, g >>)[2] = f /\ (s \o << f, g >>)[3] = g
<1> DEFINE e == << f, g >>
<1>1. e \in Seq(Frame) /\ Len(e) = 2 /\ e[1] = f /\ e[2] = g
  OBVIOUS
<1> HIDE DEF e
<1>2. /\ Len(s \o e) = Len(s) + Len(e)
      /\ \A i \in 1..(Len(s) + Len(e)) : (s \o e)[i] = IF i <= Len(s) THEN s[i] ELSE e[i - Len(s)]
  BY <1>1, ConcatProperties
<1> DEFINE t == s \o e
<1> HIDE DEF t
<1>3. Len(t) = 3 /\ \A i \in 1..3 : t[i] = IF i <= 1 THEN s[i] ELSE e[i - 1]
  BY <1>1, <1>2 DEF t
<1>4. t[1] = s[1] /\ t[2] = e[1] /\ t[3] = e[2]
  BY <1>3
<1>5. QED
  BY <1>1, <1>3, <1>4 DEF t, e

\* The only function that calls restart-process calls it on an empty stack but for itself.
LEMMA RestartProcessRestarts ==
  ASSUME Inv, AllWaits, AllRestarts, LaterStep, NEW p \in Processes, NEW q \in Processes,
         RestartProcess(p, q)
  PROVE  AllRestarts'
<1> DEFINE f == [NewFrame("restart", "wait") EXCEPT !.target = q]
           s == stack[p]
           t == s \o << f, YieldFrame >>
<1>1. /\ InCode(p) /\ "restart" \in Ops /\ <<p, Top(p).kind>> \in Restarters
      /\ stack' = [stack EXCEPT ![p] = t]
  BY DEF RestartProcess, Operates
<1>2. /\ s \in Seq(Frame) /\ StackShape(s) /\ Len(s) \in Nat /\ Len(s) > 0 /\ Top(p) = s[Len(s)]
  BY <1>1, CodeWaits DEF InCode
<1>3. f \in Frame /\ f.kind = "restart" /\ f.at = "wait"
  <2>1. /\ NewFrame("restart", "wait") \in Frame
        /\ NewFrame("restart", "wait").kind = "restart" /\ NewFrame("restart", "wait").at = "wait"
    BY NewFrames DEF NewFrame
  <2> HIDE DEF NewFrame
  <2>2. QED
    BY <2>1 DEF Frame
<1>4. ASSUME SoleRestarter
      PROVE  RestartStack(p, t, Now.dead)
  <2>1. Top(p).kind = "function" /\ <<p, "function">> \in Restarters
    <3>1. <<p, Top(p).kind>>[2] = "function"
      BY <1>1, <1>4 DEF SoleRestarter
    <3>2. QED
      BY <1>1, <3>1
  <2>2. Len(s) = 1 /\ s[1].kind = "function"
    <3>1. Len(s) \in 1..Len(s)
      BY <1>2
    <3>2. QED
      BY <1>2, <2>1, <3>1 DEF StackShape
  <2> HIDE DEF f, s
  <2>3. Len(t) = 3 /\ t[1] = s[1] /\ t[2] = f /\ t[3] = YieldFrame
    <3>1. s \in Seq(Frame) /\ f \in Frame /\ YieldFrame \in Frame /\ Len(s) = 1
      BY <1>2, <1>3, <2>2, YieldFrameRestarts
    <3>2. QED
      BY <3>1, TwoAppends
  <2> HIDE DEF t
  <2>4. \A i \in 1..Len(t) : i = 1 \/ i = 2 \/ i = 3
    BY <2>3
  <2>5. ~KilledWait(t[1]) /\ ~KilledWait(t[2]) /\ ~KilledWait(t[3]) /\ t[2].at # "build"
        /\ t[1].kind # "restart" /\ t[3].kind # "restart"
    BY <1>3, <2>2, <2>3, YieldFrameRestarts DEF KilledWait
  <2>6. QED
    BY <2>1, <2>4, <2>5 DEF RestartStack
<1>5. QED
  BY <1>1, <1>4, OneRestarts

\* It waits for the death of the process that it is going to build.
LEMMA RestartWaitRestarts ==
  ASSUME Inv, AllWaits, AllRestarts, LaterStep, NEW p \in Processes, RestartWait(p)
  PROVE  AllRestarts'
<1> DEFINE fn == Killed(Top(p).target)
           f == [NewFrame("wait", "set") EXCEPT !.fn = fn]
           g == [Top(p) EXCEPT !.at = "build"]
           s == stack[p]
           u == At(p, "build")
           t == Append(u, f)
<1>1. /\ Runs(p) /\ Top(p).kind = "restart" /\ stack' = [stack EXCEPT ![p] = t]
  BY DEF RestartWait, InCall
<1>2. /\ s \in Seq(Frame) /\ s # <<>> /\ StackShape(s) /\ Len(s) \in Nat /\ Len(s) > 1
      /\ Top(p) = s[Len(s)] /\ Top(p) \in Frame /\ FrameShape(Top(p))
  BY <1>1, CodeWaits
<1>3. fn \in WaitFunctions
  BY <1>1, <1>2 DEF FrameShape, Yields, Killed, WaitFunctions
<1>4. f \in Frame /\ f.kind = "wait" /\ f.fn = fn
  <2>1. NewFrame("wait", "set") \in Frame /\ NewFrame("wait", "set").kind = "wait"
    BY NewFrames DEF NewFrame
  <2> HIDE DEF NewFrame, fn
  <2>2. QED
    BY <1>3, <2>1 DEF Frame
<1>5. g \in Frame /\ g.kind = "restart" /\ g.at = "build" /\ g.target = Top(p).target
  BY <1>1, <1>2 DEF Frame
<1>6. u \in Seq(Frame) /\ Len(u) = Len(s) /\ u[Len(s)] = g /\ \A i \in 1..(Len(s) - 1) : u[i] = s[i]
  BY <1>2, <1>5, AtStack
<1>7. ASSUME SoleRestarter
      PROVE  RestartStack(p, t, Now.dead)
  <2>1. RestartStack(p, s, Now.dead) /\ Len(s) \in 1..Len(s) /\ s[Len(s)].kind = "restart"
    BY <1>1, <1>2, <1>7 DEF AllRestarts
  <2>2. Len(s) = 2 /\ <<p, "function">> \in Restarters
    BY <2>1 DEF RestartStack
  <2>3. s[1].kind = "function"
    BY <1>2, <2>2 DEF StackShape
  <2> HIDE DEF f, s, u, g
  <2>4. /\ Len(t) = 3 /\ t[3] = f /\ t[2] = g /\ t[1] = s[1]
    <3>1. Len(t) = Len(u) + 1 /\ t[Len(u) + 1] = f /\ \A i \in 1..Len(u) : t[i] = u[i]
      BY <1>4, <1>6, AppendProperties
    <3> HIDE DEF t
    <3>2. Len(u) = 2 /\ u[2] = g /\ 1 \in 1..2 /\ 2 \in 1..2 /\ 1 \in 1..(2 - 1)
      BY <1>6, <2>2
    <3>3. u[1] = s[1]
      BY <1>6, <2>2, <3>2
    <3>4. QED
      BY <3>1, <3>2, <3>3
  <2> HIDE DEF t
  <2>5. \A i \in 1..Len(t) : i = 1 \/ i = 2 \/ i = 3
    BY <2>4
  <2>6. /\ ~KilledWait(t[1]) /\ ~KilledWait(t[2])
        /\ t[1].kind # "restart" /\ t[3].kind # "restart"
        /\ t[2].kind = "restart" /\ t[2].at = "build"
        /\ t[3].kind = "wait" /\ t[3].fn = Killed(t[2].target)
    BY <1>4, <1>5, <2>3, <2>4 DEF KilledWait, fn
  <2>7. Len(t) >= 3
    BY <2>4
  <2>8. QED
    BY <2>2, <2>5, <2>6, <2>7 DEF RestartStack
<1>8. QED
  BY <1>1, <1>7, OneRestarts

LEMMA RestartBuildRestarts ==
  ASSUME Inv, AllWaits, AllRestarts, NEW p \in Processes, RestartBuild(p)
  PROVE  AllRestarts'
<1> DEFINE q == Top(p).target
           f == NewFrame("function", "start")
<1>1. stack' = [stack EXCEPT ![p] = Below(p), ![q] = << f >>] /\ stack \in [Processes -> Seq(Frame)]
  BY DEF RestartBuild, Inv, TypeOK
<1>2. << f >> \in Seq(Frame) /\ Len(<< f >>) <= 1 /\ << f >>[1].kind = "function"
  <2>1. f \in Frame /\ f.kind = "function"
    BY NewFrames DEF NewFrame
  <2> HIDE DEF f
  <2>2. QED
    BY <2>1
<1> HIDE DEF q, f
<1>3. ASSUME SoleRestarter, NEW x \in Processes
      PROVE  RestartStack(x, stack'[x], Now'.dead)
  <2>1. Len(stack[p]) = 2
    BY <1>3, RestartBuildFacts
  <2>2. CASE x = q
    <3>1. stack'[x] = << f >>
      BY <1>1, <2>2
    <3>2. RestartStack(x, << f >>, Now'.dead)
      BY <1>2, FunctionRestarts
    <3>3. QED
      BY <3>1, <3>2
  <2>3. CASE x # q /\ x = p
    <3>1. stack'[x] = Below(p)
      BY <1>1, <2>3
    <3>2. stack[p] \in Seq(Frame) /\ StackShape(stack[p]) /\ Len(stack[p]) > 1
      BY <2>1 DEF Inv, TypeOK, Shape
    <3>3. /\ Below(p) \in Seq(Frame) /\ Len(Below(p)) = Len(stack[p]) - 1
          /\ \A i \in 1..(Len(stack[p]) - 1) : Below(p)[i] = stack[p][i]
      BY <3>2, PopShape DEF Below
    <3>4. Below(p)[1] = stack[p][1] /\ Len(Below(p)) <= 1
      BY <2>1, <3>3
    <3>5. stack[p][1].kind = "function"
      BY <2>1, <3>2 DEF StackShape
    <3>6. RestartStack(p, Below(p), Now'.dead)
      BY <3>3, <3>4, <3>5, FunctionRestarts
    <3>7. QED
      BY <2>3, <3>1, <3>6
  <2>4. CASE x # q /\ x # p
    <3>1. stack'[x] = stack[x] /\ stack[x] \in Seq(Frame)
      BY <1>1, <2>4
    <3>2. \A i \in 1..Len(stack[x]) : stack[x][i].kind # "restart" /\ ~KilledWait(stack[x][i])
      BY <1>3, <2>4, RestartBuildFacts
    <3>3. RestartStack(x, stack[x], Now'.dead)
      BY <3>1, <3>2, NoRestarts
    <3>4. QED
      BY <3>1, <3>3
  <2>5. QED
    BY <2>2, <2>3, <2>4
<1>4. QED
  BY <1>3 DEF AllRestarts, SoleRestarter

LEMMA MakeProcessRestarts ==
  ASSUME Inv, AllRestarts, LaterStep, NEW p \in Processes, NEW q \in Processes, MakeProcess(p, q)
  PROVE  AllRestarts'
<1> DEFINE f == NewFrame("function", "start")
<1>1. f \in Frame /\ f.kind = "function" /\ stack' = [stack EXCEPT ![q] = << f >>]
  BY NewFrames DEF NewFrame, MakeProcess
<1> HIDE DEF f
<1>2. << f >> \in Seq(Frame) /\ Len(<< f >>) <= 1 /\ << f >>[1].kind = "function"
  BY <1>1
<1>3. RestartStack(q, << f >>, Now.dead)
  BY <1>2, FunctionRestarts
<1>4. QED
  BY <1>1, <1>3, OneRestarts

LEMMA ReasonsRestarts ==
  ASSUME Inv, AllRestarts, LaterStep, NEW p \in Processes, NEW q \in Processes,
         \/ SetState(p, q, "active") \/ SetState(p, q, "inactive")
         \/ AddArrestReason(p, q) \/ RevokeArrestReason(p, q)
         \/ AddRunReason(p, q) \/ RevokeRunReason(p, q)
  PROVE  AllRestarts'
<1>1. UNCHANGED stack \/ stack' = [stack EXCEPT ![p] = Append(@, YieldFrame)]
  BY DEF SetState, AddArrestReason, RevokeArrestReason, AddRunReason, RevokeRunReason, YieldIf
<1>2. QED
  BY <1>1, SameRestarts, YieldFrameRestarts, PushRestarts

LEMMA InitRestarts == Init => AllRestarts
<1> SUFFICES ASSUME Init, NEW q \in Processes PROVE RestartStack(q, stack[q], Now.dead)
  BY DEF AllRestarts
<1> DEFINE s == stack[q]
<1>1. s \in Seq(Frame)
  BY InitInv DEF Inv, TypeOK
<1>2. s = <<>> \/ s = << NewFrame("function", "run") >>
  BY DEF Init
<1>3. Len(s) <= 1 /\ (s # <<>> => s[1].kind = "function")
  <2> DEFINE f == NewFrame("function", "run")
  <2>1. f.kind = "function"
    BY DEF NewFrame
  <2> HIDE DEF f, s
  <2>2. s = <<>> \/ s = << f >>
    BY <1>2 DEF f
  <2>3. Len(<<>>) = 0 /\ Len(<< f >>) = 1 /\ << f >>[1] = f
    OBVIOUS
  <2>4. QED
    BY <2>1, <2>2, <2>3
<1> HIDE DEF s
<1>4. RestartStack(q, s, Now.dead)
  BY <1>1, <1>3, FunctionRestarts
<1>5. QED
  BY <1>4 DEF s

-----------------------------------------------------------------------------
(* The steps of the specification. *)
\* Only restart-process raises the dead.
LEMMA KilledStays ==
  ASSUME Inv, [Next]_vars, NEW q \in Processes, process[q].state = "killed",
         \A p \in Processes : ~RestartBuild(p)
  PROVE  process'[q].state = "killed"
<1>0. process \in [Processes -> Process]
  BY DEF Inv, TypeOK
<1>1. ASSUME NEW p \in Processes, NEW r, r.state = process[p].state \/ r.state = "killed",
             process' = [process EXCEPT ![p] = r]
      PROVE  process'[q].state = "killed"
  BY <1>0, <1>1
<1>2. ASSUME NEW p \in Processes, Scheduler(p) PROVE process'[q].state = "killed"
  <2>1. CASE Resume(p)
    <3> DEFINE next == Head(Rotated)
    <3>1. PICK r \in Resumptions(next) : process' = [process EXCEPT ![next] = r]
      BY <2>1 DEF Resume
    <3>2. next \in Processes
      BY RotatedFacts
    <3> HIDE DEF next
    <3>3. QED
      BY <1>1, <3>1, <3>2, ResumptionFacts
  <2>2. CASE Return(p)
    <3>1. PICK r \in Returns(p) : process' = [process EXCEPT ![p] = r]
      BY <2>2 DEF Return
    <3>2. QED
      BY <1>1, <3>1, ReturnFacts
  <2>3. CASE RunInterrupt(p)
    <3> DEFINE r == [process[p] EXCEPT !.interrupts = Tail(@), !.wait_function = NoFunction,
                                       !.wait_timeout = None, !.wait_return_value = None]
    <3>1. process' = [process EXCEPT ![p] = r]
      BY <2>3 DEF RunInterrupt
    <3>2. r.state = process[p].state
      BY <1>0 DEF Process
    <3> HIDE DEF r
    <3>3. QED
      BY <1>1, <3>1, <3>2
  <2>4. CASE Rotate(p) \/ Loop(p) \/ PredicateError(p)
    BY <2>4 DEF Rotate, Loop, PredicateError
  <2>5. QED
    BY <1>2, <2>1, <2>2, <2>3, <2>4 DEF Scheduler
<1>3. ASSUME NEW p \in Processes, Code(p) PROVE process'[q].state = "killed"
  <2>1. CASE \/ Yield(p) \/ Sigalrm(p) \/ StartFunction(p) \/ InterruptThrow(p)
             \/ WaitYield(p) \/ WaitRead(p) \/ \E f \in Flags : SetFlag(p, f)
    BY <2>1 DEF Yield, Sigalrm, StartFunction, InterruptThrow, WaitYield, WaitRead, SetFlag
  <2>2. CASE Die(p)
    <3>1. Fresh("killed", {}).state = "killed"
      BY DEF Fresh
    <3>2. QED
      BY <1>1, <2>2, <3>1 DEF Die
  <2>3. CASE InterruptReturn(p)
    <3>1. PICK x, y, z : process' = [process EXCEPT ![p].wait_function = x, ![p].wait_timeout = y,
                                                    ![p].wait_return_value = z]
      BY <2>3 DEF InterruptReturn
    <3> DEFINE r == [process[p] EXCEPT !.wait_function = x, !.wait_timeout = y,
                                       !.wait_return_value = z]
    <3>2. process' = [process EXCEPT ![p] = r]
      BY <1>0, <3>1
    <3>3. r.state = process[p].state
      BY <1>0 DEF Process
    <3> HIDE DEF r
    <3>4. QED
      BY <1>1, <3>2, <3>3
  <2>4. CASE WaitSetFunction(p)
    <3> DEFINE r == [process[p] EXCEPT !.wait_function = Top(p).fn]
    <3>1. process' = [process EXCEPT ![p] = r]
      BY <2>4 DEF WaitSetFunction
    <3>2. r.state = process[p].state
      BY <1>0 DEF Process
    <3> HIDE DEF r
    <3>3. QED
      BY <1>1, <3>1, <3>2
  <2>5. CASE RestartWait(p) \/ \E call \in WaitCalls, deadline \in Deadlines : CallWait(p, call[1], call[2], deadline)
    <3>1. PICK x, y : process' = [process EXCEPT ![p].wait_timeout = x, ![p].wait_function_args = y]
      BY <2>5 DEF RestartWait, CallWait, StartWait
    <3> DEFINE r == [process[p] EXCEPT !.wait_timeout = x, !.wait_function_args = y]
    <3>2. process' = [process EXCEPT ![p] = r]
      BY <1>0, <3>1
    <3>3. r.state = process[p].state
      BY <1>0 DEF Process
    <3> HIDE DEF r
    <3>4. QED
      BY <1>1, <3>2, <3>3
  <2>6. QED
    BY <1>3, <2>1, <2>2, <2>3, <2>4, <2>5 DEF Code
<1>4. ASSUME NEW p \in Processes, NEW o \in Processes, Operation(p, o) PROVE process'[q].state = "killed"
  <2>1. CASE MakeProcess(p, o)
    <3>1. o # q
      BY <2>1 DEF MakeProcess
    <3>2. QED
      BY <1>0, <2>1, <3>1 DEF MakeProcess
  <2>2. CASE SendThrow(o)
    <3>1. o = q => process' = process
      BY <2>2 DEF SendThrow
    <3>2. o # q => process'[q] = process[q]
      BY <1>0, <2>2 DEF SendThrow
    <3>3. QED
      BY <3>1, <3>2
  <2>3. CASE SetState(p, o, "active") \/ SetState(p, o, "inactive")
    <3>1. o # q
      BY <2>3 DEF SetState, Alive
    <3>2. QED
      BY <1>0, <2>3, <3>1 DEF SetState
  <2>4. CASE ProcessInterrupt(p, o)
    <3> DEFINE r == [process[o] EXCEPT !.interrupts = << "run" >> \o @]
    <3>1. process' = [process EXCEPT ![o] = r]
      BY <1>0, <2>4 DEF ProcessInterrupt
    <3>2. r.state = process[o].state
      BY <1>0 DEF Process
    <3> HIDE DEF r
    <3>3. QED
      BY <1>1, <3>1, <3>2
  <2>5. CASE AddArrestReason(p, o) \/ RevokeArrestReason(p, o)
    <3>1. PICK a : process' = [process EXCEPT ![o].arrest_reasons = a]
      BY <2>5 DEF AddArrestReason, RevokeArrestReason
    <3> DEFINE r == [process[o] EXCEPT !.arrest_reasons = a]
    <3>2. process' = [process EXCEPT ![o] = r]
      BY <3>1
    <3>3. r.state = process[o].state
      BY <1>0 DEF Process
    <3> HIDE DEF r
    <3>4. QED
      BY <1>1, <3>2, <3>3
  <2>6. CASE AddRunReason(p, o) \/ RevokeRunReason(p, o)
    <3>1. PICK a : process' = [process EXCEPT ![o].run_reasons = a]
      BY <1>0, <2>6 DEF AddRunReason, RevokeRunReason
    <3> DEFINE r == [process[o] EXCEPT !.run_reasons = a]
    <3>2. process' = [process EXCEPT ![o] = r]
      BY <3>1
    <3>3. r.state = process[o].state
      BY <1>0 DEF Process
    <3> HIDE DEF r
    <3>4. QED
      BY <1>1, <3>2, <3>3
  <2>7. QED
    BY <1>4, <2>1, <2>2, <2>3, <2>4, <2>5, <2>6 DEF Operation, DestroyProcess, RestartProcess
<1>5. CASE Tick \/ Stopped \/ UNCHANGED vars
  BY <1>5 DEF Tick, Stopped, vars
<1>6. QED
  BY <1>2, <1>3, <1>4, <1>5 DEF Next

LEMMA NextNow ==
  ASSUME Inv, Inv', [Next]_vars, \A p \in Processes : ~RestartBuild(p)
  PROVE  LaterStep
<1>1. Now.time \in Nat /\ Now'.time \in Nat
  BY DEF Now, Inv, TypeOK
<1>2. Now.time <= Now'.time
  <2>1. clock \in Nat /\ clock' \in {clock, clock + 1}
    <3>1. clock \in Nat
      BY DEF Inv, TypeOK
    <3>2. ASSUME NEW p \in Processes, Scheduler(p) \/ Code(p) PROVE clock' = clock
      BY <3>2 DEF Scheduler, Rotate, Resume, Loop, Return, RunInterrupt, PredicateError, Code, Yield,
                  Sigalrm, StartFunction, Die, InterruptReturn, InterruptThrow, WaitSetFunction,
                  WaitYield, WaitRead, RestartWait, RestartBuild, SetFlag, CallWait, world
    <3>3. ASSUME NEW p \in Processes, NEW q \in Processes, Operation(p, q) PROVE clock' = clock
      BY <3>3 DEF Operation, MakeProcess, ProcessInterrupt, DestroyProcess, RestartProcess, SetState,
                  AddArrestReason, RevokeArrestReason, AddRunReason, RevokeRunReason, Operates, world
    <3>4. QED
      BY <3>1, <3>2, <3>3 DEF Next, Tick, Stopped, vars, world
  <2>2. QED
    BY <2>1 DEF Now
<1>3. Now.dead \subseteq Now'.dead
  <2>1. CASE SoleRestarter
    <3>1. /\ Now.dead = {q \in Processes : process[q].state = "killed"}
          /\ Now'.dead = {q \in Processes : process'[q].state = "killed"}
      BY <2>1 DEF Now, SoleRestarter
    <3>2. QED
      BY <3>1, KilledStays
  <2>2. CASE ~SoleRestarter
    BY <2>2 DEF Now, SoleRestarter
  <2>3. QED
    BY <2>1, <2>2
<1>4. QED
  BY <1>1, <1>2, <1>3 DEF LaterStep, Later

LEMMA NextWaits ==
  ASSUME Inv, AllWaits, LaterStep, [Next]_vars, \A p \in Processes : ~RestartBuild(p)
  PROVE  AllWaits'
<1>1. ASSUME NEW p \in Processes, Scheduler(p) PROVE AllWaits'
  <2>1. PredicateError(p) => AllWaits'
    BY StutterWaits
  <2>2. QED
    BY <1>1, <2>1, RotateWaits, ResumeWaits, ReturnLoopWaits, RunInterruptWaits DEF Scheduler
<1>2. ASSUME NEW p \in Processes, Code(p) PROVE AllWaits'
  BY <1>2, YieldWaits, SigalrmWaits, StartFunctionWaits, DieWaits, InterruptReturnWaits,
     InterruptThrowWaits, WaitSetFunctionWaits, WaitYieldWaits, WaitReadWaits,
     RestartWaitWaits, SetFlagWaits, CallWaitWaits
     DEF Code
<1>3. ASSUME NEW p \in Processes, NEW q \in Processes, Operation(p, q) PROVE AllWaits'
  BY <1>3, MakeProcessWaits, SendWaits, RestartProcessWaits, ReasonsWaits DEF Operation
<1>4. QED
  BY <1>1, <1>2, <1>3, StutterWaits DEF Next

LEMMA NextRestarts ==
  ASSUME Inv, AllWaits, AllRestarts, LaterStep, [Next]_vars, \A p \in Processes : ~RestartBuild(p)
  PROVE  AllRestarts'
<1>1. ASSUME NEW p \in Processes, Scheduler(p) PROVE AllRestarts'
  <2>1. PredicateError(p) => AllRestarts'
    BY SameRestarts DEF PredicateError
  <2>2. QED
    BY <1>1, <2>1, LoopRestarts, ReturnRestarts, RunInterruptRestarts DEF Scheduler
<1>2. ASSUME NEW p \in Processes, Code(p) PROVE AllRestarts'
  <2>1. (\E f \in Flags : SetFlag(p, f)) => AllRestarts'
    BY SameRestarts DEF SetFlag
  <2>2. QED
    BY <1>2, <2>1, CallRestarts, MoveRestarts, ThrowRestarts, InterruptReturnRestarts,
       WaitYieldRestarts, WaitReadRestarts, RestartWaitRestarts
       DEF Code
<1>3. ASSUME NEW p \in Processes, NEW q \in Processes, Operation(p, q) PROVE AllRestarts'
  BY <1>3, MakeProcessRestarts, CallRestarts, RestartProcessRestarts, ReasonsRestarts DEF Operation
<1>4. CASE Tick \/ Stopped \/ UNCHANGED vars
  BY <1>4, SameRestarts DEF Tick, Stopped, vars
<1>5. QED
  BY <1>1, <1>2, <1>3, <1>4 DEF Next

(* The invariant of every program: the shapes, the waits, the restarts. *)
WholeInv == Inv /\ AllWaits /\ AllRestarts

LEMMA InitWhole == Init => WholeInv
BY InitInv, InitWaits, InitRestarts DEF WholeInv

LEMMA BuiltIsDead ==
  ASSUME WholeInv, SoleRestarter, NEW p \in Processes, RestartBuild(p)
  PROVE  process[Top(p).target].state = "killed"
BY RestartBuildFacts DEF WholeInv, Now

LEMMA NextWhole ==
  ASSUME WholeInv, [Next]_vars
  PROVE  WholeInv'
<1>1. Inv /\ AllWaits /\ AllRestarts
  BY DEF WholeInv
<1>2. Inv'
  BY <1>1, BuiltIsDead, NextInv
<1>3. CASE \E p \in Processes : RestartBuild(p)
  BY <1>1, <1>2, <1>3, RestartBuildWaits, RestartBuildRestarts DEF WholeInv
<1>4. CASE \A p \in Processes : ~RestartBuild(p)
  <2>1. LaterStep
    BY <1>1, <1>2, <1>4, NextNow
  <2>2. QED
    BY <1>1, <1>2, <1>4, <2>1, NextWaits, NextRestarts DEF WholeInv
<1>5. QED
  BY <1>3, <1>4

-----------------------------------------------------------------------------
(* The process structures, the stacks, the lists and the counters keep their
   types, whatever the processes do.                                       *)
THEOREM TypeCorrect == Spec => []TypeOK
<1>1. Inv => TypeOK
  BY DEF Inv
<1>2. QED
  BY <1>1, InitWhole, NextWhole, PTL DEF Spec, WholeInv

(* What the assertions of process-yield and process-wait say is true, as long as
   one function restarts processes (two restarts of one process list it twice). *)
THEOREM AssertsHold ==
  ASSUME SoleRestarter
  PROVE  Spec => []SchedulerAsserts
<1>1. ASSUME Inv PROVE SchedulerAsserts
  <2>1. QueueInv
    BY <1>1 DEF Inv
  <2>2. ASSUME NEW p \in Processes, InLoop(p, "rotate") PROVE Alive(Head(Rotated))
    <3>1. 1 \in 1..Len(Rotated) /\ Head(Rotated) = Rotated[1]
      BY <1>1, RotatedFacts
    <3>2. QED
      BY <1>1, <3>1, RotatedInv
  <2>3. ASSUME NEW p \in Processes, InCode(p) PROVE ~Waits(p)
    BY <1>1, <2>3, ExecutesFacts DEF Waits
  <2>4. QED
    BY <2>1, <2>2, <2>3 DEF QueueInv, SchedulerAsserts
<1>2. QED
  BY <1>1, InitWhole, NextWhole, PTL DEF Spec, WholeInv

(* *all-processes* lists each live process once, and no dead one; and each live
   process but the current one is suspended where the scheduler can resume it. *)
THEOREM ListedOnce ==
  ASSUME SoleRestarter
  PROVE  Spec => []AllAreAlive
<1>1. ASSUME Inv PROVE AllAreAlive
  <2>1. QueueInv /\ \A q \in Processes : Alive(q) => Listed(q, all_processes)
    BY <1>1 DEF Inv
  <2>2. all_processes \in Seq(Processes) /\ DOMAIN all_processes = 1..Len(all_processes)
    BY <1>1 DEF Inv, TypeOK
  <2>3. ASSUME NEW q \in Processes
        PROVE  Alive(q) <=> Cardinality({i \in DOMAIN all_processes : all_processes[i] = q}) = 1
    <3> DEFINE places == {i \in DOMAIN all_processes : all_processes[i] = q}
    <3>1. CASE Alive(q)
      <4>1. PICK k \in 1..Len(all_processes) : all_processes[k] = q
        BY <2>1, <3>1 DEF Listed
      <4>2. places = {k}
        BY <2>1, <2>2, <4>1 DEF QueueInv, NoRepetition
      <4>3. QED
        BY <3>1, <4>2, FS_Singleton
    <3>2. CASE ~Alive(q)
      <4>1. places = {}
        BY <2>1, <2>2, <3>2 DEF QueueInv
      <4>2. QED
        BY <3>2, <4>1, FS_EmptySet
    <3>3. QED
      BY <3>1, <3>2
  <2>4. ASSUME NEW q \in Processes \ {current_process}, Alive(q)
        PROVE  \/ Top(q).kind \in {"yield", "sigalrm"} /\ Top(q).at = "check"
               \/ Top(q).at = "start"
    BY <2>1, <2>4 DEF QueueInv, Suspended, Yields, Top
  <2>5. QED
    BY <2>3, <2>4 DEF AllAreAlive
<1>2. QED
  BY <1>1, InitWhole, NextWhole, PTL DEF Spec, WholeInv

(* Nothing but an active process leaves the scheduler: neither process-yield when
   it returns or runs an interrupt, nor the first call of a new process.    *)
THEOREM OnlyActiveResumeHolds ==
  ASSUME SoleRestarter
  PROVE  Spec => OnlyActiveResume
<1> DEFINE Step == inhibit_scheduling /\ ~inhibit_scheduling' => IsActive(process[current_process])'
<1>1. ASSUME Inv, [Next]_vars PROVE Step
  <2> SUFFICES ASSUME inhibit_scheduling, ~inhibit_scheduling'
               PROVE  IsActive(process'[current_process'])
    OBVIOUS
  <2>1. ASSUME NEW p \in Processes, Scheduler(p) PROVE IsActive(process'[current_process'])
    <3>1. PICK a : InLoop(p, a) /\ (Return(p) \/ RunInterrupt(p))
      BY <2>1 DEF Scheduler, Rotate, Resume, Loop, PredicateError, Return, RunInterrupt
    <3>2. /\ p = current_process /\ process \in [Processes -> Process] /\ Active(p)
          /\ current_process' = current_process
      BY <1>1, <3>1, LoopFacts DEF Return, RunInterrupt
    <3>3. CASE Return(p)
      <4>1. PICK r \in Returns(p) : process' = [process EXCEPT ![p] = r]
        BY <3>3 DEF Return
      <4>2. /\ r.state = process[p].state /\ r.run_reasons = process[p].run_reasons
            /\ r.arrest_reasons = process[p].arrest_reasons
        BY <1>1, ReturnFacts
      <4>3. QED
        BY <3>2, <4>1, <4>2 DEF Active, IsActive
    <3>4. CASE RunInterrupt(p)
      <4> DEFINE r == [process[p] EXCEPT !.interrupts = Tail(@), !.wait_function = NoFunction,
                                         !.wait_timeout = None, !.wait_return_value = None]
      <4>1. process' = [process EXCEPT ![p] = r]
        BY <3>4 DEF RunInterrupt
      <4>2. /\ r.state = process[p].state /\ r.run_reasons = process[p].run_reasons
            /\ r.arrest_reasons = process[p].arrest_reasons
        BY <3>2 DEF Process
      <4> HIDE DEF r
      <4>3. QED
        BY <3>2, <4>1, <4>2 DEF Active, IsActive
    <3>5. QED
      BY <3>1, <3>3, <3>4
  <2>2. ASSUME NEW p \in Processes, Code(p) PROVE IsActive(process'[current_process'])
    <3>1. StartFunction(p)
      BY <2>2 DEF Code, Yield, Sigalrm, Die, InterruptReturn, InterruptThrow, WaitSetFunction,
                  WaitYield, WaitRead, RestartWait, RestartBuild, SetFlag, CallWait, InCode, InCall, Runs
    <3>2. Top(p).at = "start" /\ p = current_process /\ UNCHANGED <<process, current_process>>
      BY <3>1 DEF StartFunction
    <3>3. stack[p][1].at = "start"
      <4>1. /\ Top(p) = stack[p][Len(stack[p])] /\ StackShape(stack[p])
            /\ Len(stack[p]) \in 1..Len(stack[p])
        BY <1>1, <3>2, ExecutingFacts, TopFacts
      <4>2. Len(stack[p]) = 1
        BY <3>2, <4>1 DEF StackShape
      <4>3. QED
        BY <3>2, <4>1, <4>2
    <3>4. QED
      BY <1>1, <3>2, <3>3 DEF Inv, QueueInv, Active
  <2>3. ASSUME NEW p \in Processes, NEW q \in Processes, Operation(p, q) PROVE FALSE
    BY <2>3 DEF Operation, MakeProcess, ProcessInterrupt, DestroyProcess, RestartProcess, SetState,
                AddArrestReason, RevokeArrestReason, AddRunReason, RevokeRunReason, Operates, InCode, Runs
  <2>4. QED
    BY <1>1, <2>1, <2>2, <2>3 DEF Next, Tick, Stopped, vars
<1>2. Spec => [][Step]_vars
  BY <1>1, InitWhole, NextWhole, PTL DEF Spec, WholeInv
<1>3. QED
  BY <1>2 DEF OnlyActiveResume

(* A call of process-wait that waits finds its wait in the process structure, or
   saved on the stack by the process-yield on top of it, until it has its answer,
   whatever interrupts run on the process and wait themselves; and what answers
   it is the value of its own predicate or the end of its own timeout.     *)
THEOREM WaitsAreKept == Spec => []WaitIsKept
<1>1. ASSUME Inv, AllWaits PROVE WaitIsKept
  <2> SUFFICES ASSUME NEW p \in Processes, NEW i \in DOMAIN stack[p],
                      stack[p][i].kind = "wait", stack[p][i].at = "read"
               PROVE  \/ /\ i < Len(stack[p])
                         /\ Kept(process[p], stack[p], i).wait_function = stack[p][i].fn
                         /\ Kept(process[p], stack[p], i).wait_timeout = stack[p][i].deadline
                      \/ /\ Kept(process[p], stack[p], i).wait_function = NoFunction
                         /\ Answers(stack[p][i], Kept(process[p], stack[p], i).wait_return_value)
    BY DEF WaitIsKept, Kept, WaitOf
  <2> DEFINE f == stack[p][i]
             k == Kept(process[p], stack[p], i)
  <2>1. stack[p] \in Seq(Frame)
    BY <1>1 DEF Inv, TypeOK
  <2>2. i \in 1..Len(stack[p])
    BY <2>1, LenProperties
  <2>3. WaitFrame(f, i = Len(stack[p]), k, Now)
    BY <1>1, <2>2 DEF AllWaits, WaitInv
  <2>4. i = Len(stack[p]) \/ i < Len(stack[p])
    BY <2>1, <2>2
  <2> HIDE DEF k
  <2>5. Waiting(f, k) \/ Answered(f, k, Now)
    BY <2>3 DEF WaitFrame
  <2>6. i = Len(stack[p]) => Answered(f, k, Now)
    BY <2>3 DEF WaitFrame
  <2>7. Answered(f, k, Now) => k.wait_function = NoFunction /\ Answers(f, k.wait_return_value)
    BY DEF Answered, Replied, Answers, Now
  <2>8. QED
    BY <2>4, <2>5, <2>6, <2>7 DEF Waiting, k
<1>2. QED
  BY <1>1, InitWhole, NextWhole, PTL DEF Spec, WholeInv

(* restart-process builds a process anew on a new stack only once the old stack has
   been unwound, as long as one function restarts processes: its process-wait has
   seen the process dead, and nothing else raises the dead.                 *)
THEOREM OnlyTheDeadRestart ==
  ASSUME SoleRestarter
  PROVE  Spec => RestartsTheDead
<1> DEFINE Step == \A p \in Processes : RestartBuild(p) => process[Top(p).target].state = "killed"
<1>1. WholeInv => Step
  BY BuiltIsDead
<1>2. Spec => [][Step]_vars
  BY <1>1, InitWhole, NextWhole, PTL DEF Spec
<1>3. QED
  BY <1>2 DEF RestartsTheDead
=============================================================================
