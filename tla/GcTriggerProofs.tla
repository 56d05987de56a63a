--------------------------- MODULE GcTriggerProofs ---------------------------
(***************************************************************************)
(* Proofs about the trigger of the collector and the finalizers: a request  *)
(* for a collection is never lost, the trigger keeps watching the heap      *)
(* however often it was doubled, no collection comes before its time, and a *)
(* registration stays until its function was called, which happens once.    *)
(*                                                                         *)
(* IInv is about the trigger and the hooks on the stack; FinInv, on top of  *)
(* it, about the list of registrations and its walk by finalize-corpses.    *)
(***************************************************************************)
EXTENDS GcTrigger, SequenceTheorems, TLAPS

FinType == [list : Seq(Reg), broken : SUBSET Reg, rest : Seq(Reg), kept : Seq(Reg),
            linked : BOOLEAN, gone : Nat, failed : BOOLEAN,
            made : 0..MaxRegs, called : [Reg -> Nat], inner : SUBSET Reg, cancelled : SUBSET Reg,
            spoilt : SUBSET Reg]

Hooks(s) == {i \in DOMAIN s : s[i].f \in {"before", "after"}}

\* A collection is somewhere on the stack, once, when *already-maybe-gcing* is set.
OneCollection(s, g) ==
  /\ \A i, j \in Hooks(s) : i = j
  /\ g <=> Hooks(s) # {}

\* Once the collector ran, the request is answered.
Answered(s, n) == \A i \in DOMAIN s : s[i].f = "after" => ~n

Callers(s) == {i \in DOMAIN s : s[i].f = "finalizer"}

\* A finalizer is called out of the hooks of a collection, for the head of the rest.
OneFinalizer(s, f) ==
  /\ \A i, j \in Callers(s) : i = j
  /\ \A i \in Callers(s) : f.rest # << >> /\ Head(f.rest) \in f.broken /\ \E j \in DOMAIN s : j < i /\ s[j].f = "after"

Types ==
  /\ bytes \in 1..Heap /\ auto \in 0..Clear /\ consed \in Consings /\ trigger \in Nat \union {NIL}
  /\ need \in BOOLEAN /\ inhibit \in BOOLEAN /\ gcing \in BOOLEAN
  /\ stack \in Seq(Frame) /\ fin \in FinType
  /\ since \in [post : 1..Heap, least : Consings, most : Consings]

\* What *gc-trigger* is, and how far the heap got since it was set.
Consumption ==
  /\ since.least <= consed /\ consed <= since.most
  /\ trigger # NIL => trigger = since.post + consed
  /\ trigger = NIL => auto = Clear
  /\ need => bytes >= since.post + since.least

Watch == trigger # NIL => auto > 0 /\ (auto < 2 * bytes \/ auto < since.post + since.most)

IInv ==
  /\ Types
  /\ OneCollection(stack, gcing)
  /\ Answered(stack, need)
  /\ OneFinalizer(stack, fin)
  /\ Consumption
  /\ Watch
  /\ need /\ ~gcing => inhibit

-----------------------------------------------------------------------------
(* Sequences and frames.                                                     *)

LEMMA UnlinkType ==
  ASSUME NEW S, NEW s \in Seq(S), NEW r
  PROVE  Unlink(s, r) \in Seq(S)
<1>1. CASE r \in ToSet(s)
  <2> DEFINE k == CHOOSE i \in DOMAIN s : s[i] = r
  <2>1. \E i \in DOMAIN s : s[i] = r
    BY <1>1 DEF ToSet
  <2>2. k \in DOMAIN s
    BY <2>1
  <2>3. k \in 1..Len(s) /\ k - 1 \in 0..Len(s) /\ k + 1 \in 1..(Len(s) + 1)
    BY <2>2
  <2> HIDE DEF k
  <2>4. SubSeq(s, 1, k - 1) \in Seq(S) /\ SubSeq(s, k + 1, Len(s)) \in Seq(S)
    BY <2>3
  <2>5. RemoveAt(s, k) \in Seq(S)
    BY <2>4 DEF RemoveAt
  <2>6. QED
    BY <1>1, <2>5 DEF Unlink, k
<1>2. QED
  BY <1>1 DEF Unlink

\* Without the cons of r, the others keep their order.
LEMMA UnlinkIs ==
  ASSUME NEW S, NEW s \in Seq(S), NEW r \in ToSet(s)
  PROVE  /\ Len(s) \in Nat /\ DOMAIN s = 1..Len(s) /\ DOMAIN Unlink(s, r) = 1..(Len(s) - 1)
         /\ \E k \in 1..Len(s) : s[k] = r /\ \A i \in 1..(Len(s) - 1) :
                 Unlink(s, r)[i] = s[IF i < k THEN i ELSE i + 1]
<1> DEFINE k == CHOOSE i \in DOMAIN s : s[i] = r
           n == Len(s)
           u == SubSeq(s, 1, k - 1)
           v == SubSeq(s, k + 1, n)
           t == u \o v
<1>1. \E i \in DOMAIN s : s[i] = r
  BY DEF ToSet
<1>2. k \in DOMAIN s /\ s[k] = r
  BY <1>1
<1>3. n \in Nat /\ DOMAIN s = 1..n /\ k \in 1..n /\ \A i \in 1..n : s[i] \in S
  BY <1>2
<1>4. t = Unlink(s, r)
  <2>1. Unlink(s, r) = RemoveAt(s, k)
    BY DEF Unlink
  <2> HIDE DEF k
  <2>2. QED
    BY <2>1 DEF RemoveAt
<1> HIDE DEF k, n
<1>5. u \in Seq(S) /\ Len(u) = k - 1 /\ \A i \in 1..(k - 1) : u[i] = s[i]
  <2>1. /\ 1 \in Int /\ k - 1 \in Int /\ \A i \in 1..(k - 1) : s[i] \in S
    BY <1>3
  <2>2. /\ u \in Seq(S) /\ Len(u) = (IF 1 <= k - 1 THEN k - 1 - 1 + 1 ELSE 0)
        /\ \A i \in 1..(k - 1 - 1 + 1) : u[i] = s[1 + i - 1]
    BY <2>1, SubSeqProperties
  <2> HIDE DEF u
  <2>3. (IF 1 <= k - 1 THEN k - 1 - 1 + 1 ELSE 0) = k - 1 /\ k - 1 - 1 + 1 = k - 1
    BY <1>3
  <2>4. \A i \in 1..(k - 1) : 1 + i - 1 = i
    OBVIOUS
  <2>5. QED
    BY <2>2, <2>3, <2>4
<1>6. v \in Seq(S) /\ Len(v) = n - k /\ \A i \in 1..(n - k) : v[i] = s[k + i]
  <2>1. /\ k + 1 \in Int /\ n \in Int /\ \A i \in (k + 1)..n : s[i] \in S
    BY <1>3
  <2>2. /\ v \in Seq(S) /\ Len(v) = (IF k + 1 <= n THEN n - (k + 1) + 1 ELSE 0)
        /\ \A i \in 1..(n - (k + 1) + 1) : v[i] = s[k + 1 + i - 1]
    BY <2>1, SubSeqProperties
  <2> HIDE DEF v
  <2>3. (IF k + 1 <= n THEN n - (k + 1) + 1 ELSE 0) = n - k /\ n - (k + 1) + 1 = n - k
    BY <1>3
  <2>4. \A i \in 1..(n - k) : k + 1 + i - 1 = k + i
    BY <1>3
  <2>5. QED
    BY <2>2, <2>3, <2>4
<1> HIDE DEF u, v
<1>7. /\ t \in Seq(S) /\ Len(t) = (k - 1) + (n - k)
      /\ \A i \in 1..((k - 1) + (n - k)) : t[i] = IF i <= k - 1 THEN u[i] ELSE v[i - (k - 1)]
  <2>1. /\ t \in Seq(S) /\ Len(t) = Len(u) + Len(v)
        /\ \A i \in 1..(Len(u) + Len(v)) : t[i] = IF i <= Len(u) THEN u[i] ELSE v[i - Len(u)]
    BY <1>5, <1>6, ConcatProperties
  <2> HIDE DEF t
  <2>2. QED
    BY <1>5, <1>6, <2>1
<1> HIDE DEF t
<1> DEFINE at(i) == IF i < k THEN i ELSE i + 1
<1>8. DOMAIN t = 1..(n - 1) /\ \A i \in 1..(n - 1) : t[i] = s[at(i)] /\ at(i) \in 1..n /\ at(i) # k
  <2>1. (k - 1) + (n - k) = n - 1
    BY <1>3
  <2>2. DOMAIN t = 1..(n - 1)
    BY <1>7, <2>1
  <2>3. ASSUME NEW i \in 1..(n - 1)
        PROVE  t[i] = s[at(i)] /\ at(i) \in 1..n /\ at(i) # k
    <3>1. CASE i < k
      <4>1. i \in 1..(k - 1) /\ i <= k - 1 /\ at(i) = i
        BY <1>3, <3>1
      <4>2. t[i] = u[i]
        BY <1>7, <2>1, <4>1
      <4>3. QED
        BY <1>3, <1>5, <3>1, <4>1, <4>2
    <3>2. CASE ~(i < k)
      <4>1. i - (k - 1) \in 1..(n - k) /\ ~(i <= k - 1) /\ at(i) = i + 1 /\ k + (i - (k - 1)) = i + 1
        BY <1>3, <3>2
      <4>2. t[i] = v[i - (k - 1)]
        BY <1>7, <2>1, <4>1
      <4>3. QED
        BY <1>3, <1>6, <3>2, <4>1, <4>2
    <3>3. QED
      BY <3>1, <3>2
  <2>4. QED
    BY <2>2, <2>3
<1>9. s[k] = r /\ \A i \in 1..(n - 1) : t[i] = s[IF i < k THEN i ELSE i + 1]
  BY <1>2, <1>8
<1> HIDE DEF at
<1>10. QED
  BY <1>3, <1>4, <1>8, <1>9 DEF n

LEMMA UnlinkHead ==
  ASSUME NEW S, NEW s \in Seq(S), NEW r, s # << >>, Head(s) # r
  PROVE  Unlink(s, r) # << >> /\ Head(Unlink(s, r)) = Head(s)
<1> DEFINE t == Unlink(s, r)
<1>1. CASE r \in ToSet(s)
  <2>1. Len(s) \in Nat /\ DOMAIN t = 1..(Len(s) - 1) /\ t \in Seq(S)
    BY <1>1, UnlinkIs, UnlinkType
  <2>2. PICK k \in 1..Len(s) : s[k] = r /\ \A i \in 1..(Len(s) - 1) : t[i] = s[IF i < k THEN i ELSE i + 1]
    BY <1>1, UnlinkIs
  <2> HIDE DEF t
  <2>3. Head(s) = s[1]
    BY HeadTailProperties
  <2>4. k > 1 /\ 1 \in 1..(Len(s) - 1)
    BY <2>1, <2>2, <2>3
  <2>5. t[1] = s[1] /\ t # << >>
    BY <2>1, <2>2, <2>4
  <2>6. QED
    BY <2>1, <2>3, <2>5, HeadTailProperties DEF t
<1>2. CASE r \notin ToSet(s)
  BY <1>2 DEF Unlink
<1>3. QED
  BY <1>1, <1>2

LEMMA Pushed ==
  ASSUME NEW s \in Seq(Frame), NEW e \in Frame
  PROVE  LET t == Append(s, e)
         IN /\ t \in Seq(Frame)
            /\ DOMAIN t = DOMAIN s \union {Len(s) + 1}
            /\ Len(s) + 1 \notin DOMAIN s
            /\ \A i \in DOMAIN s : t[i] = s[i]
            /\ t[Len(s) + 1] = e
            /\ e.f \notin {"before", "after"} => Hooks(t) = Hooks(s)
            /\ e.f \in {"before", "after"} => Hooks(t) = Hooks(s) \union {Len(s) + 1}
            /\ \A f : e.f # "finalizer" /\ OneFinalizer(s, f) => OneFinalizer(t, f)
<1> DEFINE t == Append(s, e)
<1>1. t \in Seq(Frame) /\ Len(t) = Len(s) + 1 /\ t[Len(s) + 1] = e
  BY AppendProperties
<1>2. \A i \in 1..Len(s) : t[i] = s[i]
  BY AppendProperties
<1>3. DOMAIN t = 1..(Len(s) + 1) /\ DOMAIN s = 1..Len(s) /\ Len(s) \in Nat
  BY <1>1
<1>4. DOMAIN t = DOMAIN s \union {Len(s) + 1} /\ Len(s) + 1 \notin DOMAIN s
  BY <1>3
<1> HIDE DEF t
<1>5. /\ e.f \notin {"before", "after"} => Hooks(t) = Hooks(s)
      /\ e.f \in {"before", "after"} => Hooks(t) = Hooks(s) \union {Len(s) + 1}
  BY <1>1, <1>2, <1>3, <1>4 DEF Hooks
<1>6. ASSUME NEW f, e.f # "finalizer", OneFinalizer(s, f)
      PROVE  OneFinalizer(t, f)
  <2>1. Callers(t) = Callers(s) /\ Callers(s) \subseteq DOMAIN s
    BY <1>1, <1>2, <1>3, <1>4, <1>6 DEF Callers
  <2>2. \A i \in Callers(s) : f.rest # << >> /\ Head(f.rest) \in f.broken /\ \E j \in DOMAIN s : j < i /\ s[j].f = "after"
    BY <1>6 DEF OneFinalizer
  <2>3. \A i \in Callers(s) : f.rest # << >> /\ Head(f.rest) \in f.broken /\ \E j \in DOMAIN t : j < i /\ t[j].f = "after"
    BY <1>2, <1>3, <1>4, <2>2
  <2>4. QED
    BY <1>6, <2>1, <2>3 DEF OneFinalizer
<1>7. QED
  BY <1>1, <1>2, <1>3, <1>4, <1>5, <1>6 DEF t

LEMMA Popped ==
  ASSUME stack \in Seq(Frame), stack # << >>
  PROVE  /\ Below \in Seq(Frame)
         /\ Len(stack) \in DOMAIN stack /\ stack[Len(stack)] \in Frame
         /\ DOMAIN Below = DOMAIN stack \ {Len(stack)}
         /\ \A i \in DOMAIN Below : Below[i] = stack[i]
         /\ Hooks(Below) = Hooks(stack) \ {Len(stack)}
         /\ Callers(Below) = Callers(stack) \ {Len(stack)}
         /\ \A f : OneFinalizer(stack, f) => OneFinalizer(Below, f)
<1>1. Len(stack) \in Nat \ {0} /\ DOMAIN stack = 1..Len(stack)
  BY EmptySeq
<1>2. Below \in Seq(Frame) /\ Len(Below) = Len(stack) - 1 /\ \A i \in 1..(Len(stack) - 1) : Below[i] = stack[i]
  BY <1>1 DEF Below
<1>3. DOMAIN Below = 1..(Len(stack) - 1)
  BY <1>1, <1>2
<1>4. DOMAIN Below = DOMAIN stack \ {Len(stack)} /\ \A i \in DOMAIN Below : Below[i] = stack[i]
  BY <1>1, <1>2, <1>3
<1>5. Hooks(Below) = Hooks(stack) \ {Len(stack)}
  BY <1>4 DEF Hooks
<1>6. stack[Len(stack)] \in Frame
  BY <1>1
<1>7. Len(stack) \in DOMAIN stack
  BY <1>1
<1>8. Callers(Below) = Callers(stack) \ {Len(stack)}
  BY <1>4 DEF Callers
<1>9. ASSUME NEW f, OneFinalizer(stack, f)
      PROVE  OneFinalizer(Below, f)
  <2>1. ASSUME NEW i \in Callers(Below)
        PROVE  f.rest # << >> /\ Head(f.rest) \in f.broken /\ \E j \in DOMAIN Below : j < i /\ Below[j].f = "after"
    <3>1. i \in 1..(Len(stack) - 1) /\ i \in Callers(stack)
      BY <1>3, <1>8, <2>1 DEF Callers
    <3>2. PICK j \in DOMAIN stack : f.rest # << >> /\ Head(f.rest) \in f.broken /\ j < i /\ stack[j].f = "after"
      BY <1>9, <3>1 DEF OneFinalizer
    <3>3. j \in DOMAIN Below
      BY <1>1, <1>3, <3>1, <3>2
    <3>4. QED
      BY <1>4, <3>2, <3>3
  <2>2. QED
    BY <1>8, <1>9, <2>1 DEF OneFinalizer
<1>10. QED
  BY <1>2, <1>4, <1>5, <1>6, <1>7, <1>8, <1>9

LEMMA TopIs ==
  ASSUME stack \in Seq(Frame), Top # "program"
  PROVE  stack # << >> /\ stack[Len(stack)].f = Top
BY DEF Top

LEMMA Frames ==
  /\ [f |-> "before"] \in Frame /\ [f |-> "after"] \in Frame /\ [f |-> "alloc"] \in Frame
  /\ \A o \in BOOLEAN : [f |-> "without-gcing", old |-> o] \in Frame
  /\ \A r \in Reg : [f |-> "finalizer", reg |-> r] \in Frame
  /\ \A e \in Frame : e.f = "without-gcing" => e.old \in BOOLEAN
BY DEF Frame

-----------------------------------------------------------------------------
(* Unsigned arithmetic: nothing wraps but the new trigger, and that on       *)
(* purpose.                                                                  *)

LEMMA WrapType ==
  ASSUME NEW n \in Nat
  PROVE  Wrap(n) \in 0..Clear
<1>1. Clear + 1 \in Nat \ {0}
  BY TriggerAssumption
<1>2. \A k \in Nat \ {0}, m \in Nat : m % k \in 0..(k - 1)
  BY SMT
<1>3. n % (Clear + 1) \in 0..((Clear + 1) - 1)
  BY <1>1, <1>2
<1>4. (Clear + 1) - 1 = Clear
  BY TriggerAssumption
<1>5. QED
  BY <1>3, <1>4 DEF Wrap

LEMMA DoubleExact ==
  ASSUME Types, bytes > auto
  PROVE  Double = 2 * auto /\ Double \in 0..Clear
<1>1. auto \in Nat /\ Clear \in Nat /\ 2 * auto < Clear + 1
  BY TriggerAssumption DEF Types
<1>2. \A k, n \in Nat : n < k => n % k = n
  BY SMT
<1>3. Double = 2 * auto
  BY <1>1, <1>2 DEF Double, Wrap
<1>4. QED
  BY <1>1, <1>3

LEMMA ArmExact ==
  ASSUME NEW n \in Nat \ {0}, n <= Clear + 1
  PROVE  Wrap(Clear + n) = n - 1 /\ Wrap(Clear + n) \in 0..Clear
<1>1. Clear \in Nat /\ Clear + n >= Clear + 1 /\ Clear + n < 2 * (Clear + 1)
  BY TriggerAssumption
<1>2. \A k, m \in Nat : m >= k /\ m < 2 * k => m % k = m - k
  BY SMT
<1>3. (Clear + n) % (Clear + 1) = (Clear + n) - (Clear + 1)
  <2>1. Clear + 1 \in Nat /\ Clear + n \in Nat
    BY <1>1
  <2>2. QED
    BY <1>1, <1>2, <2>1, Zenon
<1>4. (Clear + n) - (Clear + 1) = n - 1 /\ n - 1 \in 0..Clear
  BY <1>1
<1>5. QED
  BY <1>3, <1>4 DEF Wrap

LEMMA NewTrigger ==
  ASSUME NEW b \in 1..Heap, NEW n \in Consings
  PROVE  b + n \in Nat \ {0, 1} /\ b + n <= Clear
BY TriggerAssumption

-----------------------------------------------------------------------------
(* sub-gc, wherever it is called.                                            *)

LEMMA CallOfSubGc ==
  ASSUME NEW base \in Seq(Frame), NEW inh \in BOOLEAN, NEW trig \in Nat \union {NIL}, NEW force \in BOOLEAN,
         Types, SubGc(base, inh, trig, force),
         OneCollection(base, gcing), Answered(base, need), NEW f, OneFinalizer(base, f),
         need /\ ~gcing /\ ~inh => Due(trig)
  PROVE  /\ stack' \in Seq(Frame) /\ need' \in BOOLEAN /\ inhibit' \in BOOLEAN /\ gcing' \in BOOLEAN
         /\ OneCollection(stack', gcing') /\ Answered(stack', need') /\ OneFinalizer(stack', f)
         /\ need' /\ ~gcing' => inhibit'
         /\ need' => need \/ Due(trig)
         /\ ~gcing /\ gcing' => force \/ Due(trig)
<1>1. CASE gcing
  BY <1>1 DEF SubGc, Types
<1>2. CASE ~gcing
  <2>1. need' = Due(trig) /\ Due(trig) \in BOOLEAN
    BY <1>2 DEF SubGc, Due, Types
  <2>2. \A i \in DOMAIN base : base[i].f \notin {"before", "after"}
    BY <1>2 DEF OneCollection, Hooks
  <2>3. CASE stack' = base /\ ~gcing'
    BY <1>2, <2>1, <2>2, <2>3 DEF SubGc, OneCollection, Answered, Types
  <2>4. CASE stack' = Append(base, [f |-> "before"]) /\ gcing' = TRUE /\ inhibit' = inh
             /\ (force \/ (Due(trig) /\ ~inh))
    <3> DEFINE e == [f |-> "before"]
    <3>1. e \in Frame /\ e.f = "before"
      BY Frames
    <3>2. /\ stack' \in Seq(Frame) /\ DOMAIN stack' = DOMAIN base \union {Len(base) + 1}
          /\ \A i \in DOMAIN base : stack'[i] = base[i]
          /\ stack'[Len(base) + 1].f = "before"
          /\ Hooks(stack') = Hooks(base) \union {Len(base) + 1}
          /\ OneFinalizer(stack', f)
      BY <2>4, <3>1, Pushed
    <3>3. Hooks(base) = {}
      BY <1>2 DEF OneCollection
    <3>4. OneCollection(stack', gcing')
      BY <2>4, <3>2, <3>3 DEF OneCollection
    <3>5. Answered(stack', need')
      BY <2>2, <3>2 DEF Answered
    <3>6. QED
      BY <2>1, <2>4, <3>2, <3>4, <3>5
  <2>5. QED
    BY <1>2, <2>3, <2>4 DEF SubGc, Types
<1>3. QED
  BY <1>1, <1>2 DEF Types

-----------------------------------------------------------------------------
(* Steps that push or pop what is no hook of a collection.                   *)

LEMMA PushKeeps ==
  ASSUME IInv, NEW e \in Frame, e.f \notin {"before", "after"}
  PROVE  LET t == Append(stack, e)
         IN /\ t \in Seq(Frame) /\ OneCollection(t, gcing) /\ Answered(t, need)
            /\ e.f # "finalizer" => OneFinalizer(t, fin)
<1> DEFINE t == Append(stack, e)
<1>1. /\ t \in Seq(Frame) /\ DOMAIN t = DOMAIN stack \union {Len(stack) + 1}
      /\ \A i \in DOMAIN stack : t[i] = stack[i]
      /\ t[Len(stack) + 1] = e /\ Hooks(t) = Hooks(stack)
      /\ OneFinalizer(stack, fin) /\ e.f # "finalizer" => OneFinalizer(t, fin)
  BY Pushed DEF IInv, Types
<1> HIDE DEF t
<1>2. OneCollection(t, gcing)
  BY <1>1 DEF IInv, OneCollection
<1>3. Answered(t, need)
  BY <1>1 DEF IInv, Answered
<1>4. QED
  BY <1>1, <1>2, <1>3 DEF t, IInv

LEMMA PopKeeps ==
  ASSUME IInv, Top \notin {"program", "before", "after"}
  PROVE  /\ Below \in Seq(Frame) /\ OneCollection(Below, gcing) /\ Answered(Below, need)
         /\ OneFinalizer(Below, fin)
         /\ Top = "finalizer" => Callers(Below) = {} /\ fin.rest # << >>
<1>1. stack # << >> /\ stack[Len(stack)].f = Top
  BY TopIs DEF IInv, Types
<1>2. /\ Below \in Seq(Frame) /\ DOMAIN Below = DOMAIN stack \ {Len(stack)}
      /\ \A i \in DOMAIN Below : Below[i] = stack[i]
      /\ Hooks(Below) = Hooks(stack) \ {Len(stack)}
      /\ Callers(Below) = Callers(stack) \ {Len(stack)}
      /\ Len(stack) \in DOMAIN stack /\ OneFinalizer(Below, fin)
  BY <1>1, Popped DEF IInv, Types
<1>3. Hooks(Below) = Hooks(stack)
  BY <1>1, <1>2 DEF Hooks
<1>4. OneCollection(Below, gcing)
  BY <1>3 DEF IInv, OneCollection
<1>5. Answered(Below, need)
  BY <1>2 DEF IInv, Answered
<1>6. Top = "finalizer" => Callers(Below) = {} /\ fin.rest # << >>
  <2> SUFFICES ASSUME Top = "finalizer"
               PROVE  Callers(Below) = {} /\ fin.rest # << >>
    OBVIOUS
  <2>1. Len(stack) \in Callers(stack)
    BY <1>1, <1>2 DEF Callers
  <2>2. QED
    BY <1>2, <2>1 DEF IInv, OneFinalizer
<1>7. QED
  BY <1>2, <1>4, <1>5, <1>6

(* The frame of a hook of sub-gc is that of the one collection.              *)
LEMMA HookOnTop ==
  ASSUME IInv, Top \in {"before", "after"}
  PROVE  /\ Below \in Seq(Frame) /\ Hooks(Below) = {} /\ gcing /\ (Top = "after" => ~need)
         /\ Callers(stack) = {} /\ Callers(Below) = {}
<1>1. stack # << >> /\ stack[Len(stack)].f = Top
  BY TopIs DEF IInv, Types
<1>2. /\ Below \in Seq(Frame) /\ Len(stack) \in DOMAIN stack
      /\ Hooks(Below) = Hooks(stack) \ {Len(stack)}
      /\ Callers(Below) = Callers(stack) \ {Len(stack)}
  BY <1>1, Popped DEF IInv, Types
<1>3. Len(stack) \in Hooks(stack)
  BY <1>1, <1>2 DEF Hooks
<1>4. ASSUME NEW i \in Callers(stack)
      PROVE  FALSE
  <2>1. i \in DOMAIN stack /\ i # Len(stack)
    BY <1>1, <1>4 DEF Callers
  <2>2. PICK j \in DOMAIN stack : j < i /\ stack[j].f = "after"
    BY <1>4 DEF IInv, OneFinalizer
  <2>3. DOMAIN stack = 1..Len(stack) /\ Len(stack) \in Nat
    BY DEF IInv, Types
  <2>4. j \in Hooks(stack) /\ j # Len(stack)
    BY <2>1, <2>2, <2>3 DEF Hooks
  <2>5. QED
    BY <1>3, <2>4 DEF IInv, OneCollection
<1>5. Callers(stack) = {} /\ Callers(Below) = {}
  BY <1>2, <1>4
<1>6. QED
  BY <1>1, <1>2, <1>3, <1>5 DEF IInv, OneCollection, Answered

LEMMA HeadIsReg ==
  ASSUME fin \in FinType, fin.rest # << >>
  PROVE  Head(fin.rest) \in Reg /\ Tail(fin.rest) \in Seq(Reg)
BY HeadTailProperties DEF FinType

-----------------------------------------------------------------------------
(* Every step keeps the invariant.                                           *)

LEMMA InitInv == Init => IInv
<1> SUFFICES ASSUME Init PROVE IInv
  OBVIOUS
<1>1. Heap \in Nat \ {0} /\ Clear \in Nat /\ MaxRegs \in Nat /\ Consings \subseteq Nat
  BY TriggerAssumption
<1>2. fin \in FinType
  BY <1>1 DEF Init, NoFin, FinType, Reg
<1>3. since \in [post : 1..Heap, least : Consings, most : Consings]
  BY <1>1 DEF Init
<1>4. Types
  <2>1. stack \in Seq(Frame)
    BY DEF Init
  <2>2. bytes \in 1..Heap /\ auto \in 0..Clear /\ trigger \in Nat \union {NIL}
    BY <1>1 DEF Init, NIL
  <2>3. need \in BOOLEAN /\ inhibit \in BOOLEAN /\ gcing \in BOOLEAN
    BY DEF Init
  <2>4. QED
    BY <1>2, <1>3, <2>1, <2>2, <2>3 DEF Init, Types
<1>5. DOMAIN stack = {} /\ Hooks(stack) = {} /\ Callers(stack) = {}
  BY DEF Init, Hooks, Callers
<1>6. OneCollection(stack, gcing) /\ Answered(stack, need) /\ OneFinalizer(stack, fin)
  BY <1>5 DEF Init, OneCollection, Answered, OneFinalizer
<1>7. Consumption /\ Watch
  BY <1>1 DEF Init, Consumption, Watch, NIL
<1>8. QED
  BY <1>4, <1>6, <1>7 DEF IInv, Init

LEMMA CollectGarbageInv ==
  ASSUME IInv, CollectGarbage
  PROVE  IInv'
<1>1. Below \in Seq(Frame) /\ Hooks(Below) = {} /\ gcing /\ Callers(Below) = {}
  BY HookOnTop DEF CollectGarbage
<1>2. PICK b \in 1..bytes, dead \in SUBSET ToSet(fin.list) :
        /\ bytes' = b /\ trigger' = b + consed /\ auto' = Arm(trigger, b + consed)
        /\ fin' = [fin EXCEPT !.broken = @ \union dead, !.rest = fin.list, !.kept = << >>, !.linked = TRUE,
                              !.gone = 0, !.failed = FALSE]
        /\ since' = [post |-> b, least |-> consed, most |-> consed]
  BY DEF CollectGarbage
<1>3. b \in 1..Heap /\ consed \in Consings /\ consed \in Nat \ {0} /\ Heap \in Nat /\ Clear \in Nat
  BY TriggerAssumption DEF IInv, Types
<1>4. b + consed \in Nat \ {0, 1} /\ b + consed <= Clear
  BY <1>3, NewTrigger
<1>5. auto' = b + consed - 1 /\ auto' \in 0..Clear
  <2>1. Arm(trigger, b + consed) = Wrap(Clear + (b + consed))
    BY DEF Arm, IInv, Consumption
  <2>2. QED
    BY <1>2, <1>3, <1>4, <2>1, ArmExact
<1>6. fin' \in FinType
  <2>1. ToSet(fin.list) \subseteq Reg
    BY DEF IInv, Types, FinType, ToSet
  <2>2. fin.broken \union dead \in SUBSET Reg /\ << >> \in Seq(Reg) /\ fin \in FinType
    BY <1>2, <2>1 DEF IInv, Types, FinType
  <2>3. [fin EXCEPT !.broken = fin.broken \union dead, !.rest = fin.list,
                    !.kept = << >>, !.linked = TRUE, !.gone = 0, !.failed = FALSE] \in FinType
    BY <2>2 DEF FinType
  <2>4. QED
    BY <1>2, <2>3
<1>7. stack' = Append(Below, [f |-> "after"]) /\ need' = FALSE /\ UNCHANGED <<consed, inhibit, gcing>>
  BY DEF CollectGarbage
<1>8. /\ stack' \in Seq(Frame)
      /\ Hooks(stack') = {Len(Below) + 1}
      /\ OneFinalizer(stack', fin')
  <2>1. OneFinalizer(Below, fin')
    BY <1>1 DEF OneFinalizer
  <2>2. QED
    BY <1>1, <1>7, <2>1, Frames, Pushed
<1>9. Types'
  BY <1>2, <1>3, <1>4, <1>5, <1>6, <1>7, <1>8 DEF IInv, Types
<1>10. OneCollection(stack', gcing') /\ Answered(stack', need')
  BY <1>1, <1>7, <1>8 DEF OneCollection, Answered
<1>11. Consumption' /\ Watch'
  BY <1>2, <1>3, <1>4, <1>5, <1>7 DEF Consumption, Watch, NIL
<1>12. QED
  BY <1>1, <1>7, <1>8, <1>9, <1>10, <1>11 DEF IInv

LEMMA FinalizeCorpsesInv ==
  ASSUME IInv, FinalizeCorpses
  PROVE  IInv'
<1> DEFINE r == Head(fin.rest)
<1>1. r \in Reg /\ Tail(fin.rest) \in Seq(Reg)
  BY HeadIsReg DEF FinalizeCorpses, IInv, Types
<1>2. UNCHANGED <<bytes, auto, trigger, consed, need, inhibit, gcing, since>>
      /\ fin.rest # << >> /\ Callers(stack) = {}
  BY HookOnTop DEF FinalizeCorpses
<1>3. CASE r \in fin.broken
  <2> DEFINE e == [f |-> "finalizer", reg |-> r]
  <2>1. e \in Frame /\ e.f \notin {"before", "after"}
    BY <1>1, Frames
  <2>2. stack' = Append(stack, e) /\ fin' = [fin EXCEPT !.called[r] = @ + 1]
    BY <1>3 DEF FinalizeCorpses
  <2>3. stack' \in Seq(Frame) /\ OneCollection(stack', gcing) /\ Answered(stack', need)
    BY <2>1, <2>2, PushKeeps
  <2>4. fin' \in FinType /\ fin'.rest = fin.rest /\ fin'.broken = fin.broken
    <3>1. fin \in FinType /\ [fin.called EXCEPT ![r] = @ + 1] \in [Reg -> Nat]
      BY <1>1 DEF IInv, Types, FinType
    <3>2. fin' = [fin EXCEPT !.called = [fin.called EXCEPT ![r] = @ + 1]]
      BY <2>2
    <3>3. QED
      BY <3>1, <3>2 DEF FinType
  <2>5. OneFinalizer(stack', fin')
    <3>1. /\ DOMAIN stack' = DOMAIN stack \union {Len(stack) + 1}
          /\ \A i \in DOMAIN stack : stack'[i] = stack[i]
          /\ stack'[Len(stack) + 1] = e
      BY <2>1, <2>2, Pushed DEF IInv, Types
    <3>2. Callers(stack') = {Len(stack) + 1}
      BY <1>2, <3>1 DEF Callers
    <3>3. Len(stack) \in DOMAIN stack /\ Len(stack) < Len(stack) + 1 /\ stack[Len(stack)].f = "after"
      BY TopIs, Popped DEF FinalizeCorpses, IInv, Types
    <3>4. QED
      BY <1>2, <1>3, <2>4, <3>1, <3>2, <3>3 DEF OneFinalizer
  <2>6. QED
    BY <1>2, <2>3, <2>4, <2>5 DEF IInv, Types, Consumption, Watch
<1>4. CASE r \notin fin.broken
  <2>1. UNCHANGED stack /\ fin' = [fin EXCEPT !.rest = Tail(@), !.kept = Append(@, r), !.linked = TRUE]
    BY <1>4 DEF FinalizeCorpses
  <2>2. fin' \in FinType
    BY <1>1, <2>1, AppendProperties DEF IInv, Types, FinType
  <2>3. OneFinalizer(stack', fin')
    BY <1>2, <2>1 DEF OneFinalizer, Callers
  <2>4. QED
    BY <1>2, <2>1, <2>2, <2>3 DEF IInv, Types, Consumption, Watch
<1>5. QED
  BY <1>3, <1>4

LEMMA FinalizerReturnsInv ==
  ASSUME IInv, FinalizerReturns
  PROVE  IInv'
<1> DEFINE r == Head(fin.rest)
           k == IF fin.linked THEN fin.kept ELSE Append(fin.kept, r)
           l == IF fin.linked /\ fin.kept # << >> /\ Last(fin.kept) \in ToSet(fin.list)
                THEN Unlink(fin.list, r) ELSE fin.list
<1>1. /\ Below \in Seq(Frame) /\ OneCollection(Below, gcing) /\ Answered(Below, need)
      /\ Callers(Below) = {} /\ fin.rest # << >>
  BY PopKeeps DEF FinalizerReturns
<1>2. r \in Reg /\ Tail(fin.rest) \in Seq(Reg) /\ fin \in FinType
      /\ fin.list \in Seq(Reg) /\ fin.kept \in Seq(Reg)
  BY <1>1, HeadIsReg DEF IInv, Types, FinType
<1>3. l \in Seq(Reg) /\ k \in Seq(Reg)
  BY <1>2, UnlinkType, AppendProperties
<1>4. stack' = Below /\ fin' = [fin EXCEPT !.rest = Tail(@), !.kept = k, !.list = l]
      /\ UNCHANGED <<bytes, auto, trigger, consed, need, inhibit, gcing, since>>
  BY DEF FinalizerReturns
<1> HIDE DEF k, l
<1>5. fin' \in FinType
  BY <1>2, <1>3, <1>4 DEF FinType
<1>6. OneFinalizer(stack', fin')
  BY <1>1, <1>4 DEF OneFinalizer
<1>7. QED
  BY <1>1, <1>4, <1>5, <1>6 DEF IInv, Types, Consumption, Watch

LEMMA FinalizerFailsInv ==
  ASSUME IInv, FinalizerFails
  PROVE  IInv'
<1>1. /\ Below \in Seq(Frame) /\ OneCollection(Below, gcing) /\ Answered(Below, need)
      /\ Callers(Below) = {}
  BY PopKeeps DEF FinalizerFails
<1>2. fin \in FinType /\ ToSet(fin.list) \subseteq Reg /\ << >> \in Seq(Reg)
  BY DEF IInv, Types, FinType, ToSet
<1>3. stack' = Below /\ UNCHANGED <<bytes, auto, trigger, consed, need, inhibit, gcing, since>>
  BY DEF FinalizerFails
<1>4. fin' \in FinType
  BY <1>2 DEF FinalizerFails, Fails, FinType
<1>5. OneFinalizer(stack', fin')
  BY <1>1, <1>3 DEF OneFinalizer
<1>6. QED
  BY <1>1, <1>3, <1>4, <1>5 DEF IInv, Types, Consumption, Watch

LEMMA WalkFailsInv ==
  ASSUME IInv, WalkFails
  PROVE  IInv'
<1>1. Callers(stack) = {}
  BY HookOnTop DEF WalkFails
<1>2. UNCHANGED <<bytes, auto, trigger, consed, need, inhibit, gcing, stack, since>>
  BY DEF WalkFails
<1>3. fin' \in FinType
  BY EmptySeq DEF WalkFails, Fails, FinType, IInv, Types
<1>4. OneFinalizer(stack', fin')
  BY <1>1, <1>2 DEF OneFinalizer
<1>5. QED
  BY <1>2, <1>3, <1>4 DEF IInv, Types, Consumption, Watch

LEMMA FinishGcInv ==
  ASSUME IInv, FinishGc
  PROVE  IInv'
<1>1. Below \in Seq(Frame) /\ Hooks(Below) = {} /\ ~need /\ Callers(Below) = {}
  BY HookOnTop DEF FinishGc
<1>2. /\ stack' = Below /\ gcing' = FALSE
      /\ UNCHANGED <<bytes, auto, trigger, consed, need, inhibit, since>>
  BY DEF FinishGc
<1>3. fin' \in FinType
  BY EmptySeq DEF FinishGc, FinType, IInv, Types
<1>4. OneFinalizer(stack', fin') /\ OneCollection(stack', gcing') /\ Answered(stack', need')
  BY <1>1, <1>2 DEF OneFinalizer, OneCollection, Answered
<1>5. QED
  BY <1>1, <1>2, <1>3, <1>4 DEF IInv, Types, Consumption, Watch

LEMMA Numbers ==
  ASSUME IInv
  PROVE  /\ bytes \in Int /\ auto \in Int /\ consed \in Int /\ Heap \in Int
         /\ since.post \in Int /\ since.least \in Int /\ since.most \in Int
<1>1. Heap \in Int /\ Clear \in Int /\ Consings \subseteq Int
  BY TriggerAssumption
<1>2. bytes \in 1..Heap /\ auto \in 0..Clear /\ consed \in Consings
  BY DEF IInv, Types
<1>3. since.post \in 1..Heap /\ since.least \in Consings /\ since.most \in Consings
  BY DEF IInv, Types
<1>4. consed \in Int /\ since.least \in Int /\ since.most \in Int
  BY <1>1, <1>2, <1>3
<1>5. \A n : n \in 1..Heap \/ n \in 0..Clear => n \in Int
  BY <1>1
<1>6. QED
  BY <1>1, <1>2, <1>3, <1>4, <1>5

(* The heap grows: what watched it still does.                               *)
LEMMA RefillInv ==
  ASSUME IInv, NEW base \in Seq(Frame), OneCollection(base, gcing), Answered(base, need),
         OneFinalizer(base, fin), Refill(base), UNCHANGED <<trigger, consed, fin, since>>
  PROVE  IInv'
<1>1. bytes' \in 1..Heap /\ bytes' >= bytes
  BY TriggerAssumption DEF IInv, Types, Refill
<1>2. /\ stack' = base /\ UNCHANGED <<auto, need, inhibit, gcing, trigger, consed, fin, since>>
  BY DEF Refill
<1>3. Types'
  BY <1>1, <1>2 DEF IInv, Types
<1>4. /\ bytes \in Int /\ bytes' \in Int /\ auto \in Int
      /\ since.post \in Int /\ since.least \in Int /\ since.most \in Int
  BY <1>1, Numbers
<1>5. Consumption'
  BY <1>1, <1>2, <1>4 DEF IInv, Consumption
<1>6. Watch'
  <2>1. \A a, m, n \in Int : n >= m /\ a < 2 * m => a < 2 * n
    OBVIOUS
  <2>2. QED
    BY <1>1, <1>2, <1>4, <2>1 DEF IInv, Watch
<1>7. QED
  BY <1>2, <1>3, <1>5, <1>6 DEF IInv

(* What a call of sub-gc keeps when it leaves the trigger alone.             *)
LEMMA SubGcInv ==
  ASSUME IInv, NEW base \in Seq(Frame), NEW inh \in BOOLEAN, NEW force \in BOOLEAN,
         OneCollection(base, gcing), Answered(base, need), OneFinalizer(base, fin),
         SubGc(base, inh, trigger, force),
         auto' \in 0..Clear, Watch', trigger = NIL => auto' = auto,
         UNCHANGED <<bytes, trigger, consed, fin, since>>
  PROVE  /\ IInv'
         /\ ~gcing /\ gcing' => force \/ bytes' >= since'.post + since'.least
<1>1. trigger \in Nat \union {NIL} /\ need \in BOOLEAN /\ gcing \in BOOLEAN
  BY DEF IInv, Types
<1>2. need => Due(trigger)
  BY DEF Due
<1>3. /\ stack' \in Seq(Frame) /\ need' \in BOOLEAN /\ inhibit' \in BOOLEAN /\ gcing' \in BOOLEAN
      /\ OneCollection(stack', gcing') /\ Answered(stack', need') /\ OneFinalizer(stack', fin)
      /\ need' /\ ~gcing' => inhibit'
      /\ need' => need \/ Due(trigger)
      /\ ~gcing /\ gcing' => force \/ Due(trigger)
  <2>1. Types
    BY DEF IInv
  <2>2. QED
    BY <1>1, <1>2, <2>1, CallOfSubGc
<1>4. Due(trigger) => bytes >= since.post + since.least
  <2>1. /\ bytes \in Int /\ consed \in Int /\ since.post \in Int /\ since.least \in Int
    BY Numbers
  <2>2. QED
    BY <2>1 DEF Due, IInv, Consumption
<1>5. Types'
  BY <1>3 DEF IInv, Types
<1>6. Consumption'
  BY <1>3, <1>4 DEF IInv, Consumption
<1>7. QED
  BY <1>3, <1>4, <1>5, <1>6 DEF IInv

LEMMA MaybeGcInv ==
  ASSUME IInv, NEW base \in Seq(Frame), OneCollection(base, gcing), Answered(base, need),
         OneFinalizer(base, fin), MaybeGc(base), UNCHANGED <<trigger, consed, fin, since>>
  PROVE  /\ IInv'
         /\ ~gcing /\ gcing' => bytes' >= since'.post + since'.least
<1>1. bytes > auto /\ auto' = Double /\ SubGc(base, inhibit, trigger, FALSE) /\ UNCHANGED bytes
  BY DEF MaybeGc
<1>2. bytes \in Nat /\ auto \in Nat /\ bytes <= Heap /\ 2 * Heap < Clear /\ Heap \in Nat /\ Clear \in Nat
  BY TriggerAssumption DEF IInv, Types
<1>3. auto' = 2 * auto /\ auto' \in 0..Clear
  BY <1>1, DoubleExact DEF IInv
<1>4. trigger # NIL
  BY <1>1, <1>2 DEF IInv, Consumption
<1>5. Watch'
  BY <1>1, <1>2, <1>3 DEF IInv, Watch
<1>6. inhibit \in BOOLEAN
  BY DEF IInv, Types
<1>7. QED
  BY <1>1, <1>3, <1>4, <1>5, <1>6, SubGcInv

LEMMA AllocInv ==
  ASSUME IInv, Alloc \/ AllocAgain
  PROVE  /\ IInv'
         /\ ~gcing /\ gcing' => bytes' >= since'.post + since'.least
<1>1. UNCHANGED <<trigger, consed, fin, since>>
  BY DEF Alloc, AllocAgain
<1> DEFINE e == [f |-> "alloc"]
           Fits(base) == /\ base \in Seq(Frame) /\ OneCollection(base, gcing)
                         /\ Answered(base, need) /\ OneFinalizer(base, fin)
<1>2. PICK base : Fits(base) /\ (Refill(base) \/ MaybeGc(base))
  <2>1. Fits(stack)
    BY DEF IInv, Types
  <2>2. Fits(Append(stack, e))
    BY Frames, PushKeeps
  <2>3. AllocAgain => Fits(Below)
    BY PopKeeps DEF AllocAgain
  <2>4. CASE Alloc
    BY <2>1, <2>2, <2>4 DEF Alloc
  <2>5. CASE AllocAgain
    BY <2>1, <2>3, <2>5 DEF AllocAgain
  <2>6. QED
    BY <2>4, <2>5
<1>3. CASE Refill(base)
  <2>1. UNCHANGED gcing
    BY <1>3 DEF Refill
  <2>2. QED
    BY <1>1, <1>2, <1>3, <2>1, RefillInv
<1>4. CASE MaybeGc(base)
  BY <1>1, <1>2, <1>4, MaybeGcInv
<1>5. QED
  BY <1>2, <1>3, <1>4

LEMMA EnterWithoutGcingInv ==
  ASSUME IInv, EnterWithoutGcing
  PROVE  IInv'
<1> DEFINE e == [f |-> "without-gcing", old |-> inhibit]
<1>1. e \in Frame /\ e.f \notin {"before", "after", "finalizer"}
  BY Frames DEF IInv, Types
<1>2. /\ stack' = Append(stack, e) /\ inhibit' = TRUE
      /\ UNCHANGED <<bytes, auto, trigger, consed, need, gcing, fin, since>>
  BY DEF EnterWithoutGcing
<1>3. /\ stack' \in Seq(Frame) /\ OneCollection(stack', gcing) /\ Answered(stack', need)
      /\ OneFinalizer(stack', fin)
  BY <1>1, <1>2, PushKeeps
<1>4. QED
  BY <1>2, <1>3 DEF IInv, Types, Consumption, Watch

LEMMA LeaveWithoutGcingInv ==
  ASSUME IInv, LeaveWithoutGcing
  PROVE  /\ IInv'
         /\ ~gcing /\ gcing' => bytes' >= since'.post + since'.least
<1> DEFINE old == stack[Len(stack)].old
<1>1. /\ Below \in Seq(Frame) /\ OneCollection(Below, gcing) /\ Answered(Below, need)
      /\ OneFinalizer(Below, fin)
  BY PopKeeps DEF LeaveWithoutGcing
<1>2. old \in BOOLEAN
  <2>1. stack # << >> /\ stack[Len(stack)].f = "without-gcing"
    BY TopIs DEF LeaveWithoutGcing, IInv, Types
  <2>2. stack[Len(stack)] \in Frame
    BY <2>1, Popped DEF IInv, Types
  <2>3. QED
    BY <2>1, <2>2, Frames
<1>3. UNCHANGED <<bytes, auto, trigger, consed, fin, since>>
  BY DEF LeaveWithoutGcing
<1>4. CASE need /\ ~old
  <2>1. SubGc(Below, old, trigger, FALSE)
    BY <1>4 DEF LeaveWithoutGcing
  <2>2. Watch' /\ auto' \in 0..Clear
    BY <1>3 DEF IInv, Types, Watch
  <2> HIDE DEF old
  <2>3. QED
    BY <1>1, <1>2, <1>3, <2>1, <2>2, SubGcInv
<1>5. CASE ~(need /\ ~old)
  <2>1. inhibit' = old /\ stack' = Below /\ UNCHANGED <<need, gcing>>
    BY <1>5 DEF LeaveWithoutGcing
  <2> HIDE DEF old
  <2>2. need \in BOOLEAN /\ (need => inhibit')
    BY <1>5, <2>1 DEF IInv, Types
  <2>3. QED
    BY <1>1, <1>2, <1>3, <2>1, <2>2 DEF IInv, Types, Consumption, Watch
<1>6. QED
  BY <1>4, <1>5

LEMMA GcOffInv ==
  ASSUME IInv, GcOff
  PROVE  IInv'
BY DEF IInv, GcOff, Types, Consumption, Watch

LEMMA GcOnInv ==
  ASSUME IInv, GcOn
  PROVE  /\ IInv'
         /\ ~gcing /\ gcing' => bytes' >= since'.post + since'.least
<1>1. UNCHANGED <<bytes, auto, trigger, consed, fin, since>>
  BY DEF GcOn
<1>2. CASE need
  <2>1. SubGc(stack, FALSE, trigger, FALSE)
    BY <1>2 DEF GcOn
  <2>2. /\ stack \in Seq(Frame) /\ OneCollection(stack, gcing) /\ Answered(stack, need)
        /\ OneFinalizer(stack, fin) /\ Watch' /\ auto' \in 0..Clear
    BY <1>1 DEF IInv, Types, Watch
  <2>3. QED
    BY <1>1, <2>1, <2>2, SubGcInv
<1>3. CASE ~need
  BY <1>1, <1>3 DEF GcOn, IInv, Types, Consumption, Watch
<1>4. QED
  BY <1>2, <1>3

LEMMA GcInv ==
  ASSUME IInv, Gc
  PROVE  IInv'
<1>1. SubGc(stack, inhibit, trigger, TRUE) /\ UNCHANGED <<bytes, auto, trigger, consed, fin, since>>
  BY DEF Gc
<1>2. /\ stack \in Seq(Frame) /\ inhibit \in BOOLEAN /\ OneCollection(stack, gcing) /\ Answered(stack, need)
      /\ OneFinalizer(stack, fin) /\ Watch' /\ auto' \in 0..Clear
  BY <1>1 DEF IInv, Types, Watch
<1>3. QED
  BY <1>1, <1>2, SubGcInv

LEMMA SetBytesConsedInv ==
  ASSUME IInv, NEW n \in Consings, SetBytesConsed(n)
  PROVE  /\ IInv'
         /\ ~gcing /\ gcing' => bytes' >= since'.post + since'.least
<1> DEFINE lo == IF n < since.least THEN n ELSE since.least
           hi == IF n > since.most THEN n ELSE since.most
<1>1. n \in Nat \ {0} /\ Consings \subseteq Nat \ {0} /\ Heap \in Nat /\ Clear \in Nat
  BY TriggerAssumption
<1>2. /\ consed' = n /\ UNCHANGED <<bytes, fin>>
      /\ since' = [since EXCEPT !.least = lo, !.most = hi]
  BY DEF SetBytesConsed
<1>3. /\ since.post \in 1..Heap /\ since.least \in Consings /\ since.most \in Consings
      /\ since \in [post : 1..Heap, least : Consings, most : Consings]
      /\ bytes \in 1..Heap /\ auto \in 0..Clear /\ consed \in Consings
  BY DEF IInv, Types
<1>4. lo \in Consings /\ hi \in Consings /\ lo <= n /\ n <= hi /\ lo <= since.least /\ since.most <= hi
  <2>1. \A k, m \in Int : LET l == IF k < m THEN k ELSE m
                              h == IF k > m THEN k ELSE m
                          IN l <= k /\ l <= m /\ k <= h /\ m <= h
    OBVIOUS
  <2>2. n \in Int /\ since.least \in Int /\ since.most \in Int
    BY <1>1, Numbers
  <2>3. lo \in Consings /\ hi \in Consings
    BY <1>3
  <2>4. QED
    BY <2>1, <2>2, <2>3
<1>5. since' \in [post : 1..Heap, least : Consings, most : Consings]
      /\ since'.post = since.post /\ since'.least = lo /\ since'.most = hi
  BY <1>2, <1>3, <1>4
<1>6. /\ bytes \in Int /\ auto \in Int /\ since.post \in Int /\ since.least \in Int /\ since.most \in Int
      /\ lo \in Int /\ hi \in Int /\ consed \in Int
  BY <1>1, <1>4, Numbers
<1> HIDE DEF lo, hi
<1>7. need => bytes >= since.post + lo
  BY <1>4, <1>6 DEF IInv, Consumption
<1>8. CASE trigger = NIL
  <2>1. UNCHANGED <<auto, trigger, need, inhibit, gcing, stack>>
    BY <1>8 DEF SetBytesConsed
  <2>2. Types'
    BY <1>2, <1>5, <2>1 DEF IInv, Types
  <2>3. Consumption'
    BY <1>2, <1>4, <1>5, <1>7, <1>8, <2>1 DEF IInv, Consumption
  <2>4. QED
    BY <1>2, <1>8, <2>1, <2>2, <2>3 DEF IInv, Watch
<1>9. CASE trigger # NIL
  <2> DEFINE t == trigger + n - consed
  <2>1. t = since.post + n
    BY <1>1, <1>6, <1>9 DEF IInv, Consumption
  <2>2. t \in Nat \ {0, 1} /\ t <= Clear /\ t # NIL
    BY <1>3, <2>1, NewTrigger DEF NIL
  <2>3. trigger' = t
    BY <1>9 DEF SetBytesConsed
  <2> HIDE DEF t
  <2>4. CASE bytes <= t
    <3>1. auto' = Wrap(Clear + t) /\ UNCHANGED <<need, inhibit, gcing, stack>>
      BY <1>9, <2>4 DEF SetBytesConsed, t
    <3>2. auto' = t - 1 /\ auto' \in 0..Clear
      BY <1>1, <2>2, <3>1, ArmExact
    <3>3. Types'
      BY <1>2, <1>5, <2>2, <2>3, <3>1, <3>2 DEF IInv, Types
    <3>4. Consumption'
      BY <1>2, <1>4, <1>5, <1>7, <2>1, <2>2, <2>3, <3>1 DEF Consumption
    <3>5. Watch'
      <4>1. auto' > 0 /\ auto' < since.post + hi
        BY <1>1, <1>4, <1>6, <2>1, <2>2, <3>2
      <4>2. QED
        BY <1>5, <4>1 DEF Watch
    <3>6. QED
      BY <1>2, <3>1, <3>3, <3>4, <3>5 DEF IInv
  <2>5. CASE ~(bytes <= t)
    <3>1. SubGc(stack, inhibit, t, FALSE) /\ UNCHANGED auto
      BY <1>9, <2>5 DEF SetBytesConsed, t
    <3>2. /\ stack' \in Seq(Frame) /\ need' \in BOOLEAN /\ inhibit' \in BOOLEAN /\ gcing' \in BOOLEAN
          /\ OneCollection(stack', gcing') /\ Answered(stack', need') /\ OneFinalizer(stack', fin)
          /\ need' /\ ~gcing' => inhibit'
          /\ need' => need \/ Due(t)
          /\ ~gcing /\ gcing' => Due(t)
      <4>1. /\ Types /\ stack \in Seq(Frame) /\ inhibit \in BOOLEAN
            /\ OneCollection(stack, gcing) /\ Answered(stack, need) /\ OneFinalizer(stack, fin)
        BY DEF IInv, Types
      <4>2. t \in Nat \union {NIL} /\ (need => Due(t))
        BY <2>2 DEF Due
      <4>3. QED
        BY <3>1, <4>1, <4>2, CallOfSubGc
    <3>3. Due(t) => bytes >= since.post + lo
      BY <1>1, <1>4, <1>6, <1>7, <2>1, <2>2 DEF Due
    <3>4. Types'
      BY <1>2, <1>3, <1>5, <2>2, <2>3, <3>1, <3>2 DEF IInv, Types
    <3>5. Consumption'
      BY <1>2, <1>4, <1>5, <1>7, <2>1, <2>2, <2>3, <3>2, <3>3 DEF Consumption
    <3>6. Watch'
      <4>1. auto > 0 /\ (auto < 2 * bytes \/ auto < since.post + since.most)
        BY <1>9 DEF IInv, Watch
      <4>2. auto < since.post + since.most => auto < since.post + hi
        BY <1>4, <1>6
      <4>3. QED
        BY <1>2, <1>5, <3>1, <4>1, <4>2 DEF Watch
    <3>7. QED
      BY <1>2, <1>5, <3>2, <3>3, <3>4, <3>5, <3>6 DEF IInv
  <2>6. QED
    BY <2>4, <2>5
<1>10. QED
  BY <1>8, <1>9

LEMMA FinalizeInv ==
  ASSUME IInv, Finalize
  PROVE  IInv'
<1> DEFINE r == fin.made + 1
<1>1. fin \in FinType /\ MaxRegs \in Nat /\ fin.made \in 0..MaxRegs /\ fin.made < MaxRegs
  BY TriggerAssumption DEF IInv, Types, FinType, Finalize
<1>2. r \in Reg /\ r \in 0..MaxRegs
  BY <1>1 DEF Reg
<1>3. UNCHANGED <<bytes, auto, trigger, consed, need, inhibit, gcing, stack, since>>
  BY DEF Finalize
<1>4. fin' = [fin EXCEPT !.list = <<r>> \o @, !.made = r,
                         !.inner = IF InFinalizer THEN @ \union {r} ELSE @]
  BY DEF Finalize
<1> HIDE DEF r
<1>5. <<r>> \o fin.list \in Seq(Reg)
  BY <1>1, <1>2, ConcatProperties DEF FinType
<1>6. (IF InFinalizer THEN fin.inner \union {r} ELSE fin.inner) \in SUBSET Reg
  BY <1>1, <1>2 DEF FinType
<1>7. fin' \in FinType /\ fin'.rest = fin.rest /\ fin'.broken = fin.broken
  BY <1>1, <1>2, <1>4, <1>5, <1>6 DEF FinType
<1>8. OneFinalizer(stack', fin')
  BY <1>3, <1>7 DEF IInv, OneFinalizer
<1>9. QED
  BY <1>3, <1>7, <1>8 DEF IInv, Types, Consumption, Watch

\* delete changes the list, and the two of the walk, if there is one.
LEMMA Deleted ==
  ASSUME NEW r \in Reg, CancelFinalization(r), fin \in FinType
  PROVE  \E k \in {fin.kept, Unlink(fin.kept, r)}, b \in BOOLEAN, n \in Nat :
           /\ n = fin.gone \/ r \in ToSet(fin.rest)
           /\ b = fin.linked \/ r \in ToSet(fin.kept)
           /\ fin' = [fin EXCEPT !.list = Unlink(@, r), !.rest = Unlink(@, r), !.kept = k, !.linked = b, !.gone = n,
                                 !.cancelled = @ \union {r},
                                 !.spoilt = IF InFinalizer THEN @ \union ToSet(fin.list) ELSE @]
<1>1. PICK i : LET cut == r \in ToSet(fin.kept) /\ i > 1 /\ fin.list[i - 1] \in ToSet(fin.kept)
               IN fin' = [fin EXCEPT !.list = Unlink(@, r), !.rest = Unlink(@, r),
                             !.kept = IF cut THEN Unlink(@, r) ELSE @,
                             !.linked = @ /\ ~(cut /\ r = Last(fin.kept)),
                             !.gone = IF r \in ToSet(fin.rest) THEN @ + 1 ELSE @,
                             !.cancelled = @ \union {r},
                             !.spoilt = IF InFinalizer THEN @ \union ToSet(fin.list) ELSE @]
  BY Zenon DEF CancelFinalization
<1> DEFINE cut == r \in ToSet(fin.kept) /\ i > 1 /\ fin.list[i - 1] \in ToSet(fin.kept)
           k == IF cut THEN Unlink(fin.kept, r) ELSE fin.kept
           b == fin.linked /\ ~(cut /\ r = Last(fin.kept))
           n == IF r \in ToSet(fin.rest) THEN fin.gone + 1 ELSE fin.gone
<1>2. fin.gone \in Nat /\ fin.linked \in BOOLEAN
  BY DEF FinType
<1>3. k \in {fin.kept, Unlink(fin.kept, r)} /\ b \in BOOLEAN /\ n \in Nat
  BY <1>2
<1>4. (n = fin.gone \/ r \in ToSet(fin.rest)) /\ (b = fin.linked \/ r \in ToSet(fin.kept))
  BY <1>2
<1>5. fin' = [fin EXCEPT !.list = Unlink(@, r), !.rest = Unlink(@, r), !.kept = k, !.linked = b, !.gone = n,
                         !.cancelled = @ \union {r},
                         !.spoilt = IF InFinalizer THEN @ \union ToSet(fin.list) ELSE @]
  BY <1>1
<1> HIDE DEF k, b, n
<1>6. QED
  BY <1>3, <1>4, <1>5

LEMMA CancelFinalizationInv ==
  ASSUME IInv, NEW r \in Reg, CancelFinalization(r)
  PROVE  IInv'
<1>1. /\ fin \in FinType /\ fin.list \in Seq(Reg) /\ fin.rest \in Seq(Reg) /\ fin.kept \in Seq(Reg)
      /\ ToSet(fin.list) \subseteq Reg
  BY DEF IInv, Types, FinType, ToSet
<1>2. /\ Unlink(fin.list, r) \in Seq(Reg) /\ Unlink(fin.rest, r) \in Seq(Reg)
      /\ Unlink(fin.kept, r) \in Seq(Reg)
  BY <1>1, UnlinkType
<1>3. r \notin fin.broken /\ UNCHANGED <<bytes, auto, trigger, consed, need, inhibit, gcing, stack, since>>
  BY DEF CancelFinalization
<1>4. PICK k \in {fin.kept, Unlink(fin.kept, r)}, b \in BOOLEAN, n \in Nat :
           fin' = [fin EXCEPT !.list = Unlink(@, r), !.rest = Unlink(@, r), !.kept = k, !.linked = b, !.gone = n,
                                 !.cancelled = @ \union {r},
                                 !.spoilt = IF InFinalizer THEN @ \union ToSet(fin.list) ELSE @]
  BY <1>1, Deleted
<1>5. k \in Seq(Reg)
  BY <1>1, <1>2
<1>6. (IF InFinalizer THEN fin.spoilt \union ToSet(fin.list) ELSE fin.spoilt) \in SUBSET Reg
  BY <1>1 DEF FinType
<1>7. fin' \in FinType /\ fin'.rest = Unlink(fin.rest, r) /\ fin'.broken = fin.broken
  BY <1>1, <1>2, <1>4, <1>5, <1>6 DEF FinType
<1>8. fin.rest # << >> /\ Head(fin.rest) # r =>
        Unlink(fin.rest, r) # << >> /\ Head(Unlink(fin.rest, r)) = Head(fin.rest)
  BY <1>1, UnlinkHead
<1>9. OneFinalizer(stack', fin')
  BY <1>3, <1>7, <1>8 DEF IInv, OneFinalizer
<1>10. QED
  BY <1>3, <1>7, <1>9 DEF IInv, Types, Consumption, Watch

-----------------------------------------------------------------------------
(* A collection begins when it is due, or when gc asks for it.               *)
InTime == ~gcing /\ gcing' => bytes >= since'.post + since'.least \/ Gc

LEMMA NextInv ==
  ASSUME IInv, [Next]_vars
  PROVE  IInv' /\ [InTime]_vars
<1>1. ASSUME CollectGarbage \/ FinalizeCorpses \/ FinalizerReturns \/ FinalizerFails \/ WalkFails \/ FinishGc
             \/ EnterWithoutGcing \/ GcOff \/ Finalize \/ \E r \in Reg : CancelFinalization(r)
      PROVE  IInv' /\ InTime
  <2>1. IInv'
    BY <1>1, CollectGarbageInv, FinalizeCorpsesInv, FinalizerReturnsInv, FinalizerFailsInv, WalkFailsInv, FinishGcInv,
       EnterWithoutGcingInv, GcOffInv, FinalizeInv, CancelFinalizationInv
  <2>2. ~(~gcing /\ gcing')
    BY <1>1 DEF CollectGarbage, FinalizeCorpses, FinalizerReturns, FinalizerFails, WalkFails, FinishGc,
                EnterWithoutGcing, GcOff, Finalize, CancelFinalization
  <2>3. QED
    BY <2>1, <2>2 DEF InTime
<1>2. ASSUME Alloc \/ AllocAgain \/ LeaveWithoutGcing \/ GcOn \/ \E n \in Consings : SetBytesConsed(n)
      PROVE  IInv' /\ InTime
  <2>1. IInv' /\ (~gcing /\ gcing' => bytes' >= since'.post + since'.least)
    BY <1>2, AllocInv, LeaveWithoutGcingInv, GcOnInv, SetBytesConsedInv
  <2>2. ~gcing /\ gcing' => bytes' = bytes
    BY <1>2 DEF Alloc, AllocAgain, Refill, MaybeGc, LeaveWithoutGcing, GcOn, SetBytesConsed
  <2>3. QED
    BY <2>1, <2>2 DEF InTime
<1>3. CASE Gc
  BY <1>3, GcInv DEF InTime
<1>4. CASE UNCHANGED vars
  BY <1>4 DEF vars, IInv, Types, OneCollection, Hooks, Answered, OneFinalizer, Callers, Consumption, Watch
<1>5. QED
  BY <1>1, <1>2, <1>3, <1>4 DEF Next, Runtime, Program

LEMMA Invariance == Spec => []IInv
<1>1. IInv /\ [Next]_vars => IInv'
  BY NextInv
<1>2. QED
  BY InitInv, <1>1, PTL DEF Spec

-----------------------------------------------------------------------------
(* The variables of alloc, sub-gc and finalize-corpses have their types: no  *)
(* trigger leaves the unsigned longs.                                        *)
THEOREM TypeCorrect == Spec => []TypeOK
<1>1. IInv => TypeOK
  BY DEF IInv, Types, FinType, TypeOK
<1>2. QED
  BY Invariance, <1>1, PTL

(* alloc and maybe-gc: a collection that is due is never forgotten, and the  *)
(* doubled trigger never stops watching the heap.                            *)
THEOREM TriggerIsKept == Spec => []TriggerKept
<1>1. IInv => TriggerKept
  BY DEF IInv, Watch, TriggerKept, RequestKept, WatchKept
<1>2. QED
  BY Invariance, <1>1, PTL

(* sub-gc: no collection comes before *bytes-consed-between-gcs* were        *)
(* consed, but by gc itself.                                                 *)
THEOREM CollectionsInTime == Spec => NotTooSoon
<1>1. IInv /\ [Next]_vars => [InTime]_vars
  BY NextInv
<1>2. QED
  BY Invariance, <1>1, PTL DEF Spec, NotTooSoon, InTime
-----------------------------------------------------------------------------
(* Finalizers.                                                               *)

\* The list is being walked.
Walk(s) == \E i \in DOMAIN s : s[i].f = "after"

\* The hook that walks the list calls nothing but finalizers, and is in one or on top.
Above(s) == \A i \in DOMAIN s : s[i].f = "after" /\ i < Len(s) => s[i + 1].f = "finalizer"
Inside(s) == \A i \in DOMAIN s : s[i].f = "after" => i < Len(s) /\ s[i + 1].f = "finalizer"

\* Stacks with the same walk and the same call.
Same(s, t) == (Walk(t) <=> Walk(s)) /\ (Callers(t) = {} <=> Callers(s) = {})

\* Registrations whose function the program still waits for.
Awaited(f) == {r \in 1..f.made : f.called[r] = 0 /\ r \notin f.inner \union f.cancelled}

\* Registrations whose function may be called.
Callable(f) == {r \in Reg : f.called[r] = 0} \union f.spoilt

Once(f) == \A r \in Reg : r \notin f.spoilt => f.called[r] <= 1

\* No registration is on a list twice, and the walk has each of those it began with
\* before it or behind it.
Lists(f) ==
  /\ IsInjective(f.list) /\ ToSet(f.list) \subseteq 1..f.made
  /\ IsInjective(f.rest) /\ ToSet(f.rest) \subseteq 1..f.made
  /\ IsInjective(f.kept) /\ ToSet(f.kept) \subseteq 1..f.made
  /\ ToSet(f.rest) \cap ToSet(f.kept) = {}
  /\ f.cancelled \subseteq 1..f.made
  /\ \A r \in Reg \ 1..f.made : f.called[r] = 0

\* What the program cancelled is on no list.
Revoked(f) ==
  \A r \in f.cancelled : r \notin f.spoilt => r \notin ToSet(f.list) \union ToSet(f.rest) \union ToSet(f.kept)

Waiting(f) ==
  /\ Lists(f) /\ Once(f) /\ Revoked(f)
  /\ Awaited(f) \subseteq ToSet(f.list)

\* A finalizer cancelled what the walk stands on, or has before it.
Disturbed(f) == ~f.linked \/ f.gone > 0

\* walk: the list is walked; calling: a finalizer is being called.
Walked(f, walk, calling) ==
  /\ ~walk => ToSet(f.list) \subseteq Callable(f) /\ f.rest = << >> /\ f.kept = << >>
  /\ walk /\ f.failed => f.rest = << >> /\ ToSet(f.list) \subseteq Callable(f)
  /\ walk /\ ~f.failed =>
       /\ Awaited(f) \subseteq ToSet(f.rest) \union ToSet(f.kept)
       /\ ToSet(f.kept) \subseteq Callable(f)
       /\ ToSet(IF calling THEN Tail(f.rest) ELSE f.rest) \subseteq Callable(f)
       /\ ToSet(f.rest) \subseteq ToSet(f.list)
       /\ Disturbed(f) => ToSet(f.rest) \subseteq f.spoilt
       /\ f.gone > 0 => ToSet(f.list) \subseteq Callable(f)
  /\ calling => walk /\ f.rest # << >> /\ f.called[Head(f.rest)] > 0

FinInv == Above(stack) /\ Waiting(fin) /\ Walked(fin, Walk(stack), Callers(stack) # {})

-----------------------------------------------------------------------------
(* Lists without duplicates.                                                 *)

LEMMA TailSet ==
  ASSUME NEW S, NEW s \in Seq(S), s # << >>, IsInjective(s)
  PROVE  /\ Head(s) \in ToSet(s) /\ ToSet(s) = {Head(s)} \union ToSet(Tail(s))
         /\ Head(s) \notin ToSet(Tail(s))
         /\ IsInjective(Tail(s))
<1>1. /\ Len(s) \in Nat \ {0} /\ DOMAIN s = 1..Len(s) /\ Head(s) = s[1]
      /\ Tail(s) \in Seq(S) /\ Len(Tail(s)) = Len(s) - 1
      /\ \A i \in 1..Len(Tail(s)) : Tail(s)[i] = s[i + 1]
  BY HeadTailProperties, EmptySeq
<1>2. DOMAIN Tail(s) = 1..(Len(s) - 1)
  BY <1>1
<1> DEFINE n == Len(s)
           u == Tail(s)
<1>3. n \in Nat \ {0} /\ DOMAIN s = 1..n /\ DOMAIN u = 1..(n - 1) /\ \A i \in 1..(n - 1) : u[i] = s[i + 1]
  BY <1>1, <1>2
<1> HIDE DEF n, u
<1>4. \A i \in 1..(n - 1) : i + 1 \in 1..n /\ i + 1 # 1
  BY <1>3
<1>5. \A j \in 1..n : j = 1 \/ (j - 1 \in 1..(n - 1) /\ (j - 1) + 1 = j)
  BY <1>3
<1>6. ToSet(s) = {s[1]} \union ToSet(u)
  <2>1. 1 \in DOMAIN s /\ \A i \in DOMAIN u : u[i] = s[i + 1] /\ i + 1 \in DOMAIN s
    BY <1>3, <1>4
  <2>2. {s[1]} \union ToSet(u) \subseteq ToSet(s)
    BY <2>1 DEF ToSet
  <2>3. \A j \in DOMAIN s : j # 1 => j - 1 \in DOMAIN u /\ u[j - 1] = s[j]
    BY <1>3, <1>5
  <2>4. ToSet(s) \subseteq {s[1]} \union ToSet(u)
    BY <2>3 DEF ToSet
  <2>5. QED
    BY <2>2, <2>4
<1>7. s[1] \notin ToSet(u)
  BY <1>3, <1>4 DEF ToSet, IsInjective
<1>8. IsInjective(u)
  <2>1. \A a, b \in 1..(n - 1) : a + 1 = b + 1 => a = b
    OBVIOUS
  <2>2. QED
    BY <1>3, <1>4, <2>1 DEF IsInjective
<1>9. QED
  BY <1>1, <1>6, <1>7, <1>8 DEF u

LEMMA AppendSet ==
  ASSUME NEW S, NEW s \in Seq(S), NEW e \in S
  PROVE  /\ ToSet(Append(s, e)) = ToSet(s) \union {e}
         /\ IsInjective(s) /\ e \notin ToSet(s) => IsInjective(Append(s, e))
<1> DEFINE t == Append(s, e)
           n == Len(s)
<1>1. /\ t \in Seq(S) /\ Len(t) = n + 1 /\ \A i \in 1..n : t[i] = s[i]
      /\ t[n + 1] = e /\ n \in Nat /\ DOMAIN s = 1..n
  BY AppendProperties
<1>2. DOMAIN t = 1..(n + 1)
  BY <1>1
<1> HIDE DEF t, n
<1>3. 1..(n + 1) = (1..n) \union {n + 1}
  BY <1>1
<1>4. ToSet(t) = ToSet(s) \union {e}
  BY <1>1, <1>2, <1>3 DEF ToSet
<1>5. IsInjective(s) /\ e \notin ToSet(s) => IsInjective(t)
  BY <1>1, <1>2, <1>3 DEF ToSet, IsInjective
<1>6. QED
  BY <1>4, <1>5 DEF t

LEMMA ConsSet ==
  ASSUME NEW S, NEW s \in Seq(S), NEW e \in S
  PROVE  /\ ToSet(<<e>> \o s) = ToSet(s) \union {e}
         /\ IsInjective(s) /\ e \notin ToSet(s) => IsInjective(<<e>> \o s)
<1> DEFINE t == <<e>> \o s
           n == Len(s)
<1>1. /\ t \in Seq(S) /\ Len(t) = 1 + n /\ n \in Nat /\ DOMAIN s = 1..n
      /\ \A i \in 1..(1 + n) : t[i] = IF i <= 1 THEN e ELSE s[i - 1]
  <2>1. <<e>> \in Seq(S) /\ Len(<<e>>) = 1 /\ <<e>>[1] = e
    OBVIOUS
  <2>2. t \in Seq(S) /\ Len(t) = 1 + n
    BY <2>1, ConcatProperties
  <2>3. \A i \in 1..(1 + n) : t[i] = IF i <= 1 THEN <<e>>[i] ELSE s[i - 1]
    BY <2>1, ConcatProperties
  <2>4. \A i \in 1..(1 + n) : i <= 1 => i = 1
    OBVIOUS
  <2>5. QED
    BY <2>1, <2>2, <2>3, <2>4
<1>2. DOMAIN t = 1..(1 + n)
  BY <1>1
<1> HIDE DEF t, n
<1>3. t[1] = e /\ 1 \in 1..(1 + n) /\ \A i \in 1..n : i + 1 \in 1..(1 + n) /\ t[i + 1] = s[i]
  BY <1>1
<1>4. \A j \in 1..(1 + n) : j = 1 \/ (j - 1 \in 1..n /\ (j - 1) + 1 = j /\ t[j] = s[j - 1])
  BY <1>1
<1>5. ToSet(t) = ToSet(s) \union {e}
  <2>1. ToSet(s) \union {e} \subseteq ToSet(t)
    <3>1. t[1] \in ToSet(t) /\ \A i \in 1..n : t[i + 1] \in ToSet(t)
      BY <1>2, <1>3 DEF ToSet
    <3>2. QED
      BY <1>1, <1>3, <3>1 DEF ToSet
  <2>2. ToSet(t) \subseteq ToSet(s) \union {e}
    <3>1. ASSUME NEW j \in 1..(1 + n)
          PROVE  t[j] \in ToSet(s) \union {e}
      <4>1. CASE j = 1
        BY <1>3, <4>1
      <4>2. CASE j # 1
        <5>1. j - 1 \in 1..n /\ t[j] = s[j - 1]
          BY <1>4, <4>2
        <5>2. QED
          BY <1>1, <5>1 DEF ToSet
      <4>3. QED
        BY <4>1, <4>2
    <3>2. QED
      BY <1>2, <3>1 DEF ToSet
  <2>3. QED
    BY <2>1, <2>2
<1>6. ASSUME IsInjective(s), e \notin ToSet(s), NEW a \in 1..(1 + n), NEW b \in 1..(1 + n), t[a] = t[b]
      PROVE  a = b
  <2>1. CASE a = 1 \/ b = 1
    <3>1. \A j \in 1..(1 + n) : j # 1 => t[j] \in ToSet(s)
      BY <1>1, <1>4 DEF ToSet
    <3>2. QED
      BY <1>3, <1>6, <2>1, <3>1
  <2>2. CASE a # 1 /\ b # 1
    <3>1. a - 1 \in DOMAIN s /\ b - 1 \in DOMAIN s /\ s[a - 1] = s[b - 1]
      BY <1>1, <1>4, <1>6, <2>2
    <3>2. a - 1 = b - 1
      BY <1>6, <3>1 DEF IsInjective
    <3>3. QED
      BY <3>2
  <2>3. QED
    BY <2>1, <2>2
<1>7. QED
  BY <1>2, <1>5, <1>6 DEF t, IsInjective

(* Without its cons, the list has every other element, once.                 *)
LEMMA UnlinkSet ==
  ASSUME NEW S, NEW s \in Seq(S), NEW r, IsInjective(s)
  PROVE  ToSet(Unlink(s, r)) = ToSet(s) \ {r} /\ IsInjective(Unlink(s, r))
<1>1. CASE r \in ToSet(s)
  <2> DEFINE n == Len(s)
             t == Unlink(s, r)
  <2>1. n \in Nat /\ DOMAIN s = 1..n /\ DOMAIN t = 1..(n - 1)
    BY <1>1, UnlinkIs
  <2>2. PICK k \in 1..n : s[k] = r /\ \A i \in 1..(n - 1) : t[i] = s[IF i < k THEN i ELSE i + 1]
    BY <1>1, UnlinkIs
  <2> DEFINE at(i) == IF i < k THEN i ELSE i + 1
  <2> HIDE DEF n, t
  <2>3. \A i \in 1..(n - 1) : t[i] = s[at(i)] /\ at(i) \in 1..n /\ at(i) # k
    BY <2>1, <2>2
  <2>4. \A j \in 1..n : j # k => \E i \in 1..(n - 1) : at(i) = j
    <3> SUFFICES ASSUME NEW j \in 1..n, j # k
                 PROVE  \E i \in 1..(n - 1) : at(i) = j
      OBVIOUS
    <3>1. CASE j < k
      <4>1. j \in 1..(n - 1) /\ at(j) = j
        BY <2>1, <3>1
      <4>2. QED
        BY <4>1
    <3>2. CASE ~(j < k)
      <4>1. j - 1 \in 1..(n - 1) /\ at(j - 1) = j
        BY <2>1, <3>2
      <4>2. QED
        BY <4>1
    <3>3. QED
      BY <3>1, <3>2
  <2>5. \A a, b \in 1..(n - 1) : at(a) = at(b) => a = b
    BY <2>1
  <2> HIDE DEF at
  <2>6. ToSet(s) \ {r} \subseteq ToSet(t)
    <3>1. ASSUME NEW j \in 1..n, s[j] # r
          PROVE  s[j] \in ToSet(t)
      <4>1. PICK i \in 1..(n - 1) : at(i) = j
        BY <2>2, <2>4, <3>1
      <4>2. i \in DOMAIN t /\ t[i] = s[j]
        BY <2>1, <2>3, <4>1
      <4>3. QED
        BY <4>2 DEF ToSet
    <3>2. QED
      BY <2>1, <3>1 DEF ToSet
  <2>7. ToSet(t) \subseteq ToSet(s) \ {r}
    <3>1. ASSUME NEW i \in 1..(n - 1)
          PROVE  t[i] \in ToSet(s) \ {r}
      <4>1. at(i) \in DOMAIN s /\ s[at(i)] # s[k] /\ t[i] = s[at(i)]
        BY <2>1, <2>2, <2>3 DEF IsInjective
      <4>2. QED
        BY <2>2, <4>1 DEF ToSet
    <3>2. QED
      BY <2>1, <3>1 DEF ToSet
  <2>8. IsInjective(t)
    BY <2>1, <2>3, <2>5 DEF IsInjective
  <2>9. QED
    BY <2>6, <2>7, <2>8 DEF t
<1>2. CASE r \notin ToSet(s)
  BY <1>2 DEF Unlink
<1>3. QED
  BY <1>1, <1>2

-----------------------------------------------------------------------------
(* Stacks: whatever is entered and left around a walk leaves it as it is.    *)

LEMMA PushSame ==
  ASSUME NEW s \in Seq(Frame), NEW e \in Frame, Inside(s), e.f \notin {"after", "finalizer"}
  PROVE  Inside(Append(s, e)) /\ Same(s, Append(s, e))
<1> DEFINE t == Append(s, e)
           n == Len(s)
<1>1. /\ t \in Seq(Frame) /\ Len(t) = n + 1 /\ \A i \in 1..n : t[i] = s[i]
      /\ t[n + 1] = e /\ n \in Nat /\ DOMAIN s = 1..n
  BY AppendProperties
<1>2. DOMAIN t = 1..(n + 1)
  BY <1>1
<1> HIDE DEF t
<1>3. 1..(n + 1) = (1..n) \union {n + 1}
  BY <1>1
<1>4. Walk(t) <=> Walk(s)
  BY <1>1, <1>2, <1>3 DEF Walk
<1>5. Callers(t) = Callers(s)
  <2>1. n + 1 \notin Callers(t)
    BY <1>1 DEF Callers
  <2>2. QED
    BY <1>1, <1>2, <1>3, <2>1 DEF Callers
<1>6. Inside(t)
  <2>1. ASSUME NEW i \in DOMAIN t, t[i].f = "after"
        PROVE  i < Len(t) /\ t[i + 1].f = "finalizer"
    <3>1. i \in 1..n /\ s[i].f = "after"
      BY <1>1, <1>2, <1>3, <2>1
    <3>2. i < n /\ s[i + 1].f = "finalizer"
      BY <1>1, <3>1 DEF Inside
    <3>3. i + 1 \in 1..n /\ i < n + 1
      BY <1>1, <3>1, <3>2
    <3>4. QED
      BY <1>1, <3>2, <3>3
  <2>2. QED
    BY <2>1 DEF Inside
<1>7. QED
  BY <1>4, <1>5, <1>6 DEF t, Same

\* Without its top, unless that is a finalizer or a hook of a collection.
LEMMA PopSame ==
  ASSUME stack \in Seq(Frame), Inside(stack), Top \notin {"program", "after", "finalizer"}
  PROVE  Inside(Below) /\ Same(stack, Below)
<1> DEFINE n == Len(stack)
<1>1. stack # << >> /\ stack[n].f = Top
  BY TopIs
<1>2. n \in Nat \ {0} /\ DOMAIN stack = 1..n
  BY <1>1, EmptySeq
<1>3. Below \in Seq(Frame) /\ Len(Below) = n - 1 /\ \A i \in 1..(n - 1) : Below[i] = stack[i]
  BY <1>2 DEF Below
<1>4. DOMAIN Below = 1..(n - 1)
  BY <1>2, <1>3
<1>5. Callers(Below) = Callers(stack) \ {n}
  BY <1>1, Popped
<1>6. n \notin Callers(stack)
  BY <1>1 DEF Callers
<1> HIDE DEF n
<1>7. 1..n = (1..(n - 1)) \union {n}
  BY <1>2
<1>8. Walk(Below) <=> Walk(stack)
  BY <1>1, <1>2, <1>3, <1>4, <1>7 DEF Walk
<1>9. ASSUME NEW i \in DOMAIN Below, Below[i].f = "after"
      PROVE  i < Len(Below) /\ Below[i + 1].f = "finalizer"
  <2>1. i \in 1..(n - 1) /\ i \in 1..n /\ stack[i].f = "after"
    BY <1>3, <1>4, <1>7, <1>9
  <2>2. i < n /\ stack[i + 1].f = "finalizer"
    BY <1>2, <2>1 DEF Inside, n
  <2>3. i + 1 # n
    BY <1>1, <2>2
  <2>4. i + 1 \in 1..(n - 1) /\ i < n - 1
    BY <1>2, <2>1, <2>2, <2>3
  <2>5. QED
    BY <1>3, <2>2, <2>4
<1>10. QED
  BY <1>5, <1>6, <1>8, <1>9 DEF Same, Inside

LEMMA AboveIsInside ==
  ASSUME stack \in Seq(Frame), Above(stack), Top # "after"
  PROVE  Inside(stack)
<1>1. ASSUME NEW i \in DOMAIN stack, stack[i].f = "after"
      PROVE  i < Len(stack)
  <2>1. Len(stack) \in Nat /\ i \in 1..Len(stack)
    BY <1>1
  <2>2. stack # << >>
    BY <2>1
  <2>3. i # Len(stack)
    BY <1>1, <2>2 DEF Top
  <2>4. QED
    BY <2>1, <2>3
<1>2. QED
  BY <1>1 DEF Above, Inside

LEMMA InsideIsAbove ==
  ASSUME NEW s, Inside(s)
  PROVE  Above(s)
BY DEF Inside, Above

\* Inside of a walk, a finalizer is called.
LEMMA WalkCalls ==
  ASSUME NEW s \in Seq(Frame), Inside(s), Walk(s)
  PROVE  Callers(s) # {}
<1>1. PICK i \in DOMAIN s : s[i].f = "after"
  BY DEF Walk
<1>2. i < Len(s) /\ s[i + 1].f = "finalizer"
  BY <1>1 DEF Inside
<1>3. i + 1 \in DOMAIN s
  BY <1>2
<1>4. QED
  BY <1>2, <1>3 DEF Callers

LEMMA SubGcSame ==
  ASSUME NEW base \in Seq(Frame), Inside(base), NEW inh, NEW trig, NEW force, SubGc(base, inh, trig, force)
  PROVE  Inside(stack') /\ Same(base, stack')
<1> DEFINE e == [f |-> "before"]
<1>1. stack' = base \/ stack' = Append(base, e)
  BY DEF SubGc
<1>2. e \in Frame /\ e.f \notin {"after", "finalizer"}
  BY Frames
<1>3. CASE stack' = base
  BY <1>3 DEF Same
<1>4. CASE stack' = Append(base, e)
  <2> HIDE DEF e
  <2>1. Inside(Append(base, e)) /\ Same(base, Append(base, e))
    BY <1>2, PushSame
  <2>2. QED
    BY <1>4, <2>1
<1>5. QED
  BY <1>1, <1>3, <1>4

LEMMA FinKept ==
  ASSUME FinInv, Above(stack'), Same(stack, stack'), UNCHANGED fin
  PROVE  FinInv'
<1>1. Walked(fin, Walk(stack'), Callers(stack') # {})
  BY DEF FinInv, Same, Walked
<1>2. QED
  BY <1>1 DEF FinInv

(* Steps that leave the finalizers alone.                                    *)
LEMMA OthersFin ==
  ASSUME IInv, FinInv, UNCHANGED fin,
         \/ Alloc \/ AllocAgain \/ EnterWithoutGcing \/ LeaveWithoutGcing \/ GcOff \/ GcOn \/ Gc
         \/ \E n \in Consings : SetBytesConsed(n)
  PROVE  FinInv'
<1>1. stack \in Seq(Frame) /\ Above(stack) /\ inhibit \in BOOLEAN
  BY DEF IInv, Types, FinInv
<1>2. Top # "after"
  BY <1>1 DEF Alloc, AllocAgain, EnterWithoutGcing, LeaveWithoutGcing, GcOff, GcOn, Gc, SetBytesConsed, Running
<1>3. Inside(stack)
  BY <1>1, <1>2, AboveIsInside
<1> DEFINE Fits(base) == base \in Seq(Frame) /\ Inside(base) /\ Same(stack, base)
<1>4. Fits(stack)
  BY <1>1, <1>3 DEF Same
<1>5. Top \in {"alloc", "without-gcing"} => Fits(Below)
  BY <1>1, <1>3, TopIs, Popped, PopSame
<1>6. Fits(Append(stack, [f |-> "alloc"]))
  <2> DEFINE e == [f |-> "alloc"]
  <2>1. e \in Frame /\ e.f \notin {"after", "finalizer"}
    BY Frames
  <2> HIDE DEF e
  <2>2. Append(stack, e) \in Seq(Frame)
    BY <1>1, <2>1, AppendProperties
  <2>3. Inside(Append(stack, e)) /\ Same(stack, Append(stack, e))
    BY <1>1, <1>3, <2>1, PushSame
  <2>4. QED
    BY <2>2, <2>3 DEF e
<1>7. Fits(Append(stack, [f |-> "without-gcing", old |-> inhibit]))
  <2> DEFINE e == [f |-> "without-gcing", old |-> inhibit]
  <2>1. e \in Frame /\ e.f \notin {"after", "finalizer"}
    BY <1>1, Frames
  <2> HIDE DEF e
  <2>2. Append(stack, e) \in Seq(Frame)
    BY <1>1, <2>1, AppendProperties
  <2>3. Inside(Append(stack, e)) /\ Same(stack, Append(stack, e))
    BY <1>1, <1>3, <2>1, PushSame
  <2>4. QED
    BY <2>2, <2>3 DEF e
<1>8. \E base : Fits(base) /\ (stack' = base \/ \E inh, trig, force : SubGc(base, inh, trig, force))
  <2>1. CASE Alloc
    BY <1>4, <1>6, <2>1 DEF Alloc, Refill, MaybeGc
  <2>2. CASE AllocAgain
    BY <1>4, <1>5, <2>2 DEF AllocAgain, Refill, MaybeGc
  <2>3. CASE EnterWithoutGcing
    BY <1>7, <2>3 DEF EnterWithoutGcing
  <2>4. CASE LeaveWithoutGcing
    BY <1>5, <2>4 DEF LeaveWithoutGcing
  <2>5. CASE GcOff \/ GcOn \/ Gc \/ \E n \in Consings : SetBytesConsed(n)
    BY <1>4, <2>5 DEF GcOff, GcOn, Gc, SetBytesConsed
  <2>6. QED
    BY <2>1, <2>2, <2>3, <2>4, <2>5
<1>9. PICK base : Fits(base) /\ (stack' = base \/ \E inh, trig, force : SubGc(base, inh, trig, force))
  BY <1>8
<1>10. Inside(stack') /\ Same(base, stack')
  BY <1>9, SubGcSame DEF Same
<1>11. Same(stack, stack') /\ Above(stack')
  BY <1>9, <1>10, InsideIsAbove DEF Same
<1>12. QED
  BY <1>11, FinKept

-----------------------------------------------------------------------------
(* The steps of a walk.                                                      *)

LEMMA FinFields ==
  ASSUME fin \in FinType
  PROVE  /\ fin.list \in Seq(Reg) /\ fin.rest \in Seq(Reg) /\ fin.kept \in Seq(Reg)
         /\ fin.made \in Nat /\ fin.called \in [Reg -> Nat]
         /\ ToSet(fin.list) \subseteq Reg /\ ToSet(fin.rest) \subseteq Reg /\ ToSet(fin.kept) \subseteq Reg
         /\ 1..fin.made \subseteq Reg
<1>1. /\ fin.list \in Seq(Reg) /\ fin.rest \in Seq(Reg) /\ fin.kept \in Seq(Reg)
      /\ fin.made \in 0..MaxRegs /\ fin.called \in [Reg -> Nat]
  BY DEF FinType
<1>2. fin.made \in Nat /\ 1..fin.made \subseteq Reg
  BY <1>1, TriggerAssumption DEF Reg
<1>3. \A s \in Seq(Reg) : ToSet(s) \subseteq Reg
  BY DEF ToSet
<1>4. QED
  BY <1>1, <1>2, <1>3

\* sub-gc is back from the collector: the walk begins, no finalizer is called.
LEMMA HookPushed ==
  ASSUME IInv, FinInv, Top = "before", stack' = Append(Below, [f |-> "after"])
  PROVE  ~Walk(stack) /\ Above(stack') /\ Walk(stack') /\ Callers(stack') = {}
<1> DEFINE e == [f |-> "after"]
<1>1. Below \in Seq(Frame) /\ Hooks(Below) = {} /\ Callers(Below) = {}
  BY HookOnTop
<1>2. ~Walk(Below)
  BY <1>1 DEF Walk, Hooks
<1>3. Inside(stack) /\ stack \in Seq(Frame)
  BY AboveIsInside DEF IInv, Types, FinInv
<1>4. ~Walk(stack)
  BY <1>2, <1>3, PopSame DEF Same
<1>5. e \in Frame /\ e.f = "after"
  BY Frames
<1> HIDE DEF e
<1>6. /\ stack' \in Seq(Frame) /\ DOMAIN stack' = DOMAIN Below \union {Len(Below) + 1}
      /\ \A i \in DOMAIN Below : stack'[i] = Below[i]
      /\ stack'[Len(Below) + 1] = e /\ Len(stack') = Len(Below) + 1
  BY <1>1, <1>5, Pushed, AppendProperties DEF e
<1>7. Walk(stack') /\ Callers(stack') = {}
  BY <1>1, <1>5, <1>6 DEF Walk, Callers
<1>8. \A i \in DOMAIN stack' : stack'[i].f = "after" => i = Len(stack')
  BY <1>2, <1>6 DEF Walk
<1>9. Above(stack')
  <2>1. Len(stack') \in Nat
    BY <1>6, LenProperties
  <2>2. QED
    BY <1>8, <2>1 DEF Above
<1>10. QED
  BY <1>4, <1>7, <1>9

LEMMA CollectGarbageFin ==
  ASSUME IInv, FinInv, CollectGarbage
  PROVE  FinInv'
<1>1. ~Walk(stack) /\ Above(stack') /\ Walk(stack') /\ Callers(stack') = {}
  BY HookPushed DEF CollectGarbage
<1>2. fin \in FinType
  BY DEF IInv, Types
<1>3. PICK dead : fin' = [fin EXCEPT !.broken = @ \union dead, !.rest = fin.list, !.kept = << >>,
                                     !.linked = TRUE, !.gone = 0, !.failed = FALSE]
  BY DEF CollectGarbage
<1>4. /\ fin'.list = fin.list /\ fin'.rest = fin.list /\ fin'.kept = << >> /\ fin'.failed = FALSE
      /\ fin'.made = fin.made /\ fin'.called = fin.called /\ fin'.inner = fin.inner
      /\ fin'.cancelled = fin.cancelled /\ fin'.spoilt = fin.spoilt
      /\ fin'.linked = TRUE /\ fin'.gone = 0
  BY <1>2, <1>3 DEF FinType
<1>5. ToSet(<< >>) = {} /\ IsInjective(<< >>)
  BY DEF ToSet, IsInjective
<1>6. Awaited(fin') = Awaited(fin) /\ Callable(fin') = Callable(fin) /\ (Once(fin) => Once(fin'))
  BY <1>4 DEF Awaited, Callable, Once
<1>7. Waiting(fin')
  <2>1. Lists(fin') /\ Revoked(fin')
    BY <1>4, <1>5 DEF FinInv, Waiting, Lists, Revoked
  <2>2. QED
    BY <1>4, <1>6, <2>1 DEF FinInv, Waiting
<1>8. ToSet(fin.list) \subseteq Callable(fin) /\ Awaited(fin) \subseteq ToSet(fin.list)
  BY <1>1 DEF FinInv, Walked, Waiting
<1>9. Walked(fin', TRUE, FALSE)
  BY <1>4, <1>5, <1>6, <1>8 DEF Walked, Disturbed
<1>10. QED
  BY <1>1, <1>7, <1>9 DEF FinInv

\* A finalizer on the hook that calls it.
LEMMA CallPushed ==
  ASSUME IInv, FinInv, Top = "after", NEW r \in Reg, stack' = Append(stack, [f |-> "finalizer", reg |-> r])
  PROVE  Above(stack') /\ Walk(stack') /\ Callers(stack') # {}
<1> DEFINE e == [f |-> "finalizer", reg |-> r]
           n == Len(stack)
<1>1. e \in Frame /\ e.f = "finalizer"
  BY Frames
<1>2. stack \in Seq(Frame) /\ Above(stack)
  BY DEF IInv, Types, FinInv
<1>3. stack # << >> /\ stack[n].f = "after"
  BY <1>2, TopIs
<1> HIDE DEF e
<1>4. /\ stack' \in Seq(Frame) /\ Len(stack') = n + 1 /\ \A i \in 1..n : stack'[i] = stack[i]
      /\ stack'[n + 1] = e /\ n \in Nat \ {0} /\ DOMAIN stack = 1..n
  BY <1>1, <1>2, <1>3, EmptySeq, AppendProperties DEF e
<1>5. DOMAIN stack' = 1..(n + 1)
  BY <1>4
<1> HIDE DEF n
<1>6. 1..(n + 1) = (1..n) \union {n + 1} /\ n \in 1..n
  BY <1>4
<1>7. Walk(stack') /\ Callers(stack') # {}
  BY <1>1, <1>3, <1>4, <1>5, <1>6 DEF Walk, Callers
<1>8. ASSUME NEW i \in DOMAIN stack', stack'[i].f = "after", i < Len(stack')
      PROVE  stack'[i + 1].f = "finalizer"
  <2>1. i \in 1..n /\ stack[i].f = "after"
    BY <1>4, <1>5, <1>6, <1>8
  <2>2. CASE i = n
    BY <1>1, <1>4, <2>2
  <2>3. CASE i # n
    <3>1. i < n /\ i + 1 \in 1..n
      BY <1>4, <2>1, <2>3
    <3>2. stack[i + 1].f = "finalizer"
      BY <1>2, <1>4, <2>1, <3>1 DEF Above, n
    <3>3. QED
      BY <1>4, <3>1, <3>2
  <2>4. QED
    BY <2>2, <2>3
<1>9. QED
  BY <1>7, <1>8 DEF Above

LEMMA FinalizeCorpsesFin ==
  ASSUME IInv, FinInv, FinalizeCorpses
  PROVE  FinInv'
<1> DEFINE r == Head(fin.rest)
           u == Tail(fin.rest)
<1>1. fin \in FinType /\ fin.rest # << >> /\ Top = "after" /\ stack \in Seq(Frame)
  BY DEF IInv, Types, FinalizeCorpses
<1>2. Callers(stack) = {}
  BY <1>1, HookOnTop
<1>3. Walk(stack)
  <2>1. stack # << >> /\ stack[Len(stack)].f = "after" /\ Len(stack) \in DOMAIN stack
    BY <1>1, TopIs, Popped
  <2>2. QED
    BY <2>1 DEF Walk
<1>4. /\ fin.list \in Seq(Reg) /\ fin.rest \in Seq(Reg) /\ fin.kept \in Seq(Reg)
      /\ fin.called \in [Reg -> Nat] /\ ToSet(fin.list) \subseteq Reg
  BY <1>1, FinFields
<1>5. /\ r \in Reg /\ r \in ToSet(fin.rest) /\ ToSet(fin.rest) = {r} \union ToSet(u) /\ r \notin ToSet(u)
      /\ IsInjective(u)
  <2>1. IsInjective(fin.rest)
    BY DEF FinInv, Waiting, Lists
  <2>2. QED
    BY <1>1, <1>4, <2>1, HeadIsReg, TailSet
<1>6. /\ ~fin.failed /\ Awaited(fin) \subseteq ToSet(fin.rest) \union ToSet(fin.kept)
      /\ ToSet(fin.kept) \subseteq Callable(fin) /\ ToSet(fin.rest) \subseteq Callable(fin)
      /\ ToSet(fin.rest) \subseteq ToSet(fin.list) /\ (Disturbed(fin) => ToSet(fin.rest) \subseteq fin.spoilt)
      /\ (fin.gone > 0 => ToSet(fin.list) \subseteq Callable(fin))
  BY <1>1, <1>2, <1>3 DEF FinInv, Walked
<1>7. r \in 1..fin.made
  BY <1>5 DEF FinInv, Waiting, Lists
<1>8. CASE r \in fin.broken
  <2>1. stack' = Append(stack, [f |-> "finalizer", reg |-> r]) /\ fin' = [fin EXCEPT !.called[r] = @ + 1]
    BY <1>8 DEF FinalizeCorpses
  <2>2. Above(stack') /\ Walk(stack') /\ Callers(stack') # {}
    BY <1>1, <1>5, <2>1, CallPushed
  <2>3. /\ fin'.list = fin.list /\ fin'.rest = fin.rest /\ fin'.kept = fin.kept /\ fin'.failed = fin.failed
        /\ fin'.made = fin.made /\ fin'.called = [fin.called EXCEPT ![r] = @ + 1] /\ fin'.inner = fin.inner
        /\ fin'.cancelled = fin.cancelled /\ fin'.spoilt = fin.spoilt
      /\ fin'.linked = fin.linked /\ fin'.gone = fin.gone
    BY <1>1, <2>1 DEF FinType
  <2> HIDE DEF r, u
  <2>4. /\ fin'.called[r] = fin.called[r] + 1 /\ fin.called[r] \in Nat
        /\ \A q \in Reg : q # r => fin'.called[q] = fin.called[q]
    BY <1>4, <1>5, <2>3
  <2>5. Awaited(fin') \subseteq Awaited(fin)
    <3>1. ASSUME NEW q \in Awaited(fin')
          PROVE  q \in Awaited(fin)
      <4>1. q \in 1..fin.made /\ fin'.called[q] = 0 /\ q \notin fin.inner \union fin.cancelled /\ q \in Reg
        BY <1>1, <2>3, <3>1, FinFields DEF Awaited
      <4>2. q # r
        BY <2>4, <4>1
      <4>3. QED
        BY <2>4, <4>1, <4>2 DEF Awaited
    <3>2. QED
      BY <3>1
  <2>6. Callable(fin) \ {r} \subseteq Callable(fin')
    BY <2>3, <2>4 DEF Callable
  <2>7. Once(fin')
    <3>1. r \notin fin.spoilt => fin.called[r] = 0
      BY <1>5, <1>6 DEF Callable
    <3>2. Once(fin)
      BY DEF FinInv, Waiting
    <3>3. QED
      BY <2>3, <2>4, <3>1, <3>2 DEF Once
  <2>8. Waiting(fin')
    <3>1. Lists(fin) /\ Awaited(fin) \subseteq ToSet(fin.list)
      BY DEF FinInv, Waiting
    <3>2. \A q \in Reg \ 1..fin'.made : fin'.called[q] = 0
      BY <1>7, <2>3, <2>4, <3>1 DEF Lists
    <3>3. Lists(fin')
      BY <2>3, <3>1, <3>2 DEF Lists
    <3>4. Revoked(fin')
      BY <2>3 DEF FinInv, Waiting, Revoked
    <3>5. QED
      BY <2>3, <2>5, <2>7, <3>1, <3>3, <3>4 DEF Waiting
  <2>9. ToSet(fin.kept) \subseteq Callable(fin') /\ ToSet(u) \subseteq Callable(fin')
    <3>1. r \notin ToSet(fin.kept)
      BY <1>5 DEF FinInv, Waiting, Lists
    <3>2. QED
      BY <1>5, <1>6, <2>6, <3>1
  <2>10. Walked(fin', TRUE, TRUE)
    <3>1. fin'.called[Head(fin'.rest)] > 0
      BY <2>3, <2>4 DEF r
    <3>2. Tail(fin'.rest) = u
      BY <2>3 DEF u
    <3>3. Disturbed(fin') => ToSet(fin'.rest) \subseteq fin'.spoilt
      BY <1>6, <2>3 DEF Disturbed
    <3>4. fin'.gone > 0 => ToSet(fin'.list) \subseteq Callable(fin')
      <4>1. fin'.gone > 0 => r \in fin.spoilt
        BY <1>5, <1>6, <2>3 DEF Disturbed
      <4>2. r \in fin.spoilt => r \in Callable(fin')
        BY <2>3 DEF Callable
      <4>3. QED
        BY <1>6, <2>3, <2>6, <4>1, <4>2
    <3>5. QED
      BY <1>1, <1>6, <2>3, <2>5, <2>9, <3>1, <3>2, <3>3, <3>4 DEF Walked
  <2>11. QED
    BY <2>2, <2>8, <2>10 DEF FinInv
<1>9. CASE r \notin fin.broken
  <2> DEFINE k == Append(fin.kept, r)
  <2>1. UNCHANGED stack /\ fin' = [fin EXCEPT !.rest = u, !.kept = k, !.linked = TRUE]
    BY <1>9 DEF FinalizeCorpses
  <2>2. /\ fin'.list = fin.list /\ fin'.rest = u /\ fin'.kept = k /\ fin'.failed = fin.failed
        /\ fin'.made = fin.made /\ fin'.called = fin.called /\ fin'.inner = fin.inner
        /\ fin'.cancelled = fin.cancelled /\ fin'.spoilt = fin.spoilt
      /\ fin'.linked = TRUE /\ fin'.gone = fin.gone
    BY <1>1, <2>1 DEF FinType
  <2>3. r \notin ToSet(fin.kept) /\ IsInjective(fin.kept)
    BY <1>5 DEF FinInv, Waiting, Lists
  <2>4. ToSet(k) = ToSet(fin.kept) \union {r} /\ IsInjective(k)
    BY <1>4, <1>5, <2>3, AppendSet
  <2> HIDE DEF k, r, u
  <2>5. Awaited(fin') = Awaited(fin) /\ Callable(fin') = Callable(fin) /\ (Once(fin) => Once(fin'))
    BY <2>2 DEF Awaited, Callable, Once
  <2>6. Waiting(fin')
    <3>1. Lists(fin')
      BY <1>5, <2>2, <2>4 DEF FinInv, Waiting, Lists
    <3>2. Revoked(fin')
      BY <1>5, <2>2, <2>4 DEF FinInv, Waiting, Revoked
    <3>3. QED
      BY <2>2, <2>5, <3>1, <3>2 DEF FinInv, Waiting
  <2>7. Walked(fin', TRUE, FALSE)
    BY <1>5, <1>6, <2>2, <2>4, <2>5 DEF Walked, Disturbed
  <2>8. Walk(stack') /\ Callers(stack') = {} /\ Above(stack')
    BY <1>2, <1>3, <2>1 DEF FinInv
  <2>9. QED
    BY <2>6, <2>7, <2>8 DEF FinInv
<1>10. QED
  BY <1>8, <1>9

\* A finalizer is left: the walk goes on.
LEMMA CallPopped ==
  ASSUME IInv, FinInv, Top = "finalizer"
  PROVE  /\ Above(Below) /\ Walk(Below) /\ Walk(stack) /\ Callers(Below) = {} /\ Callers(stack) # {}
         /\ fin.rest # << >>
<1> DEFINE n == Len(stack)
<1>1. stack \in Seq(Frame) /\ stack # << >> /\ stack[n].f = "finalizer"
  BY TopIs DEF IInv, Types
<1>2. Callers(Below) = {} /\ fin.rest # << >>
  BY PopKeeps
<1>3. n \in Nat \ {0} /\ DOMAIN stack = 1..n
  BY <1>1, EmptySeq
<1>4. Below \in Seq(Frame) /\ Len(Below) = n - 1 /\ \A i \in 1..(n - 1) : Below[i] = stack[i]
  BY <1>1, <1>3 DEF Below
<1>5. DOMAIN Below = 1..(n - 1)
  BY <1>3, <1>4
<1>6. n \in Callers(stack)
  BY <1>1, <1>3 DEF Callers
<1>7. PICK j \in DOMAIN stack : j < n /\ stack[j].f = "after"
  BY <1>6 DEF IInv, OneFinalizer
<1> HIDE DEF n
<1>8. j \in 1..(n - 1)
  BY <1>3, <1>7
<1>9. Walk(Below) /\ Walk(stack)
  BY <1>4, <1>5, <1>7, <1>8 DEF Walk
<1>10. ASSUME NEW i \in DOMAIN Below, Below[i].f = "after", i < Len(Below)
       PROVE  Below[i + 1].f = "finalizer"
  <2>1. i \in 1..n /\ i < n /\ stack[i].f = "after" /\ i + 1 \in 1..(n - 1)
    BY <1>3, <1>4, <1>5, <1>10
  <2>2. QED
    BY <1>3, <1>4, <2>1 DEF FinInv, Above, n
<1>11. QED
  BY <1>2, <1>6, <1>9, <1>10 DEF Above

LEMMA FinalizerReturnsFin ==
  ASSUME IInv, FinInv, FinalizerReturns
  PROVE  FinInv'
<1> DEFINE r == Head(fin.rest)
           u == Tail(fin.rest)
           k == IF fin.linked THEN fin.kept ELSE Append(fin.kept, r)
           l == IF fin.linked /\ fin.kept # << >> /\ Last(fin.kept) \in ToSet(fin.list)
                THEN Unlink(fin.list, r) ELSE fin.list
<1>1. fin \in FinType /\ Top = "finalizer"
  BY DEF IInv, Types, FinalizerReturns
<1>2. /\ Above(Below) /\ Walk(Below) /\ Walk(stack) /\ Callers(Below) = {} /\ Callers(stack) # {}
      /\ fin.rest # << >>
  BY <1>1, CallPopped
<1>3. fin.list \in Seq(Reg) /\ fin.rest \in Seq(Reg) /\ fin.kept \in Seq(Reg) /\ r \in Reg
  BY <1>1, <1>2, FinFields, HeadIsReg
<1>4. Lists(fin) /\ Once(fin) /\ Revoked(fin) /\ Awaited(fin) \subseteq ToSet(fin.list)
  BY DEF FinInv, Waiting
<1>5. /\ ToSet(fin.rest) = {r} \union ToSet(u) /\ r \notin ToSet(u) /\ IsInjective(u)
  BY <1>2, <1>3, <1>4, TailSet DEF Lists
<1>6. /\ ~fin.failed /\ Awaited(fin) \subseteq ToSet(fin.rest) \union ToSet(fin.kept)
      /\ ToSet(fin.kept) \subseteq Callable(fin) /\ ToSet(u) \subseteq Callable(fin)
      /\ ToSet(fin.rest) \subseteq ToSet(fin.list) /\ (Disturbed(fin) => ToSet(fin.rest) \subseteq fin.spoilt)
      /\ (fin.gone > 0 => ToSet(fin.list) \subseteq Callable(fin))
      /\ fin.called[r] > 0
  BY <1>2 DEF FinInv, Walked
<1>7. IsInjective(l) /\ ToSet(l) \subseteq ToSet(fin.list) /\ ToSet(fin.list) \ {r} \subseteq ToSet(l)
  <2>1. ToSet(Unlink(fin.list, r)) = ToSet(fin.list) \ {r} /\ IsInjective(Unlink(fin.list, r))
    BY <1>3, <1>4, UnlinkSet DEF Lists
  <2>2. QED
    BY <1>4, <2>1 DEF Lists
<1>8. /\ IsInjective(k) /\ ToSet(fin.kept) \subseteq ToSet(k) /\ ToSet(k) \subseteq ToSet(fin.kept) \union {r}
      /\ ToSet(k) \subseteq Callable(fin)
  <2>1. r \notin ToSet(fin.kept) /\ IsInjective(fin.kept)
    BY <1>4, <1>5 DEF Lists
  <2>2. ToSet(Append(fin.kept, r)) = ToSet(fin.kept) \union {r} /\ IsInjective(Append(fin.kept, r))
    BY <1>3, <2>1, AppendSet
  <2>3. ~fin.linked => r \in Callable(fin)
    BY <1>5, <1>6 DEF Disturbed, Callable
  <2>4. QED
    BY <1>6, <2>1, <2>2, <2>3
<1>9. stack' = Below /\ fin' = [fin EXCEPT !.rest = u, !.kept = k, !.list = l]
  BY DEF FinalizerReturns
<1>10. /\ fin'.list = l /\ fin'.rest = u /\ fin'.kept = k /\ fin'.failed = fin.failed
       /\ fin'.made = fin.made /\ fin'.called = fin.called /\ fin'.inner = fin.inner
       /\ fin'.cancelled = fin.cancelled /\ fin'.spoilt = fin.spoilt
       /\ fin'.linked = fin.linked /\ fin'.gone = fin.gone
  BY <1>1, <1>9 DEF FinType
<1> HIDE DEF r, u, k, l
<1>11. Awaited(fin') = Awaited(fin) /\ Callable(fin') = Callable(fin) /\ (Once(fin) => Once(fin'))
  BY <1>10 DEF Awaited, Callable, Once
<1>12. r \notin Awaited(fin)
  BY <1>6 DEF Awaited
<1>13. Waiting(fin')
  <2>1. Lists(fin')
    BY <1>4, <1>5, <1>7, <1>8, <1>10 DEF Lists
  <2>2. Revoked(fin')
    BY <1>4, <1>5, <1>7, <1>8, <1>10 DEF Revoked
  <2>3. QED
    BY <1>4, <1>7, <1>10, <1>11, <1>12, <2>1, <2>2 DEF Waiting
<1>14. Walked(fin', TRUE, FALSE)
  <2>1. Awaited(fin') \subseteq ToSet(u) \union ToSet(k)
    BY <1>5, <1>6, <1>8, <1>11, <1>12
  <2>2. ToSet(u) \subseteq ToSet(l) /\ (Disturbed(fin') => ToSet(u) \subseteq fin'.spoilt)
    BY <1>5, <1>6, <1>7, <1>10 DEF Disturbed
  <2>3. QED
    BY <1>6, <1>7, <1>8, <1>10, <1>11, <2>1, <2>2 DEF Walked
<1>15. QED
  BY <1>2, <1>9, <1>13, <1>14 DEF FinInv

LEMMA FinalizerFailsFin ==
  ASSUME IInv, FinInv, FinalizerFails
  PROVE  FinInv'
<1>1. fin \in FinType /\ Top = "finalizer"
  BY DEF IInv, Types, FinalizerFails
<1>2. Above(Below) /\ Walk(Below) /\ Callers(Below) = {}
  BY <1>1, CallPopped
<1>3. stack' = Below /\ fin' = [Fails EXCEPT !.spoilt = @ \union ToSet(fin.list)]
  BY DEF FinalizerFails
<1>4. /\ fin'.list = fin.list /\ fin'.rest = << >> /\ fin'.kept = fin.kept /\ fin'.failed = TRUE
      /\ fin'.made = fin.made /\ fin'.called = fin.called /\ fin'.inner = fin.inner
      /\ fin'.cancelled = fin.cancelled /\ fin'.spoilt = fin.spoilt \union ToSet(fin.list)
  BY <1>1, <1>3 DEF FinType, Fails
<1>5. ToSet(<< >>) = {} /\ IsInjective(<< >>)
  BY DEF ToSet, IsInjective
<1>6. Awaited(fin') = Awaited(fin) /\ (Once(fin) => Once(fin'))
  BY <1>4 DEF Awaited, Once
<1>7. Waiting(fin')
  <2>1. Lists(fin') /\ Revoked(fin')
    BY <1>4, <1>5 DEF FinInv, Waiting, Lists, Revoked
  <2>2. QED
    BY <1>4, <1>6, <2>1 DEF FinInv, Waiting
<1>8. Walked(fin', TRUE, FALSE)
  BY <1>4 DEF Walked, Callable
<1>9. QED
  BY <1>2, <1>3, <1>7, <1>8 DEF FinInv

LEMMA WalkFailsFin ==
  ASSUME IInv, FinInv, WalkFails
  PROVE  FinInv'
<1>1. fin \in FinType /\ Top = "after" /\ fin.gone > 0 /\ fin.rest = << >> /\ UNCHANGED stack
  BY DEF IInv, Types, WalkFails
<1>2. Callers(stack) = {} /\ Walk(stack)
  <2>1. stack # << >> /\ stack[Len(stack)].f = "after" /\ Len(stack) \in DOMAIN stack
    BY <1>1, TopIs, Popped DEF IInv, Types
  <2>2. QED
    BY <1>1, <2>1, HookOnTop DEF Walk
<1>3. /\ fin'.list = fin.list /\ fin'.rest = fin.rest /\ fin'.kept = fin.kept /\ fin'.failed = TRUE
      /\ fin'.made = fin.made /\ fin'.called = fin.called /\ fin'.inner = fin.inner
      /\ fin'.cancelled = fin.cancelled /\ fin'.spoilt = fin.spoilt
  BY <1>1 DEF FinType, Fails, WalkFails
<1>4. Awaited(fin') = Awaited(fin) /\ Callable(fin') = Callable(fin) /\ (Once(fin) => Once(fin'))
  BY <1>3 DEF Awaited, Callable, Once
<1>5. Waiting(fin')
  <2>1. Lists(fin') /\ Revoked(fin')
    BY <1>3 DEF FinInv, Waiting, Lists, Revoked
  <2>2. QED
    BY <1>3, <1>4, <2>1 DEF FinInv, Waiting
<1>6. ToSet(fin.list) \subseteq Callable(fin)
  BY <1>1, <1>2 DEF FinInv, Walked
<1>7. Walked(fin', TRUE, FALSE)
  BY <1>1, <1>3, <1>4, <1>6 DEF Walked
<1>8. QED
  BY <1>1, <1>2, <1>5, <1>7 DEF FinInv

LEMMA FinishGcFin ==
  ASSUME IInv, FinInv, FinishGc
  PROVE  FinInv'
<1> DEFINE l == IF fin.failed THEN fin.list ELSE fin.kept
<1>1. fin \in FinType /\ stack \in Seq(Frame) /\ Top = "after" /\ fin.rest = << >>
  BY DEF IInv, Types, FinishGc
<1>2. Hooks(Below) = {} /\ Callers(Below) = {} /\ Callers(stack) = {}
  BY <1>1, HookOnTop
<1>3. ~Walk(Below) /\ Above(Below)
  BY <1>2 DEF Walk, Hooks, Above
<1>4. Walk(stack)
  <2>1. stack # << >> /\ stack[Len(stack)].f = "after" /\ Len(stack) \in DOMAIN stack
    BY <1>1, TopIs, Popped
  <2>2. QED
    BY <2>1 DEF Walk
<1>5. ToSet(<< >>) = {} /\ IsInjective(<< >>)
  BY DEF ToSet, IsInjective
<1>6. Lists(fin) /\ Once(fin) /\ Revoked(fin) /\ Awaited(fin) \subseteq ToSet(fin.list)
  BY DEF FinInv, Waiting
<1>7. ToSet(l) \subseteq Callable(fin) /\ Awaited(fin) \subseteq ToSet(l)
  <2>1. CASE fin.failed
    BY <1>4, <1>6, <2>1 DEF FinInv, Walked, Callable
  <2>2. CASE ~fin.failed
    BY <1>1, <1>4, <1>5, <2>2 DEF FinInv, Walked
  <2>3. QED
    BY <2>1, <2>2
<1>8. IsInjective(l) /\ ToSet(l) \subseteq 1..fin.made
  BY <1>6 DEF Lists
<1>9. stack' = Below /\ fin' = [fin EXCEPT !.list = l, !.kept = << >>, !.failed = FALSE]
  BY DEF FinishGc
<1>10. /\ fin'.list = l /\ fin'.rest = << >> /\ fin'.kept = << >> /\ fin'.failed = FALSE
       /\ fin'.made = fin.made /\ fin'.called = fin.called /\ fin'.inner = fin.inner
       /\ fin'.cancelled = fin.cancelled /\ fin'.spoilt = fin.spoilt
      /\ fin'.linked = fin.linked /\ fin'.gone = fin.gone
  BY <1>1, <1>9 DEF FinType
<1> HIDE DEF l
<1>11. Awaited(fin') = Awaited(fin) /\ Callable(fin') = Callable(fin) /\ (Once(fin) => Once(fin'))
  BY <1>10 DEF Awaited, Callable, Once
<1>12. Waiting(fin')
  <2>1. Lists(fin')
    BY <1>5, <1>6, <1>8, <1>10 DEF Lists
  <2>2. Revoked(fin')
    BY <1>5, <1>6, <1>10 DEF Revoked, l
  <2>3. QED
    BY <1>6, <1>7, <1>10, <1>11, <2>1, <2>2 DEF Waiting
<1>13. Walked(fin', Walk(Below), Callers(Below) # {})
  BY <1>2, <1>3, <1>7, <1>10, <1>11 DEF Walked
<1>14. QED
  BY <1>2, <1>3, <1>9, <1>12, <1>13 DEF FinInv

\* While the program runs, the list is walked only around a finalizer.
LEMMA RunningCalls ==
  ASSUME IInv, FinInv, Running
  PROVE  /\ InFinalizer <=> Callers(stack) # {}
         /\ Walk(stack) => InFinalizer
<1>1. stack \in Seq(Frame) /\ Above(stack) /\ Top # "after"
  BY DEF IInv, Types, FinInv, Running
<1>2. InFinalizer <=> Callers(stack) # {}
  BY DEF InFinalizer, Callers
<1>3. QED
  BY <1>1, <1>2, AboveIsInside, WalkCalls

LEMMA FinalizeFin ==
  ASSUME IInv, FinInv, Finalize
  PROVE  FinInv'
<1> DEFINE r == fin.made + 1
           l == <<r>> \o fin.list
           inn == IF InFinalizer THEN fin.inner \union {r} ELSE fin.inner
<1>1. fin \in FinType /\ fin.made \in 0..MaxRegs /\ fin.made < MaxRegs /\ MaxRegs \in Nat
  BY TriggerAssumption DEF IInv, Types, FinType, Finalize
<1>2. r \in Reg /\ fin.made \in Nat /\ r \notin 1..fin.made /\ 1..r = (1..fin.made) \union {r}
  BY <1>1 DEF Reg
<1>3. /\ InFinalizer <=> Callers(stack) # {}
      /\ Walk(stack) => InFinalizer
  BY RunningCalls DEF Finalize
<1>4. fin.list \in Seq(Reg)
  BY <1>1, FinFields
<1>5. Lists(fin) /\ Once(fin) /\ Revoked(fin) /\ Awaited(fin) \subseteq ToSet(fin.list)
  BY DEF FinInv, Waiting
<1>6. UNCHANGED stack /\ fin' = [fin EXCEPT !.list = l, !.made = r, !.inner = inn]
  BY DEF Finalize
<1> HIDE DEF r
<1>7. ToSet(l) = ToSet(fin.list) \union {r} /\ IsInjective(l)
  <2>1. r \notin ToSet(fin.list) /\ IsInjective(fin.list)
    BY <1>2, <1>5 DEF Lists
  <2>2. QED
    BY <1>2, <1>4, <2>1, ConsSet
<1> HIDE DEF l
<1>8. /\ fin'.list = l /\ fin'.rest = fin.rest /\ fin'.kept = fin.kept /\ fin'.failed = fin.failed
      /\ fin'.made = r /\ fin'.called = fin.called /\ fin'.inner = inn
      /\ fin'.cancelled = fin.cancelled /\ fin'.spoilt = fin.spoilt
      /\ fin'.linked = fin.linked /\ fin'.gone = fin.gone
  BY <1>1, <1>6 DEF FinType
<1>9. Callable(fin') = Callable(fin) /\ Once(fin') /\ r \in Callable(fin)
  BY <1>2, <1>5, <1>8 DEF Callable, Once, Lists
<1>10. Awaited(fin') \subseteq Awaited(fin) \union (IF InFinalizer THEN {} ELSE {r})
  BY <1>2, <1>8 DEF Awaited
<1>11. Waiting(fin')
  <2>1. Lists(fin')
    BY <1>2, <1>5, <1>7, <1>8 DEF Lists
  <2>2. Awaited(fin') \subseteq ToSet(l)
    BY <1>5, <1>7, <1>10
  <2>3. Revoked(fin')
    BY <1>2, <1>5, <1>7, <1>8 DEF Revoked, Lists
  <2>4. QED
    BY <1>8, <1>9, <2>1, <2>2, <2>3 DEF Waiting
<1>12. Walked(fin', Walk(stack), Callers(stack) # {})
  <2>1. CASE Walk(stack)
    <3>1. ~fin.failed
      BY <1>3, <2>1 DEF FinInv, Walked
    <3>2. Awaited(fin') \subseteq Awaited(fin)
      BY <1>3, <1>10, <2>1
    <3>3. QED
      BY <1>7, <1>8, <1>9, <2>1, <3>1, <3>2 DEF FinInv, Walked, Disturbed
  <2>2. CASE ~Walk(stack)
    <3>1. /\ ToSet(fin.list) \subseteq Callable(fin) /\ ~(Callers(stack) # {})
          /\ fin.rest = << >> /\ fin.kept = << >>
      BY <2>2 DEF FinInv, Walked
    <3>2. QED
      BY <1>7, <1>8, <1>9, <2>2, <3>1 DEF Walked
  <2>3. QED
    BY <2>1, <2>2
<1>13. QED
  BY <1>6, <1>11, <1>12 DEF FinInv

LEMMA CancelFinalizationFin ==
  ASSUME IInv, FinInv, NEW r \in Reg, CancelFinalization(r)
  PROVE  FinInv'
<1> DEFINE l == Unlink(fin.list, r)
           u == Unlink(fin.rest, r)
           sp == IF InFinalizer THEN fin.spoilt \union ToSet(fin.list) ELSE fin.spoilt
<1>1. /\ fin \in FinType /\ fin.list \in Seq(Reg) /\ fin.rest \in Seq(Reg) /\ fin.kept \in Seq(Reg)
      /\ fin.called \in [Reg -> Nat]
  BY FinFields DEF IInv, Types
<1>2. r \in ToSet(fin.list) /\ r \notin fin.broken /\ UNCHANGED stack
  BY DEF CancelFinalization
<1>3. /\ InFinalizer <=> Callers(stack) # {}
      /\ Walk(stack) => InFinalizer
  BY RunningCalls DEF CancelFinalization
<1>4. Lists(fin) /\ Once(fin) /\ Revoked(fin) /\ Awaited(fin) \subseteq ToSet(fin.list)
  BY DEF FinInv, Waiting
<1>5. PICK k \in {fin.kept, Unlink(fin.kept, r)}, b \in BOOLEAN, n \in Nat :
           /\ n = fin.gone \/ r \in ToSet(fin.rest)
           /\ b = fin.linked \/ r \in ToSet(fin.kept)
           /\ fin' = [fin EXCEPT !.list = l, !.rest = u, !.kept = k, !.linked = b, !.gone = n,
                                 !.cancelled = @ \union {r}, !.spoilt = sp]
  BY <1>1, Deleted
<1>6. /\ ToSet(l) = ToSet(fin.list) \ {r} /\ IsInjective(l)
      /\ ToSet(u) = ToSet(fin.rest) \ {r} /\ IsInjective(u)
  BY <1>1, <1>4, UnlinkSet DEF Lists
<1>7. ToSet(fin.kept) \ {r} \subseteq ToSet(k) /\ ToSet(k) \subseteq ToSet(fin.kept) /\ IsInjective(k)
  <2>1. ToSet(Unlink(fin.kept, r)) = ToSet(fin.kept) \ {r} /\ IsInjective(Unlink(fin.kept, r))
    BY <1>1, <1>4, UnlinkSet DEF Lists
  <2>2. QED
    BY <1>4, <1>5, <2>1 DEF Lists
<1>8. fin.rest # << >> /\ Head(fin.rest) # r => u # << >> /\ Head(u) = Head(fin.rest)
  BY <1>1, UnlinkHead
<1> HIDE DEF l, u
<1>9. /\ fin'.list = l /\ fin'.rest = u /\ fin'.kept = k /\ fin'.failed = fin.failed
      /\ fin'.made = fin.made /\ fin'.called = fin.called /\ fin'.inner = fin.inner
      /\ fin'.cancelled = fin.cancelled \union {r} /\ fin'.spoilt = sp
      /\ fin'.linked = b /\ fin'.gone = n
  BY <1>1, <1>5 DEF FinType
<1>10. fin.spoilt \subseteq sp /\ (InFinalizer => ToSet(fin.list) \subseteq sp)
  OBVIOUS
<1> HIDE DEF sp
<1>11. Awaited(fin') = Awaited(fin) \ {r} /\ Callable(fin) \subseteq Callable(fin') /\ Once(fin')
  BY <1>4, <1>9, <1>10 DEF Awaited, Callable, Once
<1>12. Waiting(fin')
  <2>1. Lists(fin')
    BY <1>2, <1>4, <1>6, <1>7, <1>9 DEF Lists
  <2>2. Revoked(fin')
    <3>1. CASE InFinalizer
      <4>1. r \in sp
        BY <1>2, <1>10, <3>1
      <4>2. QED
        BY <1>4, <1>6, <1>7, <1>9, <1>10, <4>1 DEF Revoked
    <3>2. CASE ~InFinalizer
      <4>1. ToSet(fin.rest) = {} /\ ToSet(fin.kept) = {}
        BY <1>3, <3>2 DEF FinInv, Walked, ToSet
      <4>2. QED
        BY <1>4, <1>6, <1>7, <1>9, <1>10, <4>1 DEF Revoked
    <3>3. QED
      BY <3>1, <3>2
  <2>3. QED
    BY <1>4, <1>6, <1>9, <1>11, <2>1, <2>2 DEF Waiting
<1>13. Walked(fin', Walk(stack), Callers(stack) # {})
  <2>1. CASE InFinalizer
    <3>1. Walk(stack) /\ Callers(stack) # {}
      BY <1>3, <2>1 DEF FinInv, Walked
    <3>2. /\ ~fin.failed /\ Awaited(fin) \subseteq ToSet(fin.rest) \union ToSet(fin.kept)
          /\ ToSet(fin.kept) \subseteq Callable(fin) /\ ToSet(Tail(fin.rest)) \subseteq Callable(fin)
          /\ ToSet(fin.rest) \subseteq ToSet(fin.list)
          /\ fin.rest # << >> /\ fin.called[Head(fin.rest)] > 0
      BY <3>1 DEF FinInv, Walked
    <3>3. Head(fin.rest) # r
      <4>1. PICK i \in Callers(stack) : TRUE
        BY <3>1
      <4>2. Head(fin.rest) \in fin.broken
        BY <4>1 DEF IInv, OneFinalizer
      <4>3. QED
        BY <1>2, <4>2
    <3>4. u # << >> /\ Head(u) = Head(fin.rest)
      BY <1>8, <3>2, <3>3
    <3>5. u \in Seq(Reg)
      BY <1>1, UnlinkType DEF u
    <3>6. ToSet(u) \subseteq sp /\ ToSet(l) \subseteq sp
      BY <1>6, <1>10, <2>1, <3>2
    <3>7. ToSet(Tail(u)) \subseteq ToSet(u)
      BY <1>6, <3>4, <3>5, TailSet
    <3>8. sp \subseteq Callable(fin')
      BY <1>9 DEF Callable
    <3>9. Awaited(fin') \subseteq ToSet(u) \union ToSet(k)
      BY <1>6, <1>7, <1>11, <3>2
    <3>10. ToSet(u) \subseteq ToSet(l) /\ ToSet(k) \subseteq Callable(fin')
      BY <1>6, <1>7, <1>11, <3>2
    <3>11. fin'.called[Head(fin'.rest)] > 0
      BY <1>9, <3>2, <3>4
    <3>12. QED
      BY <1>9, <3>1, <3>2, <3>4, <3>6, <3>7, <3>8, <3>9, <3>10, <3>11 DEF Walked
  <2>2. CASE ~InFinalizer
    <3>1. ~Walk(stack) /\ ~(Callers(stack) # {})
      BY <1>3, <2>2
    <3>2. ToSet(fin.list) \subseteq Callable(fin) /\ fin.rest = << >> /\ fin.kept = << >>
      BY <3>1 DEF FinInv, Walked
    <3>3. Unlink(<< >>, r) = << >>
      BY DEF Unlink, ToSet
    <3>4. u = << >> /\ k = << >>
      BY <1>5, <3>2, <3>3 DEF u
    <3>5. QED
      BY <1>6, <1>9, <1>11, <3>1, <3>2, <3>4 DEF Walked
  <2>3. QED
    BY <2>1, <2>2
<1>14. QED
  BY <1>2, <1>12, <1>13 DEF FinInv

-----------------------------------------------------------------------------

LEMMA InitFin == Init => FinInv
<1> SUFFICES ASSUME Init PROVE FinInv
  OBVIOUS
<1>1. fin = NoFin /\ stack = << >> /\ fin \in FinType
  BY InitInv DEF Init, IInv, Types
<1>2. ~Walk(stack) /\ Callers(stack) = {} /\ Above(stack)
  BY <1>1 DEF Walk, Callers, Above
<1>3. ToSet(<< >>) = {} /\ IsInjective(<< >>)
  BY DEF ToSet, IsInjective
<1>4. Lists(fin) /\ Once(fin) /\ Revoked(fin) /\ Awaited(fin) = {}
  BY <1>1, <1>3 DEF NoFin, Lists, Once, Revoked, Awaited
<1>5. Walked(fin, Walk(stack), Callers(stack) # {})
  BY <1>1, <1>2, <1>3 DEF NoFin, Walked, Callable
<1>6. QED
  BY <1>2, <1>4, <1>5 DEF FinInv, Waiting

LEMMA NextFin ==
  ASSUME IInv, FinInv, [Next]_vars
  PROVE  FinInv'
<1>1. CASE Alloc \/ AllocAgain \/ EnterWithoutGcing \/ LeaveWithoutGcing \/ GcOff \/ GcOn \/ Gc
           \/ \E n \in Consings : SetBytesConsed(n)
  <2>1. UNCHANGED fin
    BY <1>1 DEF Alloc, AllocAgain, EnterWithoutGcing, LeaveWithoutGcing, GcOff, GcOn, Gc, SetBytesConsed
  <2>2. QED
    BY <1>1, <2>1, OthersFin
<1>2. CASE CollectGarbage \/ FinalizeCorpses \/ FinalizerReturns \/ FinalizerFails \/ WalkFails \/ FinishGc
  BY <1>2, CollectGarbageFin, FinalizeCorpsesFin, FinalizerReturnsFin, FinalizerFailsFin, WalkFailsFin,
         FinishGcFin
<1>3. CASE Finalize \/ \E r \in Reg : CancelFinalization(r)
  BY <1>3, FinalizeFin, CancelFinalizationFin
<1>4. CASE UNCHANGED vars
  BY <1>4 DEF vars, FinInv
<1>5. QED
  BY <1>1, <1>2, <1>3, <1>4 DEF Next, Runtime, Program

(* finalize-corpses: whatever finalizers register, cancel or signal, a       *)
(* registration of the program stays on the list until its function is       *)
(* called or it is cancelled.  Those that were on the list when a finalizer  *)
(* failed or cancelled one may be called again, or come back; any other is   *)
(* called once, and not when the program cancelled it.                       *)
THEOREM FinalizersAreKept == Spec => []FinalizersKept
<1>1. IInv /\ FinInv /\ [Next]_vars => FinInv'
  BY NextFin
<1>2. FinInv => FinalizersKept
  BY DEF FinInv, Waiting, Awaited, Once, Revoked, FinalizersKept, KeptUntilCalled, CalledOnce,
            CancelledForGood
<1>3. QED
  BY InitFin, Invariance, <1>1, <1>2, PTL DEF Spec
=============================================================================
