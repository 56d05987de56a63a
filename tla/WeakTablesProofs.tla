-------------------------- MODULE WeakTablesProofs --------------------------
(***************************************************************************)
(* Proofs about WeakTables, for tables of any size, any hash addresses and *)
(* any number of collections.                                              *)
(*                                                                         *)
(* Whole says what the collector and Lisp keep of a table of n slots and   *)
(* m chains: each slot i is on one list, own[i], with a rank that grows    *)
(* along it, and the slots of the free list are the empty ones.  Agrees    *)
(* adds what a collection knows of the entries: the words that hold new    *)
(* addresses are those of moved objects, and, when Lisp uses the table     *)
(* between two collections, an entry is on the chain of its key's address, *)
(* the new one once the key was forwarded, or waits on the rehash list.    *)
(* Every step of the code is a function of the table, so each of them is a *)
(* lemma of its own (PushIs, UnlinkIs, FreedIs, RehashAllIs, KeyIs), the  *)
(* loops are inductions over the set of the slots done, and an action      *)
(* composes them.                                                          *)
(*                                                                         *)
(* That the table is the map of WeakMap needs AsAlive as well: all that    *)
(* was moved has to be alive when what was reached is (in any set that has *)
(* the survivors and what their entries ask for), and after a pass of      *)
(* scav_weak_tables the set of the survivors has all that its entries ask  *)
(* for, so that it is the closure WeakMap defines.                         *)
(***************************************************************************)
EXTENDS WeakTables, FiniteSetTheorems, SequenceTheorems, WellFoundedInduction, TLAPS

-----------------------------------------------------------------------------
(* Induction and folds.                                                     *)
LEMMA Least ==
  ASSUME NEW T \in SUBSET Nat, T # {}
  PROVE  \E m \in T : \A n \in T : m <= n
<1>1. PICK m \in T : \A n \in T : ~ <<n, m>> \in OpToRel(<, Nat)
  BY NatLessThanWellFounded, WFMin
<1>2. \A n \in T : ~ (n < m)
  BY <1>1 DEF OpToRel
<1>3. QED
  BY <1>2, SMT

\* What holds of 0 and of each successor holds up to n.
LEMMA Induction ==
  ASSUME NEW S, 0 \in S, \A n \in Nat : n \in S => n + 1 \in S
  PROVE  Nat \subseteq S
<1> SUFFICES ASSUME Nat \ S # {} PROVE FALSE
  OBVIOUS
<1>1. PICK m \in Nat \ S : \A n \in Nat \ S : m <= n
  BY Least
<1>2. m # 0 /\ m - 1 \in Nat
  BY <1>1
<1>3. m - 1 \in S
  BY <1>1, <1>2
<1>4. QED
  BY <1>1, <1>2, <1>3

\* The last place of a set, the one that the folds take first.
LEMMA MaxIs ==
  ASSUME NEW n \in Nat, NEW s \in SUBSET (1..n), s # {}
  PROVE  Max(s) \in s /\ \A i \in s : i <= Max(s)
<1> DEFINE T == {m \in Nat : \E i \in s : m = n - i}
<1>1. T \in SUBSET Nat /\ T # {}
  <2>1. PICK e \in s : TRUE
    OBVIOUS
  <2>2. n - e \in T
    BY <2>1
  <2>3. QED
    BY <2>2
<1>2. PICK m \in T : \A k \in T : m <= k
  BY <1>1, Least
<1>3. PICK i \in s : m = n - i
  BY <1>2
<1>4. \A j \in s : i >= j
  <2>1. TAKE j \in s
  <2>2. n - j \in T
    OBVIOUS
  <2>3. QED
    BY <2>2, <1>2, <1>3
<1>5. QED
  BY <1>4, Zenon, SMT DEF Max

\* Taking the last place away leaves the places before it.
LEMMA MaxIsLast ==
  ASSUME NEW m \in Nat, NEW s \in SUBSET (1..m + 1), m + 1 \in s
  PROVE  Max(s) = m + 1
<1>1. m + 1 \in Nat
  OBVIOUS
<1>2. Max(s) \in s /\ \A i \in s : i <= Max(s)
  BY <1>1, MaxIs
<1>3. Max(s) \in 1..m + 1 /\ m + 1 <= Max(s)
  BY <1>2
<1>4. QED
  BY <1>3

\* The last place of 1..n.
LEMMA MaxOfInterval ==
  ASSUME NEW m \in Nat
  PROVE  Max(1..m + 1) = m + 1 /\ (1..m + 1) \ {Max(1..m + 1)} = 1..m
<1>1. m + 1 \in 1..m + 1 /\ 1..m + 1 \in SUBSET (1..m + 1)
  OBVIOUS
<1>2. Max(1..m + 1) = m + 1
  BY <1>1, MaxIsLast
<1>3. (1..m + 1) \ {m + 1} = 1..m
  OBVIOUS
<1>4. QED
  BY <1>2, <1>3

\* A loop over the places of a sequence of length n: step[s][x] is what the step for
\* the last place of s makes of x, and D[s] has what there is after the places of s.
Places(n) == (SUBSET (1..n)) \ {{}}

Folds(n, c, step, D) ==
  c \in D[{}] /\ \A s \in Places(n) : \A x \in D[s \ {Max(s)}] : step[s][x] \in D[s]

Folded(n, c, step, D, r) ==
  /\ r[{}] = c
  /\ \A s \in Places(n) : r[s] = step[s][r[s \ {Max(s)}]]
  /\ \A s \in SUBSET (1..n) : r[s] \in D[s]

\* A loop over the places up to n has a result after each of them, of the set D gives it.
LEMMA FoldExists ==
  ASSUME NEW n \in Nat, NEW c, NEW step, NEW D, Folds(n, c, step, D)
  PROVE  \E r : Folded(n, c, step, D, r)
<1> USE DEF Folds, Places
<1> DEFINE Run(r, m) ==
             /\ r = [s \in SUBSET (1..m) |-> IF s = {} THEN c ELSE step[s][r[s \ {Max(s)}]]]
             /\ \A s \in SUBSET (1..m) : r[s] \in D[s]
           S == {m \in Nat : m <= n => \E r : Run(r, m)}
<1>1. 0 \in S
  <2> DEFINE r == [s \in SUBSET (1..0) |-> c]
  <2>1. SUBSET (1..0) = {{}}
    OBVIOUS
  <2>2. r = [s \in SUBSET (1..0) |-> IF s = {} THEN c ELSE step[s][r[s \ {Max(s)}]]]
    BY <2>1
  <2>3. Run(r, 0)
    BY <2>1, <2>2
  <2>4. QED
    BY <2>3
<1>2. ASSUME NEW m \in Nat, m \in S PROVE m + 1 \in S
  <2> HIDE DEF Run
  <2> SUFFICES ASSUME m + 1 <= n PROVE \E r : Run(r, m + 1)
    BY DEF S
  <2>0. \E r : Run(r, m)
    BY <1>2
  <2>1. PICK r : Run(r, m)
    BY <2>0
  <2> USE DEF Run
  <2> DEFINE old(s) == s \ {m + 1}
             q == [s \in SUBSET (1..m + 1) |-> IF m + 1 \in s THEN step[s][r[old(s)]] ELSE r[s]]
  <2>2. ASSUME NEW s \in SUBSET (1..m + 1)
        PROVE  /\ old(s) \in SUBSET (1..m) /\ m + 1 \notin old(s) /\ old(s) \in SUBSET (1..m + 1)
               /\ m + 1 \in s => Max(s) = m + 1
               /\ m + 1 \notin s => s \in SUBSET (1..m)
               /\ m + 1 \notin s /\ s # {} => s \ {Max(s)} \in SUBSET (1..m) /\ m + 1 \notin s \ {Max(s)}
               /\ m + 1 \in s => s \in (SUBSET (1..n)) \ {{}}
               /\ q[s] = IF m + 1 \in s THEN step[s][r[old(s)]] ELSE r[s]
    <3>1. m + 1 \in s => Max(s) = m + 1
      BY MaxIsLast
    <3>2. old(s) \in SUBSET (1..m) /\ m + 1 \notin old(s) /\ old(s) \in SUBSET (1..m + 1)
      OBVIOUS
    <3>3. m + 1 \notin s => s \in SUBSET (1..m)
      OBVIOUS
    <3>4. s \ {Max(s)} \subseteq s
      OBVIOUS
    <3>5. m + 1 \in s => s \in (SUBSET (1..n)) \ {{}}
      OBVIOUS
    <3>6. q[s] = IF m + 1 \in s THEN step[s][r[old(s)]] ELSE r[s]
      OBVIOUS
    <3> HIDE DEF q, Run
    <3>7. QED
      BY <3>1, <3>2, <3>3, <3>4, <3>5, <3>6
  <2>3. ASSUME NEW s \in SUBSET (1..m + 1)
        PROVE  q[s] = (IF s = {} THEN c ELSE step[s][q[s \ {Max(s)}]]) /\ q[s] \in D[s]
    <3>1. CASE m + 1 \in s
      <4>1. q[s] = step[s][r[old(s)]] /\ Max(s) = m + 1 /\ q[old(s)] = r[old(s)] /\ s # {}
        BY <2>2, <3>1
      <4>2. r[old(s)] \in D[old(s)]
        <5> DEFINE u == old(s)
        <5>1. u \in SUBSET (1..m)
          BY <2>2
        <5> HIDE DEF u
        <5>2. r[u] \in D[u]
          BY <2>1, <5>1
        <5>3. QED
          BY <5>2 DEF u
      <4>3. step[s][r[old(s)]] \in D[s]
        BY <4>1, <4>2, <2>2, <3>1
      <4>4. QED
        BY <4>1, <4>3
    <3>2. CASE m + 1 \notin s
      <4>1. q[s] = r[s] /\ s \in SUBSET (1..m)
        BY <2>2, <3>2
      <4>2. s # {} => q[s \ {Max(s)}] = r[s \ {Max(s)}]
        BY <2>2, <3>2
      <4>3. r[s] = (IF s = {} THEN c ELSE step[s][r[s \ {Max(s)}]]) /\ r[s] \in D[s]
        BY <2>1, <4>1
      <4>4. QED
        BY <4>1, <4>2, <4>3
    <3>3. QED
      BY <3>1, <3>2
  <2>4. q = [s \in SUBSET (1..m + 1) |-> q[s]]
    OBVIOUS
  <2> HIDE DEF q
  <2>5. q = [s \in SUBSET (1..m + 1) |-> IF s = {} THEN c ELSE step[s][q[s \ {Max(s)}]]]
    BY <2>3, <2>4
  <2>6. QED
    BY <2>3, <2>5
<1>3. n \in S
  <2> HIDE DEF S
  <2>1. QED
    BY <1>1, <1>2, Induction
<1>4. \E r : Run(r, n)
  <2> HIDE DEF Run
  <2>1. QED
    BY <1>3
<1>5. PICK r : Run(r, n)
  BY <1>4
<1>6. r[{}] = c /\ \A s \in (SUBSET (1..n)) \ {{}} : r[s] = step[s][r[s \ {Max(s)}]]
  BY <1>5
<1>7. QED
  BY <1>5, <1>6 DEF Folded

\* So a loop given as a recursive function of sets has its last result in D[1..n].
LEMMA FoldEnds ==
  ASSUME NEW n \in Nat, NEW r, NEW D, r[{}] \in D[{}],
         \A s \in Places(n) : r[s \ {Max(s)}] \in D[s \ {Max(s)}] => r[s] \in D[s]
  PROVE  r[1..n] \in D[1..n]
<1> USE DEF Places
<1> DEFINE S == {m \in Nat : m <= n => r[1..m] \in D[1..m]}
<1>1. 0 \in S
  <2>1. 1..0 = {}
    OBVIOUS
  <2>2. QED
    BY <2>1
<1>2. ASSUME NEW m \in Nat, m \in S PROVE m + 1 \in S
  <2> SUFFICES ASSUME m + 1 <= n PROVE r[1..m + 1] \in D[1..m + 1]
    OBVIOUS
  <2>1. 1..m + 1 \in (SUBSET (1..n)) \ {{}}
    OBVIOUS
  <2>2. (1..m + 1) \ {Max(1..m + 1)} = 1..m
    BY MaxOfInterval
  <2>3. r[1..m] \in D[1..m]
    BY <1>2
  <2>4. QED
    BY <2>1, <2>2, <2>3
<1>3. n \in S
  <2> HIDE DEF S
  <2>1. QED
    BY <1>1, <1>2, Induction
<1>4. QED
  BY <1>3

\* The same for a loop that counts from 0 to n.
Loops(n, c, step, D) ==
  c \in D[0] /\ \A i \in 1..n : \A x \in D[i - 1] : step[i][x] \in D[i]

Looped(n, c, step, D, r) ==
  r[0] = c /\ (\A i \in 1..n : r[i] = step[i][r[i - 1]]) /\ \A i \in 0..n : r[i] \in D[i]

\* The loop that counts has a result after each step.
LEMMA LoopExists ==
  ASSUME NEW n \in Nat, NEW c, NEW step, NEW D, Loops(n, c, step, D)
  PROVE  \E r : Looped(n, c, step, D, r)
<1> USE DEF Loops
<1> DEFINE Run(r, m) ==
             /\ r = [i \in 0..m |-> IF i = 0 THEN c ELSE step[i][r[i - 1]]]
             /\ \A i \in 0..m : r[i] \in D[i]
           S == {m \in Nat : m <= n => \E r : Run(r, m)}
<1>1. 0 \in S
  <2> DEFINE r == [i \in 0..0 |-> c]
  <2>1. r = [i \in 0..0 |-> IF i = 0 THEN c ELSE step[i][r[i - 1]]]
    OBVIOUS
  <2>2. Run(r, 0)
    BY <2>1
  <2>3. QED
    BY <2>2
<1>2. ASSUME NEW m \in Nat, m \in S PROVE m + 1 \in S
  <2> HIDE DEF Run
  <2> SUFFICES ASSUME m + 1 <= n PROVE \E r : Run(r, m + 1)
    BY DEF S
  <2>0. \E r : Run(r, m)
    BY <1>2
  <2>1. PICK r : Run(r, m)
    BY <2>0
  <2> DEFINE q == [i \in 0..m + 1 |-> IF i = m + 1 THEN step[m + 1][r[m]] ELSE r[i]]
  <2>2. ASSUME NEW i \in 0..m + 1
        PROVE  q[i] = (IF i = 0 THEN c ELSE step[i][q[i - 1]]) /\ q[i] \in D[i]
    <3>1. CASE i = m + 1
      <4>1. i # 0 /\ i \in 1..n /\ i - 1 = m /\ m \in 0..m /\ m \in 0..m + 1 /\ m # m + 1
        BY <3>1
      <4>2. q[i] = step[i][r[m]] /\ q[i - 1] = r[m]
        BY <3>1, <4>1
      <4>3. r[m] \in D[i - 1]
        BY <2>1, <4>1 DEF Run
      <4> HIDE DEF q
      <4>4. QED
        BY <4>1, <4>2, <4>3
    <3>2. CASE i # m + 1
      <4>1. i \in 0..m /\ (i # 0 => i - 1 \in 0..m + 1 /\ i - 1 # m + 1)
        BY <3>2
      <4>2. q[i] = r[i] /\ (i # 0 => q[i - 1] = r[i - 1])
        BY <3>2, <4>1
      <4>3. r[i] = (IF i = 0 THEN c ELSE step[i][r[i - 1]]) /\ r[i] \in D[i]
        BY <2>1, <4>1 DEF Run
      <4> HIDE DEF q
      <4>4. QED
        BY <4>2, <4>3
    <3>3. QED
      BY <3>1, <3>2
  <2>3. q = [i \in 0..m + 1 |-> q[i]]
    OBVIOUS
  <2> HIDE DEF q
  <2>4. q = [i \in 0..m + 1 |-> IF i = 0 THEN c ELSE step[i][q[i - 1]]]
    BY <2>2, <2>3
  <2>5. Run(q, m + 1)
    BY <2>2, <2>4 DEF Run
  <2>6. QED
    BY <2>5
<1>3. n \in S
  <2> HIDE DEF S
  <2>1. QED
    BY <1>1, <1>2, Induction
<1>4. \E r : Run(r, n)
  <2> HIDE DEF Run
  <2>1. QED
    BY <1>3
<1>5. PICK r : Run(r, n)
  BY <1>4
<1>6. r[0] = c /\ \A i \in 1..n : r[i] = step[i][r[i - 1]]
  BY <1>5
<1>7. QED
  BY <1>5, <1>6 DEF Looped

\* So a loop given as a recursive function of numbers has its last result in D[n].
LEMMA LoopEnds ==
  ASSUME NEW n \in Nat, NEW r, NEW D, r[0] \in D[0],
         \A i \in 1..n : r[i - 1] \in D[i - 1] => r[i] \in D[i]
  PROVE  r[n] \in D[n]
<1> DEFINE S == {m \in Nat : m <= n => r[m] \in D[m]}
<1>1. 0 \in S
  OBVIOUS
<1>2. ASSUME NEW m \in Nat, m \in S PROVE m + 1 \in S
  <2> SUFFICES ASSUME m + 1 <= n PROVE r[m + 1] \in D[m + 1]
    OBVIOUS
  <2>1. m + 1 \in 1..n /\ (m + 1) - 1 = m /\ r[m] \in D[m]
    BY <1>2
  <2>2. QED
    BY <2>1
<1>3. n \in S
  <2> HIDE DEF S
  <2>1. QED
    BY <1>1, <1>2, Induction
<1>4. QED
  BY <1>3

-----------------------------------------------------------------------------
(***************************************************************************)
(* Lists.  The list of each slot is own[i], and its place in it rk[i].     *)
(***************************************************************************)
FREE == -1
REHASH == -2
NONE == -3

Linked(n, L, next, head, own, rk) ==
  /\ next \in [1..n -> 0..n] /\ head \in [L -> 0..n]
  /\ own \in [1..n -> L \union {NONE}] /\ rk \in [1..n -> Nat]
  /\ \A l \in L : head[l] # 0 => own[head[l]] = l
  /\ \A i \in 1..n : own[i] # NONE /\ next[i] # 0 =>
       own[next[i]] = own[i] /\ rk[i] < rk[next[i]] /\ next[i] # head[own[i]]
  /\ \A i, j \in 1..n : own[i] # NONE /\ own[j] # NONE /\ next[i] = next[j] /\ next[i] # 0 => i = j
  /\ \A i \in 1..n : own[i] # NONE =>
       i = head[own[i]] \/ \E j \in 1..n : own[j] = own[i] /\ next[j] = i

Threaded(n, L, next, head, own) == \E rk : Linked(n, L, next, head, own, rk)

\* A slot of no list becomes the first of a list.
LEMMA Pushed ==
  ASSUME NEW n \in Nat, NEW L, NONE \notin L, NEW next, NEW head, NEW own,
         Threaded(n, L, next, head, own),
         NEW i \in 1..n, own[i] = NONE, NEW l \in L
  PROVE  Threaded(n, L, [next EXCEPT ![i] = head[l]], [head EXCEPT ![l] = i], [own EXCEPT ![i] = l])
<1>1. PICK rk : Linked(n, L, next, head, own, rk)
  BY DEF Threaded
<1> DEFINE next2 == [next EXCEPT ![i] = head[l]]
           head2 == [head EXCEPT ![l] = i]
           own2 == [own EXCEPT ![i] = l]
           rk2 == [k \in 1..n |-> IF k = i THEN 0 ELSE rk[k] + 1]
<1>2. /\ next2 \in [1..n -> 0..n] /\ head2 \in [L -> 0..n]
      /\ own2 \in [1..n -> L \union {NONE}] /\ rk2 \in [1..n -> Nat]
  BY <1>1 DEF Linked
<1>3. /\ next2[i] = head[l] /\ own2[i] = l /\ head2[l] = i /\ rk2[i] = 0
      /\ \A k \in 1..n : k # i => next2[k] = next[k] /\ own2[k] = own[k] /\ rk2[k] = rk[k] + 1
      /\ \A k \in L : k # l => head2[k] = head[k]
  BY <1>1 DEF Linked
<1>4. \A k \in 1..n : own[k] # NONE => next[k] # i
  <2>1. ASSUME NEW k \in 1..n, own[k] # NONE, next[k] = i PROVE FALSE
    <3>1. next[k] # 0
      BY <2>1
    <3>2. own[next[k]] = own[k]
      BY <1>1, <2>1, <3>1 DEF Linked
    <3>3. QED
      BY <2>1, <3>2
  <2>2. QED
    BY <2>1
<1>5. \A k \in L : head[k] # i
  BY <1>1 DEF Linked
<1> HIDE DEF next2, head2, own2, rk2
<1>6. \A k \in L : head2[k] # 0 => own2[head2[k]] = k
  <2>1. \A k \in L : k # l /\ head[k] # 0 => head[k] \in 1..n /\ own[head[k]] = k
    BY <1>1 DEF Linked
  <2>2. QED
    BY <1>3, <1>5, <2>1
<1>7. ASSUME NEW k \in 1..n, own2[k] # NONE, next2[k] # 0
      PROVE  own2[next2[k]] = own2[k] /\ rk2[k] < rk2[next2[k]] /\ next2[k] # head2[own2[k]]
  <2>1. CASE k = i
    <3>1. next2[k] \in 1..n /\ next2[k] # i /\ own[next2[k]] = l
      BY <1>1, <1>3, <1>5, <1>7, <2>1 DEF Linked
    <3>2. rk[next2[k]] \in Nat
      BY <1>1, <3>1 DEF Linked
    <3>3. QED
      BY <1>3, <2>1, <3>1, <3>2
  <2>2. CASE k # i
    <3>0. next[k] \in 0..n /\ own[k] \in L \union {NONE}
      BY <1>1 DEF Linked
    <3>1. /\ next2[k] = next[k] /\ own2[k] = own[k] /\ own[k] # NONE /\ next[k] # i /\ own[k] \in L
          /\ next[k] \in 1..n
      BY <1>3, <1>4, <1>7, <2>2, <3>0
    <3>2. own[next[k]] = own[k] /\ rk[k] < rk[next[k]] /\ next[k] # head[own[k]]
      BY <1>1, <1>7, <3>1 DEF Linked
    <3>3. rk[k] \in Nat /\ rk[next[k]] \in Nat
      BY <1>1, <3>1 DEF Linked
    <3>4. QED
      BY <1>3, <2>2, <3>1, <3>2, <3>3
  <2>3. QED
    BY <2>1, <2>2
<1>8. ASSUME NEW j \in 1..n, NEW k \in 1..n, own2[j] # NONE, own2[k] # NONE,
             next2[j] = next2[k], next2[j] # 0
      PROVE  j = k
  <2>1. ASSUME NEW h \in 1..n, own[h] # NONE, next[h] = head[l], head[l] # 0 PROVE FALSE
    <3>1. own[head[l]] = l
      BY <1>1, <2>1 DEF Linked
    <3>2. own[next[h]] = own[h] /\ next[h] # head[own[h]]
      BY <1>1, <2>1 DEF Linked
    <3>3. QED
      BY <2>1, <3>1, <3>2
  <2>2. CASE j = i \/ k = i
    BY <1>3, <1>8, <2>1, <2>2
  <2>3. CASE j # i /\ k # i
    <3>1. /\ own[j] # NONE /\ own[k] # NONE /\ next[j] = next[k] /\ next[j] # 0
      BY <1>3, <1>8, <2>3
    <3>2. QED
      BY <1>1, <3>1 DEF Linked
  <2>4. QED
    BY <2>2, <2>3
<1>9. ASSUME NEW k \in 1..n, own2[k] # NONE
      PROVE  k = head2[own2[k]] \/ \E j \in 1..n : own2[j] = own2[k] /\ next2[j] = k
  <2>1. CASE k = i
    BY <1>3, <2>1
  <2>2. CASE k # i
    <3>1. own2[k] = own[k] /\ own[k] # NONE
      BY <1>3, <1>9, <2>2
    <3>2. CASE k = head[own[k]]
      <4>1. CASE own[k] = l
        BY <1>3, <3>1, <3>2, <4>1
      <4>2. CASE own[k] # l
        <5>1. own[k] \in L
          BY <1>1, <3>1 DEF Linked
        <5>2. QED
          BY <1>3, <3>1, <3>2, <4>2, <5>1
      <4>3. QED
        BY <4>1, <4>2
    <3>3. CASE k # head[own[k]]
      <4>1. PICK j \in 1..n : own[j] = own[k] /\ next[j] = k
        BY <1>1, <3>1, <3>3 DEF Linked
      <4>2. j # i
        BY <3>1, <4>1
      <4>3. QED
        BY <1>3, <3>1, <4>1, <4>2
    <3>4. QED
      BY <3>2, <3>3
  <2>3. QED
    BY <2>1, <2>2
<1>10. Linked(n, L, next2, head2, own2, rk2)
  BY <1>2, <1>6, <1>7, <1>8, <1>9 DEF Linked
<1>11. QED
  BY <1>10 DEF Threaded, next2, head2, own2

\* The first slot of a list is taken off it.
LEMMA HeadRemoved ==
  ASSUME NEW n \in Nat, NEW L, NONE \notin L, NEW next, NEW head, NEW own,
         Threaded(n, L, next, head, own),
         NEW i \in 1..n, NEW l \in L, head[l] = i
  PROVE  Threaded(n, L, next, [head EXCEPT ![l] = next[i]], [own EXCEPT ![i] = NONE])
<1>1. PICK rk : Linked(n, L, next, head, own, rk)
  BY DEF Threaded
<1> DEFINE head2 == [head EXCEPT ![l] = next[i]]
           own2 == [own EXCEPT ![i] = NONE]
<1>2. head2 \in [L -> 0..n] /\ own2 \in [1..n -> L \union {NONE}]
  BY <1>1 DEF Linked
<1>3. /\ own2[i] = NONE /\ head2[l] = next[i]
      /\ \A k \in 1..n : k # i => own2[k] = own[k]
      /\ \A k \in L : k # l => head2[k] = head[k]
  BY <1>1 DEF Linked
<1>4. own[i] = l /\ l # NONE /\ i # 0
  <2>1. i # 0 /\ l # NONE
    OBVIOUS
  <2>2. QED
    BY <1>1, <2>1 DEF Linked
<1>5. \A k \in 1..n : own[k] # NONE => next[k] # i
  <2>1. ASSUME NEW k \in 1..n, own[k] # NONE, next[k] = i PROVE FALSE
    <3>1. own[next[k]] = own[k] /\ next[k] # head[own[k]]
      BY <1>1, <1>4, <2>1 DEF Linked
    <3>2. QED
      BY <1>4, <2>1, <3>1
  <2>2. QED
    BY <2>1
<1>6. next[i] # 0 => next[i] \in 1..n /\ own[next[i]] = l /\ next[i] # i
  BY <1>1, <1>4 DEF Linked
<1> HIDE DEF head2, own2
<1>7. \A k \in L : head2[k] # 0 => own2[head2[k]] = k
  <2>1. ASSUME NEW k \in L, k # l, head[k] # 0 PROVE head[k] \in 1..n /\ own[head[k]] = k /\ head[k] # i
    BY <1>1, <1>4, <2>1 DEF Linked
  <2>2. QED
    BY <1>3, <1>6, <2>1
<1>8. ASSUME NEW k \in 1..n, own2[k] # NONE, next[k] # 0
      PROVE  own2[next[k]] = own2[k] /\ rk[k] < rk[next[k]] /\ next[k] # head2[own2[k]]
  <2>1. k # i /\ own2[k] = own[k] /\ own[k] # NONE
    BY <1>3, <1>8
  <2>2. own[next[k]] = own[k] /\ rk[k] < rk[next[k]] /\ next[k] # head[own[k]] /\ next[k] \in 1..n
    BY <1>1, <1>8, <2>1 DEF Linked
  <2>3. next[k] # i
    BY <1>5, <2>1
  <2>4. next[k] # next[i]
    BY <1>1, <1>4, <1>8, <2>1 DEF Linked
  <2>5. own[k] \in L
    BY <1>1, <2>1 DEF Linked
  <2>6. QED
    BY <1>3, <2>1, <2>2, <2>3, <2>4, <2>5
<1>9. ASSUME NEW j \in 1..n, NEW k \in 1..n, own2[j] # NONE, own2[k] # NONE,
             next[j] = next[k], next[j] # 0
      PROVE  j = k
  <2>1. own[j] # NONE /\ own[k] # NONE
    BY <1>3, <1>9
  <2>2. QED
    BY <1>1, <1>9, <2>1 DEF Linked
<1>10. ASSUME NEW k \in 1..n, own2[k] # NONE
       PROVE  k = head2[own2[k]] \/ \E j \in 1..n : own2[j] = own2[k] /\ next[j] = k
  <2>1. k # i /\ own2[k] = own[k] /\ own[k] # NONE /\ own[k] \in L
    BY <1>1, <1>3, <1>10 DEF Linked
  <2>2. CASE k = head[own[k]]
    <3>1. own[k] # l
      BY <2>1, <2>2
    <3>2. QED
      BY <1>3, <2>1, <2>2, <3>1
  <2>3. CASE k # head[own[k]]
    <3>1. PICK j \in 1..n : own[j] = own[k] /\ next[j] = k
      BY <1>1, <2>1, <2>3 DEF Linked
    <3>2. CASE j = i
      BY <1>3, <1>4, <2>1, <3>1, <3>2
    <3>3. CASE j # i
      BY <1>3, <2>1, <3>1, <3>3
    <3>4. QED
      BY <3>2, <3>3
  <2>4. QED
    BY <2>2, <2>3
<1>11. Linked(n, L, next, head2, own2, rk)
  BY <1>1, <1>2, <1>7, <1>8, <1>9, <1>10 DEF Linked
<1>12. QED
  BY <1>11 DEF Threaded, head2, own2

\* A slot after the first is taken off its list.
LEMMA InnerRemoved ==
  ASSUME NEW n \in Nat, NEW L, NONE \notin L, NEW next, NEW head, NEW own,
         Threaded(n, L, next, head, own),
         NEW i \in 1..n, own[i] # NONE, NEW j \in 1..n, own[j] # NONE, next[j] = i
  PROVE  Threaded(n, L, [next EXCEPT ![j] = next[i]], head, [own EXCEPT ![i] = NONE])
<1>1. PICK rk : Linked(n, L, next, head, own, rk)
  BY DEF Threaded
<1> DEFINE next2 == [next EXCEPT ![j] = next[i]]
           own2 == [own EXCEPT ![i] = NONE]
<1>2. next2 \in [1..n -> 0..n] /\ own2 \in [1..n -> L \union {NONE}]
  BY <1>1 DEF Linked
<1>3. /\ own2[i] = NONE /\ next2[j] = next[i]
      /\ \A k \in 1..n : k # i => own2[k] = own[k]
      /\ \A k \in 1..n : k # j => next2[k] = next[k]
  BY <1>1 DEF Linked
<1>4. /\ own[i] = own[j] /\ own[i] \in L /\ rk[j] < rk[i] /\ i # head[own[i]] /\ i # 0
      /\ rk[i] \in Nat /\ rk[j] \in Nat /\ i # j
  <2>1. next[j] # 0
    OBVIOUS
  <2>2. own[next[j]] = own[j] /\ rk[j] < rk[next[j]] /\ next[j] # head[own[j]]
    BY <1>1, <2>1 DEF Linked
  <2>3. rk[i] \in Nat /\ rk[j] \in Nat /\ own[i] \in L
    BY <1>1 DEF Linked
  <2>4. QED
    BY <2>1, <2>2, <2>3
<1>5. ASSUME NEW k \in 1..n, own[k] # NONE, next[k] = i PROVE k = j
  BY <1>1, <1>5 DEF Linked
<1>6. next[i] # 0 => /\ next[i] \in 1..n /\ own[next[i]] = own[i] /\ next[i] # i
                     /\ rk[j] < rk[next[i]] /\ next[i] # head[own[i]]
  <2>1. ASSUME next[i] # 0
        PROVE  /\ next[i] \in 1..n /\ own[next[i]] = own[i] /\ rk[i] < rk[next[i]]
               /\ next[i] # head[own[i]] /\ rk[next[i]] \in Nat
    <3>1. next[i] \in 1..n
      BY <1>1, <2>1 DEF Linked
    <3>2. QED
      BY <1>1, <2>1, <3>1 DEF Linked
  <2>2. QED
    BY <1>4, <2>1
<1> HIDE DEF next2, own2
<1>7. ASSUME NEW l \in L, head[l] # 0 PROVE own2[head[l]] = l
  <2>1. head[l] \in 1..n /\ own[head[l]] = l
    BY <1>1, <1>7 DEF Linked
  <2>2. head[l] # i
    BY <1>4, <2>1
  <2>3. QED
    BY <1>3, <2>1, <2>2
<1>8. ASSUME NEW k \in 1..n, own2[k] # NONE, next2[k] # 0
      PROVE  own2[next2[k]] = own2[k] /\ rk[k] < rk[next2[k]] /\ next2[k] # head[own2[k]]
  <2>1. k # i /\ own2[k] = own[k] /\ own[k] # NONE
    BY <1>3, <1>8
  <2>2. CASE k = j
    <3>1. next2[k] = next[i] /\ next[i] # 0 /\ own[k] = own[i]
      BY <1>3, <1>4, <1>8, <2>2
    <3>2. /\ next[i] \in 1..n /\ own[next[i]] = own[i] /\ next[i] # i
          /\ rk[k] < rk[next[i]] /\ next[i] # head[own[i]]
      BY <1>6, <2>2, <3>1
    <3>3. own2[next[i]] = own[next[i]]
      BY <1>3, <3>2
    <3>4. own2[next2[k]] = own2[k]
      BY <2>1, <3>1, <3>2, <3>3, Zenon
    <3>5. rk[k] < rk[next2[k]]
      BY <3>1, <3>2, Zenon
    <3>6. next2[k] # head[own2[k]]
      BY <2>1, <3>1, <3>2, Zenon
    <3>7. QED
      BY <3>4, <3>5, <3>6, Zenon
  <2>3. CASE k # j
    <3>1. next2[k] = next[k] /\ next[k] # i
      BY <1>3, <1>5, <2>1, <2>3
    <3>2. own[next[k]] = own[k] /\ rk[k] < rk[next[k]] /\ next[k] # head[own[k]] /\ next[k] \in 1..n
      <4>1. \A a \in 1..n : own[a] # NONE /\ next[a] # 0 =>
              own[next[a]] = own[a] /\ rk[a] < rk[next[a]] /\ next[a] # head[own[a]]
        BY <1>1 DEF Linked
      <4>2. next[k] # 0
        BY <1>8, <3>1
      <4>3. next[k] \in 1..n
        BY <1>1, <4>2 DEF Linked
      <4>4. QED
        BY <2>1, <4>1, <4>2, <4>3
    <3>3. QED
      BY <1>3, <2>1, <3>1, <3>2
  <2>4. QED
    BY <2>2, <2>3
<1>9. ASSUME NEW h \in 1..n, NEW k \in 1..n, own2[h] # NONE, own2[k] # NONE,
             next2[h] = next2[k], next2[h] # 0
      PROVE  h = k
  <2>1. own[h] # NONE /\ own[k] # NONE /\ h # i /\ k # i
    BY <1>3, <1>9
  <2> DEFINE old(a) == IF a = j THEN i ELSE a
  <2>2. next2[h] = next[old(h)] /\ next2[k] = next[old(k)]
    BY <1>3
  <2>3. own[old(h)] # NONE /\ own[old(k)] # NONE /\ old(h) \in 1..n /\ old(k) \in 1..n
    BY <1>4, <2>1
  <2>4. old(h) = old(k)
    <3>1. \A a, b \in 1..n :
            own[a] # NONE /\ own[b] # NONE /\ next[a] = next[b] /\ next[a] # 0 => a = b
      BY <1>1 DEF Linked
    <3>2. next[old(h)] = next[old(k)] /\ next[old(h)] # 0
      BY <1>9, <2>2
    <3> HIDE DEF old
    <3>3. QED
      BY <2>3, <3>1, <3>2
  <2>5. QED
    BY <2>1, <2>4
<1>10. ASSUME NEW k \in 1..n, own2[k] # NONE
       PROVE  k = head[own2[k]] \/ \E h \in 1..n : own2[h] = own2[k] /\ next2[h] = k
  <2>1. k # i /\ own2[k] = own[k] /\ own[k] # NONE
    BY <1>3, <1>10
  <2>2. CASE k # head[own[k]]
    <3>1. PICK h \in 1..n : own[h] = own[k] /\ next[h] = k
      BY <1>1, <2>1, <2>2 DEF Linked
    <3>2. CASE h = i
      BY <1>3, <1>4, <2>1, <3>1, <3>2
    <3>3. CASE h # i
      BY <1>3, <1>4, <2>1, <3>1, <3>3
    <3>4. QED
      BY <3>2, <3>3
  <2>3. QED
    BY <2>1, <2>2
<1>11. Linked(n, L, next2, head, own2, rk)
  <2>1. head \in [L -> 0..n] /\ rk \in [1..n -> Nat]
    BY <1>1 DEF Linked
  <2>2. QED
    BY <1>2, <1>7, <1>8, <1>9, <1>10, <2>1 DEF Linked
<1>12. QED
  BY <1>11 DEF Threaded, next2, own2

Replaced(f, l, i) == [f EXCEPT ![l] = i]
Without(n, own, l) == [i \in 1..n |-> IF own[i] = l THEN NONE ELSE own[i]]

\* A list that is forgotten.
LEMMA Dropped ==
  ASSUME NEW n \in Nat, NEW L, NONE \notin L, NEW next, NEW head, NEW own,
         Threaded(n, L, next, head, own), NEW l \in L
  PROVE  Threaded(n, L, next, Replaced(head, l, 0), Without(n, own, l))
<1>1. PICK rk : Linked(n, L, next, head, own, rk)
  BY DEF Threaded
<1> DEFINE head2 == [head EXCEPT ![l] = 0]
           own2 == [i \in 1..n |-> IF own[i] = l THEN NONE ELSE own[i]]
<1>2. head2 \in [L -> 0..n] /\ own2 \in [1..n -> L \union {NONE}]
  BY <1>1 DEF Linked
<1>3. /\ head2[l] = 0 /\ \A k \in L : k # l => head2[k] = head[k]
      /\ \A k \in 1..n : own2[k] = (IF own[k] = l THEN NONE ELSE own[k])
  BY <1>1 DEF Linked
<1> HIDE DEF head2, own2
<1>4. ASSUME NEW k \in L, head2[k] # 0 PROVE own2[head2[k]] = k
  <2>1. k # l /\ head2[k] = head[k]
    BY <1>3, <1>4
  <2>2. head[k] \in 1..n /\ own[head[k]] = k
    BY <1>1, <1>4, <2>1 DEF Linked
  <2>3. QED
    BY <1>3, <2>1, <2>2
<1>5. ASSUME NEW k \in 1..n, own2[k] # NONE PROVE own2[k] = own[k] /\ own[k] # l /\ own[k] \in L
  BY <1>1, <1>3, <1>5 DEF Linked
<1>6. ASSUME NEW k \in 1..n, own2[k] # NONE, next[k] # 0
      PROVE  own2[next[k]] = own2[k] /\ rk[k] < rk[next[k]] /\ next[k] # head2[own2[k]]
  <2>1. own[next[k]] = own[k] /\ rk[k] < rk[next[k]] /\ next[k] # head[own[k]] /\ next[k] \in 1..n
    BY <1>1, <1>5, <1>6 DEF Linked
  <2>2. QED
    BY <1>3, <1>5, <1>6, <2>1
<1>7. ASSUME NEW j \in 1..n, NEW k \in 1..n, own2[j] # NONE, own2[k] # NONE,
             next[j] = next[k], next[j] # 0
      PROVE  j = k
  <2>1. own[j] # NONE /\ own[k] # NONE
    BY <1>5, <1>7
  <2>2. QED
    BY <1>1, <1>7, <2>1 DEF Linked
<1>8. ASSUME NEW k \in 1..n, own2[k] # NONE
      PROVE  k = head2[own2[k]] \/ \E j \in 1..n : own2[j] = own2[k] /\ next[j] = k
  <2>1. own2[k] = own[k] /\ own[k] # l /\ own[k] \in L /\ own[k] # NONE
    BY <1>5, <1>8
  <2>2. CASE k = head[own[k]]
    BY <1>3, <2>1, <2>2
  <2>3. CASE k # head[own[k]]
    <3>1. PICK j \in 1..n : own[j] = own[k] /\ next[j] = k
      BY <1>1, <2>1, <2>3 DEF Linked
    <3>2. QED
      BY <1>3, <2>1, <3>1
  <2>4. QED
    BY <2>2, <2>3
<1>9. Linked(n, L, next, head2, own2, rk)
  BY <1>1, <1>2, <1>4, <1>6, <1>7, <1>8 DEF Linked
<1>10. QED
  BY <1>9 DEF Threaded, head2, own2, Replaced, Without

-----------------------------------------------------------------------------
(***************************************************************************)
(* Chains: Chain walks one list and finds all of it.                       *)
(***************************************************************************)

\* The first places of the list of l.
Walked(n, next, own, rk, h, l, s) ==
  /\ s \in Seq(1..n)
  /\ s = <<>> <=> h = 0
  /\ s # <<>> => s[1] = h
  /\ \A j \in 1..Len(s) : own[s[j]] = l
  /\ \A j \in 1..Len(s) - 1 : next[s[j]] = s[j + 1]
  /\ \A j, k \in 1..Len(s) : j < k => rk[s[j]] < rk[s[k]]

\* Chain goes along the list it starts on.
LEMMA ChainIs ==
  ASSUME NEW n \in Nat, NEW next, DOMAIN next = 1..n, \A j \in 1..n : next[j] \in 0..n, NEW h \in 0..n
  PROVE  \E walk :
    /\ walk = [k \in 0..n |->
                 IF k = 0 THEN IF h = 0 THEN << >> ELSE <<h>>
                 ELSE IF walk[k - 1] = << >> \/ next[Last(walk[k - 1])] = 0 THEN walk[k - 1]
                      ELSE Append(walk[k - 1], next[Last(walk[k - 1])])]
    /\ Chain(next, h) = walk[n]
<1>1. Cardinality(DOMAIN next) = n
  BY FS_Interval
<1> DEFINE c == IF h = 0 THEN << >> ELSE <<h>>
           more(w) == IF w = << >> \/ next[Last(w)] = 0 THEN w ELSE Append(w, next[Last(w)])
           step == [i \in 1..n |-> [w \in Seq(1..n) |-> more(w)]]
           D == [i \in 0..n |-> Seq(1..n)]
<1>2. c \in D[0]
  <2>1. h # 0 => <<h>> \in Seq(1..n)
    OBVIOUS
  <2>2. c \in Seq(1..n)
    BY <2>1, EmptySeq
  <2>3. QED
    BY <2>2
<1>3. ASSUME NEW i \in 1..n, NEW w \in D[i - 1] PROVE step[i][w] \in D[i] /\ step[i][w] = more(w)
  <2>1. i - 1 \in 0..n /\ i \in 0..n
    OBVIOUS
  <2>2. w \in Seq(1..n)
    BY <2>1
  <2>3. more(w) \in Seq(1..n)
    <3>1. CASE w = << >> \/ next[Last(w)] = 0
      BY <2>2, <3>1
    <3>2. CASE ~(w = << >> \/ next[Last(w)] = 0)
      <4>1. Last(w) \in 1..n
        BY <2>2, <3>2, LenProperties, ElementOfSeq, EmptySeq DEF Last
      <4>2. next[Last(w)] \in 1..n
        BY <3>2, <4>1
      <4>3. QED
        BY <2>2, <3>2, <4>2, AppendProperties
    <3>3. QED
      BY <3>1, <3>2
  <2>4. QED
    BY <2>1, <2>2, <2>3
<1>4. \E q : Looped(n, c, step, D, q)
  <2> HIDE DEF c, step, D, more
  <2>1. Loops(n, c, step, D)
    BY <1>2, <1>3 DEF Loops
  <2>2. QED
    BY <2>1, LoopExists
<1>5. PICK q : /\ q[0] = c
               /\ \A i \in 1..n : q[i] = step[i][q[i - 1]]
               /\ \A i \in 0..n : q[i] \in D[i]
  BY <1>4 DEF Looped
<1> DEFINE r == [i \in 0..n |-> q[i]]
<1>6. r = [i \in 0..n |-> IF i = 0 THEN c ELSE more(r[i - 1])]
  <2>1. ASSUME NEW i \in 0..n PROVE q[i] = (IF i = 0 THEN c ELSE more(r[i - 1]))
    <3> HIDE DEF c, step, D, more
    <3>1. i # 0 => i \in 1..n /\ i - 1 \in 0..n /\ q[i - 1] \in D[i - 1]
      BY <1>5
    <3>2. i # 0 => r[i - 1] = q[i - 1]
      BY <3>1
    <3>3. QED
      BY <1>3, <1>5, <3>1, <3>2
  <2> HIDE DEF c, step, D, more
  <2>2. \A i \in 0..n : r[i] = (IF i = 0 THEN c ELSE more(r[i - 1]))
    BY <2>1
  <2>3. r = [i \in 0..n |-> r[i]]
    OBVIOUS
  <2> HIDE DEF r
  <2>4. QED
    BY <2>2, <2>3
<1> HIDE DEF r
<1>7. \E u : u = [k \in 0..n |->
                 IF k = 0 THEN IF h = 0 THEN << >> ELSE <<h>>
                 ELSE LET w == u[k - 1]
                      IN IF w = << >> \/ next[Last(w)] = 0 THEN w ELSE Append(w, next[Last(w)])]
  BY <1>6, Zenon
<1> DEFINE N == Cardinality(DOMAIN next)
           walk[k \in 0..N] ==
             IF k = 0 THEN IF h = 0 THEN << >> ELSE <<h>>
             ELSE LET w == walk[k - 1]
                  IN IF w = << >> \/ next[Last(w)] = 0 THEN w ELSE Append(w, next[Last(w)])
<1>8. N = n
  BY <1>1
<1>9. Chain(next, h) = walk[N]
  BY Zenon DEF Chain
<1>10. \E u : u = [k \in 0..N |->
                 IF k = 0 THEN IF h = 0 THEN << >> ELSE <<h>>
                 ELSE LET w == u[k - 1]
                      IN IF w = << >> \/ next[Last(w)] = 0 THEN w ELSE Append(w, next[Last(w)])]
  <2> HIDE DEF N
  <2>1. QED
    BY <1>7, <1>8, Zenon
<1>11. walk = [k \in 0..N |->
                 IF k = 0 THEN IF h = 0 THEN << >> ELSE <<h>>
                 ELSE LET w == walk[k - 1]
                      IN IF w = << >> \/ next[Last(w)] = 0 THEN w ELSE Append(w, next[Last(w)])]
  <2> HIDE DEF N
  <2>1. QED
    BY <1>10, Zenon
<1> HIDE DEF walk, N
<1>12. QED
  BY <1>8, <1>9, <1>11

\* Chain finds the slots of its list, each once.
LEMMA ChainIsList ==
  ASSUME NEW n \in Nat, NEW L, NEW next, NEW head, NEW own, NONE \notin L,
         Threaded(n, L, next, head, own), NEW l \in L
  PROVE  /\ Chain(next, head[l]) \in Seq(1..n)
         /\ \A j, k \in 1..Len(Chain(next, head[l])) :
              Chain(next, head[l])[j] = Chain(next, head[l])[k] => j = k
         /\ \A i \in 1..n : own[i] = l <=> \E j \in 1..Len(Chain(next, head[l])) : Chain(next, head[l])[j] = i
         /\ Len(Chain(next, head[l])) <= n
         /\ Chain(next, head[l]) # <<>> <=> head[l] # 0
<1>1. PICK rk : Linked(n, L, next, head, own, rk)
  BY DEF Threaded
<1> DEFINE h == head[l]
<1>2. DOMAIN next = 1..n /\ (\A j \in 1..n : next[j] \in 0..n) /\ h \in 0..n
  BY <1>1 DEF Linked
<1>3. \E walk :
    /\ walk = [k \in 0..n |->
                 IF k = 0 THEN IF h = 0 THEN << >> ELSE <<h>>
                 ELSE IF walk[k - 1] = << >> \/ next[Last(walk[k - 1])] = 0 THEN walk[k - 1]
                      ELSE Append(walk[k - 1], next[Last(walk[k - 1])])]
    /\ Chain(next, h) = walk[n]
  <2> HIDE DEF h
  <2>1. QED
    BY <1>2, ChainIs
<1>4. PICK walk :
    /\ walk = [k \in 0..n |->
                 IF k = 0 THEN IF h = 0 THEN << >> ELSE <<h>>
                 ELSE IF walk[k - 1] = << >> \/ next[Last(walk[k - 1])] = 0 THEN walk[k - 1]
                      ELSE Append(walk[k - 1], next[Last(walk[k - 1])])]
    /\ Chain(next, h) = walk[n]
  BY <1>3
<1> DEFINE Ended(s) == s = <<>> \/ next[Last(s)] = 0
           W(s) == Walked(n, next, own, rk, h, l, s)
           D == [k \in 0..n |-> {s \in Seq(1..n) : W(s) /\ (Ended(s) \/ Len(s) = k + 1)}]
<1>5. walk[0] \in D[0]
  <2>1. walk[0] = IF h = 0 THEN << >> ELSE <<h>>
    BY <1>4
  <2>2. CASE h = 0
    <3>1. walk[0] = << >> /\ Len(walk[0]) = 0 /\ walk[0] \in Seq(1..n)
      BY <2>1, <2>2, EmptySeq
    <3>2. W(walk[0])
      BY <2>2, <3>1 DEF Walked
    <3>3. QED
      BY <3>1, <3>2
  <2>3. CASE h # 0
    <3>1. h \in 1..n /\ own[h] = l
      BY <1>1, <1>2, <2>3 DEF Linked
    <3> HIDE DEF h
    <3>2. walk[0] = <<h>> /\ Len(walk[0]) = 1 /\ walk[0] \in Seq(1..n) /\ walk[0] # <<>> /\ walk[0][1] = h
      BY <2>1, <2>3, <3>1
    <3>3. W(walk[0])
      BY <2>3, <3>1, <3>2 DEF Walked
    <3>4. QED
      BY <3>2, <3>3
  <2>4. QED
    BY <2>2, <2>3
<1>6. ASSUME NEW k \in 1..n, walk[k - 1] \in D[k - 1] PROVE walk[k] \in D[k]
  <2> DEFINE s == walk[k - 1]
             e == next[Last(s)]
             m == Len(s)
  <2>1. walk[k] = IF Ended(s) THEN s ELSE Append(s, e)
    <3>1. k \in 0..n /\ k # 0
      OBVIOUS
    <3>2. walk[k] = IF walk[k - 1] = << >> \/ next[Last(walk[k - 1])] = 0 THEN walk[k - 1]
                    ELSE Append(walk[k - 1], next[Last(walk[k - 1])])
      BY <1>4, <3>1
    <3>3. QED
      BY <3>2
  <2>2. s \in Seq(1..n) /\ W(s) /\ (Ended(s) \/ m = k)
    BY <1>6
  <2>3. CASE Ended(s)
    <3> HIDE DEF s
    <3>1. QED
      BY <2>1, <2>2, <2>3
  <2>4. CASE ~Ended(s)
    <3> HIDE DEF s, h
    <3>1. m = k /\ m > 0 /\ Last(s) = s[m] /\ s[m] \in 1..n /\ own[s[m]] = l /\ s # <<>> /\ e # 0 /\ m \in 1..m
      BY <2>2, <2>4, LenProperties, ElementOfSeq DEF Last, Walked
    <3>2. e \in 1..n /\ own[e] = l /\ rk[s[m]] < rk[e]
      <4>1. own[s[m]] # NONE /\ next[s[m]] # 0
        BY <3>1
      <4>2. own[next[s[m]]] = own[s[m]] /\ rk[s[m]] < rk[next[s[m]]] /\ next[s[m]] \in 0..n
        BY <1>1, <3>1, <4>1 DEF Linked
      <4>3. QED
        BY <3>1, <4>2
    <3> DEFINE r == Append(s, e)
    <3>3. /\ r \in Seq(1..n) /\ Len(r) = m + 1 /\ r[m + 1] = e /\ r # <<>>
          /\ \A j \in 1..m : r[j] = s[j]
      BY <2>2, <3>1, <3>2, AppendProperties
    <3>4. m \in Nat
      BY <2>2, LenProperties
    <3> HIDE DEF r, e, m
    <3>5. W(r)
      <4>1. r # <<>> /\ h # 0 /\ r[1] = h
        BY <2>2, <3>1, <3>3, <3>4 DEF Walked
      <4>2. \A j \in 1..m + 1 : own[r[j]] = l
        <5>1. \A j \in 1..m : own[s[j]] = l
          BY <2>2 DEF Walked, m
        <5>2. \A j \in 1..m + 1 : j \in 1..m \/ j = m + 1
          BY <3>4
        <5>3. QED
          BY <3>2, <3>3, <5>1, <5>2
      <4>3. \A j \in 1..(m + 1) - 1 : next[r[j]] = r[j + 1]
        <5>1. ASSUME NEW j \in 1..m PROVE next[r[j]] = r[j + 1]
          <6>1. CASE j = m
            BY <3>1, <3>3, <6>1 DEF e
          <6>2. CASE j # m
            <7>1. j \in 1..m - 1 /\ j \in 1..m /\ j + 1 \in 1..m
              BY <3>4, <6>2
            <7>2. next[s[j]] = s[j + 1]
              BY <2>2, <7>1 DEF Walked, m
            <7>3. QED
              BY <3>3, <7>1, <7>2
          <6>3. QED
            BY <6>1, <6>2
        <5>2. (m + 1) - 1 = m
          BY <3>4
        <5>3. QED
          BY <5>1, <5>2
      <4>4. ASSUME NEW i \in 1..m + 1, NEW j \in 1..m + 1, i < j PROVE rk[r[i]] < rk[r[j]]
        <5>1. \A a, b \in 1..m : a < b => rk[s[a]] < rk[s[b]]
          BY <2>2 DEF Walked, m
        <5>2. i \in 1..m
          BY <3>4, <4>4
        <5>3. CASE j = m + 1
          <6>1. rk[s[i]] < rk[s[m]] \/ i = m
            BY <3>4, <5>1, <5>2
          <6>2. rk[s[i]] \in Nat /\ rk[s[m]] \in Nat /\ rk[e] \in Nat
            <7>1. s[i] \in 1..n
              BY <2>2, <5>2, ElementOfSeq DEF m
            <7>2. QED
              BY <1>1, <3>1, <3>2, <7>1 DEF Linked
          <6>3. r[i] = s[i] /\ r[j] = e
            BY <3>3, <5>2, <5>3
          <6>4. QED
            BY <3>2, <6>1, <6>2, <6>3
        <5>4. CASE j # m + 1
          BY <3>3, <3>4, <4>4, <5>1, <5>2, <5>4
        <5>5. QED
          BY <5>3, <5>4
      <4>5. QED
        BY <3>3, <4>1, <4>2, <4>3, <4>4 DEF Walked
    <3>6. Len(r) = k + 1
      BY <3>1, <3>3
    <3>7. walk[k] = r
      BY <2>1, <2>4 DEF r
    <3>8. QED
      BY <3>3, <3>5, <3>6, <3>7
  <2>5. QED
    BY <2>3, <2>4
<1>7. walk[n] \in D[n]
  <2> HIDE DEF D
  <2>1. QED
    BY <1>5, <1>6, LoopEnds
<1> DEFINE s == Chain(next, h)
           m == Len(s)
<1>8. s \in Seq(1..n) /\ W(s) /\ (Ended(s) \/ m = n + 1)
  <2>1. n \in 0..n /\ s = walk[n]
    BY <1>4
  <2>2. D[n] = {q \in Seq(1..n) : W(q) /\ (Ended(q) \/ Len(q) = n + 1)}
    BY <2>1
  <2> HIDE DEF D, W, Ended, s
  <2>3. QED
    BY <1>7, <2>1, <2>2
<1> HIDE DEF D, s
<1>9. m \in Nat /\ \A j \in 1..m : s[j] \in 1..n
  BY <1>8, LenProperties, ElementOfSeq
<1>10. \A j, k \in 1..m : s[j] = s[k] => j = k
  <2>1. \A j, k \in 1..m : j < k => rk[s[j]] < rk[s[k]]
    BY <1>8 DEF Walked
  <2>2. \A j \in 1..m : rk[s[j]] \in Nat
    BY <1>1, <1>9 DEF Linked
  <2>3. ASSUME NEW j \in 1..m, NEW k \in 1..m, s[j] = s[k] PROVE j = k
    <3>1. ~(j < k) /\ ~(k < j)
      BY <2>1, <2>2, <2>3
    <3>2. QED
      BY <3>1
  <2>4. QED
    BY <2>3
<1>11. m <= n
  <2> DEFINE f == [j \in 1..m |-> s[j]]
  <2>1. f \in Injection(1..m, 1..n)
    BY <1>9, <1>10 DEF Injection, IsInjective
  <2>2. Cardinality(1..m) <= Cardinality(1..n)
    <3> HIDE DEF f
    <3>1. IsFiniteSet(1..n)
      BY FS_Interval
    <3>2. QED
      BY <2>1, <3>1, FS_Injection
  <2>3. Cardinality(1..m) = m /\ Cardinality(1..n) = n
    <3> HIDE DEF m
    <3>1. QED
      BY <1>9, FS_Interval
  <2>4. QED
    BY <2>2, <2>3
<1>12. Ended(s)
  BY <1>8, <1>9, <1>11
<1>13. ASSUME NEW j \in 1..m PROVE own[s[j]] = l
  BY <1>8 DEF Walked
<1>14. ASSUME NEW i \in 1..n, own[i] = l PROVE \E j \in 1..m : s[j] = i
  <2> DEFINE Missed == {k \in 1..n : own[k] = l /\ ~\E j \in 1..m : s[j] = k}
             T == {rk[k] : k \in Missed}
  <2> SUFFICES ASSUME Missed # {} PROVE FALSE
    BY <1>14
  <2>1. T \in SUBSET Nat /\ T # {}
    <3>1. \A k \in Missed : rk[k] \in Nat
      BY <1>1 DEF Linked
    <3> HIDE DEF Missed
    <3>2. QED
      BY <3>1
  <2>2. PICK a \in T : \A b \in T : a <= b
    BY <2>1, Least
  <2>3. PICK k \in Missed : a = rk[k]
    BY <2>2
  <2>4. k \in 1..n /\ own[k] = l /\ l # NONE /\ ~\E j \in 1..m : s[j] = k
    BY <2>3
  <2>5. k # h
    <3>1. ASSUME k = h PROVE FALSE
      <4>1. h # 0
        BY <2>4, <3>1
      <4>2. s # <<>> /\ s[1] = h
        BY <1>8, <4>1 DEF Walked
      <4>3. 1 \in 1..m
        BY <1>8, <1>9, <4>2, LenProperties
      <4>4. QED
        BY <2>4, <3>1, <4>2, <4>3
    <3>2. QED
      BY <3>1
  <2>6. PICK p \in 1..n : own[p] = l /\ next[p] = k
    BY <1>1, <2>4, <2>5 DEF Linked
  <2>7. rk[p] < rk[k] /\ rk[p] \in Nat /\ rk[k] \in Nat
    <3>1. next[p] # 0 /\ own[p] # NONE
      BY <2>4, <2>6
    <3>2. QED
      BY <1>1, <2>4, <2>6, <3>1 DEF Linked
  <2>8. p \notin Missed
    <3>1. ASSUME p \in Missed PROVE FALSE
      <4>1. a <= rk[p]
        BY <2>2, <3>1
      <4>2. QED
        BY <2>3, <2>7, <4>1
    <3>2. QED
      BY <3>1
  <2>9. PICK j \in 1..m : s[j] = p
    BY <2>6, <2>8
  <2>10. j # m
    <3>1. s # <<>> /\ Last(s) = s[m]
      BY <1>8, <1>9, <2>9, LenProperties, EmptySeq DEF Last
    <3>2. j = m => next[s[m]] = 0
      BY <1>12, <3>1
    <3>3. QED
      BY <2>4, <2>6, <2>9, <3>2
  <2>11. j \in 1..m - 1 /\ j + 1 \in 1..m
    BY <1>9, <2>10
  <2>12. s[j + 1] = k
    BY <1>8, <2>6, <2>9, <2>11 DEF Walked
  <2>13. QED
    BY <2>4, <2>11, <2>12
<1>15. s # <<>> <=> h # 0
  BY <1>8 DEF Walked
<1>16. QED
  BY <1>8, <1>10, <1>11, <1>13, <1>14, <1>15 DEF s

-----------------------------------------------------------------------------
(***************************************************************************)
(* Tables with n slots and m chains: own[i] is the list that slot i is on. *)
(***************************************************************************)
Entry == [key : Words, value : Words]
Ids(m) == {FREE, REHASH} \union 0..m - 1
Subtypes == {"normal", "valid", "must-rehash"}

Tables(n, m) ==
  [kv : [1..n -> Entry], index : [0..m - 1 -> 0..n], next : [1..n -> 0..n], length : {m},
   free : 0..n, rehash : 0..n, count : Int, subtype : Subtypes]

Heads(m, x) ==
  [l \in Ids(m) |-> IF l = FREE THEN x.free ELSE IF l = REHASH THEN x.rehash ELSE x.index[l]]

Owned(n, m, x, own) ==
  /\ x \in Tables(n, m)
  /\ Threaded(n, Ids(m), x.next, Heads(m, x), own)

\* The lists are the free list, the rehash list and the chains.
LEMMA IdsAre ==
  ASSUME NEW m \in Nat
  PROVE  /\ NONE \notin Ids(m) /\ FREE \in Ids(m) /\ REHASH \in Ids(m) /\ FREE # REHASH
         /\ FREE # NONE /\ REHASH # NONE
         /\ \A b \in 0..m - 1 : b \in Ids(m) /\ b # FREE /\ b # REHASH /\ b # NONE
         /\ \A b \in Ids(m) : b = FREE \/ b = REHASH \/ b \in 0..m - 1
  BY DEF Ids, FREE, REHASH, NONE

\* The heads are given by the table's fields.
LEMMA HeadsIs ==
  ASSUME NEW m \in Nat, NEW x, NEW h, h = [l \in Ids(m) |-> h[l]], h[FREE] = x.free, h[REHASH] = x.rehash,
         \A b \in 0..m - 1 : h[b] = x.index[b]
  PROVE  Heads(m, x) = h
<1>1. ASSUME NEW l \in Ids(m)
      PROVE  h[l] = IF l = FREE THEN x.free ELSE IF l = REHASH THEN x.rehash ELSE x.index[l]
  BY IdsAre
<1>2. QED
  BY <1>1 DEF Heads

\* What the head of each list is.
LEMMA HeadsAre ==
  ASSUME NEW m \in Nat, NEW x
  PROVE  /\ Heads(m, x) = [l \in Ids(m) |-> Heads(m, x)[l]]
         /\ Heads(m, x)[FREE] = x.free /\ Heads(m, x)[REHASH] = x.rehash
         /\ \A b \in 0..m - 1 : Heads(m, x)[b] = x.index[b]
<1>1. Heads(m, x) = [l \in Ids(m) |-> Heads(m, x)[l]]
  BY DEF Heads
<1>2. QED
  BY <1>1, IdsAre DEF Heads

\* y has another head than x for list l.
HeadMoves(m, x, y, l, i) ==
  /\ y.free = (IF l = FREE THEN i ELSE x.free) /\ y.rehash = (IF l = REHASH THEN i ELSE x.rehash)
  /\ \A b \in 0..m - 1 : y.index[b] = IF b = l THEN i ELSE x.index[b]

\* One head changes when its field does.
LEMMA HeadChanged ==
  ASSUME NEW m \in Nat, NEW x, NEW y, NEW l \in Ids(m), NEW i, HeadMoves(m, x, y, l, i)
  PROVE  Heads(m, y) = Replaced(Heads(m, x), l, i)
<1> DEFINE h == Heads(m, x)
           g == [h EXCEPT ![l] = i]
<1>1. /\ h = [k \in Ids(m) |-> h[k]] /\ h[FREE] = x.free /\ h[REHASH] = x.rehash
      /\ \A b \in 0..m - 1 : h[b] = x.index[b]
  BY HeadsAre
<1> HIDE DEF h
<1>2. g = [k \in Ids(m) |-> g[k]] /\ \A k \in Ids(m) : g[k] = IF k = l THEN i ELSE h[k]
  <2>1. DOMAIN h = Ids(m)
    BY <1>1
  <2>2. g = [k \in Ids(m) |-> IF k = l THEN i ELSE h[k]]
    BY <2>1
  <2> HIDE DEF g
  <2>3. QED
    BY <2>2
<1> HIDE DEF g
<1>3. g[FREE] = y.free /\ g[REHASH] = y.rehash /\ \A b \in 0..m - 1 : g[b] = y.index[b]
  BY <1>1, <1>2, IdsAre DEF HeadMoves
<1>4. Heads(m, y) = g
  BY <1>2, <1>3, HeadsIs
<1>5. QED
  BY <1>4 DEF g, h, Replaced

On(own, i, b) == own[i] = b

SameEntries(x, y) ==
  /\ y.kv = x.kv /\ y.count = x.count /\ y.subtype = x.subtype /\ y.free = x.free
  /\ y.rehash = x.rehash /\ y.length = x.length

\* Push puts a slot of no list on a chain.
LEMMA PushIs ==
  ASSUME NEW n \in Nat, NEW m \in Nat, NEW x, NEW own, Owned(n, m, x, own),
         NEW i \in 1..n, own[i] = NONE, NEW b \in 0..m - 1
  PROVE  /\ Owned(n, m, Push(x, i, b), [own EXCEPT ![i] = b])
         /\ SameEntries(x, Push(x, i, b))
<1> DEFINE y == Push(x, i, b)
           h == Heads(m, x)
<1>1. x \in Tables(n, m) /\ Threaded(n, Ids(m), x.next, h, own)
  BY DEF Owned
<1>2. /\ y.kv = x.kv /\ y.count = x.count /\ y.subtype = x.subtype /\ y.free = x.free
      /\ y.rehash = x.rehash /\ y.length = x.length
      /\ y.next = [x.next EXCEPT ![i] = x.index[b]] /\ y.index = [x.index EXCEPT ![b] = i]
  BY <1>1 DEF Push, Tables
<1>3. y \in Tables(n, m)
  <2>1. x.index[b] \in 0..n /\ i \in 0..n
    BY <1>1 DEF Tables
  <2>2. [x.next EXCEPT ![i] = x.index[b]] \in [1..n -> 0..n] /\ [x.index EXCEPT ![b] = i] \in [0..m - 1 -> 0..n]
    BY <1>1, <2>1 DEF Tables
  <2>3. y = [x EXCEPT !.next = [x.next EXCEPT ![i] = x.index[b]], !.index = [x.index EXCEPT ![b] = i]]
    BY <1>1 DEF Push, Tables
  <2>4. QED
    BY <1>1, <2>2, <2>3 DEF Tables
<1>4. b \in Ids(m) /\ b # FREE /\ b # REHASH /\ NONE \notin Ids(m)
  BY IdsAre
<1>5. h[b] = x.index[b]
  BY HeadsAre
<1>6. Heads(m, y) = [h EXCEPT ![b] = i]
  <2>1. \A c \in 0..m - 1 : y.index[c] = IF c = b THEN i ELSE x.index[c]
    BY <1>1, <1>2 DEF Tables
  <2> HIDE DEF y
  <2>2. HeadMoves(m, x, y, b, i)
    BY <1>2, <1>4, <2>1 DEF HeadMoves
  <2>3. Heads(m, y) = Replaced(Heads(m, x), b, i)
    BY <1>4, <2>2, HeadChanged
  <2>4. QED
    BY <2>3 DEF Replaced
<1>7. Threaded(n, Ids(m), [x.next EXCEPT ![i] = h[b]], [h EXCEPT ![b] = i], [own EXCEPT ![i] = b])
  <2> HIDE DEF h
  <2>1. QED
    BY <1>1, <1>4, Pushed
<1> HIDE DEF y, h
<1>8. Owned(n, m, y, [own EXCEPT ![i] = b])
  BY <1>2, <1>3, <1>5, <1>6, <1>7 DEF Owned
<1>9. QED
  BY <1>2, <1>8 DEF y, SameEntries

\* free_hash_entry and clrhash put a slot on the free list.
LEMMA PushFree ==
  ASSUME NEW n \in Nat, NEW m \in Nat, NEW x, NEW own, Owned(n, m, x, own),
         NEW i \in 1..n, own[i] = NONE
  PROVE  Owned(n, m, [x EXCEPT !.next[i] = x.free, !.free = i], [own EXCEPT ![i] = FREE])
<1> DEFINE y == [x EXCEPT !.next[i] = x.free, !.free = i]
           h == Heads(m, x)
<1>1. x \in Tables(n, m) /\ Threaded(n, Ids(m), x.next, h, own)
  BY DEF Owned
<1>2. /\ y.rehash = x.rehash /\ y.free = i /\ y.index = x.index
      /\ y.next = [x.next EXCEPT ![i] = x.free]
  BY <1>1 DEF Tables
<1>3. y \in Tables(n, m)
  <2>1. x.free \in 0..n /\ i \in 0..n
    BY <1>1 DEF Tables
  <2>2. [x.next EXCEPT ![i] = x.free] \in [1..n -> 0..n]
    BY <1>1, <2>1 DEF Tables
  <2>3. y = [x EXCEPT !.next = [x.next EXCEPT ![i] = x.free], !.free = i]
    BY <1>1 DEF Tables
  <2>4. QED
    BY <1>1, <2>1, <2>2, <2>3 DEF Tables
<1>4. FREE \in Ids(m) /\ REHASH # FREE /\ NONE \notin Ids(m)
  BY IdsAre
<1>5. h[FREE] = x.free
  BY HeadsAre
<1>6. Heads(m, y) = [h EXCEPT ![FREE] = i]
  <2>1. \A b \in 0..m - 1 : b # FREE
    BY IdsAre
  <2> HIDE DEF y
  <2>2. HeadMoves(m, x, y, FREE, i)
    BY <1>2, <1>4, <2>1 DEF HeadMoves
  <2>3. Heads(m, y) = Replaced(Heads(m, x), FREE, i)
    BY <1>4, <2>2, HeadChanged
  <2>4. QED
    BY <2>3 DEF Replaced
<1>7. Threaded(n, Ids(m), [x.next EXCEPT ![i] = h[FREE]], [h EXCEPT ![FREE] = i], [own EXCEPT ![i] = FREE])
  <2> HIDE DEF h
  <2>1. QED
    BY <1>1, <1>4, Pushed
<1> HIDE DEF y, h
<1>8. Owned(n, m, y, [own EXCEPT ![i] = FREE])
  BY <1>2, <1>3, <1>5, <1>6, <1>7 DEF Owned
<1>9. QED
  BY <1>8 DEF y

\* record_for_rehashing puts a slot on the rehash list.
LEMMA PushRehash ==
  ASSUME NEW n \in Nat, NEW m \in Nat, NEW x, NEW own, Owned(n, m, x, own),
         NEW i \in 1..n, own[i] = NONE
  PROVE  Owned(n, m, [x EXCEPT !.next[i] = x.rehash, !.rehash = i], [own EXCEPT ![i] = REHASH])
<1> DEFINE y == [x EXCEPT !.next[i] = x.rehash, !.rehash = i]
           h == Heads(m, x)
<1>1. x \in Tables(n, m) /\ Threaded(n, Ids(m), x.next, h, own)
  BY DEF Owned
<1>2. /\ y.rehash = i /\ y.free = x.free /\ y.index = x.index
      /\ y.next = [x.next EXCEPT ![i] = x.rehash]
  BY <1>1 DEF Tables
<1>3. y \in Tables(n, m)
  <2>1. x.rehash \in 0..n /\ i \in 0..n
    BY <1>1 DEF Tables
  <2>2. [x.next EXCEPT ![i] = x.rehash] \in [1..n -> 0..n]
    BY <1>1, <2>1 DEF Tables
  <2>3. y = [x EXCEPT !.next = [x.next EXCEPT ![i] = x.rehash], !.rehash = i]
    BY <1>1 DEF Tables
  <2>4. QED
    BY <1>1, <2>1, <2>2, <2>3 DEF Tables
<1>4. REHASH \in Ids(m) /\ FREE # REHASH /\ NONE \notin Ids(m)
  BY IdsAre
<1>5. h[REHASH] = x.rehash
  BY HeadsAre
<1>6. Heads(m, y) = [h EXCEPT ![REHASH] = i]
  <2>1. \A b \in 0..m - 1 : b # REHASH
    BY IdsAre
  <2> HIDE DEF y
  <2>2. HeadMoves(m, x, y, REHASH, i)
    BY <1>2, <1>4, <2>1 DEF HeadMoves
  <2>3. Heads(m, y) = Replaced(Heads(m, x), REHASH, i)
    BY <1>4, <2>2, HeadChanged
  <2>4. QED
    BY <2>3 DEF Replaced
<1>7. Threaded(n, Ids(m), [x.next EXCEPT ![i] = h[REHASH]], [h EXCEPT ![REHASH] = i],
               [own EXCEPT ![i] = REHASH])
  <2> HIDE DEF h
  <2>1. QED
    BY <1>1, <1>4, Pushed
<1> HIDE DEF y, h
<1>8. Owned(n, m, y, [own EXCEPT ![i] = REHASH])
  BY <1>2, <1>3, <1>5, <1>6, <1>7 DEF Owned
<1>9. QED
  BY <1>8 DEF y

\* puthash takes the first slot of the free list.
LEMMA PopFree ==
  ASSUME NEW n \in Nat, NEW m \in Nat, NEW x, NEW own, Owned(n, m, x, own), x.free # 0
  PROVE  /\ x.free \in 1..n /\ own[x.free] = FREE
         /\ Owned(n, m, [x EXCEPT !.free = x.next[x.free]], [own EXCEPT ![x.free] = NONE])
<1> DEFINE i == x.free
           y == [x EXCEPT !.free = x.next[i]]
           h == Heads(m, x)
<1>1. x \in Tables(n, m) /\ Threaded(n, Ids(m), x.next, h, own)
  BY DEF Owned
<1>2. /\ y.rehash = x.rehash /\ y.free = x.next[i] /\ y.index = x.index /\ y.next = x.next
  BY <1>1 DEF Tables
<1>3. i \in 1..n
  BY <1>1 DEF Tables
<1>4. y \in Tables(n, m)
  <2>1. x.next[i] \in 0..n
    BY <1>1, <1>3 DEF Tables
  <2>2. QED
    BY <1>1, <2>1 DEF Tables
<1>5. FREE \in Ids(m) /\ REHASH # FREE /\ NONE \notin Ids(m)
  BY IdsAre
<1>6. h[FREE] = i
  BY HeadsAre
<1>7. Heads(m, y) = [h EXCEPT ![FREE] = x.next[i]]
  <2>1. \A b \in 0..m - 1 : b # FREE
    BY IdsAre
  <2> HIDE DEF y
  <2>2. HeadMoves(m, x, y, FREE, x.next[i])
    BY <1>2, <1>5, <2>1 DEF HeadMoves
  <2>3. Heads(m, y) = Replaced(Heads(m, x), FREE, x.next[i])
    BY <1>5, <2>2, HeadChanged
  <2>4. QED
    BY <2>3 DEF Replaced
<1>8. own[i] = FREE
  <2> HIDE DEF h, i
  <2>1. h[FREE] # 0
    BY <1>3, <1>6
  <2>2. \A l \in Ids(m) : h[l] # 0 => own[h[l]] = l
    BY <1>1 DEF Threaded, Linked
  <2>3. QED
    BY <1>5, <1>6, <2>1, <2>2
<1>9. Threaded(n, Ids(m), x.next, [h EXCEPT ![FREE] = x.next[i]], [own EXCEPT ![i] = NONE])
  <2> HIDE DEF h, i
  <2>1. QED
    BY <1>1, <1>3, <1>5, <1>6, HeadRemoved
<1>10. Owned(n, m, y, [own EXCEPT ![i] = NONE])
  <2> HIDE DEF y, h, i
  <2>1. QED
    BY <1>2, <1>4, <1>7, <1>9 DEF Owned
<1>11. QED
  BY <1>3, <1>8, <1>10

\* A slot is on a chain when own says so, and the head of its list is not 0.
LEMMA OnList ==
  ASSUME NEW n \in Nat, NEW m \in Nat, NEW x, NEW own, Owned(n, m, x, own)
  PROVE  /\ \A b \in 0..m - 1, i \in 1..n : OnChain(x, b, i) <=> own[i] = b
         /\ \A i \in 1..n : own[i] = FREE => x.free # 0
         /\ \A i \in 1..n : own[i] = REHASH => x.rehash # 0
         /\ \A b \in 0..m - 1, i \in 1..n : own[i] = b => x.index[b] # 0
<1> DEFINE h == Heads(m, x)
<1>1. x \in Tables(n, m) /\ Threaded(n, Ids(m), x.next, h, own)
  BY DEF Owned
<1>2. NONE \notin Ids(m) /\ FREE \in Ids(m) /\ REHASH \in Ids(m) /\ h[FREE] = x.free /\ h[REHASH] = x.rehash
  BY IdsAre DEF Heads
<1>3. ASSUME NEW b \in 0..m - 1 PROVE b \in Ids(m) /\ h[b] = x.index[b]
  BY IdsAre DEF Heads
<1> HIDE DEF h
<1>4. ASSUME NEW l \in Ids(m), NEW i \in 1..n, own[i] = l PROVE h[l] # 0
  <2>1. Chain(x.next, h[l]) # <<>>
    <3> DEFINE L == Ids(m)
    <3>0. Threaded(n, L, x.next, h, own) /\ NONE \notin L /\ l \in L
      BY <1>1, <1>2, <1>4
    <3> HIDE DEF L
    <3>1. \E j \in 1..Len(Chain(x.next, h[l])) : Chain(x.next, h[l])[j] = i
      <4>1. \A k \in 1..n : own[k] = l <=> \E j \in 1..Len(Chain(x.next, h[l])) : Chain(x.next, h[l])[j] = k
        BY <3>0, ChainIsList, SMTT(30)
      <4>2. QED
        BY <1>4, <4>1
    <3>2. Len(Chain(x.next, h[l])) # 0
      BY <3>1
    <3> DEFINE q == Chain(x.next, h[l])
    <3>3. Len(q) # 0
      BY <3>2
    <3> HIDE DEF q
    <3>4. q # <<>>
      BY <3>3
    <3>5. QED
      BY <3>4 DEF q
  <2>2. QED
    BY <1>1, <1>2, <2>1, ChainIsList
<1>5. ASSUME NEW b \in 0..m - 1, NEW i \in 1..n PROVE OnChain(x, b, i) <=> own[i] = b
  <2> DEFINE L == Ids(m)
  <2>1. Threaded(n, L, x.next, h, own) /\ NONE \notin L /\ b \in L /\ h[b] = x.index[b]
    BY <1>1, <1>2, <1>3
  <2> HIDE DEF L
  <2>2. own[i] = b <=> \E j \in 1..Len(Chain(x.next, h[b])) : Chain(x.next, h[b])[j] = i
    <3>1. \A k \in 1..n : own[k] = b <=> \E j \in 1..Len(Chain(x.next, h[b])) : Chain(x.next, h[b])[j] = k
      <4>1. Threaded(n, L, x.next, h, own) /\ NONE \notin L /\ b \in L
        BY <2>1
      <4>2. QED
        BY <4>1, ChainIsList, SMTT(30)
    <3>2. QED
      BY <3>1
  <2> DEFINE q == Chain(x.next, h[b])
  <2>3. OnChain(x, b, i) <=> \E j \in 1..Len(q) : q[j] = i
    BY <2>1 DEF OnChain
  <2>4. QED
    BY <2>2, <2>3
<1>6. QED
  BY <1>2, <1>3, <1>4, <1>5

\* Unlink takes a slot off its chain, at its head or behind it.
LEMMA UnlinkIs ==
  ASSUME NEW n \in Nat, NEW m \in Nat, NEW x, NEW own, Owned(n, m, x, own),
         NEW b \in 0..m - 1, NEW i \in 1..n, On(own, i, b)
  PROVE  /\ Owned(n, m, Unlink(x, b, i), [own EXCEPT ![i] = NONE])
         /\ SameEntries(x, Unlink(x, b, i))
<1> USE DEF On
<1> DEFINE y == Unlink(x, b, i)
           h == Heads(m, x)
<1>1. x \in Tables(n, m) /\ Threaded(n, Ids(m), x.next, h, own)
  BY DEF Owned
<1>2. b \in Ids(m) /\ b # FREE /\ b # REHASH /\ b # NONE /\ NONE \notin Ids(m)
  BY IdsAre
<1>3. h[b] = x.index[b]
  BY HeadsAre
<1>4. x.next[i] \in 0..n
  BY <1>1 DEF Tables
<1>5. CASE x.index[b] = i
  <2>1. y = [x EXCEPT !.index[b] = x.next[i]]
    BY <1>5 DEF Unlink
  <2>2. /\ y.kv = x.kv /\ y.count = x.count /\ y.subtype = x.subtype /\ y.free = x.free
        /\ y.rehash = x.rehash /\ y.length = x.length
        /\ y.next = x.next /\ y.index = [x.index EXCEPT ![b] = x.next[i]]
    BY <1>1, <2>1 DEF Tables
  <2>3. y \in Tables(n, m)
    <3>1. [x.index EXCEPT ![b] = x.next[i]] \in [0..m - 1 -> 0..n]
      BY <1>1, <1>4 DEF Tables
    <3>2. y = [x EXCEPT !.index = [x.index EXCEPT ![b] = x.next[i]]]
      BY <1>1, <2>1 DEF Tables
    <3>3. QED
      BY <1>1, <3>1, <3>2 DEF Tables
  <2>4. Heads(m, y) = [h EXCEPT ![b] = x.next[i]]
    <3>1. \A c \in 0..m - 1 : y.index[c] = IF c = b THEN x.next[i] ELSE x.index[c]
      BY <1>1, <2>2 DEF Tables
    <3> HIDE DEF y
    <3>2. HeadMoves(m, x, y, b, x.next[i])
      BY <1>2, <2>2, <3>1 DEF HeadMoves
    <3>3. Heads(m, y) = Replaced(Heads(m, x), b, x.next[i])
      BY <1>2, <3>2, HeadChanged
    <3>4. QED
      BY <3>3 DEF Replaced
  <2>5. Threaded(n, Ids(m), x.next, [h EXCEPT ![b] = x.next[i]], [own EXCEPT ![i] = NONE])
    <3> HIDE DEF h
    <3>1. QED
      BY <1>1, <1>2, <1>3, <1>5, HeadRemoved
  <2> HIDE DEF y, h
  <2>6. Owned(n, m, y, [own EXCEPT ![i] = NONE])
    BY <2>2, <2>3, <2>4, <2>5 DEF Owned
  <2>7. QED
    BY <2>2, <2>6 DEF y, SameEntries
<1>6. CASE x.index[b] # i
  <2>1. \E j \in 1..n : own[j] = b /\ x.next[j] = i
    <3> HIDE DEF h
    <3>1. QED
      BY <1>1, <1>2, <1>3, <1>6 DEF Threaded, Linked
  <2> DEFINE j == CHOOSE j \in Slots(x) : OnChain(x, b, j) /\ x.next[j] = i
  <2>2. Slots(x) = 1..n
    BY <1>1 DEF Slots, Tables
  <2>3. j \in 1..n /\ own[j] = b /\ x.next[j] = i
    <3>1. \A k \in 1..n : OnChain(x, b, k) <=> own[k] = b
      BY OnList
    <3>2. \E k \in Slots(x) : OnChain(x, b, k) /\ x.next[k] = i
      BY <2>1, <2>2, <3>1
    <3>3. j \in Slots(x) /\ OnChain(x, b, j) /\ x.next[j] = i
      BY <3>2
    <3> HIDE DEF j
    <3>4. QED
      BY <2>2, <3>1, <3>3
  <2> HIDE DEF j
  <2>4. y = [x EXCEPT !.next[j] = x.next[i]]
    BY <1>6 DEF Unlink, j
  <2>5. /\ y.kv = x.kv /\ y.count = x.count /\ y.subtype = x.subtype /\ y.free = x.free
        /\ y.rehash = x.rehash /\ y.length = x.length
        /\ y.next = [x.next EXCEPT ![j] = x.next[i]] /\ y.index = x.index
    BY <1>1, <2>4 DEF Tables
  <2>6. y \in Tables(n, m)
    <3>1. [x.next EXCEPT ![j] = x.next[i]] \in [1..n -> 0..n]
      BY <1>1, <1>4, <2>3 DEF Tables
    <3>2. y = [x EXCEPT !.next = [x.next EXCEPT ![j] = x.next[i]]]
      BY <1>1, <2>4 DEF Tables
    <3>3. QED
      BY <1>1, <3>1, <3>2 DEF Tables
  <2>7. Heads(m, y) = h
    BY <2>5 DEF Heads
  <2>8. Threaded(n, Ids(m), [x.next EXCEPT ![j] = x.next[i]], h, [own EXCEPT ![i] = NONE])
    <3> HIDE DEF h
    <3>1. QED
      BY <1>1, <1>2, <2>3, InnerRemoved
  <2> HIDE DEF y, h
  <2>9. Owned(n, m, y, [own EXCEPT ![i] = NONE])
    BY <2>5, <2>6, <2>7, <2>8 DEF Owned
  <2>10. QED
    BY <2>5, <2>9 DEF y, SameEntries
<1>7. QED
  BY <1>5, <1>6

SameLists(x, y) == y.next = x.next /\ y.index = x.index /\ y.free = x.free /\ y.rehash = x.rehash

\* Only next and the heads say which lists the slots are on.
LEMMA ListsAre ==
  ASSUME NEW n \in Nat, NEW m \in Nat, NEW x, NEW own, Owned(n, m, x, own),
         NEW y \in Tables(n, m), SameLists(x, y)
  PROVE  Owned(n, m, y, own)
<1>1. Heads(m, y) = Heads(m, x)
  BY DEF Heads, SameLists
<1>2. QED
  BY <1>1 DEF Owned, SameLists

\* The words that are written into slots.
LEMMA WordsAre ==
  /\ \A o \in Object \union {Imm, Empty, Lost} : Word(o) \in Words
  /\ EmptySlot \in Entry /\ IsFree(EmptySlot)
  /\ EmptySlot.key = Word(Empty) /\ EmptySlot.value = Word(Empty)
  BY DEF Word, Words, EmptySlot, Entry, IsFree

\* The table has n slots and m chains, each slot is on the list own says, and the
\* free ones are those of the free list.
FullOf(n, x) == {i \in 1..n : ~IsFree(x.kv[i])}

Whole(n, m, x, own) ==
  /\ Owned(n, m, x, own)
  /\ \A i \in 1..n : own[i] # NONE /\ (own[i] = FREE <=> IsFree(x.kv[i]))
  /\ x.count = Cardinality(FullOf(n, x))

\* own gives each slot a list.
LEMMA OwnIs ==
  ASSUME NEW n, NEW m, NEW x, NEW own, Owned(n, m, x, own)
  PROVE  own \in [1..n -> Ids(m) \union {NONE}]
  BY DEF Owned, Threaded, Linked

\* The full slots can be counted.
LEMMA FullIsFinite ==
  ASSUME NEW n \in Nat, NEW x
  PROVE  /\ IsFiniteSet(FullOf(n, x)) /\ Cardinality(FullOf(n, x)) \in 0..n
<1>1. IsFiniteSet(1..n) /\ Cardinality(1..n) = n
  BY FS_Interval
<1>2. FullOf(n, x) \subseteq 1..n
  BY DEF FullOf
<1>3. IsFiniteSet(FullOf(n, x)) /\ Cardinality(FullOf(n, x)) <= n
  BY <1>1, <1>2, FS_Subset
<1>4. QED
  BY <1>3, FS_CardinalityType

\* The emptied slot joins the free list, and the count goes down.
LEMMA ReleaseIs ==
  ASSUME NEW n \in Nat, NEW m \in Nat, NEW x, NEW own, Owned(n, m, x, own),
         NEW i \in 1..n, own[i] = NONE
  PROVE  /\ Owned(n, m, Release(x, i), [own EXCEPT ![i] = FREE])
         /\ Release(x, i).kv = [x.kv EXCEPT ![i] = EmptySlot] /\ Release(x, i).count = x.count - 1
         /\ Release(x, i).subtype = x.subtype /\ Release(x, i).length = x.length
         /\ Release(x, i).rehash = x.rehash /\ Release(x, i).index = x.index
<1> DEFINE z == [x EXCEPT !.next[i] = x.free, !.free = i]
           y == Release(x, i)
<1>1. Owned(n, m, z, [own EXCEPT ![i] = FREE])
  BY PushFree
<1>2. x \in Tables(n, m) /\ z \in Tables(n, m)
  BY <1>1 DEF Owned
<1>3. /\ y.kv = [x.kv EXCEPT ![i] = EmptySlot] /\ y.count = x.count - 1
      /\ y.subtype = x.subtype /\ y.length = x.length /\ y.rehash = x.rehash /\ y.index = x.index
      /\ SameLists(z, y)
  BY <1>2 DEF Tables, Release, SameLists
<1>4. y \in Tables(n, m)
  <2>1. [x.kv EXCEPT ![i] = EmptySlot] \in [1..n -> Entry] /\ x.count - 1 \in Int
    BY <1>2, WordsAre DEF Tables
  <2>2. y = [z EXCEPT !.kv = [x.kv EXCEPT ![i] = EmptySlot], !.count = x.count - 1]
    BY <1>2 DEF Tables, Release
  <2> HIDE DEF y, z
  <2>3. QED
    BY <1>2, <2>1, <2>2 DEF Tables
<1> HIDE DEF y, z
<1>5. Owned(n, m, y, [own EXCEPT ![i] = FREE])
  BY <1>1, <1>3, <1>4, ListsAre
<1>6. QED
  BY <1>3, <1>5 DEF y

\* Slot i is taken off its chain.
Freed(n, m, x, i, own, y, own2) ==
  /\ Whole(n, m, y, own2) /\ own2 = [own EXCEPT ![i] = FREE]
  /\ y.kv = [x.kv EXCEPT ![i] = EmptySlot] /\ y.subtype = x.subtype /\ y.length = x.length

LEMMA FreedIs ==
  ASSUME NEW n \in Nat, NEW m \in Nat, NEW x, NEW own, Whole(n, m, x, own),
         NEW b \in 0..m - 1, NEW i \in 1..n, On(own, i, b)
  PROVE  \E own2 : Freed(n, m, x, i, own, Release(Unlink(x, b, i), i), own2)
<1> DEFINE u == Unlink(x, b, i)
           y == Release(u, i)
           none == [own EXCEPT ![i] = NONE]
           own2 == [own EXCEPT ![i] = FREE]
<1>1. Owned(n, m, x, own) /\ own \in [1..n -> Ids(m) \union {NONE}] /\ x \in Tables(n, m)
  BY OwnIs DEF Whole, Owned
<1>2. Owned(n, m, u, none) /\ SameEntries(x, u)
  BY <1>1, UnlinkIs
<1>3. none[i] = NONE /\ [none EXCEPT ![i] = FREE] = own2
  BY <1>1
<1> HIDE DEF u, none, own2
<1>4. /\ Owned(n, m, y, own2) /\ y.kv = [x.kv EXCEPT ![i] = EmptySlot]
      /\ y.count = x.count - 1 /\ y.subtype = x.subtype /\ y.length = x.length
  BY <1>2, <1>3, ReleaseIs DEF SameEntries
<1> HIDE DEF y
<1>5. /\ y.kv[i] = EmptySlot /\ \A j \in 1..n : j # i => y.kv[j] = x.kv[j]
      /\ own2[i] = FREE /\ \A j \in 1..n : j # i => own2[j] = own[j]
  BY <1>1, <1>4 DEF Tables, own2
<1>6. i \in FullOf(n, x) /\ FullOf(n, y) = FullOf(n, x) \ {i}
  <2>1. ~IsFree(x.kv[i])
    BY IdsAre DEF Whole, On
  <2>2. QED
    BY <1>5, <2>1, WordsAre DEF FullOf
<1>7. y.count = Cardinality(FullOf(n, y))
  BY <1>4, <1>6, FullIsFinite, FS_RemoveElement DEF Whole
<1>8. \A j \in 1..n : own2[j] # NONE /\ (own2[j] = FREE <=> IsFree(y.kv[j]))
  BY <1>5, WordsAre, IdsAre DEF Whole
<1>9. Whole(n, m, y, own2)
  BY <1>4, <1>7, <1>8 DEF Whole
<1>10. QED
  BY <1>4, <1>9 DEF y, u, own2, Freed

\* Slot i goes from its chain to the list of those to be rehashed.
Recorded(n, m, x, i, own, y, own2) ==
  /\ Whole(n, m, y, own2) /\ own2[i] = REHASH /\ \A j \in 1..n : j # i => own2[j] = own[j]
  /\ y.kv = x.kv /\ y.subtype = x.subtype /\ y.length = x.length

LEMMA RecordedIs ==
  ASSUME NEW n \in Nat, NEW m \in Nat, NEW x, NEW own, Whole(n, m, x, own),
         NEW b \in 0..m - 1, NEW i \in 1..n
  PROVE  /\ ~On(own, i, b) => record_for_rehashing(x, b, i) = x
         /\ On(own, i, b) => \E own2 : Recorded(n, m, x, i, own, record_for_rehashing(x, b, i), own2)
<1>1. Owned(n, m, x, own) /\ own \in [1..n -> Ids(m) \union {NONE}] /\ x \in Tables(n, m)
  BY OwnIs DEF Whole, Owned
<1>2. CASE own[i] # b
  <2>1. record_for_rehashing(x, b, i) = x
    BY <1>1, <1>2, OnList DEF record_for_rehashing
  <2>2. QED
    BY <1>2, <2>1 DEF On
<1>3. CASE own[i] = b
  <2> DEFINE u == Unlink(x, b, i)
             y == [u EXCEPT !.next[i] = u.rehash, !.rehash = i]
             none == [own EXCEPT ![i] = NONE]
             own2 == [own EXCEPT ![i] = REHASH]
  <2>0. On(own, i, b)
    BY <1>3 DEF On
  <2>1. Owned(n, m, u, none) /\ SameEntries(x, u)
    BY <1>1, <2>0, UnlinkIs
  <2>2. record_for_rehashing(x, b, i) = y
    <3>1. OnChain(x, b, i)
      BY <1>1, <1>3, OnList
    <3>2. QED
      BY <2>1, <3>1 DEF record_for_rehashing, SameEntries
  <2>3. none[i] = NONE /\ [none EXCEPT ![i] = REHASH] = own2
    BY <1>1
  <2> HIDE DEF u, none, own2
  <2>4. Owned(n, m, y, own2)
    BY <2>1, <2>3, PushRehash
  <2>5. y.kv = x.kv /\ y.count = x.count /\ y.subtype = x.subtype /\ y.length = x.length
    <3>1. u \in Tables(n, m)
      BY <2>1 DEF Owned
    <3>2. QED
      BY <2>1, <3>1 DEF Tables, SameEntries
  <2> HIDE DEF y
  <2>6. own2[i] = REHASH /\ \A j \in 1..n : j # i => own2[j] = own[j]
    BY <1>1 DEF own2
  <2>7. FullOf(n, y) = FullOf(n, x)
    BY <2>5 DEF FullOf
  <2>8. \A j \in 1..n : own2[j] # NONE /\ (own2[j] = FREE <=> IsFree(y.kv[j]))
    BY <1>3, <2>5, <2>6, IdsAre DEF Whole
  <2>9. Whole(n, m, y, own2)
    BY <2>4, <2>5, <2>7, <2>8 DEF Whole
  <2>10. QED
    BY <1>3, <2>2, <2>5, <2>6, <2>9 DEF On, Recorded
<1>4. QED
  BY <1>2, <1>3

\* The hash value of any object gives a chain.
LEMMA HashIs ==
  ASSUME NEW o, NEW at, o \in Object => at[o] \in Nat, NEW m \in Nat \ {0}
  PROVE  Hash(o, at) % m \in 0..m - 1
<1>1. Hash(o, at) \in Nat
  BY DEF Hash
<1> HIDE DEF Hash
<1>2. QED
  BY <1>1

\* The slots of s, counted from the last one, have been put on their lists.
Rehashing(n, m, x, y, s, own) ==
  /\ Owned(n, m, y, own) /\ y.kv = x.kv /\ y.count = x.count /\ y.rehash = 0
  /\ y.subtype \in {"normal", "valid"}
  /\ \A i \in 1..n : own[i] = IF n + 1 - i \notin s THEN NONE ELSE IF IsFree(x.kv[i]) THEN FREE
                              ELSE Hash(x.kv[i].key.o, place) % m
  /\ \A i \in 1..n : n + 1 - i \in s /\ ~IsFree(x.kv[i]) => y.subtype = "valid"

RehashStep(y, i) ==
  IF IsFree(y.kv[i]) THEN [y EXCEPT !.next[i] = y.free, !.free = i]
  ELSE [Push(y, i, Hash(y.kv[i].key.o, place) % y.length) EXCEPT !.subtype = "valid"]

\* rehash puts one more slot on the chain of its key, or on the free list.
LEMMA RehashStepIs ==
  ASSUME NEW n \in Nat, NEW m \in Nat \ {0}, NEW x, place \in [Object -> Addresses],
         NEW s \in Places(n), NEW k \in s, NEW y, NEW own, Rehashing(n, m, x, y, s \ {k}, own)
  PROVE  \E own2 : Rehashing(n, m, x, RehashStep(y, n + 1 - k), s, own2)
<1> DEFINE i == n + 1 - k
           b == Hash(x.kv[i].key.o, place) % m
           l == IF IsFree(x.kv[i]) THEN FREE ELSE b
           own2 == [own EXCEPT ![i] = l]
           z == RehashStep(y, i)
<1>1. i \in 1..n /\ n + 1 - i = k /\ k \in 1..n /\ \A j \in 1..n : n + 1 - j = k => j = i
  BY DEF Places
<1>2. /\ Owned(n, m, y, own) /\ y.kv = x.kv /\ y.count = x.count /\ y.rehash = 0
      /\ y.subtype \in {"normal", "valid"} /\ y \in Tables(n, m) /\ y.length = m
      /\ own \in [1..n -> Ids(m) \union {NONE}]
  BY OwnIs DEF Rehashing, Owned, Tables
<1>3. own[i] = NONE
  BY <1>1 DEF Rehashing
<1>4. b \in 0..m - 1
  <2> DEFINE o == x.kv[i].key.o
  <2>1. o \in Object => place[o] \in Nat
    BY TableAssumption
  <2> HIDE DEF o
  <2>2. Hash(o, place) % m \in 0..m - 1
    BY <2>1, HashIs
  <2>3. QED
    BY <2>2 DEF o
<1> HIDE DEF b
<1>5. /\ Owned(n, m, z, own2) /\ z.kv = x.kv /\ z.count = x.count /\ z.rehash = 0
      /\ z.subtype = IF IsFree(x.kv[i]) THEN y.subtype ELSE "valid"
  <2> HIDE DEF i
  <2>1. CASE IsFree(x.kv[i])
    <3>1. z = [y EXCEPT !.next[i] = y.free, !.free = i] /\ l = FREE
      BY <1>2, <2>1 DEF RehashStep
    <3>2. Owned(n, m, [y EXCEPT !.next[i] = y.free, !.free = i], [own EXCEPT ![i] = FREE])
      BY <1>1, <1>2, <1>3, PushFree
    <3>3. z.kv = y.kv /\ z.count = y.count /\ z.rehash = y.rehash /\ z.subtype = y.subtype
      BY <1>2, <3>1 DEF Tables
    <3>4. QED
      BY <1>2, <2>1, <3>1, <3>2, <3>3
  <2>2. CASE ~IsFree(x.kv[i])
    <3> DEFINE p == Push(y, i, b)
    <3>1. z = [p EXCEPT !.subtype = "valid"] /\ l = b
      BY <1>2, <2>2 DEF RehashStep, b
    <3>2. Owned(n, m, p, [own EXCEPT ![i] = b]) /\ SameEntries(y, p)
      BY <1>1, <1>2, <1>3, <1>4, PushIs
    <3>3. p \in Tables(n, m)
      BY <3>2 DEF Owned
    <3> HIDE DEF p, z, l
    <3>4. z \in Tables(n, m) /\ SameLists(p, z) /\ z.kv = p.kv /\ z.count = p.count
          /\ z.rehash = p.rehash /\ z.subtype = "valid"
      BY <3>1, <3>3 DEF Tables, SameLists, Subtypes
    <3>5. Owned(n, m, z, [own EXCEPT ![i] = b])
      BY <3>2, <3>4, ListsAre
    <3>6. QED
      BY <1>2, <2>2, <3>1, <3>2, <3>4, <3>5 DEF SameEntries
  <2>3. QED
    BY <2>1, <2>2
<1> HIDE DEF z, l
<1>6. own2[i] = l /\ \A j \in 1..n : j # i => own2[j] = own[j]
  BY <1>1, <1>2
<1> HIDE DEF own2
<1>7. \A j \in 1..n : own2[j] = IF n + 1 - j \notin s THEN NONE ELSE IF IsFree(x.kv[j]) THEN FREE
                                ELSE Hash(x.kv[j].key.o, place) % m
  <2>1. TAKE j \in 1..n
  <2>2. CASE j = i
    <3>1. n + 1 - j \in s
      BY <1>1, <2>2
    <3> HIDE DEF i
    <3>2. QED
      BY <1>6, <2>2, <3>1 DEF l, b
  <2>3. CASE j # i
    <3>1. n + 1 - j \in s <=> n + 1 - j \in s \ {k}
      BY <1>1, <2>3
    <3>2. own2[j] = own[j]
      BY <1>6, <2>3
    <3>3. own[j] = IF n + 1 - j \notin s \ {k} THEN NONE ELSE IF IsFree(x.kv[j]) THEN FREE
                   ELSE Hash(x.kv[j].key.o, place) % m
      BY DEF Rehashing
    <3>4. QED
      BY <3>1, <3>2, <3>3
  <2>4. QED
    BY <2>2, <2>3
<1>8. ASSUME NEW j \in 1..n, n + 1 - j \in s, ~IsFree(x.kv[j]) PROVE z.subtype = "valid"
  <2>1. CASE j = i
    BY <1>5, <1>8, <2>1
  <2>2. CASE j # i
    <3>1. n + 1 - j \in s \ {k}
      BY <1>1, <1>8, <2>2
    <3>2. y.subtype = "valid"
      BY <1>8, <3>1 DEF Rehashing
    <3>3. QED
      BY <1>5, <3>2
  <2>3. QED
    BY <2>1, <2>2
<1>9. z.subtype \in {"normal", "valid"}
  BY <1>2, <1>5
<1>10. Rehashing(n, m, x, z, s, own2)
  BY <1>5, <1>7, <1>8, <1>9 DEF Rehashing
<1>11. QED
  BY <1>10 DEF z

Cleared(x) ==
  [x EXCEPT !.free = 0, !.rehash = 0, !.subtype = "normal",
            !.index = [b \in Buckets(x) |-> 0], !.next = [i \in Slots(x) |-> 0]]

\* A table whose heads are all 0 has no slot on a list.
LEMMA ClearedIs ==
  ASSUME NEW n \in Nat, NEW m \in Nat \ {0}, NEW x \in Tables(n, m)
  PROVE  \E own : Rehashing(n, m, x, Cleared(x), {}, own)
<1> DEFINE y == Cleared(x)
           own == [i \in 1..n |-> NONE]
           rk == [i \in 1..n |-> 0]
           h == [l \in Ids(m) |-> 0]
<1>1. Slots(x) = 1..n /\ Buckets(x) = 0..m - 1
  BY DEF Slots, Buckets, Tables
<1>2. /\ y.kv = x.kv /\ y.count = x.count /\ y.rehash = 0 /\ y.subtype = "normal" /\ y.free = 0
      /\ y.next = [i \in 1..n |-> 0] /\ y.index = [b \in 0..m - 1 |-> 0]
  BY <1>1 DEF Tables, Cleared
<1>3. y \in Tables(n, m)
  <2>1. [b \in 0..m - 1 |-> 0] \in [0..m - 1 -> 0..n] /\ [i \in 1..n |-> 0] \in [1..n -> 0..n] /\ 0 \in 0..n
    OBVIOUS
  <2>2. y = [x EXCEPT !.free = 0, !.rehash = 0, !.subtype = "normal",
                      !.index = [b \in 0..m - 1 |-> 0], !.next = [i \in 1..n |-> 0]]
    BY <1>1 DEF Cleared
  <2> HIDE DEF y
  <2>3. QED
    BY <2>1, <2>2 DEF Tables, Subtypes
<1>4. Heads(m, y) = h
  <2> HIDE DEF y
  <2>1. h = [l \in Ids(m) |-> h[l]] /\ h[FREE] = y.free /\ h[REHASH] = y.rehash
    BY <1>2, IdsAre
  <2>2. \A b \in 0..m - 1 : h[b] = y.index[b]
    BY <1>2, IdsAre
  <2> HIDE DEF h
  <2>3. QED
    BY <2>1, <2>2, HeadsIs
<1>5. Linked(n, Ids(m), y.next, h, own, rk)
  <2> HIDE DEF y
  <2>1. QED
    BY <1>2 DEF Linked
<1> HIDE DEF y
<1>6. Owned(n, m, y, own)
  BY <1>3, <1>4, <1>5 DEF Owned, Threaded
<1>7. Rehashing(n, m, x, y, {}, own)
  BY <1>2, <1>6 DEF Rehashing
<1>8. QED
  BY <1>7 DEF y

Rehashed(n, m, x, y, own) ==
  /\ Whole(n, m, y, own) /\ y.kv = x.kv /\ y.rehash = 0 /\ y.subtype \in {"normal", "valid"}
  /\ \A i \in FullOf(n, x) : own[i] = Hash(x.kv[i].key.o, place) % m /\ y.subtype = "valid"

\* rehash puts each slot on the chain of its key's address, or on the free list.
LEMMA RehashAllIs ==
  ASSUME NEW n \in Nat, NEW m \in Nat \ {0}, NEW x \in Tables(n, m), place \in [Object -> Addresses],
         x.count = Cardinality(FullOf(n, x))
  PROVE  \E own : Rehashed(n, m, x, RehashAll(x), own)
<1>1. Slots(x) = 1..n /\ Cardinality(Slots(x)) = n
  BY FS_Interval DEF Slots, Tables
<1> DEFINE c == Cleared(x)
           step == [s \in Places(n) |-> [y \in Tables(n, m) |-> RehashStep(y, n + 1 - Max(s))]]
           D == [s \in SUBSET (1..n) |-> {y \in Tables(n, m) : \E own : Rehashing(n, m, x, y, s, own)}]
<1>2. c \in D[{}]
  <2>1. PICK own : Rehashing(n, m, x, c, {}, own)
    BY ClearedIs
  <2>2. c \in Tables(n, m)
    BY <2>1 DEF Rehashing, Owned
  <2> HIDE DEF c
  <2>3. QED
    BY <2>1, <2>2
<1>3. ASSUME NEW s \in Places(n), NEW y \in D[s \ {Max(s)}]
      PROVE  RehashStep(y, n + 1 - Max(s)) \in D[s] /\ step[s][y] = RehashStep(y, n + 1 - Max(s))
  <2>1. Max(s) \in s
    BY MaxIs DEF Places
  <2>2. s \in SUBSET (1..n) /\ s \ {Max(s)} \in SUBSET (1..n)
    BY DEF Places
  <2>3. y \in Tables(n, m) /\ \E own : Rehashing(n, m, x, y, s \ {Max(s)}, own)
    BY <2>2
  <2>4. PICK own : Rehashing(n, m, x, y, s \ {Max(s)}, own)
    BY <2>3
  <2>5. PICK own2 : Rehashing(n, m, x, RehashStep(y, n + 1 - Max(s)), s, own2)
    BY <2>1, <2>4, RehashStepIs
  <2>6. RehashStep(y, n + 1 - Max(s)) \in Tables(n, m)
    BY <2>5 DEF Rehashing, Owned
  <2>7. QED
    BY <2>2, <2>3, <2>5, <2>6
<1>4. \E r : Folded(n, c, step, D, r)
  <2> HIDE DEF c, step, D
  <2>1. Folds(n, c, step, D)
    BY <1>2, <1>3 DEF Folds
  <2>2. QED
    BY <2>1, FoldExists
<1>5. PICK r : Folded(n, c, step, D, r)
  BY <1>4
<1> DEFINE N == Cardinality(Slots(x))
           seq == [k \in 1..N |-> N + 1 - k]
           R == [s \in SUBSET (1..n) |-> r[s]]
<1>6. R = [s \in SUBSET (1..n) |-> IF s = {} THEN c ELSE RehashStep(R[s \ {Max(s)}], seq[Max(s)])]
  <2>1. ASSUME NEW s \in SUBSET (1..n)
        PROVE  r[s] = IF s = {} THEN c ELSE RehashStep(R[s \ {Max(s)}], seq[Max(s)])
    <3>1. CASE s = {}
      BY <1>5, <3>1 DEF Folded
    <3>2. CASE s # {}
      <4>1. s \in Places(n) /\ s \ {Max(s)} \in SUBSET (1..n) /\ Max(s) \in 1..n
        BY <3>2, MaxIs DEF Places
      <4>2. r[s \ {Max(s)}] \in D[s \ {Max(s)}] /\ r[s] = step[s][r[s \ {Max(s)}]]
        BY <1>5, <4>1 DEF Folded
      <4>3. R[s \ {Max(s)}] = r[s \ {Max(s)}] /\ seq[Max(s)] = n + 1 - Max(s)
        BY <1>1, <4>1
      <4> HIDE DEF D, step, R, seq, c
      <4>4. QED
        BY <1>3, <3>2, <4>1, <4>2, <4>3
    <3>3. QED
      BY <3>1, <3>2
  <2> HIDE DEF c, seq
  <2>2. \A s \in SUBSET (1..n) : R[s] = IF s = {} THEN c ELSE RehashStep(R[s \ {Max(s)}], seq[Max(s)])
    BY <2>1
  <2>3. R = [s \in SUBSET (1..n) |-> R[s]]
    OBVIOUS
  <2> HIDE DEF R
  <2>4. QED
    BY <2>2, <2>3
<1> HIDE DEF R
<1> DEFINE iter[s \in SUBSET DOMAIN seq] ==
             IF s = {} THEN c ELSE LET k == Max(s) IN RehashStep(iter[s \ {k}], seq[k])
<1>7. DOMAIN seq = 1..n
  BY <1>1
<1>8. RehashAll(x) = iter[DOMAIN seq]
  BY Zenon DEF RehashAll, FoldLeft, MapThenFoldSet, RehashStep, Cleared
<1>9. iter = [s \in SUBSET DOMAIN seq |->
                IF s = {} THEN c ELSE LET k == Max(s) IN RehashStep(iter[s \ {k}], seq[k])]
  <2>1. \E q : q = [s \in SUBSET DOMAIN seq |->
                IF s = {} THEN c ELSE LET k == Max(s) IN RehashStep(q[s \ {k}], seq[k])]
    <3> HIDE DEF seq, c
    <3>1. QED
      BY <1>6, <1>7, Zenon
  <2> HIDE DEF seq, c
  <2>2. QED
    BY <2>1, Zenon
<1> HIDE DEF iter
<1>10. iter[{}] \in D[{}]
  BY <1>2, <1>7, <1>9
<1>11. ASSUME NEW s \in Places(n), iter[s \ {Max(s)}] \in D[s \ {Max(s)}]
       PROVE  iter[s] \in D[s]
  <2>1. s \in SUBSET DOMAIN seq /\ s # {} /\ Max(s) \in 1..n
    BY <1>7, MaxIs DEF Places
  <2>2. seq[Max(s)] = n + 1 - Max(s)
    BY <1>1, <2>1
  <2> HIDE DEF D, step, seq, c
  <2>3. iter[s] = RehashStep(iter[s \ {Max(s)}], seq[Max(s)])
    BY <1>9, <2>1
  <2>4. QED
    BY <1>3, <1>11, <2>2, <2>3
<1>12. iter[1..n] \in D[1..n]
  <2> HIDE DEF D
  <2>1. QED
    BY <1>10, <1>11, FoldEnds
<1>13. RehashAll(x) \in D[1..n]
  BY <1>7, <1>8, <1>12
<1> DEFINE y == RehashAll(x)
<1> HIDE DEF y
<1>14. PICK own : Rehashing(n, m, x, y, 1..n, own)
  BY <1>13 DEF y
<1>15. ASSUME NEW i \in 1..n
       PROVE  own[i] = IF IsFree(x.kv[i]) THEN FREE ELSE Hash(x.kv[i].key.o, place) % m
  <2>1. n + 1 - i \in 1..n
    OBVIOUS
  <2>2. QED
    BY <1>14, <2>1 DEF Rehashing
<1>16. ASSUME NEW i \in FullOf(n, x)
       PROVE  y.subtype = "valid" /\ Hash(x.kv[i].key.o, place) % m \in 0..m - 1 /\ i \in 1..n
  <2>1. n + 1 - i \in 1..n /\ i \in 1..n
    BY DEF FullOf
  <2>2. y.subtype = "valid"
    BY <1>14, <2>1 DEF Rehashing, FullOf
  <2> DEFINE o == x.kv[i].key.o
  <2>3. o \in Object => place[o] \in Nat
    BY TableAssumption
  <2> HIDE DEF o
  <2>4. Hash(o, place) % m \in 0..m - 1
    BY <2>3, HashIs
  <2>5. QED
    BY <2>1, <2>2, <2>4 DEF o
<1>17. \A i \in 1..n : own[i] # NONE /\ (own[i] = FREE <=> IsFree(y.kv[i]))
  <2>1. y.kv = x.kv
    BY <1>14 DEF Rehashing
  <2>2. ASSUME NEW i \in 1..n, ~IsFree(x.kv[i]) PROVE own[i] \in 0..m - 1
    BY <1>15, <1>16, <2>2 DEF FullOf
  <2>3. QED
    BY <1>15, <2>1, <2>2, IdsAre
<1>18. y.count = Cardinality(FullOf(n, y))
  BY <1>14 DEF Rehashing, FullOf
<1>19. \A i \in FullOf(n, x) : own[i] = Hash(x.kv[i].key.o, place) % m
  BY <1>15 DEF FullOf
<1>20. Rehashed(n, m, x, y, own)
  BY <1>14, <1>16, <1>17, <1>18, <1>19 DEF Rehashed, Whole, Rehashing
<1>21. QED
  BY <1>20 DEF y

\* The list of entries to be rehashed is ch; its places s have been put on their chains.
Forget(y) == [y EXCEPT !.rehash = 0]

Flushing(n, m, x, own0, ch, y, s, own) ==
  /\ y \in Tables(n, m) /\ SameEntries(x, y) /\ Owned(n, m, Forget(y), own)
  /\ \A i \in 1..n : own[i] = IF own0[i] # REHASH THEN own0[i]
                              ELSE IF \E k \in s : ch[k] = i THEN Hash(x.kv[i].key.o, place) % m ELSE NONE

ListOf(n, own, l, ch) ==
  /\ ch \in Seq(1..n) /\ Len(ch) <= n
  /\ \A j, k \in 1..Len(ch) : ch[j] = ch[k] => j = k
  /\ \A i \in 1..n : own[i] = l <=> \E j \in 1..Len(ch) : ch[j] = i

FlushStep(y, i) == Push(y, i, Hash(y.kv[i].key.o, place) % y.length)

\* The flush puts one more slot of the rehash list on the chain of its key.
LEMMA FlushStepIs ==
  ASSUME NEW n \in Nat, NEW m \in Nat \ {0}, NEW x, NEW own0, place \in [Object -> Addresses],
         NEW ch, ListOf(n, own0, REHASH, ch),
         NEW s \in SUBSET (1..Len(ch)), NEW k \in s, NEW y, NEW own,
         Flushing(n, m, x, own0, ch, y, s \ {k}, own)
  PROVE  \E own2 : Flushing(n, m, x, own0, ch, FlushStep(y, ch[k]), s, own2)
<1> DEFINE i == ch[k]
           b == Hash(x.kv[i].key.o, place) % m
           own2 == [own EXCEPT ![i] = b]
           z == FlushStep(y, i)
           f == Forget(y)
<1>1. /\ i \in 1..n /\ own0[i] = REHASH /\ \A j \in 1..Len(ch) : ch[j] = i => j = k
  <2>1. k \in 1..Len(ch)
    OBVIOUS
  <2>2. i \in 1..n
    BY <2>1, ElementOfSeq DEF ListOf
  <2>3. QED
    BY <2>1, <2>2 DEF ListOf
<1>2. /\ y \in Tables(n, m) /\ SameEntries(x, y) /\ Owned(n, m, f, own) /\ f \in Tables(n, m)
      /\ own \in [1..n -> Ids(m) \union {NONE}] /\ y.length = m /\ y.kv = x.kv
  BY OwnIs DEF Flushing, Owned, SameEntries, Tables
<1>3. b \in 0..m - 1
  <2> DEFINE o == x.kv[i].key.o
  <2>1. o \in Object => place[o] \in Nat
    BY TableAssumption
  <2> HIDE DEF o
  <2>2. Hash(o, place) % m \in 0..m - 1
    BY <2>1, HashIs
  <2>3. QED
    BY <2>2 DEF o
<1> HIDE DEF i
<1>4. own[i] = NONE
  <2>1. ~\E j \in s \ {k} : ch[j] = i
    BY <1>1
  <2>2. QED
    BY <1>1, <2>1 DEF Flushing
<1> HIDE DEF b
<1>5. z = Push(y, i, b)
  BY <1>2 DEF FlushStep, b
<1>6. /\ Forget(z) = Push(f, i, b)
      /\ z.kv = y.kv /\ z.count = y.count /\ z.subtype = y.subtype /\ z.free = y.free
      /\ z.rehash = y.rehash /\ z.length = y.length
      /\ z = [y EXCEPT !.next = [y.next EXCEPT ![i] = y.index[b]], !.index = [y.index EXCEPT ![b] = i]]
  BY <1>2, <1>5 DEF Push, Tables, Forget
<1>7. z \in Tables(n, m)
  <2>1. y.index[b] \in 0..n /\ i \in 0..n
    BY <1>1, <1>2, <1>3 DEF Tables
  <2>2. [y.next EXCEPT ![i] = y.index[b]] \in [1..n -> 0..n] /\ [y.index EXCEPT ![b] = i] \in [0..m - 1 -> 0..n]
    BY <1>2, <2>1 DEF Tables
  <2> HIDE DEF z
  <2>3. QED
    BY <1>2, <1>6, <2>2 DEF Tables
<1> HIDE DEF z, f
<1>8. Owned(n, m, Forget(z), own2)
  <2>1. Owned(n, m, Push(f, i, b), own2)
    BY <1>1, <1>2, <1>3, <1>4, PushIs
  <2>2. QED
    BY <1>6, <2>1
<1>9. own2[i] = b /\ \A j \in 1..n : j # i => own2[j] = own[j]
  BY <1>1, <1>2
<1> HIDE DEF own2
<1>10. ASSUME NEW j \in 1..n
       PROVE  own2[j] = IF own0[j] # REHASH THEN own0[j]
                        ELSE IF \E e \in s : ch[e] = j THEN Hash(x.kv[j].key.o, place) % m ELSE NONE
  <2>1. CASE j = i
    BY <1>1, <1>9, <2>1 DEF i, b
  <2>2. CASE j # i
    <3>1. (\E e \in s : ch[e] = j) <=> \E e \in s \ {k} : ch[e] = j
      BY <2>2 DEF i
    <3>2. own[j] = IF own0[j] # REHASH THEN own0[j]
                   ELSE IF \E e \in s \ {k} : ch[e] = j THEN Hash(x.kv[j].key.o, place) % m ELSE NONE
      BY DEF Flushing
    <3>3. QED
      BY <1>9, <2>2, <3>1, <3>2
  <2>3. QED
    BY <2>1, <2>2
<1>11. SameEntries(x, z)
  BY <1>2, <1>6 DEF SameEntries
<1>12. Flushing(n, m, x, own0, ch, z, s, own2)
  BY <1>7, <1>8, <1>10, <1>11 DEF Flushing
<1>13. QED
  BY <1>12 DEF z, i

\* The flush starts with the rehash list emptied.
LEMMA FlushStarts ==
  ASSUME NEW n \in Nat, NEW m \in Nat \ {0}, NEW x, NEW own0, Owned(n, m, x, own0), NEW ch
  PROVE  \E own : Flushing(n, m, x, own0, ch, x, {}, own)
<1> DEFINE own == Without(n, own0, REHASH)
           h == Heads(m, x)
           y == Forget(x)
<1>1. x \in Tables(n, m) /\ Threaded(n, Ids(m), x.next, h, own0)
  BY DEF Owned
<1>2. REHASH \in Ids(m) /\ NONE \notin Ids(m) /\ FREE # REHASH /\ \A b \in 0..m - 1 : b # REHASH
  BY IdsAre
<1>3. y \in Tables(n, m) /\ y.next = x.next /\ y.index = x.index /\ y.free = x.free /\ y.rehash = 0
  <2>1. 0 \in 0..n
    OBVIOUS
  <2>2. QED
    BY <1>1, <2>1 DEF Tables, Forget
<1> HIDE DEF y
<1>4. Heads(m, y) = Replaced(h, REHASH, 0)
  <2>1. HeadMoves(m, x, y, REHASH, 0)
    BY <1>2, <1>3 DEF HeadMoves
  <2>2. QED
    BY <1>2, <2>1, HeadChanged
<1> HIDE DEF h
<1>5. Threaded(n, Ids(m), x.next, Replaced(h, REHASH, 0), own)
  BY <1>1, <1>2, Dropped
<1>6. Owned(n, m, y, own)
  BY <1>3, <1>4, <1>5 DEF Owned
<1>7. Flushing(n, m, x, own0, ch, x, {}, own)
  BY <1>1, <1>6 DEF Flushing, SameEntries, y, Without
<1>8. QED
  BY <1>7

Flushed(n, m, x, own0, y, own) ==
  /\ Whole(n, m, y, own) /\ y.kv = x.kv /\ y.rehash = 0 /\ y.subtype = x.subtype
  /\ \A i \in 1..n : own[i] = IF own0[i] = REHASH THEN Hash(x.kv[i].key.o, place) % m ELSE own0[i]

\* The flush puts the slots of the rehash list on the chains of their keys.
LEMMA FlushIs ==
  ASSUME NEW n \in Nat, NEW m \in Nat \ {0}, NEW x, NEW own0, Whole(n, m, x, own0),
         place \in [Object -> Addresses]
  PROVE  \E own : Flushed(n, m, x, own0, FlushNeedingRehash(x), own)
<1> DEFINE seq == Chain(x.next, x.rehash)
           len == Len(seq)
<1>1. Owned(n, m, x, own0) /\ x \in Tables(n, m)
  BY DEF Whole, Owned
<1>2. ListOf(n, own0, REHASH, seq) /\ len \in Nat /\ DOMAIN seq = 1..len
  <2> DEFINE h == Heads(m, x)
  <2>1. Threaded(n, Ids(m), x.next, h, own0) /\ h[REHASH] = x.rehash /\ REHASH \in Ids(m) /\ NONE \notin Ids(m)
    BY <1>1, HeadsAre, IdsAre DEF Owned
  <2> HIDE DEF h
  <2>2. ListOf(n, own0, REHASH, seq)
    BY <2>1, ChainIsList DEF ListOf
  <2> HIDE DEF seq
  <2>3. QED
    BY <2>2, LenProperties DEF ListOf
<1> HIDE DEF seq
<1> DEFINE step == [s \in Places(len) |-> [y \in Tables(n, m) |-> FlushStep(y, seq[Max(s)])]]
           D == [s \in SUBSET (1..len) |->
                   {y \in Tables(n, m) : \E own : Flushing(n, m, x, own0, seq, y, s, own)}]
<1>3. x \in D[{}]
  BY <1>1, FlushStarts
<1>4. ASSUME NEW s \in Places(len), NEW y \in D[s \ {Max(s)}]
      PROVE  FlushStep(y, seq[Max(s)]) \in D[s] /\ step[s][y] = FlushStep(y, seq[Max(s)])
  <2> HIDE DEF len
  <2>1. Max(s) \in s
    BY <1>2, MaxIs DEF Places
  <2>2. s \in SUBSET (1..len) /\ s \ {Max(s)} \in SUBSET (1..len)
    BY DEF Places
  <2>3. y \in Tables(n, m) /\ \E own : Flushing(n, m, x, own0, seq, y, s \ {Max(s)}, own)
    BY <2>2
  <2>4. PICK own : Flushing(n, m, x, own0, seq, y, s \ {Max(s)}, own)
    BY <2>3
  <2>5. PICK own2 : Flushing(n, m, x, own0, seq, FlushStep(y, seq[Max(s)]), s, own2)
    BY <1>2, <2>1, <2>2, <2>4, FlushStepIs DEF len
  <2>6. FlushStep(y, seq[Max(s)]) \in Tables(n, m)
    BY <2>5 DEF Flushing
  <2>7. QED
    BY <2>2, <2>3, <2>5, <2>6
<1>5. \E r : Folded(len, x, step, D, r)
  <2> HIDE DEF len, step, D
  <2>1. Folds(len, x, step, D)
    BY <1>3, <1>4 DEF Folds
  <2>2. QED
    BY <1>2, <2>1, FoldExists
<1>6. PICK r : Folded(len, x, step, D, r)
  BY <1>5
<1> DEFINE R == [s \in SUBSET (1..len) |-> r[s]]
<1>7. R = [s \in SUBSET (1..len) |-> IF s = {} THEN x ELSE FlushStep(R[s \ {Max(s)}], seq[Max(s)])]
  <2> HIDE DEF len
  <2>1. ASSUME NEW s \in SUBSET (1..len)
        PROVE  r[s] = IF s = {} THEN x ELSE FlushStep(R[s \ {Max(s)}], seq[Max(s)])
    <3>1. CASE s = {}
      BY <1>6, <3>1 DEF Folded
    <3>2. CASE s # {}
      <4>1. s \in Places(len) /\ s \ {Max(s)} \in SUBSET (1..len)
        BY <3>2 DEF Places
      <4>2. r[s \ {Max(s)}] \in D[s \ {Max(s)}] /\ r[s] = step[s][r[s \ {Max(s)}]]
        BY <1>6, <4>1 DEF Folded
      <4>3. R[s \ {Max(s)}] = r[s \ {Max(s)}]
        BY <4>1
      <4> HIDE DEF D, step, R
      <4>4. QED
        BY <1>4, <3>2, <4>1, <4>2, <4>3
    <3>3. QED
      BY <3>1, <3>2
  <2>2. \A s \in SUBSET (1..len) : R[s] = IF s = {} THEN x ELSE FlushStep(R[s \ {Max(s)}], seq[Max(s)])
    BY <2>1
  <2>3. R = [s \in SUBSET (1..len) |-> R[s]]
    OBVIOUS
  <2> HIDE DEF R
  <2>4. QED
    BY <2>2, <2>3
<1> HIDE DEF R
<1> DEFINE iter[s \in SUBSET DOMAIN seq] ==
             IF s = {} THEN x ELSE LET k == Max(s) IN FlushStep(iter[s \ {k}], seq[k])
<1>8. FlushNeedingRehash(x) = [iter[DOMAIN seq] EXCEPT !.rehash = 0]
  BY Zenon DEF FlushNeedingRehash, FoldLeft, MapThenFoldSet, FlushStep, seq
<1>9. iter = [s \in SUBSET DOMAIN seq |->
                IF s = {} THEN x ELSE LET k == Max(s) IN FlushStep(iter[s \ {k}], seq[k])]
  <2>1. \E q : q = [s \in SUBSET DOMAIN seq |->
                IF s = {} THEN x ELSE LET k == Max(s) IN FlushStep(q[s \ {k}], seq[k])]
    <3> HIDE DEF len
    <3>1. QED
      BY <1>2, <1>7, Zenon
  <2>2. QED
    BY <2>1, Zenon
<1> HIDE DEF iter
<1>10. iter[{}] \in D[{}]
  BY <1>3, <1>9
<1>11. ASSUME NEW s \in Places(len), iter[s \ {Max(s)}] \in D[s \ {Max(s)}]
       PROVE  iter[s] \in D[s]
  <2> HIDE DEF len
  <2>1. s \in SUBSET DOMAIN seq /\ s # {}
    BY <1>2 DEF Places
  <2> HIDE DEF D, step
  <2>2. iter[s] = FlushStep(iter[s \ {Max(s)}], seq[Max(s)])
    BY <1>9, <2>1
  <2>3. QED
    BY <1>4, <1>11, <2>2
<1>12. iter[1..len] \in D[1..len]
  <2> HIDE DEF D, len
  <2>1. QED
    BY <1>2, <1>10, <1>11, FoldEnds
<1> DEFINE z == iter[1..len]
           y == FlushNeedingRehash(x)
<1>13. y = Forget(z)
  BY <1>2, <1>8 DEF Forget
<1>14. \E own : Flushing(n, m, x, own0, seq, z, 1..len, own)
  BY <1>12
<1> HIDE DEF y, z
<1>15. PICK own : Flushing(n, m, x, own0, seq, z, 1..len, own)
  BY <1>14
<1>16. y.kv = x.kv /\ y.count = x.count /\ y.rehash = 0 /\ y.subtype = x.subtype /\ Owned(n, m, y, own)
  BY <1>13, <1>15 DEF Flushing, SameEntries, Forget, Tables
<1>17. ASSUME NEW i \in 1..n
       PROVE  own[i] = IF own0[i] = REHASH THEN Hash(x.kv[i].key.o, place) % m ELSE own0[i]
  <2>1. own0[i] = REHASH => \E k \in 1..len : seq[k] = i
    BY <1>2 DEF ListOf
  <2>2. QED
    BY <1>15, <2>1 DEF Flushing
<1>18. ASSUME NEW i \in 1..n PROVE own[i] # NONE /\ (own[i] = FREE <=> IsFree(y.kv[i]))
  <2> DEFINE o == x.kv[i].key.o
  <2>1. o \in Object => place[o] \in Nat
    BY TableAssumption
  <2> HIDE DEF o
  <2>2. Hash(o, place) % m \in 0..m - 1
    BY <2>1, HashIs
  <2>3. Hash(x.kv[i].key.o, place) % m \in 0..m - 1
    BY <2>2 DEF o
  <2>4. own0[i] # NONE /\ (own0[i] = FREE <=> IsFree(y.kv[i]))
    BY <1>16 DEF Whole
  <2> DEFINE b == Hash(x.kv[i].key.o, place) % m
  <2>5. own[i] = IF own0[i] = REHASH THEN b ELSE own0[i]
    BY <1>17
  <2> HIDE DEF b
  <2>6. b # NONE /\ b # FREE /\ FREE # REHASH
    BY <2>3, IdsAre DEF b
  <2>7. QED
    BY <2>4, <2>5, <2>6
<1>19. y.count = Cardinality(FullOf(n, y))
  BY <1>16 DEF Whole, FullOf
<1>20. Flushed(n, m, x, own0, y, own)
  BY <1>16, <1>17, <1>18, <1>19 DEF Flushed, Whole
<1>21. QED
  BY <1>20 DEF y

\* A new table, and a cleared one, have all slots on the free list.
LEMMA MadeIs ==
  ASSUME NEW n \in Nat \ {0}, NEW m \in Nat \ {0}
  PROVE  \E own : /\ Whole(n, m, MakeTable(n, m), own)
                  /\ \A i \in 1..n : IsFree(MakeTable(n, m).kv[i])
                  /\ MakeTable(n, m).subtype = "normal"
                  /\ \A i \in 1..n : MakeTable(n, m).kv[i] = EmptySlot
<1> DEFINE y == MakeTable(n, m)
           own == [i \in 1..n |-> FREE]
           rk == [i \in 1..n |-> i]
           next == [i \in 1..n |-> IF i = n THEN 0 ELSE i + 1]
           h == [l \in Ids(m) |-> IF l = FREE THEN 1 ELSE 0]
<1>1. /\ y.kv = [i \in 1..n |-> EmptySlot] /\ y.index = [b \in 0..m - 1 |-> 0] /\ y.next = next
      /\ y.length = m /\ y.free = 1 /\ y.rehash = 0 /\ y.count = 0 /\ y.subtype = "normal"
  BY DEF MakeTable
<1>2. y \in Tables(n, m)
  <2>1. [i \in 1..n |-> EmptySlot] \in [1..n -> Entry] /\ [b \in 0..m - 1 |-> 0] \in [0..m - 1 -> 0..n]
    BY WordsAre
  <2>2. next \in [1..n -> 0..n] /\ 1 \in 0..n /\ 0 \in 0..n /\ 0 \in Int
    OBVIOUS
  <2>3. y = [kv |-> [i \in 1..n |-> EmptySlot], index |-> [b \in 0..m - 1 |-> 0], next |-> next,
             length |-> m, free |-> 1, rehash |-> 0, count |-> 0, subtype |-> "normal"]
    BY DEF MakeTable
  <2> HIDE DEF y, next
  <2>4. QED
    BY <2>1, <2>2, <2>3 DEF Tables, Subtypes
<1> HIDE DEF y
<1>3. Heads(m, y) = h
  <2>1. h = [l \in Ids(m) |-> h[l]] /\ h[FREE] = y.free /\ h[REHASH] = y.rehash
    BY <1>1, IdsAre
  <2>2. \A b \in 0..m - 1 : h[b] = y.index[b]
    BY <1>1, IdsAre
  <2> HIDE DEF h
  <2>3. QED
    BY <2>1, <2>2, HeadsIs
<1>4. Linked(n, Ids(m), next, h, own, rk)
  <2>1. next \in [1..n -> 0..n] /\ h \in [Ids(m) -> 0..n]
    OBVIOUS
  <2>2. own \in [1..n -> Ids(m) \union {NONE}] /\ rk \in [1..n -> Nat] /\ FREE # NONE
    BY IdsAre
  <2>3. \A l \in Ids(m) : h[l] # 0 => own[h[l]] = l
    OBVIOUS
  <2>4. \A i \in 1..n : own[i] # NONE /\ next[i] # 0 =>
          own[next[i]] = own[i] /\ rk[i] < rk[next[i]] /\ next[i] # h[own[i]]
    BY IdsAre
  <2>5. \A i, j \in 1..n : own[i] # NONE /\ own[j] # NONE /\ next[i] = next[j] /\ next[i] # 0 => i = j
    OBVIOUS
  <2>6. ASSUME NEW i \in 1..n PROVE i = h[own[i]] \/ \E j \in 1..n : own[j] = own[i] /\ next[j] = i
    <3>1. CASE i = 1
      BY <3>1, IdsAre
    <3>2. CASE i # 1
      <4>1. i - 1 \in 1..n /\ own[i - 1] = own[i] /\ next[i - 1] = i
        BY <3>2
      <4>2. QED
        BY <4>1
    <3>3. QED
      BY <3>1, <3>2
  <2> HIDE DEF next, h, own, rk
  <2>7. QED
    BY <2>1, <2>2, <2>3, <2>4, <2>5, <2>6 DEF Linked
<1>5. Owned(n, m, y, own)
  BY <1>1, <1>2, <1>3, <1>4 DEF Owned, Threaded
<1>6. \A i \in 1..n : y.kv[i] = EmptySlot /\ IsFree(y.kv[i])
  BY <1>1, WordsAre
<1>7. y.count = Cardinality(FullOf(n, y))
  <2>1. FullOf(n, y) = {}
    BY <1>6 DEF FullOf
  <2>2. QED
    BY <1>1, <2>1, FS_EmptySet
<1>8. Whole(n, m, y, own)
  BY <1>5, <1>6, <1>7, IdsAre DEF Whole
<1>9. QED
  BY <1>1, <1>6, <1>8 DEF y

-----------------------------------------------------------------------------
(***************************************************************************)
(* The invariant: lv are the live objects, at and to their addresses       *)
(* before and after the collection, from and moved what it moves and has   *)
(* moved.                                                                   *)
(***************************************************************************)
Addr(w, to, at) == IF w.up THEN Hash(w.o, to) ELSE Hash(w.o, at)
Old(w, from) == w.o \in from /\ ~w.up
Survives(w, from, moved) == Old(w, from) => w.o \in moved

Distinct(n, x) == \A i, j \in FullOf(n, x) : x.kv[i].key.o = x.kv[j].key.o => i = j
Alive(n, x, lv) == \A i \in FullOf(n, x) : x.kv[i].key.o \in lv /\ x.kv[i].value.o \in lv \union {Imm}
Forwarded(n, x, moved) ==
  \A i \in 1..n : (x.kv[i].key.up => x.kv[i].key.o \in moved) /\ (x.kv[i].value.up => x.kv[i].value.o \in moved)

Agrees(n, m, x, moved, own, from, to, at, lv) ==
  /\ Whole(n, m, x, own) /\ moved \subseteq from /\ Forwarded(n, x, moved)
  /\ x.subtype = "normal" => FullOf(n, x) = {}
  /\ Accessed =>
       /\ Distinct(n, x) /\ Alive(n, x, lv)
       /\ x.subtype = "valid" => \A i \in FullOf(n, x) : own[i] = Addr(x.kv[i].key, to, at) % m \/ own[i] = REHASH
       /\ x.subtype = "valid" => \A i \in 1..n : own[i] = REHASH =>
            ~Old(x.kv[i].key, from) /\ Survives(x.kv[i].value, from, moved)

\* What Lisp's operations look at: each entry is on the chain of its key.
Ready(n, m, x, own) ==
  /\ Whole(n, m, x, own) /\ Forwarded(n, x, {}) /\ x.subtype \in {"normal", "valid"}
  /\ \A i \in FullOf(n, x) : x.subtype = "valid" /\ (Accessed => own[i] = Hash(x.kv[i].key.o, place) % m)
  /\ Accessed => Distinct(n, x) /\ Alive(n, x, live)

\* What Whole says of the table's fields.
LEMMA WholeIs ==
  ASSUME NEW n, NEW m, NEW x, NEW own, Whole(n, m, x, own)
  PROVE  /\ Owned(n, m, x, own) /\ x \in Tables(n, m) /\ own \in [1..n -> Ids(m) \union {NONE}]
         /\ \A i \in 1..n : x.kv[i] \in Entry
         /\ x.length = m /\ Slots(x) = 1..n /\ DOMAIN x.kv = 1..n
         /\ \A i \in FullOf(n, x) : i \in 1..n
  BY OwnIs DEF Whole, Owned, Tables, Slots, FullOf

\* What Lisp leaves is what the next collection starts from.
LEMMA ReadyAgrees ==
  ASSUME NEW n, NEW m \in Nat \ {0}, NEW x, NEW own, Ready(n, m, x, own), NEW to
  PROVE  Agrees(n, m, x, {}, own, {}, to, place, live)
<1>1. \A i \in FullOf(n, x) : i \in 1..n
  BY DEF FullOf
<1>2. \A i \in FullOf(n, x) : Addr(x.kv[i].key, to, place) = Hash(x.kv[i].key.o, place)
  BY <1>1 DEF Ready, Forwarded, Addr
<1>3. Accessed => \A i \in FullOf(n, x) : own[i] = Addr(x.kv[i].key, to, place) % m
  BY <1>2 DEF Ready
<1>4. x.subtype = "normal" => FullOf(n, x) = {}
  BY DEF Ready
<1>5. Whole(n, m, x, own) /\ Forwarded(n, x, {}) /\ (Accessed => Distinct(n, x) /\ Alive(n, x, live))
  BY DEF Ready
<1>6. \A i \in 1..n : ~Old(x.kv[i].key, {}) /\ Survives(x.kv[i].value, {}, {})
  BY DEF Old, Survives
<1>7. QED
  BY <1>3, <1>4, <1>5, <1>6 DEF Agrees

\* Prepare and Rehash keep the entries.
LEMMA SameKv ==
  ASSUME NEW n, NEW x, NEW y, y.kv = x.kv, NEW lv
  PROVE  /\ FullOf(n, y) = FullOf(n, x) /\ (Distinct(n, x) => Distinct(n, y))
         /\ (Alive(n, x, lv) => Alive(n, y, lv)) /\ (Forwarded(n, x, {}) => Forwarded(n, y, {}))
<1>1. FullOf(n, y) = FullOf(n, x)
  BY DEF FullOf
<1>2. QED
  BY <1>1 DEF Distinct, Alive, Forwarded

SoftRehashed(n, m, x, y, own) ==
  /\ Whole(n, m, y, own) /\ y.kv = x.kv /\ y.subtype \in {"normal", "valid"}
  /\ \A i \in FullOf(n, x) : y.subtype = "valid" /\ (Accessed => own[i] = Hash(x.kv[i].key.o, place) % m)

LEMMA RehashedReady ==
  ASSUME NEW n, NEW m, NEW x, NEW y, NEW own, SoftRehashed(n, m, x, y, own), Forwarded(n, x, {}),
         Accessed => Distinct(n, x) /\ Alive(n, x, live)
  PROVE  Ready(n, m, y, own)
<1>1. y.kv = x.kv
  BY DEF SoftRehashed
<1>2. /\ FullOf(n, y) = FullOf(n, x) /\ (Distinct(n, x) => Distinct(n, y))
      /\ (Alive(n, x, live) => Alive(n, y, live)) /\ Forwarded(n, y, {})
  BY <1>1, SameKv
<1>3. QED
  BY <1>1, <1>2 DEF Ready, SoftRehashed

\* Whatever a collection left, the rehash or the flush makes the table ready.
LEMMA PrepareIs ==
  ASSUME NEW n \in Nat, NEW m \in Nat \ {0}, NEW x, NEW own0, NEW to,
         Agrees(n, m, x, {}, own0, {}, to, place, live), place \in [Object -> Addresses]
  PROVE  /\ \E own : Ready(n, m, Prepare(x), own)
         /\ Prepare(x).kv = x.kv
<1>1. /\ Whole(n, m, x, own0) /\ Forwarded(n, x, {}) /\ (Accessed => Distinct(n, x) /\ Alive(n, x, live))
      /\ x.subtype \in Subtypes
  BY WholeIs DEF Agrees, Tables
<1>2. ASSUME NEW i \in FullOf(n, x)
      PROVE  /\ i \in 1..n
             /\ Accessed /\ x.subtype = "valid" => own0[i] = Hash(x.kv[i].key.o, place) % m \/ own0[i] = REHASH
             /\ x.subtype # "normal"
  <2>1. i \in 1..n
    BY DEF FullOf
  <2>2. Addr(x.kv[i].key, to, place) = Hash(x.kv[i].key.o, place)
    BY <1>1, <2>1 DEF Forwarded, Addr
  <2>3. QED
    BY <2>1, <2>2 DEF Agrees
<1>3. CASE x.subtype = "must-rehash"
  <2>1. Prepare(x) = RehashAll(x)
    BY <1>3 DEF Prepare
  <2>2. x \in Tables(n, m) /\ x.count = Cardinality(FullOf(n, x))
    BY <1>1, WholeIs DEF Whole
  <2>3. PICK own : Rehashed(n, m, x, RehashAll(x), own)
    BY <2>2, RehashAllIs
  <2>4. Ready(n, m, RehashAll(x), own)
    <3>1. SoftRehashed(n, m, x, RehashAll(x), own)
      BY <2>3 DEF Rehashed, SoftRehashed
    <3>2. QED
      BY <1>1, <3>1, RehashedReady
  <2>5. RehashAll(x).kv = x.kv
    BY <2>3 DEF Rehashed
  <2>6. QED
    BY <2>1, <2>4, <2>5
<1>4. CASE x.subtype # "must-rehash" /\ x.rehash # 0
  <2> DEFINE y == FlushNeedingRehash(x)
  <2>1. Prepare(x) = y
    BY <1>4 DEF Prepare
  <2>2. PICK own : Flushed(n, m, x, own0, y, own)
    BY <1>1, FlushIs
  <2> HIDE DEF y
  <2>3. SoftRehashed(n, m, x, y, own)
    <3>1. x.subtype \in {"normal", "valid"}
      BY <1>1, <1>4 DEF Subtypes
    <3>2. \A i \in FullOf(n, x) : y.subtype = "valid" /\ (Accessed => own[i] = Hash(x.kv[i].key.o, place) % m)
      BY <1>2, <2>2, <3>1 DEF Flushed
    <3>3. QED
      BY <2>2, <3>1, <3>2 DEF SoftRehashed, Flushed
  <2>4. Ready(n, m, y, own)
    BY <1>1, <2>3, RehashedReady
  <2>5. y.kv = x.kv
    BY <2>2 DEF Flushed
  <2>6. QED
    BY <2>1, <2>4, <2>5
<1>5. CASE x.subtype # "must-rehash" /\ x.rehash = 0
  <2>1. Prepare(x) = x
    BY <1>5 DEF Prepare
  <2>2. \A i \in 1..n : own0[i] # REHASH
    BY <1>1, <1>5, WholeIs, OnList
  <2>3. x.subtype \in {"normal", "valid"}
    BY <1>1, <1>5 DEF Subtypes
  <2>4. \A i \in FullOf(n, x) : x.subtype = "valid" /\ (Accessed => own0[i] = Hash(x.kv[i].key.o, place) % m)
    BY <1>2, <2>2, <2>3
  <2>5. Ready(n, m, x, own0)
    BY <1>1, <2>3, <2>4 DEF Ready
  <2>6. QED
    BY <2>1, <2>5
<1>6. QED
  BY <1>3, <1>4, <1>5

\* The bucket of a key.
LEMMA BucketIs ==
  ASSUME place \in [Object -> Addresses], NEW x, x.length \in Nat \ {0}, NEW o
  PROVE  Bucket(x, o) = Hash(o, place) % x.length /\ Bucket(x, o) \in 0..x.length - 1
<1>1. o \in Object => place[o] \in Nat
  BY TableAssumption
<1>2. Hash(o, place) % x.length \in 0..x.length - 1
  BY <1>1, HashIs
<1>3. QED
  BY <1>2 DEF Bucket

\* gethash finds the slot on the key's chain that has it, or none has.
LEMMA LookupIs ==
  ASSUME NEW n \in Nat, NEW m \in Nat \ {0}, NEW x, NEW own, Owned(n, m, x, own),
         place \in [Object -> Addresses], NEW o
  PROVE  /\ Lookup(x, o) = 0 => \A i \in 1..n : own[i] = Bucket(x, o) => x.kv[i].key.o # o
         /\ Lookup(x, o) # 0 => /\ Lookup(x, o) \in 1..n /\ own[Lookup(x, o)] = Bucket(x, o)
                                /\ x.kv[Lookup(x, o)].key.o = o
<1> DEFINE b == Bucket(x, o)
           chain == Chain(x.next, x.index[b])
           hits == {j \in DOMAIN chain : x.kv[chain[j]].key.o = o}
           h == Heads(m, x)
<1>1. b \in 0..m - 1 /\ b \in Ids(m) /\ h[b] = x.index[b] /\ NONE \notin Ids(m)
  <2>1. x.length = m
    BY DEF Owned, Tables
  <2>2. b \in 0..m - 1
    BY <2>1, BucketIs
  <2> HIDE DEF b, h
  <2>3. m \in Nat
    OBVIOUS
  <2>4. \A c \in 0..m - 1 : Heads(m, x)[c] = x.index[c]
    BY <2>3, HeadsAre
  <2>5. NONE \notin Ids(m) /\ \A c \in 0..m - 1 : c \in Ids(m)
    BY <2>3, IdsAre
  <2>6. QED
    BY <2>2, <2>4, <2>5 DEF h
<1>2. Threaded(n, Ids(m), x.next, h, own)
  BY DEF Owned
<1> HIDE DEF b, h
<1>3. chain \in Seq(1..n) /\ \A i \in 1..n : own[i] = b <=> \E j \in 1..Len(chain) : chain[j] = i
  BY <1>1, <1>2, ChainIsList
<1>4. Lookup(x, o) = IF hits = {} THEN 0 ELSE chain[Min(hits)]
  BY Zenon DEF Lookup, b
<1> HIDE DEF chain
<1>5. DOMAIN chain = 1..Len(chain) /\ Len(chain) \in Nat /\ \A j \in 1..Len(chain) : chain[j] \in 1..n
  BY <1>3, LenProperties, ElementOfSeq
<1>6. CASE hits = {}
  <2>1. ASSUME NEW i \in 1..n, own[i] = b PROVE x.kv[i].key.o # o
    <3>1. PICK j \in 1..Len(chain) : chain[j] = i
      BY <1>3, <2>1
    <3>2. QED
      BY <1>5, <1>6, <3>1
  <2> HIDE DEF hits
  <2>2. QED
    BY <1>4, <1>6, <2>1 DEF b
<1>7. CASE hits # {}
  <2>1. hits \in SUBSET Nat
    BY <1>5
  <2>2. Min(hits) \in hits
    <3> HIDE DEF hits
    <3>1. \E e \in hits : \A k \in hits : e <= k
      BY <1>7, <2>1, Least
    <3>2. QED
      BY <3>1, Zenon DEF Min
  <2>3. Min(hits) \in 1..Len(chain) /\ x.kv[chain[Min(hits)]].key.o = o
    <3>1. \A j \in hits : j \in 1..Len(chain) /\ x.kv[chain[j]].key.o = o
      BY <1>5
    <3> HIDE DEF hits
    <3>2. QED
      BY <2>2, <3>1
  <2> HIDE DEF hits
  <2>4. chain[Min(hits)] \in 1..n /\ own[chain[Min(hits)]] = b /\ chain[Min(hits)] # 0
    BY <1>3, <1>5, <2>3
  <2>5. QED
    BY <1>4, <1>7, <2>3, <2>4 DEF b
<1>8. QED
  BY <1>6, <1>7

Inserted(n, m, x, k, v, own, y, own2) ==
  /\ x.free \in 1..n /\ IsFree(x.kv[x.free])
  /\ Whole(n, m, y, own2) /\ own2 = [own EXCEPT ![x.free] = Bucket(x, k)]
  /\ y.kv = [x.kv EXCEPT ![x.free] = [key |-> Word(k), value |-> Word(v)]]
  /\ y.subtype = "valid" /\ y.rehash = x.rehash /\ y.length = m

\* puthash puts a new entry into the first free slot.
LEMMA InsertIs ==
  ASSUME NEW n \in Nat, NEW m \in Nat \ {0}, NEW x, NEW own, Whole(n, m, x, own), x.free # 0,
         place \in [Object -> Addresses], NEW k \in Object, NEW v \in Object \union {Imm}
  PROVE  \E own2 : Inserted(n, m, x, k, v, own, Insert(x, k, v), own2)
<1> DEFINE i == x.free
           b == Bucket(x, k)
           e == [key |-> Word(k), value |-> Word(v)]
           u == [x EXCEPT !.free = x.next[i]]
           none == [own EXCEPT ![i] = NONE]
           p == [x EXCEPT !.free = x.next[i], !.count = @ + 1, !.subtype = "valid", !.kv[i] = e]
           y == Insert(x, k, v)
           own2 == [own EXCEPT ![i] = b]
<1>1. /\ Owned(n, m, x, own) /\ x \in Tables(n, m) /\ own \in [1..n -> Ids(m) \union {NONE}] /\ x.length = m
  BY WholeIs
<1>2. i \in 1..n /\ own[i] = FREE /\ Owned(n, m, u, none)
  BY <1>1, PopFree
<1>3. b \in 0..m - 1
  BY <1>1, BucketIs
<1>4. e \in Entry /\ ~IsFree(e)
  <2>1. Word(k) \in Words /\ Word(v) \in Words
    BY WordsAre
  <2>2. Word(k).o = k /\ k # Empty
    BY TableAssumption DEF Word
  <2>3. e \in Entry
    BY <2>1 DEF Entry
  <2>4. ~IsFree(e)
    BY <2>2 DEF IsFree
  <2>5. QED
    BY <2>3, <2>4
<1> HIDE DEF b, e, i
<1>5. u \in Tables(n, m)
  BY <1>2 DEF Owned
<1>6. /\ SameLists(u, p) /\ p.kv = [x.kv EXCEPT ![i] = e] /\ p.count = x.count + 1
      /\ p.subtype = "valid" /\ p.rehash = x.rehash /\ p.length = m
      /\ p = [u EXCEPT !.count = x.count + 1, !.subtype = "valid", !.kv = [x.kv EXCEPT ![i] = e]]
  BY <1>1 DEF Tables, SameLists
<1>7. p \in Tables(n, m)
  <2>1. [x.kv EXCEPT ![i] = e] \in [1..n -> Entry] /\ x.count + 1 \in Int
    BY <1>1, <1>2, <1>4 DEF Tables
  <2> HIDE DEF p, u
  <2>2. QED
    BY <1>5, <1>6, <2>1 DEF Tables, Subtypes
<1> HIDE DEF p, u
<1>8. Owned(n, m, p, none)
  BY <1>2, <1>6, <1>7, ListsAre
<1>9. none[i] = NONE /\ [none EXCEPT ![i] = b] = own2
  BY <1>1, <1>2
<1> HIDE DEF none, own2
<1>10. Owned(n, m, Push(p, i, b), own2) /\ SameEntries(p, Push(p, i, b))
  BY <1>2, <1>3, <1>8, <1>9, PushIs
<1>11. y = Push(p, i, b)
  BY DEF Insert, p, i, b, e
<1> HIDE DEF y
<1>12. /\ Owned(n, m, y, own2) /\ y.kv = [x.kv EXCEPT ![i] = e] /\ y.count = x.count + 1
       /\ y.subtype = "valid" /\ y.rehash = x.rehash /\ y.length = m
  BY <1>6, <1>10, <1>11 DEF SameEntries
<1>13. /\ y.kv[i] = e /\ \A j \in 1..n : j # i => y.kv[j] = x.kv[j]
       /\ own2[i] = b /\ \A j \in 1..n : j # i => own2[j] = own[j]
  BY <1>1, <1>2, <1>12 DEF Tables, own2
<1>14. IsFree(x.kv[i])
  BY <1>2 DEF Whole
<1>15. i \notin FullOf(n, x) /\ FullOf(n, y) = FullOf(n, x) \union {i}
  <2>1. i \notin FullOf(n, x)
    BY <1>14 DEF FullOf
  <2>2. i \in 1..n /\ ~IsFree(y.kv[i])
    BY <1>2, <1>4, <1>13
  <2>3. \A j \in 1..n : j # i => (IsFree(y.kv[j]) <=> IsFree(x.kv[j]))
    BY <1>13
  <2>4. QED
    BY <2>1, <2>2, <2>3 DEF FullOf
<1>16. y.count = Cardinality(FullOf(n, y))
  <2> DEFINE F == FullOf(n, x)
             G == FullOf(n, y)
  <2>1. IsFiniteSet(F)
    BY FullIsFinite
  <2>2. x.count = Cardinality(F) /\ y.count = x.count + 1 /\ i \notin F /\ G = F \union {i}
    BY <1>12, <1>15 DEF Whole
  <2> HIDE DEF F, G
  <2>3. Cardinality(G) = Cardinality(F) + 1
    BY <2>1, <2>2, FS_AddElement
  <2>4. QED
    BY <2>2, <2>3 DEF G
<1>17. \A j \in 1..n : own2[j] # NONE /\ (own2[j] = FREE <=> IsFree(y.kv[j]))
  BY <1>3, <1>4, <1>13, IdsAre DEF Whole
<1>18. Whole(n, m, y, own2)
  BY <1>12, <1>16, <1>17 DEF Whole
<1>19. QED
  BY <1>2, <1>12, <1>14, <1>18 DEF y, own2, i, b, e, Inserted

\* A table that grows is rehashed, and has a free slot.
LEMMA GrownIs ==
  ASSUME NEW n \in Nat, NEW m \in Nat \ {0}, NEW x, NEW own0, NEW to,
         Agrees(n, m, x, {}, own0, {}, to, place, live), place \in [Object -> Addresses]
  PROVE  /\ \E own : Ready(n + 1, m + 1, Rehash(x), own)
         /\ Rehash(x).free # 0
         /\ FullOf(n + 1, Rehash(x)) = FullOf(n, x) /\ \A i \in 1..n : Rehash(x).kv[i] = x.kv[i]
<1> DEFINE z == [x EXCEPT !.kv = Append(@, EmptySlot), !.next = Append(@, 0), !.length = @ + 1,
                          !.index = [b \in 0..x.length |-> 0]]
           y == Rehash(x)
<1>1. /\ Whole(n, m, x, own0) /\ Forwarded(n, x, {}) /\ (Accessed => Distinct(n, x) /\ Alive(n, x, live))
      /\ x \in Tables(n, m) /\ x.length = m /\ Slots(x) = 1..n
  BY WholeIs DEF Agrees
<1>2. y = RehashAll(z)
  BY DEF Rehash
<1>3. /\ x.kv \in Seq(Entry) /\ Len(x.kv) = n /\ x.next \in Seq(0..n) /\ Len(x.next) = n
  BY <1>1 DEF Tables
<1>4. /\ Append(x.kv, EmptySlot) \in [1..n + 1 -> Entry]
      /\ \A i \in 1..n : Append(x.kv, EmptySlot)[i] = x.kv[i]
      /\ Append(x.kv, EmptySlot)[n + 1] = EmptySlot
  <2> DEFINE a == Append(x.kv, EmptySlot)
  <2>1. a \in Seq(Entry) /\ Len(a) = n + 1 /\ (\A i \in 1..n : a[i] = x.kv[i]) /\ a[n + 1] = EmptySlot
    BY <1>3, WordsAre, AppendProperties
  <2> HIDE DEF a
  <2>2. a \in [1..n + 1 -> Entry]
    BY <2>1, LenProperties
  <2>3. QED
    BY <2>1, <2>2 DEF a
<1>5. Append(x.next, 0) \in [1..n + 1 -> 0..n + 1]
  <2> DEFINE a == Append(x.next, 0)
  <2>1. x.next \in Seq(0..n + 1)
    BY <1>1 DEF Tables
  <2>2. 0 \in 0..n + 1
    OBVIOUS
  <2>3. a \in Seq(0..n + 1) /\ Len(a) = n + 1
    BY <1>3, <2>1, <2>2, AppendProperties
  <2> HIDE DEF a
  <2>4. a \in [1..n + 1 -> 0..n + 1]
    BY <2>3, LenProperties
  <2>5. QED
    BY <2>4 DEF a
<1>6. /\ z.kv = Append(x.kv, EmptySlot) /\ z.count = x.count
      /\ z = [x EXCEPT !.kv = Append(x.kv, EmptySlot), !.next = Append(x.next, 0), !.length = m + 1,
                       !.index = [b \in 0..m |-> 0]]
  BY <1>1 DEF Tables
<1> DEFINE k2 == Append(x.kv, EmptySlot)
           n2 == Append(x.next, 0)
<1> HIDE DEF z, y, k2, n2
<1>7. z \in Tables(n + 1, m + 1)
  <2>1. [b \in 0..m |-> 0] \in [0..(m + 1) - 1 -> 0..n + 1]
    BY SMT
  <2>2. x.free \in 0..n + 1 /\ x.rehash \in 0..n + 1 /\ x.count \in Int /\ x.subtype \in Subtypes
    BY <1>1 DEF Tables
  <2>3. k2 \in [1..n + 1 -> Entry] /\ n2 \in [1..n + 1 -> 0..n + 1]
    BY <1>4, <1>5 DEF k2, n2
  <2>4. z = [x EXCEPT !.kv = k2, !.next = n2, !.length = m + 1, !.index = [b \in 0..m |-> 0]]
    BY <1>6 DEF k2, n2
  <2>5. QED
    BY <1>1, <2>1, <2>2, <2>3, <2>4 DEF Tables
<1>8. FullOf(n + 1, z) = FullOf(n, x)
  <2>1. \A i \in 1..n + 1 : i \in 1..n \/ i = n + 1
    OBVIOUS
  <2>2. \A i \in 1..n : i \in 1..n + 1
    OBVIOUS
  <2>3. \A i \in 1..n : z.kv[i] = x.kv[i]
    BY <1>4, <1>6
  <2>4. z.kv[n + 1] = EmptySlot
    BY <1>4, <1>6
  <2>5. QED
    BY <2>1, <2>2, <2>3, <2>4, WordsAre DEF FullOf
<1>9. z.count = Cardinality(FullOf(n + 1, z))
  BY <1>1, <1>6, <1>8 DEF Whole
<1>10. \A i \in 1..n : z.kv[i] = x.kv[i]
  BY <1>4, <1>6
<1>11. Forwarded(n + 1, z, {})
  <2>1. \A i \in 1..n + 1 : i \in 1..n \/ i = n + 1
    OBVIOUS
  <2>2. z.kv[n + 1] = EmptySlot
    BY <1>4, <1>6
  <2>3. EmptySlot.key.up = FALSE /\ EmptySlot.value.up = FALSE
    BY WordsAre DEF Word
  <2>4. QED
    BY <1>1, <1>10, <2>1, <2>2, <2>3 DEF Forwarded
<1>12. Accessed => Distinct(n + 1, z) /\ Alive(n + 1, z, live)
  <2>1. \A i \in FullOf(n, x) : i \in 1..n
    BY DEF FullOf
  <2>2. QED
    BY <1>1, <1>8, <1>10, <2>1 DEF Distinct, Alive
<1>13. PICK own : Rehashed(n + 1, m + 1, z, RehashAll(z), own)
  <2>1. n + 1 \in Nat /\ m + 1 \in Nat \ {0}
    OBVIOUS
  <2>2. QED
    BY <1>7, <1>9, <2>1, RehashAllIs
<1>14. Ready(n + 1, m + 1, y, own)
  <2>1. SoftRehashed(n + 1, m + 1, z, y, own)
    BY <1>2, <1>13 DEF Rehashed, SoftRehashed
  <2>2. QED
    BY <1>11, <1>12, <2>1, RehashedReady
<1>15. y.free # 0
  <2>1. n + 1 \in 1..n + 1 /\ n + 1 \in Nat /\ m + 1 \in Nat
    OBVIOUS
  <2>2. y.kv = z.kv /\ Whole(n + 1, m + 1, y, own)
    BY <1>2, <1>13 DEF Rehashed
  <2>3. IsFree(y.kv[n + 1])
    BY <1>4, <1>6, <2>2, WordsAre
  <2>4. own[n + 1] = FREE
    BY <2>1, <2>2, <2>3 DEF Whole
  <2>5. QED
    BY <2>1, <2>2, <2>4, WholeIs, OnList
<1>16. FullOf(n + 1, y) = FullOf(n, x) /\ \A i \in 1..n : y.kv[i] = x.kv[i]
  <2>1. y.kv = z.kv
    BY <1>2, <1>13 DEF Rehashed
  <2>2. QED
    BY <1>8, <1>10, <2>1, SameKv
<1>17. QED
  BY <1>14, <1>15, <1>16 DEF y

\* puthash of a key that is there changes its value only.
LEMMA PutOverIs ==
  ASSUME NEW n \in Nat, NEW m \in Nat \ {0}, NEW x, NEW own, Ready(n, m, x, own),
         NEW k \in live, live \subseteq Object, NEW v \in live \union {Imm},
         NEW i \in 1..n, x.kv[i].key.o = k
  PROVE  Ready(n, m, [x EXCEPT !.kv[i].value = Word(v), !.subtype = "valid"], own)
<1> DEFINE y == [x EXCEPT !.kv[i].value = Word(v), !.subtype = "valid"]
           e == [key |-> x.kv[i].key, value |-> Word(v)]
<1>1. /\ Whole(n, m, x, own) /\ Owned(n, m, x, own) /\ x \in Tables(n, m) /\ x.kv \in [1..n -> Entry]
      /\ x.kv[i] \in Entry
  BY WholeIs DEF Ready, Tables
<1>2. e \in Entry /\ ~IsFree(e) /\ ~IsFree(x.kv[i]) /\ [x.kv[i] EXCEPT !.value = Word(v)] = e
      /\ Word(v).o = v /\ ~Word(v).up
  <2>1. Word(v) \in Words
    BY WordsAre
  <2>2. k # Empty
    BY TableAssumption
  <2>3. [x.kv[i] EXCEPT !.value = Word(v)] = e
    BY <1>1 DEF Entry
  <2>4. e \in Entry
    BY <1>1, <2>1 DEF Entry
  <2>5. QED
    BY <2>2, <2>3, <2>4 DEF IsFree, Word
<1> HIDE DEF e
<1>3. /\ y = [x EXCEPT !.kv = [x.kv EXCEPT ![i] = e], !.subtype = "valid"]
      /\ y.kv = [x.kv EXCEPT ![i] = e] /\ y.count = x.count /\ y.subtype = "valid" /\ SameLists(x, y)
  BY <1>1, <1>2 DEF Tables, SameLists
<1>4. y \in Tables(n, m)
  <2>1. [x.kv EXCEPT ![i] = e] \in [1..n -> Entry]
    BY <1>1, <1>2
  <2> HIDE DEF y
  <2>2. QED
    BY <1>1, <1>3, <2>1 DEF Tables, Subtypes
<1> HIDE DEF y
<1>5. Owned(n, m, y, own)
  BY <1>1, <1>3, <1>4, ListsAre
<1>6. y.kv[i] = e /\ e.key = x.kv[i].key /\ e.value = Word(v) /\ \A j \in 1..n : j # i => y.kv[j] = x.kv[j]
  BY <1>1, <1>3 DEF e
<1>7. \A j \in 1..n : y.kv[j].key = x.kv[j].key /\ (IsFree(y.kv[j]) <=> IsFree(x.kv[j]))
  BY <1>2, <1>6
<1>8. FullOf(n, y) = FullOf(n, x) /\ i \in FullOf(n, x) /\ \A j \in FullOf(n, x) : j \in 1..n
  BY <1>2, <1>7 DEF FullOf
<1>9. Whole(n, m, y, own)
  BY <1>1, <1>3, <1>5, <1>7, <1>8 DEF Whole
<1>10. Forwarded(n, y, {})
  BY <1>2, <1>6 DEF Ready, Forwarded
<1>11. Accessed => \A j \in FullOf(n, y) : own[j] = Hash(y.kv[j].key.o, place) % m
  BY <1>7, <1>8 DEF Ready
<1>12. Accessed => Distinct(n, y) /\ Alive(n, y, live)
  <2> SUFFICES ASSUME Accessed PROVE Distinct(n, y) /\ Alive(n, y, live)
    OBVIOUS
  <2>1. Distinct(n, x) /\ Alive(n, x, live)
    BY DEF Ready
  <2>2. Distinct(n, y)
    BY <1>7, <1>8, <2>1 DEF Distinct
  <2>3. Alive(n, y, live)
    BY <1>2, <1>6, <1>7, <1>8, <2>1 DEF Alive
  <2>4. QED
    BY <2>2, <2>3
<1>13. QED
  BY <1>3, <1>9, <1>10, <1>11, <1>12 DEF Ready, y

\* puthash of a new key makes one entry more.
LEMMA PutNewIs ==
  ASSUME NEW n \in Nat, NEW m \in Nat \ {0}, NEW x, NEW own, Ready(n, m, x, own), x.free # 0,
         place \in [Object -> Addresses], live \subseteq Object,
         NEW k \in live, NEW v \in live \union {Imm},
         \A i \in 1..n : own[i] = Bucket(x, k) => x.kv[i].key.o # k
  PROVE  \E own2 : Ready(n, m, Insert(x, k, v), own2)
<1> DEFINE i == x.free
           e == [key |-> Word(k), value |-> Word(v)]
           y == Insert(x, k, v)
<1>1. /\ Whole(n, m, x, own) /\ x \in Tables(n, m) /\ x.kv \in [1..n -> Entry] /\ x.length = m
      /\ own \in [1..n -> Ids(m) \union {NONE}]
  BY WholeIs DEF Ready, Tables
<1>2. k \in Object /\ v \in Object \union {Imm}
  OBVIOUS
<1>0. PICK own2 : Inserted(n, m, x, k, v, own, y, own2)
  BY <1>1, <1>2, InsertIs
<1>3. /\ i \in 1..n /\ IsFree(x.kv[i]) /\ Whole(n, m, y, own2) /\ own2 = [own EXCEPT ![i] = Bucket(x, k)]
      /\ y.kv = [x.kv EXCEPT ![i] = e] /\ y.subtype = "valid" /\ y.length = m
  BY <1>0 DEF Inserted
<1>4. e.key.o = k /\ e.value.o = v /\ ~e.key.up /\ ~e.value.up /\ ~IsFree(e)
  BY <1>2, TableAssumption DEF Word, IsFree
<1> HIDE DEF y, i, e
<1>5. y.kv[i] = e /\ own2[i] = Bucket(x, k) /\ \A j \in 1..n : j # i => y.kv[j] = x.kv[j] /\ own2[j] = own[j]
  BY <1>1, <1>3
<1>6. FullOf(n, y) = FullOf(n, x) \union {i} /\ i \notin FullOf(n, x) /\ \A j \in FullOf(n, x) : j \in 1..n
  BY <1>3, <1>4, <1>5 DEF FullOf
<1>7. Bucket(x, k) = Hash(k, place) % m
  BY <1>1 DEF Bucket
<1>8. ASSUME Accessed, NEW j \in FullOf(n, y) PROVE own2[j] = Hash(y.kv[j].key.o, place) % m
  <2>2. CASE j = i
    BY <1>4, <1>5, <1>7, <2>2
  <2>3. CASE j # i
    <3>1. j \in FullOf(n, x) /\ j \in 1..n
      BY <1>6, <2>3
    <3>2. own[j] = Hash(x.kv[j].key.o, place) % m
      BY <1>8, <3>1 DEF Ready
    <3>3. QED
      BY <1>5, <2>3, <3>1, <3>2
  <2>4. QED
    BY <2>2, <2>3
<1>9. Forwarded(n, y, {})
  BY <1>4, <1>5 DEF Ready, Forwarded
<1>10. Accessed => \A j \in FullOf(n, x) : x.kv[j].key.o # k
  <2>1. ASSUME Accessed, NEW j \in FullOf(n, x), x.kv[j].key.o = k PROVE FALSE
    <3>1. own[j] = Hash(k, place) % m /\ j \in 1..n
      BY <1>6, <2>1 DEF Ready
    <3>2. QED
      BY <1>7, <2>1, <3>1
  <2>2. QED
    BY <2>1
<1>11. Accessed => Distinct(n, y) /\ Alive(n, y, live)
  <2> SUFFICES ASSUME Accessed PROVE Distinct(n, y) /\ Alive(n, y, live)
    OBVIOUS
  <2>1. Distinct(n, x) /\ Alive(n, x, live)
    BY DEF Ready
  <2>2. \A j \in FullOf(n, x) : j # i /\ y.kv[j] = x.kv[j]
    BY <1>5, <1>6
  <2>3. Distinct(n, y)
    BY <1>4, <1>5, <1>6, <1>10, <2>1, <2>2 DEF Distinct
  <2>4. Alive(n, y, live)
    BY <1>4, <1>5, <1>6, <2>1, <2>2 DEF Alive
  <2>5. QED
    BY <2>3, <2>4
<1>12. Ready(n, m, y, own2)
  BY <1>3, <1>8, <1>9, <1>11 DEF Ready
<1>13. QED
  BY <1>12 DEF y

\* remhash takes the entry off its chain.
LEMMA RemovedIs ==
  ASSUME NEW n \in Nat, NEW m \in Nat \ {0}, NEW x, NEW own, Ready(n, m, x, own),
         NEW b \in 0..m - 1, NEW i \in 1..n, On(own, i, b)
  PROVE  \E own2 : Ready(n, m, Release(Unlink(x, b, i), i), own2)
<1> DEFINE y == Release(Unlink(x, b, i), i)
<1>1. /\ Whole(n, m, x, own) /\ x \in Tables(n, m) /\ x.kv \in [1..n -> Entry] /\ x.length = m
      /\ own \in [1..n -> Ids(m) \union {NONE}]
  BY WholeIs DEF Ready, Tables
<1>0. PICK own2 : Freed(n, m, x, i, own, y, own2)
  BY <1>1, FreedIs
<1> HIDE DEF y
<1>2. /\ Whole(n, m, y, own2) /\ y.kv = [x.kv EXCEPT ![i] = EmptySlot] /\ y.subtype = x.subtype
      /\ own2 = [own EXCEPT ![i] = FREE]
  BY <1>0 DEF Freed
<1>3. y.kv[i] = EmptySlot /\ \A j \in 1..n : j # i => y.kv[j] = x.kv[j] /\ own2[j] = own[j]
  BY <1>1, <1>2
<1>4. \A j \in FullOf(n, y) : j # i /\ j \in 1..n /\ j \in FullOf(n, x)
  BY <1>3, WordsAre DEF FullOf
<1>5. Forwarded(n, y, {})
  BY <1>3, WordsAre DEF Ready, Forwarded, Word
<1>6. Accessed => Distinct(n, y) /\ Alive(n, y, live)
  BY <1>3, <1>4 DEF Ready, Distinct, Alive
<1>7. \A j \in FullOf(n, y) : y.subtype = "valid" /\ (Accessed => own2[j] = Hash(y.kv[j].key.o, place) % m)
  BY <1>2, <1>3, <1>4 DEF Ready
<1>8. Ready(n, m, y, own2)
  BY <1>2, <1>5, <1>6, <1>7 DEF Ready
<1>9. QED
  BY <1>8 DEF y

-----------------------------------------------------------------------------
(***************************************************************************)
(* The collector's steps for one slot.                                     *)
(***************************************************************************)

\* The words of an entry point to where their objects have moved.
Reword(x, i, e) == [x EXCEPT !.kv = [x.kv EXCEPT ![i] = e]]

SameObjects(e, e2) == e2.key.o = e.key.o /\ e2.value.o = e.value.o

Reworded(n, m, x, own, i, e, y) ==
  /\ Whole(n, m, y, own) /\ y.kv[i] = e /\ (\A j \in 1..n : j # i => y.kv[j] = x.kv[j])
  /\ y.subtype = x.subtype /\ y.length = x.length /\ y.index = x.index /\ y.next = x.next
  /\ FullOf(n, y) = FullOf(n, x)
  /\ (Distinct(n, x) => Distinct(n, y)) /\ \A lv : Alive(n, x, lv) => Alive(n, y, lv)

\* Forwarding a word leaves the lists and the objects as they are.
LEMMA RewordIs ==
  ASSUME NEW n \in Nat, NEW m \in Nat \ {0}, NEW x, NEW own, Whole(n, m, x, own),
         NEW i \in 1..n, NEW e \in Entry, SameObjects(x.kv[i], e)
  PROVE  Reworded(n, m, x, own, i, e, Reword(x, i, e))
<1> DEFINE y == Reword(x, i, e)
<1>1. /\ Owned(n, m, x, own) /\ x \in Tables(n, m) /\ x.kv \in [1..n -> Entry]
  BY WholeIs DEF Tables
<1>2. /\ y.kv = [x.kv EXCEPT ![i] = e] /\ y.count = x.count /\ y.subtype = x.subtype /\ y.length = x.length
      /\ y.index = x.index /\ y.next = x.next /\ SameLists(x, y)
  BY <1>1 DEF Tables, SameLists, Reword
<1>3. y \in Tables(n, m)
  <2>1. [x.kv EXCEPT ![i] = e] \in [1..n -> Entry]
    BY <1>1
  <2>2. QED
    BY <1>1, <2>1 DEF Tables, Reword
<1> HIDE DEF y
<1>4. Owned(n, m, y, own)
  BY <1>1, <1>2, <1>3, ListsAre
<1>5. y.kv[i] = e /\ \A j \in 1..n : j # i => y.kv[j] = x.kv[j]
  BY <1>1, <1>2
<1>6. \A j \in 1..n : /\ y.kv[j].key.o = x.kv[j].key.o /\ y.kv[j].value.o = x.kv[j].value.o
                      /\ (IsFree(y.kv[j]) <=> IsFree(x.kv[j]))
  BY <1>5 DEF SameObjects, IsFree
<1>7. FullOf(n, y) = FullOf(n, x) /\ \A j \in FullOf(n, x) : j \in 1..n
  BY <1>6 DEF FullOf
<1>8. Whole(n, m, y, own)
  BY <1>2, <1>4, <1>6, <1>7 DEF Whole
<1>9. (Distinct(n, x) => Distinct(n, y)) /\ \A lv : Alive(n, x, lv) => Alive(n, y, lv)
  BY <1>6, <1>7 DEF Distinct, Alive
<1>10. QED
  BY <1>2, <1>5, <1>7, <1>8, <1>9 DEF Reworded, y

\* What the collector knows.
Collecting ==
  /\ weak \in Weakness /\ live \subseteq Object /\ place \in [Object -> Addresses]
  /\ gc.from \subseteq live /\ gc.to \in [gc.from -> Addresses]

Colls(n, m) == [t : Tables(n, m), moved : SUBSET gc.from]

GcOK(n, m, c, own) ==
  c \in Colls(n, m) /\ Agrees(n, m, c.t, c.moved, own, gc.from, gc.to, place, live)

Clean(c, i) == ~InFrom(c, c.t.kv[i].key) /\ ~InFrom(c, c.t.kv[i].value)

\* c2 is c but for slot i.
OnlySlot(n, c, c2, i) ==
  c2.t.subtype = c.t.subtype /\ \A j \in 1..n : j # i => c2.t.kv[j] = c.t.kv[j]

\* What the collector has of the table.
LEMMA GcIs ==
  ASSUME Collecting, NEW n \in Nat, NEW m \in Nat \ {0}, NEW c, NEW own, GcOK(n, m, c, own)
  PROVE  /\ Whole(n, m, c.t, own) /\ Owned(n, m, c.t, own) /\ c.t \in Tables(n, m)
         /\ c.t.kv \in [1..n -> Entry] /\ c.t.length = m /\ Slots(c.t) = 1..n
         /\ own \in [1..n -> Ids(m) \union {NONE}]
         /\ c.moved \subseteq gc.from /\ Forwarded(n, c.t, c.moved)
         /\ c = [t |-> c.t, moved |-> c.moved]
         /\ \A i \in 1..n : c.t.kv[i] \in Entry /\ BucketOf(c, i) \in 0..m - 1
                            /\ BucketOf(c, i) = Addr(c.t.kv[i].key, gc.to, place) % m
<1>1. /\ Whole(n, m, c.t, own) /\ Owned(n, m, c.t, own) /\ c.t \in Tables(n, m)
      /\ c.t.kv \in [1..n -> Entry] /\ c.t.length = m /\ Slots(c.t) = 1..n
      /\ own \in [1..n -> Ids(m) \union {NONE}]
      /\ c.moved \subseteq gc.from /\ Forwarded(n, c.t, c.moved)
  BY WholeIs DEF GcOK, Agrees, Tables
<1>2. c = [t |-> c.t, moved |-> c.moved]
  BY DEF GcOK, Colls
<1>3. ASSUME NEW i \in 1..n
      PROVE  /\ c.t.kv[i] \in Entry /\ BucketOf(c, i) \in 0..m - 1
             /\ BucketOf(c, i) = Addr(c.t.kv[i].key, gc.to, place) % m
  <2> DEFINE w == c.t.kv[i].key
  <2>1. c.t.kv[i] \in Entry
    BY <1>1
  <2>2. Address(w) = Addr(w, gc.to, place)
    BY DEF Address, Addr
  <2>3. w.o \in Object => place[w.o] \in Nat
    BY TableAssumption DEF Collecting
  <2>4. w.up => (w.o \in Object => gc.to[w.o] \in Nat)
    BY <1>1, TableAssumption DEF Collecting, Forwarded
  <2> HIDE DEF w
  <2>5. Addr(w, gc.to, place) % m \in 0..m - 1
    BY <2>3, <2>4, HashIs DEF Addr
  <2>6. QED
    BY <1>1, <2>1, <2>2, <2>5 DEF BucketOf, w
<1>4. QED
  BY <1>1, <1>2, <1>3

\* A forwarded word is a word.
LEMMA UpIs ==
  ASSUME NEW w \in Words
  PROVE  [w EXCEPT !.up = TRUE] \in Words /\ [w EXCEPT !.up = TRUE].o = w.o /\ [w EXCEPT !.up = TRUE].up
<1>1. [w EXCEPT !.up = TRUE].o = w.o /\ [w EXCEPT !.up = TRUE].up
  BY DEF Words
<1>2. [w EXCEPT !.up = TRUE] \in Words
  BY DEF Words
<1>3. QED
  BY <1>1, <1>2

\* A forwarded value is one field of its entry.
LEMMA UpEntryIs ==
  ASSUME NEW e \in Entry
  PROVE  /\ [e EXCEPT !.key.up = TRUE] = [key |-> [e.key EXCEPT !.up = TRUE], value |-> e.value]
         /\ [e EXCEPT !.value.up = TRUE] = [key |-> e.key, value |-> [e.value EXCEPT !.up = TRUE]]
<1> DEFINE k == [e.key EXCEPT !.up = TRUE]
           v == [e.value EXCEPT !.up = TRUE]
<1>1. [e EXCEPT !.key.up = TRUE] = [e EXCEPT !.key = k] /\ [e EXCEPT !.value.up = TRUE] = [e EXCEPT !.value = v]
  OBVIOUS
<1> HIDE DEF k, v
<1>2. [e EXCEPT !.key = k] = [key |-> k, value |-> e.value] /\ [e EXCEPT !.value = v] = [key |-> e.key, value |-> v]
  BY DEF Entry
<1>3. QED
  BY <1>1, <1>2 DEF k, v

\* Scavenging the value of a slot forwards it.
LEMMA ValueIs ==
  ASSUME Collecting, NEW n \in Nat, NEW m \in Nat \ {0}, NEW c, NEW own, GcOK(n, m, c, own), NEW i \in 1..n
  PROVE  /\ GcOK(n, m, ScavengeValue(c, i), own) /\ OnlySlot(n, c, ScavengeValue(c, i), i)
         /\ ScavengeValue(c, i).t.kv[i].key = c.t.kv[i].key
         /\ ScavengeValue(c, i).t.kv[i].value.o = c.t.kv[i].value.o
         /\ ~InFrom(c, ScavengeValue(c, i).t.kv[i].value)
         /\ ScavengeValue(c, i).t.index = c.t.index /\ ScavengeValue(c, i).t.length = m
<1> DEFINE x == c.t
           w == x.kv[i].value
           d == ScavengeValue(c, i)
<1>1. /\ Whole(n, m, x, own) /\ x \in Tables(n, m) /\ x.kv[i] \in Entry /\ x.length = m
      /\ c.moved \subseteq gc.from /\ Forwarded(n, x, c.moved) /\ c = [t |-> x, moved |-> c.moved]
      /\ x.kv \in [1..n -> Entry]
  BY GcIs
<1>2. CASE ~InFrom(c, w)
  <2>1. d = c
    BY <1>2 DEF ScavengeValue
  <2>2. QED
    BY <1>1, <1>2, <2>1 DEF OnlySlot
<1>3. CASE InFrom(c, w)
  <2> DEFINE r == [w EXCEPT !.up = TRUE]
             e == [key |-> x.kv[i].key, value |-> r]
             y == Reword(x, i, e)
  <2>1. e \in Entry /\ SameObjects(x.kv[i], e) /\ [x.kv[i] EXCEPT !.value.up = TRUE] = e
    <3>1. x.kv[i].key \in Words /\ w \in Words
      BY <1>1 DEF Entry
    <3>2. r \in Words /\ r.o = w.o /\ r.up
      BY <3>1, UpIs
    <3> HIDE DEF r
    <3>3. e \in Entry /\ SameObjects(x.kv[i], e)
      BY <3>1, <3>2 DEF Entry, SameObjects
    <3>4. [x.kv[i] EXCEPT !.value.up = TRUE] = e
      BY <1>1, UpEntryIs, Zenon DEF r
    <3>5. QED
      BY <3>3, <3>4
  <2>2. d = [t |-> y, moved |-> c.moved \union {w.o}]
    <3>1. [x EXCEPT !.kv[i].value.up = TRUE] = y
      BY <1>1, <2>1 DEF Tables, Reword
    <3> HIDE DEF y
    <3>2. QED
      BY <1>3, <3>1 DEF ScavengeValue
  <2> HIDE DEF e
  <2>3. Reworded(n, m, x, own, i, e, y)
    BY <1>1, <2>1, RewordIs
  <2> HIDE DEF y, d
  <2>4. y \in Tables(n, m) /\ e.key = x.kv[i].key /\ e.value.o = w.o /\ e.value.up
    <3>1. w \in Words
      BY <1>1 DEF Entry
    <3>2. r.o = w.o /\ r.up
      BY <3>1, UpIs
    <3> HIDE DEF r
    <3>3. QED
      <4>1. y \in Tables(n, m)
        BY <2>3, WholeIs DEF Reworded
      <4>2. e.key = x.kv[i].key /\ e.value = r
        BY DEF e
      <4>3. QED
        BY <3>2, <4>1, <4>2
  <2>5. d.t = y /\ d.moved = c.moved \union {w.o} /\ w.o \in gc.from
    BY <1>3, <2>2 DEF InFrom
  <2>6. d \in Colls(n, m)
    BY <1>1, <2>2, <2>4, <2>5 DEF Colls
  <2>7. Forwarded(n, y, d.moved)
    BY <1>1, <2>3, <2>4, <2>5 DEF Forwarded, Reworded
  <2>8. \A j \in 1..n : y.kv[j].key = x.kv[j].key
    BY <2>3, <2>4 DEF Reworded
  <2>9. \A j \in FullOf(n, y) : j \in FullOf(n, x) /\ j \in 1..n
    BY <2>3 DEF Reworded, FullOf
  <2>10. Agrees(n, m, x, c.moved, own, gc.from, gc.to, place, live)
    BY DEF GcOK
  <2>11. Accessed /\ y.subtype = "valid" => \A j \in FullOf(n, y) :
           own[j] = Addr(y.kv[j].key, gc.to, place) % m \/ own[j] = REHASH
    BY <2>3, <2>8, <2>9, <2>10 DEF Agrees, Reworded
  <2>12. Accessed /\ y.subtype = "valid" => \A j \in 1..n : own[j] = REHASH =>
            ~Old(y.kv[j].key, gc.from) /\ Survives(y.kv[j].value, gc.from, d.moved)
    <3> SUFFICES ASSUME Accessed, y.subtype = "valid", NEW j \in 1..n, own[j] = REHASH
                 PROVE  ~Old(y.kv[j].key, gc.from) /\ Survives(y.kv[j].value, gc.from, d.moved)
      OBVIOUS
    <3>1. ~Old(x.kv[j].key, gc.from) /\ Survives(x.kv[j].value, gc.from, c.moved)
      BY <2>3, <2>10 DEF Agrees, Reworded
    <3>2. Survives(y.kv[j].value, gc.from, d.moved)
      BY <2>3, <2>4, <2>5, <3>1 DEF Survives, Old, Reworded
    <3>3. QED
      BY <2>8, <3>1, <3>2
  <2>13. Agrees(n, m, y, d.moved, own, gc.from, gc.to, place, live)
    <3>1. Whole(n, m, y, own) /\ d.moved \subseteq gc.from
      BY <1>1, <2>3, <2>5 DEF Reworded
    <3>2. y.subtype = "normal" => FullOf(n, y) = {}
      BY <2>3, <2>10 DEF Agrees, Reworded
    <3>3. Accessed => Distinct(n, y) /\ Alive(n, y, live)
      BY <2>3, <2>10 DEF Agrees, Reworded
    <3>4. QED
      BY <2>7, <2>11, <2>12, <3>1, <3>2, <3>3 DEF Agrees
  <2>14. GcOK(n, m, d, own)
    BY <2>5, <2>6, <2>13 DEF GcOK
  <2>15. /\ OnlySlot(n, c, d, i) /\ d.t.kv[i].key = x.kv[i].key /\ d.t.kv[i].value.o = w.o
         /\ ~InFrom(c, d.t.kv[i].value) /\ d.t.index = x.index /\ d.t.length = m
    BY <1>1, <2>3, <2>4, <2>5 DEF Reworded, OnlySlot, InFrom
  <2>16. QED
    BY <2>14, <2>15 DEF d
<1>4. QED
  BY <1>2, <1>3

UpKey(e) == [key |-> [e.key EXCEPT !.up = TRUE], value |-> e.value]

\* An entry with its key forwarded.
LEMMA UpKeyIs ==
  ASSUME NEW e \in Entry
  PROVE  /\ [e EXCEPT !.key.up = TRUE] = UpKey(e) /\ UpKey(e) \in Entry /\ SameObjects(e, UpKey(e))
         /\ UpKey(e).key.up /\ UpKey(e).value = e.value
<1> DEFINE r == [e.key EXCEPT !.up = TRUE]
<1>1. e.key \in Words /\ e.value \in Words
  BY DEF Entry
<1>2. r \in Words /\ r.o = e.key.o /\ r.up
  BY <1>1, UpIs
<1>3. [e EXCEPT !.key.up = TRUE] = UpKey(e)
  BY UpEntryIs, Zenon DEF UpKey
<1>4. UpKey(e) = [key |-> r, value |-> e.value]
  BY DEF UpKey
<1> HIDE DEF r
<1>5. UpKey(e) \in Entry /\ SameObjects(e, UpKey(e)) /\ UpKey(e).key.up /\ UpKey(e).value = e.value
  BY <1>1, <1>2, <1>4 DEF Entry, SameObjects
<1>6. QED
  BY <1>3, <1>5

\* y is x with the key of slot i forwarded; only slot i may have changed its list.
KeyMoves(n, m, x, own, i, y, own2) ==
  /\ Whole(n, m, y, own2) /\ y.subtype = x.subtype /\ y.kv[i] = UpKey(x.kv[i])
  /\ \A j \in 1..n : j # i => y.kv[j] = x.kv[j] /\ own2[j] = own[j]

\* Slot i is on the chain of its new address, or on the list of those to be rehashed.
Rehomed(m, c, i, y, own2, moved) ==
  Accessed /\ y.subtype = "valid" =>
    \/ own2[i] = Addr(y.kv[i].key, gc.to, place) % m
    \/ own2[i] = REHASH /\ Survives(c.t.kv[i].value, gc.from, moved)

Becomes(c, i, y, d) == d = [t |-> y, moved |-> c.moved \union {c.t.kv[i].key.o}]

\* Forwarding the key is sound when the slot then is on a chain or list for it.
LEMMA KeyUp ==
  ASSUME Collecting, NEW n \in Nat, NEW m \in Nat \ {0}, NEW c, NEW own, GcOK(n, m, c, own), NEW i \in 1..n,
         InFrom(c, c.t.kv[i].key), NEW y, NEW own2, KeyMoves(n, m, c.t, own, i, y, own2),
         NEW d, Becomes(c, i, y, d),
         Rehomed(m, c, i, y, own2, d.moved)
  PROVE  /\ GcOK(n, m, d, own2) /\ OnlySlot(n, c, d, i) /\ ~InFrom(c, d.t.kv[i].key)
         /\ d.t.kv[i].value = c.t.kv[i].value
<1> DEFINE x == c.t
           w == x.kv[i].key
<1>1. /\ Whole(n, m, x, own) /\ x.kv[i] \in Entry /\ c.moved \subseteq gc.from /\ Forwarded(n, x, c.moved)
      /\ \A j \in 1..n : x.kv[j] \in Entry
  BY GcIs
<1>2. /\ y.kv[i].key.o = w.o /\ y.kv[i].value = x.kv[i].value /\ y.kv[i].key.up
      /\ \A j \in 1..n : j # i => y.kv[j] = x.kv[j] /\ own2[j] = own[j]
  BY <1>1, UpKeyIs DEF KeyMoves, SameObjects
<1>3. d.t = y /\ d.moved = c.moved \union {w.o} /\ w.o \in gc.from /\ y \in Tables(n, m) /\ y.subtype = x.subtype
  BY WholeIs DEF InFrom, KeyMoves, Becomes
<1>4. d \in Colls(n, m)
  BY <1>1, <1>3 DEF Colls, Becomes
<1>5. Agrees(n, m, x, c.moved, own, gc.from, gc.to, place, live)
  BY DEF GcOK
<1> HIDE DEF x, w
<1>6. Forwarded(n, y, d.moved)
  BY <1>1, <1>2, <1>3 DEF Forwarded
<1>7. \A j \in 1..n : /\ y.kv[j].key.o = x.kv[j].key.o /\ y.kv[j].value = x.kv[j].value
                      /\ (IsFree(y.kv[j]) <=> IsFree(x.kv[j]))
  BY <1>2 DEF IsFree, w
<1>8. FullOf(n, y) = FullOf(n, x) /\ \A j \in FullOf(n, x) : j \in 1..n
  BY <1>7 DEF FullOf
<1>9. Accessed => Distinct(n, y) /\ Alive(n, y, live)
  BY <1>5, <1>7, <1>8 DEF Agrees, Distinct, Alive
<1>10. y.subtype = "normal" => FullOf(n, y) = {}
  BY <1>3, <1>5, <1>8 DEF Agrees
<1>11. ASSUME Accessed, y.subtype = "valid", NEW j \in FullOf(n, y)
       PROVE  own2[j] = Addr(y.kv[j].key, gc.to, place) % m \/ own2[j] = REHASH
  <2>1. CASE j = i
    BY <1>11, <2>1 DEF Rehomed
  <2>2. CASE j # i
    BY <1>2, <1>3, <1>5, <1>8, <1>11, <2>2 DEF Agrees
  <2>3. QED
    BY <2>1, <2>2
<1>12. ASSUME Accessed, y.subtype = "valid", NEW j \in 1..n, own2[j] = REHASH
       PROVE  ~Old(y.kv[j].key, gc.from) /\ Survives(y.kv[j].value, gc.from, d.moved)
  <2>1. CASE j = i
    <3>1. ~Old(y.kv[i].key, gc.from)
      BY <1>2 DEF Old
    <3>2. y.kv[i].value = c.t.kv[i].value
      BY <1>7 DEF x
    <3>3. CASE Survives(c.t.kv[i].value, gc.from, d.moved)
      BY <1>12, <2>1, <3>1, <3>2, <3>3
    <3>4. CASE own2[i] = Addr(y.kv[i].key, gc.to, place) % m
      <4>1. own2[i] \in 0..m - 1
        <5> DEFINE e == y.kv[i].key
        <5>1. e.up /\ e.o \in gc.from
          BY <1>2, <1>3
        <5>2. gc.to[e.o] \in Nat
          BY <5>1, TableAssumption DEF Collecting
        <5> HIDE DEF e
        <5>3. Hash(e.o, gc.to) % m \in 0..m - 1
          BY <5>2, HashIs
        <5>4. Addr(e, gc.to, place) = Hash(e.o, gc.to)
          BY <5>1 DEF Addr
        <5>5. QED
          BY <3>4, <5>3, <5>4 DEF e
      <4>2. QED
        BY <1>12, <2>1, <4>1, IdsAre
    <3>5. QED
      BY <1>12, <3>3, <3>4 DEF Rehomed
  <2>2. CASE j # i
    <3>1. own[j] = REHASH
      BY <1>2, <1>12, <2>2
    <3>2. ~Old(x.kv[j].key, gc.from) /\ Survives(x.kv[j].value, gc.from, c.moved)
      BY <1>3, <1>5, <1>12, <3>1 DEF Agrees
    <3>3. QED
      BY <1>2, <1>3, <2>2, <3>2 DEF Survives
  <2>3. QED
    BY <2>1, <2>2
<1>13. Whole(n, m, y, own2) /\ d.moved \subseteq gc.from
  BY <1>1, <1>3 DEF KeyMoves
<1>14. Agrees(n, m, y, d.moved, own2, gc.from, gc.to, place, live)
  BY <1>6, <1>9, <1>10, <1>11, <1>12, <1>13 DEF Agrees
<1>15. GcOK(n, m, d, own2)
  BY <1>3, <1>4, <1>14 DEF GcOK
<1>16. OnlySlot(n, c, d, i) /\ ~InFrom(c, d.t.kv[i].key) /\ d.t.kv[i].value = c.t.kv[i].value
  BY <1>2, <1>3 DEF OnlySlot, InFrom, x
<1>17. QED
  BY <1>15, <1>16

\* The new word of a key, before its chain is looked at.
LEMMA KeyWordIs ==
  ASSUME Collecting, NEW n \in Nat, NEW m \in Nat \ {0}, NEW c, NEW own, GcOK(n, m, c, own), NEW i \in 1..n,
         InFrom(c, c.t.kv[i].key)
  PROVE  \E y : /\ ScavengeKey(c, i) = [t |-> y, moved |-> c.moved \union {c.t.kv[i].key.o}]
                /\ KeyMoves(n, m, c.t, own, i, y, own) /\ y.length = m /\ y.index = c.t.index
<1> DEFINE x == c.t
           e == UpKey(x.kv[i])
           y == Reword(x, i, e)
<1>1. Whole(n, m, x, own) /\ x \in Tables(n, m) /\ x.kv[i] \in Entry /\ x.kv \in [1..n -> Entry] /\ x.length = m
  BY GcIs
<1>2. e \in Entry /\ SameObjects(x.kv[i], e) /\ [x.kv[i] EXCEPT !.key.up = TRUE] = e
  BY <1>1, UpKeyIs
<1> HIDE DEF e
<1>3. [x EXCEPT !.kv[i].key.up = TRUE] = y
  BY <1>1, <1>2 DEF Tables, Reword
<1>4. Reworded(n, m, x, own, i, e, y)
  BY <1>1, <1>2, RewordIs
<1> HIDE DEF y
<1>5. ScavengeKey(c, i) = [t |-> y, moved |-> c.moved \union {c.t.kv[i].key.o}]
  BY <1>3 DEF ScavengeKey
<1>6. KeyMoves(n, m, x, own, i, y, own) /\ y.length = m /\ y.index = x.index
  BY <1>1, <1>4 DEF KeyMoves, Reworded, e
<1>7. QED
  BY <1>5, <1>6

\* The key of a slot of a table that is empty or must be rehashed.
LEMMA KeyIs ==
  ASSUME Collecting, NEW n \in Nat, NEW m \in Nat \ {0}, NEW c, NEW own, GcOK(n, m, c, own), NEW i \in 1..n,
         c.t.subtype # "valid"
  PROVE  /\ GcOK(n, m, ScavengeKey(c, i), own) /\ OnlySlot(n, c, ScavengeKey(c, i), i)
         /\ ~InFrom(c, ScavengeKey(c, i).t.kv[i].key)
         /\ ScavengeKey(c, i).t.kv[i].value = c.t.kv[i].value
<1>1. CASE ~InFrom(c, c.t.kv[i].key)
  <2>1. ScavengeKey(c, i) = c
    BY <1>1 DEF ScavengeKey
  <2>2. QED
    BY <1>1, <2>1 DEF OnlySlot
<1>2. CASE InFrom(c, c.t.kv[i].key)
  <2>1. PICK y : /\ ScavengeKey(c, i) = [t |-> y, moved |-> c.moved \union {c.t.kv[i].key.o}]
                 /\ KeyMoves(n, m, c.t, own, i, y, own)
    BY <1>2, KeyWordIs
  <2>2. y.subtype # "valid"
    BY <2>1 DEF KeyMoves
  <2>3. QED
    <3>1. Becomes(c, i, y, ScavengeKey(c, i)) /\ Rehomed(m, c, i, y, own, ScavengeKey(c, i).moved)
      BY <2>1, <2>2 DEF Becomes, Rehomed
    <3>2. KeyMoves(n, m, c.t, own, i, y, own)
      BY <2>1
    <3>3. QED
      BY <1>2, <3>1, <3>2, KeyUp
<1>3. QED
  BY <1>1, <1>2

\* A slot whose key moved goes to the rehash list when its chain is another one.
LEMMA KeyRecorded ==
  ASSUME Collecting, NEW n \in Nat, NEW m \in Nat \ {0}, NEW c, NEW own, GcOK(n, m, c, own), NEW i \in 1..n,
         c.t.subtype = "valid", Accessed => Survives(c.t.kv[i].value, gc.from, c.moved)
  PROVE  LET d == maybe_record_for_rehashing(c, ScavengeKey(c, i), i)
         IN  /\ \E own2 : GcOK(n, m, d, own2)
             /\ OnlySlot(n, c, d, i) /\ ~InFrom(c, d.t.kv[i].key) /\ d.t.kv[i].value = c.t.kv[i].value
<1> DEFINE x == c.t
           w == x.kv[i].key
           c2 == ScavengeKey(c, i)
           b == BucketOf(c, i)
           d == maybe_record_for_rehashing(c, c2, i)
<1>1. CASE ~InFrom(c, w)
  <2>1. c2 = c
    BY <1>1 DEF ScavengeKey
  <2>2. d = c
    BY <2>1 DEF maybe_record_for_rehashing
  <2>3. QED
    BY <1>1, <2>2 DEF OnlySlot
<1>2. CASE InFrom(c, w)
  <2>1. PICK y : /\ c2 = [t |-> y, moved |-> c.moved \union {w.o}]
                 /\ KeyMoves(n, m, x, own, i, y, own) /\ y.length = m /\ y.index = x.index
    BY <1>2, KeyWordIs
  <2>2. /\ Whole(n, m, x, own) /\ x.kv[i] \in Entry /\ x.length = m /\ own \in [1..n -> Ids(m) \union {NONE}]
        /\ b \in 0..m - 1 /\ b = Addr(w, gc.to, place) % m /\ c.moved \subseteq gc.from /\ Owned(n, m, x, own)
    BY GcIs
  <2>3. c2.t = y /\ c2.moved = c.moved \union {w.o} /\ Whole(n, m, y, own) /\ y.subtype = "valid" /\ w.o \in gc.from
    BY <1>2, <2>1 DEF KeyMoves, InFrom
  <2>4. i \in FullOf(n, x)
    BY <2>3, TableAssumption DEF FullOf, IsFree, Collecting
  <2>5. ~IsFree(x.kv[i])
    BY <2>4 DEF FullOf
  <2>6. Accessed => own[i] = b \/ own[i] = REHASH
    BY <2>2, <2>4 DEF GcOK, Agrees
  <2>7. BucketOf(c2, i) = Addr(y.kv[i].key, gc.to, place) % m
    BY <2>1, <2>3 DEF BucketOf, Address, Addr
  <2>8. Accessed => Survives(x.kv[i].value, gc.from, c2.moved)
    BY <2>3 DEF Survives
  <2> DEFINE z == record_for_rehashing(y, b, i)
  <2>9. CASE b = BucketOf(c2, i) \/ x.index[b] = 0 \/ own[i] # b
    <3>1. Accessed => own[i] = Addr(y.kv[i].key, gc.to, place) % m \/ own[i] = REHASH
      <4>1. own[i] = b => x.index[b] # 0
        BY <2>2, OnList
      <4>2. QED
        BY <2>6, <2>7, <2>9, <4>1
    <3>2. d = c2
      <4>1. CASE b = BucketOf(c2, i) \/ x.index[b] = 0
        <5>1. ~(b # BucketOf(c2, i) /\ x.index[b] # 0 /\ ~IsFree(x.kv[i]))
          BY <4>1
        <5> HIDE DEF c2
        <5>2. QED
          BY <5>1 DEF maybe_record_for_rehashing
      <4>2. CASE own[i] # b
        <5>2. z = y
          <6>1. ~On(own, i, b)
            BY <4>2 DEF On
          <6>2. QED
            BY <2>2, <2>3, <6>1, RecordedIs
        <5> HIDE DEF z, c2
        <5>3. [c2 EXCEPT !.t = z] = c2
          BY <2>1, <5>2
        <5>4. QED
          BY <2>3, <5>3 DEF maybe_record_for_rehashing, z
      <4>3. QED
        BY <2>9, <4>1, <4>2
    <3>3. Accessed => own[i] # REHASH
      BY <1>2, <2>3 DEF GcOK, Agrees, Old, InFrom
    <3> HIDE DEF d, c2
    <3>4. GcOK(n, m, c2, own) /\ OnlySlot(n, c, c2, i) /\ ~InFrom(c, c2.t.kv[i].key)
          /\ c2.t.kv[i].value = c.t.kv[i].value
      <4>1. Rehomed(m, c, i, y, own, c2.moved)
        BY <2>8, <3>1, <3>3 DEF Rehomed
      <4>2. Becomes(c, i, y, c2)
        BY <2>1 DEF Becomes
      <4>3. KeyMoves(n, m, c.t, own, i, y, own)
        BY <2>1
      <4>4. QED
        BY <1>2, <4>1, <4>2, <4>3, KeyUp
    <3>5. QED
      BY <3>2, <3>4 DEF d, c2
  <2>10. CASE b # BucketOf(c2, i) /\ x.index[b] # 0 /\ own[i] = b
    <3>1. On(own, i, b)
      BY <2>10 DEF On
    <3>2. PICK own2 : Recorded(n, m, y, i, own, z, own2)
      BY <2>2, <2>3, <3>1, RecordedIs
    <3>3. d = [t |-> z, moved |-> c.moved \union {w.o}]
      <4>1. d = [c2 EXCEPT !.t = record_for_rehashing(c2.t, b, i)]
        BY <2>5, <2>10 DEF maybe_record_for_rehashing
      <4> HIDE DEF c2, d
      <4>2. QED
        BY <2>1, <2>3, <4>1
    <3> HIDE DEF z, d
    <3>4. own2[i] = REHASH
      BY <3>2 DEF Recorded
    <3>5. KeyMoves(n, m, x, own, i, z, own2)
      BY <2>1, <3>2 DEF KeyMoves, Recorded
    <3>6. d.moved = c2.moved
      BY <2>3, <3>3
    <3>7. Rehomed(m, c, i, z, own2, d.moved)
      BY <2>8, <3>4, <3>6 DEF Rehomed
    <3> HIDE DEF c2, b
    <3>8. GcOK(n, m, d, own2) /\ OnlySlot(n, c, d, i) /\ ~InFrom(c, d.t.kv[i].key)
          /\ d.t.kv[i].value = c.t.kv[i].value
      <4>1. Becomes(c, i, z, d)
        BY <3>3 DEF Becomes
      <4>2. QED
        BY <1>2, <3>5, <3>7, <4>1, KeyUp
    <3>9. QED
      BY <3>8 DEF d, c2
  <2>11. QED
    BY <2>9, <2>10
<1>3. QED
  BY <1>1, <1>2

\* The two words of a slot are scavenged in any order.
UpValue(e) == [key |-> e.key, value |-> [e.value EXCEPT !.up = TRUE]]

\* An entry with its value forwarded.
LEMMA UpValueIs ==
  ASSUME NEW e \in Entry
  PROVE  /\ [e EXCEPT !.value.up = TRUE] = UpValue(e) /\ UpValue(e) \in Entry /\ SameObjects(e, UpValue(e))
         /\ UpValue(e).value.up /\ UpValue(e).key = e.key
<1> DEFINE r == [e.value EXCEPT !.up = TRUE]
<1>1. e.key \in Words /\ e.value \in Words
  BY DEF Entry
<1>2. r \in Words /\ r.o = e.value.o /\ r.up
  BY <1>1, UpIs
<1>3. [e EXCEPT !.value.up = TRUE] = UpValue(e)
  BY UpEntryIs, Zenon DEF UpValue
<1>4. UpValue(e) = [key |-> e.key, value |-> r]
  BY DEF UpValue
<1> HIDE DEF r
<1>5. UpValue(e) \in Entry /\ SameObjects(e, UpValue(e)) /\ UpValue(e).value.up /\ UpValue(e).key = e.key
  BY <1>1, <1>2, <1>4 DEF Entry, SameObjects
<1>6. QED
  BY <1>3, <1>5

\* Both words forwarded, in either order.
LEMMA UpBothIs ==
  ASSUME NEW e \in Entry
  PROVE  UpKey(UpValue(e)) = UpValue(UpKey(e))
<1> DEFINE k == [e.key EXCEPT !.up = TRUE]
           v == [e.value EXCEPT !.up = TRUE]
<1>1. UpKey(e) = [key |-> k, value |-> e.value] /\ UpValue(e) = [key |-> e.key, value |-> v]
  BY DEF UpKey, UpValue
<1>2. UpKey(e).key = k /\ UpKey(e).value = e.value /\ UpValue(e).key = e.key /\ UpValue(e).value = v
  BY <1>1
<1>3. UpKey(UpValue(e)) = [key |-> k, value |-> v]
  BY <1>2 DEF UpKey
<1>4. UpValue(UpKey(e)) = [key |-> k, value |-> v]
  BY <1>2 DEF UpValue
<1>5. QED
  BY <1>3, <1>4

\* The last word written stays.
LEMMA RewordTwice ==
  ASSUME NEW n, NEW m, NEW x \in Tables(n, m), NEW i \in 1..n, NEW e, NEW e2
  PROVE  Reword(Reword(x, i, e), i, e2) = Reword(x, i, e2) /\ Reword(x, i, e).kv[i] = e
<1>1. Reword(x, i, e).kv = [x.kv EXCEPT ![i] = e]
  BY DEF Reword, Tables
<1>2. [[x.kv EXCEPT ![i] = e] EXCEPT ![i] = e2] = [x.kv EXCEPT ![i] = e2] /\ [x.kv EXCEPT ![i] = e][i] = e
  BY DEF Tables
<1> DEFINE k1 == [x.kv EXCEPT ![i] = e]
           k2 == [x.kv EXCEPT ![i] = e2]
<1> HIDE DEF k1, k2
<1>3. [[x EXCEPT !.kv = k1] EXCEPT !.kv = k2] = [x EXCEPT !.kv = k2]
  BY DEF Tables
<1>4. Reword(x, i, e) = [x EXCEPT !.kv = k1] /\ Reword(x, i, e2) = [x EXCEPT !.kv = k2]
  BY DEF Reword, k1, k2
<1>5. Reword(Reword(x, i, e), i, e2) = [Reword(x, i, e) EXCEPT !.kv = k2]
  BY <1>1, <1>2 DEF Reword, k2
<1>6. QED
  BY <1>1, <1>2, <1>3, <1>4, <1>5

\* Scavenging a key or a value, as a new entry for the slot.
LEMMA ScavengeIs ==
  ASSUME NEW n, NEW m, NEW c, c.t \in Tables(n, m), NEW i \in 1..n, c = [t |-> c.t, moved |-> c.moved]
  PROVE  /\ ScavengeKey(c, i) =
              IF InFrom(c, c.t.kv[i].key)
              THEN [t |-> Reword(c.t, i, UpKey(c.t.kv[i])), moved |-> c.moved \union {c.t.kv[i].key.o}] ELSE c
         /\ ScavengeValue(c, i) =
              IF InFrom(c, c.t.kv[i].value)
              THEN [t |-> Reword(c.t, i, UpValue(c.t.kv[i])), moved |-> c.moved \union {c.t.kv[i].value.o}] ELSE c
<1> DEFINE x == c.t
           e == x.kv[i]
<1>1. e \in Entry /\ x \in Tables(n, m)
  BY DEF Tables
<1> HIDE DEF x
<1>2. [x EXCEPT !.kv[i].key.up = TRUE] = [x EXCEPT !.kv = [x.kv EXCEPT ![i] = [e EXCEPT !.key.up = TRUE]]]
  BY <1>1 DEF Tables
<1>3. [x EXCEPT !.kv[i].value.up = TRUE] = [x EXCEPT !.kv = [x.kv EXCEPT ![i] = [e EXCEPT !.value.up = TRUE]]]
  BY <1>1 DEF Tables
<1>4. [e EXCEPT !.key.up = TRUE] = UpKey(e) /\ [e EXCEPT !.value.up = TRUE] = UpValue(e)
  BY <1>1, UpKeyIs, UpValueIs
<1>5. [x EXCEPT !.kv[i].key.up = TRUE] = Reword(x, i, UpKey(e))
  BY <1>2, <1>4, Zenon DEF Reword
<1>6. [x EXCEPT !.kv[i].value.up = TRUE] = Reword(x, i, UpValue(e))
  BY <1>3, <1>4, Zenon DEF Reword
<1>7. ScavengeKey(c, i) = IF InFrom(c, e.key) THEN [t |-> Reword(x, i, UpKey(e)), moved |-> c.moved \union {e.key.o}] ELSE c
  BY <1>5, Zenon DEF ScavengeKey, x
<1>8. ScavengeValue(c, i) = IF InFrom(c, e.value) THEN [t |-> Reword(x, i, UpValue(e)), moved |-> c.moved \union {e.value.o}] ELSE c
  BY <1>6, Zenon DEF ScavengeValue, x
<1>9. QED
  BY <1>7, <1>8 DEF x

Held(x, i, e, moved) == [t |-> Reword(x, i, e), moved |-> moved]

\* What scavenging makes of a slot is a function of its entry.
LEMMA HeldIs ==
  ASSUME NEW n, NEW m, NEW x \in Tables(n, m), NEW i \in 1..n, NEW e \in Entry, NEW moved
  PROVE  /\ ScavengeKey(Held(x, i, e, moved), i) =
              IF Old(e.key, gc.from) THEN Held(x, i, UpKey(e), moved \union {e.key.o}) ELSE Held(x, i, e, moved)
         /\ ScavengeValue(Held(x, i, e, moved), i) =
              IF Old(e.value, gc.from) THEN Held(x, i, UpValue(e), moved \union {e.value.o}) ELSE Held(x, i, e, moved)
         /\ Reword(x, i, x.kv[i]) = x
<1> DEFINE d == Held(x, i, e, moved)
<1>1. d.t = Reword(x, i, e) /\ d.moved = moved /\ d = [t |-> d.t, moved |-> d.moved]
  BY DEF Held
<1>2. d.t \in Tables(n, m) /\ d.t.kv[i] = e
  <2>1. [x.kv EXCEPT ![i] = e] \in [1..n -> Entry]
    BY DEF Tables
  <2>2. Reword(x, i, e) \in Tables(n, m)
    BY <2>1 DEF Tables, Reword
  <2>3. QED
    BY <1>1, <2>2, RewordTwice
<1>3. Reword(d.t, i, UpKey(e)) = Reword(x, i, UpKey(e)) /\ Reword(d.t, i, UpValue(e)) = Reword(x, i, UpValue(e))
  BY <1>1, RewordTwice
<1>4. InFrom(d, e.key) = Old(e.key, gc.from) /\ InFrom(d, e.value) = Old(e.value, gc.from)
  BY DEF InFrom, Old
<1> HIDE DEF d
<1>5. ScavengeKey(d, i) = IF Old(e.key, gc.from) THEN [t |-> Reword(x, i, UpKey(e)), moved |-> moved \union {e.key.o}] ELSE d
  <2>1. ScavengeKey(d, i) =
              IF InFrom(d, d.t.kv[i].key)
              THEN [t |-> Reword(d.t, i, UpKey(d.t.kv[i])), moved |-> d.moved \union {d.t.kv[i].key.o}] ELSE d
    BY <1>1, <1>2, ScavengeIs
  <2>2. QED
    BY <1>1, <1>2, <1>3, <1>4, <2>1, Zenon
<1>6. ScavengeValue(d, i) = IF Old(e.value, gc.from) THEN [t |-> Reword(x, i, UpValue(e)), moved |-> moved \union {e.value.o}] ELSE d
  <2>1. ScavengeValue(d, i) =
              IF InFrom(d, d.t.kv[i].value)
              THEN [t |-> Reword(d.t, i, UpValue(d.t.kv[i])), moved |-> d.moved \union {d.t.kv[i].value.o}] ELSE d
    BY <1>1, <1>2, ScavengeIs
  <2>2. QED
    BY <1>1, <1>2, <1>3, <1>4, <2>1, Zenon
<1>7. Reword(x, i, x.kv[i]) = x
  <2>1. [x.kv EXCEPT ![i] = x.kv[i]] = x.kv
    BY DEF Tables
  <2>2. [x EXCEPT !.kv = x.kv] = x
    BY DEF Tables
  <2>3. QED
    BY <2>1, <2>2, Zenon DEF Reword
<1>8. QED
  BY <1>5, <1>6, <1>7, Zenon DEF d, Held

LEMMA EitherOrder ==
  ASSUME Collecting, NEW n \in Nat, NEW m \in Nat \ {0}, NEW c, NEW own, GcOK(n, m, c, own), NEW i \in 1..n
  PROVE  ScavengeValue(ScavengeKey(c, i), i) = ScavengeKey(ScavengeValue(c, i), i)
<1> DEFINE x == c.t
           e == x.kv[i]
           k == e.key.o
           v == e.value.o
<1>1. x \in Tables(n, m) /\ e \in Entry /\ c = [t |-> x, moved |-> c.moved]
  BY GcIs
<1>2. c = Held(x, i, e, c.moved)
  BY <1>1, HeldIs, Zenon DEF Held
<1>3. UpKey(e) \in Entry /\ UpKey(e).value = e.value /\ UpValue(e) \in Entry /\ UpValue(e).key = e.key
      /\ UpKey(UpValue(e)) = UpValue(UpKey(e))
  BY <1>1, UpKeyIs, UpValueIs, UpBothIs
<1> DEFINE M == c.moved
<1>4. (M \union {k}) \union {v} = (M \union {v}) \union {k}
  OBVIOUS
<1> DEFINE ek == UpKey(e)
           ev == UpValue(e)
           O(w) == Old(w, gc.from)
<1>5. /\ ScavengeKey(Held(x, i, e, M), i) = IF O(e.key) THEN Held(x, i, ek, M \union {k}) ELSE Held(x, i, e, M)
      /\ ScavengeValue(Held(x, i, e, M), i) = IF O(e.value) THEN Held(x, i, ev, M \union {v}) ELSE Held(x, i, e, M)
  BY <1>1, HeldIs, Zenon
<1>11. ek \in Entry /\ ev \in Entry
  BY <1>3
<1> HIDE DEF ek, ev, M, x
<1>6. ScavengeValue(Held(x, i, ek, M \union {k}), i) =
        IF O(ek.value) THEN Held(x, i, UpValue(ek), (M \union {k}) \union {ek.value.o}) ELSE Held(x, i, ek, M \union {k})
  BY <1>1, <1>11, HeldIs, Zenon DEF x
<1>7. ScavengeKey(Held(x, i, ev, M \union {v}), i) =
        IF O(ev.key) THEN Held(x, i, UpKey(ev), (M \union {v}) \union {ev.key.o}) ELSE Held(x, i, ev, M \union {v})
  BY <1>1, <1>11, HeldIs, Zenon DEF x
<1>8. ek.value = e.value /\ ev.key = e.key /\ UpKey(ev) = UpValue(ek)
  BY <1>3 DEF ek, ev
<1> HIDE DEF O
<1>9. ScavengeValue(ScavengeKey(c, i), i) = ScavengeKey(ScavengeValue(c, i), i)
  <2>1. c = Held(x, i, e, M)
    BY <1>2 DEF M, x
  <2>2. CASE O(e.key) /\ O(e.value)
    BY <1>4, <1>5, <1>6, <1>7, <1>8, <2>1, <2>2
  <2>3. CASE O(e.key) /\ ~O(e.value)
    BY <1>4, <1>5, <1>6, <1>7, <1>8, <2>1, <2>3
  <2>4. CASE ~O(e.key) /\ O(e.value)
    BY <1>4, <1>5, <1>6, <1>7, <1>8, <2>1, <2>4
  <2>5. CASE ~O(e.key) /\ ~O(e.value)
    BY <1>5, <2>1, <2>5
  <2>6. QED
    BY <2>2, <2>3, <2>4, <2>5
<1>10. QED
  BY <1>9 DEF x

\* An entry that the collector keeps.
LEMMA KeepIs ==
  ASSUME Collecting, NEW n \in Nat, NEW m \in Nat \ {0}, NEW c, NEW own, GcOK(n, m, c, own), NEW i \in 1..n,
         c.t.subtype = "valid"
  PROVE  LET d == maybe_record_for_rehashing(c, ScavengeValue(ScavengeKey(c, i), i), i)
         IN  (\E own2 : GcOK(n, m, d, own2)) /\ OnlySlot(n, c, d, i) /\ Clean(d, i)
<1> DEFINE c1 == ScavengeValue(c, i)
           c2 == ScavengeKey(c1, i)
           d == maybe_record_for_rehashing(c, c2, i)
           d1 == maybe_record_for_rehashing(c1, c2, i)
<1>1. ScavengeValue(ScavengeKey(c, i), i) = c2
  BY EitherOrder
<1>2. /\ GcOK(n, m, c1, own) /\ OnlySlot(n, c, c1, i) /\ c1.t.kv[i].key = c.t.kv[i].key
      /\ c1.t.kv[i].value.o = c.t.kv[i].value.o /\ ~InFrom(c, c1.t.kv[i].value)
      /\ c1.t.index = c.t.index /\ c1.t.length = m
  BY ValueIs
<1>3. c.t.length = m
  BY GcIs
<1> HIDE DEF c1
<1>4. d = d1
  <2>1. BucketOf(c1, i) = BucketOf(c, i)
    BY <1>2, <1>3 DEF BucketOf
  <2>2. IsFree(c1.t.kv[i]) <=> IsFree(c.t.kv[i])
    BY <1>2 DEF IsFree
  <2> HIDE DEF c2
  <2>3. QED
    BY <1>2, <2>1, <2>2, Zenon DEF maybe_record_for_rehashing
<1>5. Survives(c1.t.kv[i].value, gc.from, c1.moved) /\ c1.t.subtype = "valid"
  BY <1>2 DEF Survives, InFrom, Old, OnlySlot
<1>6. /\ \E own2 : GcOK(n, m, d1, own2)
      /\ OnlySlot(n, c1, d1, i) /\ ~InFrom(c1, d1.t.kv[i].key) /\ d1.t.kv[i].value = c1.t.kv[i].value
  BY <1>2, <1>5, KeyRecorded
<1> HIDE DEF d, d1, c2
<1>7. OnlySlot(n, c, d, i)
  BY <1>2, <1>4, <1>6 DEF OnlySlot
<1>8. Clean(d, i)
  BY <1>2, <1>4, <1>6 DEF Clean, InFrom
<1>9. QED
  BY <1>1, <1>4, <1>6, <1>7, <1>8, Zenon DEF d, c2

\* An entry that scav_hash_entries looks at.
ScavEntryDone(n, m, c, i, removep, d) ==
  (\E own2 : GcOK(n, m, d, own2)) /\ OnlySlot(n, c, d, i) /\ (Accessed /\ removep => Clean(d, i))

LEMMA FreedEntry ==
  ASSUME Collecting, NEW n \in Nat, NEW m \in Nat \ {0}, NEW c, NEW own, GcOK(n, m, c, own), NEW i \in 1..n,
         NEW y, NEW own2, Freed(n, m, c.t, i, own, y, own2), NEW d, d = [t |-> y, moved |-> c.moved]
  PROVE  GcOK(n, m, d, own2) /\ OnlySlot(n, c, d, i) /\ Clean(d, i)
<1> DEFINE x == c.t
<1>1. /\ Whole(n, m, x, own) /\ x \in Tables(n, m) /\ x.kv \in [1..n -> Entry] /\ x.length = m
      /\ c.moved \subseteq gc.from /\ Forwarded(n, x, c.moved) /\ own \in [1..n -> Ids(m) \union {NONE}]
  BY GcIs
<1>2. /\ Whole(n, m, y, own2) /\ y \in Tables(n, m) /\ y.subtype = x.subtype
      /\ y.kv[i] = EmptySlot /\ own2[i] = FREE
      /\ \A j \in 1..n : j # i => y.kv[j] = x.kv[j] /\ own2[j] = own[j]
  BY <1>1, WholeIs DEF Freed
<1>3. d.t = y /\ d.moved = c.moved /\ d \in Colls(n, m)
  BY <1>1, <1>2 DEF Colls
<1>4. Agrees(n, m, x, c.moved, own, gc.from, gc.to, place, live)
  BY DEF GcOK
<1> HIDE DEF x
<1>5. EmptySlot.key.o = Empty /\ EmptySlot.value.o = Empty /\ ~EmptySlot.key.up /\ ~EmptySlot.value.up
  BY DEF EmptySlot, Word
<1>6. Forwarded(n, y, c.moved)
  BY <1>1, <1>2, <1>5 DEF Forwarded
<1>7. \A j \in FullOf(n, y) : j \in FullOf(n, x) /\ j \in 1..n /\ j # i
  BY <1>2, WordsAre DEF FullOf
<1>8. Accessed => Distinct(n, y) /\ Alive(n, y, live)
  BY <1>2, <1>4, <1>7 DEF Agrees, Distinct, Alive
<1>9. y.subtype = "normal" => FullOf(n, y) = {}
  BY <1>2, <1>4, <1>7 DEF Agrees
<1>10. Accessed /\ y.subtype = "valid" => \A j \in FullOf(n, y) : own2[j] = Addr(y.kv[j].key, gc.to, place) % m \/ own2[j] = REHASH
  BY <1>2, <1>4, <1>7 DEF Agrees
<1>11. Accessed /\ y.subtype = "valid" => \A j \in 1..n : own2[j] = REHASH =>
            ~Old(y.kv[j].key, gc.from) /\ Survives(y.kv[j].value, gc.from, c.moved)
  BY <1>2, <1>4, IdsAre DEF Agrees
<1>12. GcOK(n, m, d, own2)
  BY <1>1, <1>2, <1>3, <1>6, <1>8, <1>9, <1>10, <1>11 DEF GcOK, Agrees
<1>13. Empty \notin gc.from
  BY TableAssumption DEF Collecting
<1>14. QED
  BY <1>2, <1>3, <1>5, <1>12, <1>13 DEF OnlySlot, Clean, InFrom, x

\* An entry that may be removed has a key or a value that did not survive.
LEMMA RemovableIs ==
  ASSUME weak \in Weakness, NEW c, NEW i, removable(c, i)
  PROVE  ~survives_gc(c, c.t.kv[i].key) \/ ~survives_gc(c, c.t.kv[i].value)
<1> DEFINE listed == c.t.index[BucketOf(c, i)] # 0
           key == ~survives_gc(c, c.t.kv[i].key) /\ listed
           value == ~survives_gc(c, c.t.kv[i].value) /\ listed
<1>1. CASE weak = "key"
  <2>1. key
    BY <1>1, Zenon DEF removable
  <2>2. QED
    BY <2>1
<1>2. CASE weak = "value"
  <2>1. value
    BY <1>2, Zenon DEF removable
  <2>2. QED
    BY <2>1
<1>3. CASE weak = "key-and-value"
  <2>1. key \/ value
    BY <1>3, Zenon DEF removable
  <2>2. QED
    BY <2>1
<1>4. CASE weak = "key-or-value"
  <2>1. key /\ value
    BY <1>4, Zenon DEF removable
  <2>2. QED
    BY <2>1
<1>5. QED
  BY <1>1, <1>2, <1>3, <1>4 DEF Weakness

\* scav_hash_entries on one slot.
LEMMA ScavEntryIs ==
  ASSUME Collecting, NEW n \in Nat, NEW m \in Nat \ {0}, NEW c, NEW own, GcOK(n, m, c, own), NEW i \in 1..n,
         c.t.subtype = "valid", NEW removep
  PROVE  ScavEntryDone(n, m, c, i, removep, ScavEntry(c, i, removep))
<1> DEFINE x == c.t
           b == BucketOf(c, i)
           d == ScavEntry(c, i, removep)
<1>1. /\ Whole(n, m, x, own) /\ Owned(n, m, x, own) /\ x \in Tables(n, m) /\ c = [t |-> c.t, moved |-> c.moved]
      /\ b \in 0..m - 1 /\ b = Addr(x.kv[i].key, gc.to, place) % m
  BY GcIs
<1>6. Agrees(n, m, x, c.moved, own, gc.from, gc.to, place, live)
  BY DEF GcOK
<1>2. CASE ~removable(c, i)
  <2>1. d = maybe_record_for_rehashing(c, ScavengeValue(ScavengeKey(c, i), i), i)
    BY <1>2, Zenon DEF ScavEntry
  <2>2. (\E own2 : GcOK(n, m, d, own2)) /\ OnlySlot(n, c, d, i) /\ Clean(d, i)
    BY <2>1, KeepIs
  <2> HIDE DEF d
  <2>3. QED
    BY <2>2 DEF ScavEntryDone, d
<1>3. CASE removable(c, i) /\ ~removep
  <2>1. d = c
    BY <1>3, Zenon DEF ScavEntry
  <2>2. QED
    BY <1>3, <2>1 DEF ScavEntryDone, OnlySlot
<1>4. CASE removable(c, i) /\ removep
  <2> DEFINE y == free_hash_entry(x, b, i)
  <2>1. d = [c EXCEPT !.t = y]
    BY <1>4, Zenon DEF ScavEntry
  <2>2. OnChain(x, b, i) <=> own[i] = b
    BY <1>1, OnList
  <2>3. CASE On(own, i, b)
    <3>1. y = Release(Unlink(x, b, i), i)
      BY <2>2, <2>3 DEF free_hash_entry, On
    <3>2. PICK own2 : Freed(n, m, x, i, own, Release(Unlink(x, b, i), i), own2)
      BY <1>1, <2>3, FreedIs
    <3> HIDE DEF y
    <3>3. d = [t |-> y, moved |-> c.moved]
      BY <1>1, <2>1
    <3>4. Freed(n, m, c.t, i, own, y, own2)
      BY <3>1, <3>2
    <3> HIDE DEF d
    <3>5. GcOK(n, m, d, own2) /\ OnlySlot(n, c, d, i) /\ Clean(d, i)
      BY <3>3, <3>4, FreedEntry
    <3>6. QED
      BY <3>5 DEF ScavEntryDone, d
  <2>4. CASE ~On(own, i, b)
    <3>1. y = x
      BY <2>2, <2>4 DEF free_hash_entry, On
    <3> HIDE DEF y
    <3>2. d = c
      BY <1>1, <2>1, <3>1
    <3>3. ASSUME Accessed PROVE Clean(c, i)
      <4>1. CASE IsFree(x.kv[i])
        <5>1. Empty \notin gc.from
          BY TableAssumption DEF Collecting
        <5>2. QED
          BY <4>1, <5>1 DEF IsFree, Clean, InFrom
      <4>2. CASE ~IsFree(x.kv[i])
        <5>1. i \in FullOf(n, x)
          BY <4>2 DEF FullOf
        <5>2. own[i] = REHASH
          BY <1>1, <1>6, <2>4, <3>3, <5>1 DEF Agrees, On
        <5>3. ~Old(x.kv[i].key, gc.from) /\ Survives(x.kv[i].value, gc.from, c.moved)
          BY <1>1, <1>6, <3>3, <5>2 DEF Agrees
        <5>4. survives_gc(c, x.kv[i].key) /\ survives_gc(c, x.kv[i].value)
          BY <5>3 DEF survives_gc, InFrom, Survives, Old
        <5>5. QED
          BY <1>4, <5>4, RemovableIs DEF Collecting
      <4>3. QED
        BY <4>1, <4>2
    <3>4. OnlySlot(n, c, c, i)
      BY DEF OnlySlot
    <3> HIDE DEF d
    <3>5. QED
      BY <3>2, <3>3, <3>4 DEF ScavEntryDone, d
  <2>5. QED
    BY <2>3, <2>4
<1>5. QED
  BY <1>2, <1>3, <1>4

\* scav_weak_entries on one slot.
LEMMA ScavWeakEntryIs ==
  ASSUME Collecting, NEW n \in Nat, NEW m \in Nat \ {0}, NEW c, NEW own, GcOK(n, m, c, own), NEW i \in 1..n,
         c.t.subtype = "valid"
  PROVE  (\E own2 : GcOK(n, m, ScavWeakEntry(c, i), own2)) /\ OnlySlot(n, c, ScavWeakEntry(c, i), i)
<1> DEFINE e == c.t.kv[i]
           key == survives_gc(c, e.key) /\ c.t.index[BucketOf(c, i)] # 0
           value == survives_gc(c, e.value)
<1>1. CASE weak \in {"key", "key-or-value"} /\ key /\ ~value
  <2>1. ScavWeakEntry(c, i) = ScavengeValue(c, i)
    BY <1>1, Zenon DEF ScavWeakEntry
  <2>2. QED
    BY <2>1, ValueIs
<1>2. CASE /\ ~(weak \in {"key", "key-or-value"} /\ key /\ ~value)
           /\ weak \in {"value", "key-or-value"} /\ value /\ ~survives_gc(c, e.key)
  <2>1. ScavWeakEntry(c, i) = maybe_record_for_rehashing(c, ScavengeKey(c, i), i)
    BY <1>2, Zenon DEF ScavWeakEntry
  <2>2. Survives(e.value, gc.from, c.moved)
    BY <1>2 DEF survives_gc, Survives, InFrom, Old
  <2>3. QED
    BY <2>1, <2>2, KeyRecorded
<1>3. CASE /\ ~(weak \in {"key", "key-or-value"} /\ key /\ ~value)
           /\ ~(weak \in {"value", "key-or-value"} /\ value /\ ~survives_gc(c, e.key))
  <2>1. ScavWeakEntry(c, i) = c
    BY <1>3, Zenon DEF ScavWeakEntry
  <2>2. QED
    BY <2>1 DEF OnlySlot
<1>4. QED
  BY <1>1, <1>2, <1>3

\* One slot of a table that is empty or must be rehashed.
LEMMA ScavengeSlotIs ==
  ASSUME Collecting, NEW n \in Nat, NEW m \in Nat \ {0}, NEW c, NEW own, GcOK(n, m, c, own), NEW i \in 1..n,
         c.t.subtype # "valid"
  PROVE  LET d == ScavengeValue(ScavengeKey(c, i), i)
         IN  GcOK(n, m, d, own) /\ OnlySlot(n, c, d, i) /\ Clean(d, i)
<1> DEFINE k == ScavengeKey(c, i)
           d == ScavengeValue(k, i)
<1>1. GcOK(n, m, k, own) /\ OnlySlot(n, c, k, i) /\ ~InFrom(c, k.t.kv[i].key)
  BY KeyIs
<1> HIDE DEF k
<1>2. GcOK(n, m, d, own) /\ OnlySlot(n, k, d, i) /\ d.t.kv[i].key = k.t.kv[i].key /\ ~InFrom(k, d.t.kv[i].value)
  BY <1>1, ValueIs
<1> HIDE DEF d
<1>3. OnlySlot(n, c, d, i) /\ Clean(d, i)
  BY <1>1, <1>2 DEF OnlySlot, Clean, InFrom
<1>4. QED
  BY <1>2, <1>3 DEF d, k

-----------------------------------------------------------------------------
(* The loops over the slots: c with the slots s done.                       *)
Scavenged(n, m, st, clean, s) ==
  {c \in Colls(n, m) : c.t.subtype = st /\ (\E own : GcOK(n, m, c, own)) /\ (clean => \A i \in s : Clean(c, i))}

\* One slot more is done, the others stay as they are.
LEMMA SlotDone ==
  ASSUME NEW n, NEW m, NEW st, NEW clean, NEW s \in SUBSET (1..n), NEW i \in s,
         NEW c \in Scavenged(n, m, st, clean, s \ {i}), NEW d, \E own : GcOK(n, m, d, own),
         OnlySlot(n, c, d, i), clean => Clean(d, i)
  PROVE  d \in Scavenged(n, m, st, clean, s)
<1>1. d \in Colls(n, m) /\ d.t.subtype = st
  BY DEF GcOK, OnlySlot, Scavenged
<1>2. ASSUME clean, NEW j \in s PROVE Clean(d, j)
  <2>1. CASE j = i
    BY <1>2, <2>1
  <2>2. CASE j # i
    <3>1. j \in s \ {i} /\ j \in 1..n
      BY <2>2
    <3>2. Clean(c, j)
      BY <1>2, <3>1, Zenon DEF Scavenged
    <3>3. d.t.kv[j] = c.t.kv[j]
      BY <2>2, <3>1 DEF OnlySlot
    <3>4. QED
      BY <3>2, <3>3 DEF Clean, InFrom
  <2>3. QED
    BY <2>1, <2>2
<1>3. QED
  BY <1>1, <1>2 DEF Scavenged

\* scav_hash_entries goes over the slots, and what each step keeps holds at the end.
LEMMA HashEntriesFold ==
  ASSUME NEW n \in Nat, NEW c, Slots(c.t) = 1..n, NEW removep, NEW D, c \in D[{}],
         \A s \in Places(n) : \A y \in D[s \ {Max(s)}] : ScavEntry(y, Max(s), removep) \in D[s]
  PROVE  scav_hash_entries(c, removep) \in D[1..n]
<1> DEFINE seq == [i \in Slots(c.t) |-> i]
           step == [s \in Places(n) |-> [y \in D[s \ {Max(s)}] |-> ScavEntry(y, Max(s), removep)]]
<1>1. DOMAIN seq = 1..n
  OBVIOUS
<1>2. ASSUME NEW s \in Places(n)
      PROVE  Max(s) \in s /\ Max(s) \in 1..n /\ s \in SUBSET (1..n) /\ s \ {Max(s)} \in SUBSET (1..n) /\ s # {}
  BY MaxIs DEF Places
<1>3. ASSUME NEW s \in Places(n), NEW y \in D[s \ {Max(s)}]
      PROVE  ScavEntry(y, Max(s), removep) \in D[s] /\ step[s][y] = ScavEntry(y, Max(s), removep)
  OBVIOUS
<1> HIDE DEF step
<1>4. Folds(n, c, step, D)
  BY <1>3 DEF Folds
<1>5. PICK r : Folded(n, c, step, D, r)
  BY <1>4, FoldExists
<1> DEFINE R == [s \in SUBSET (1..n) |-> r[s]]
<1>6. R = [s \in SUBSET (1..n) |-> IF s = {} THEN c ELSE ScavEntry(R[s \ {Max(s)}], seq[Max(s)], removep)]
  <2>1. ASSUME NEW s \in SUBSET (1..n)
        PROVE  R[s] = IF s = {} THEN c ELSE ScavEntry(R[s \ {Max(s)}], seq[Max(s)], removep)
    <3>1. CASE s = {}
      BY <1>5, <3>1 DEF Folded
    <3>2. CASE s # {}
      <4>1. s \in Places(n)
        BY <3>2 DEF Places
      <4>2. r[s \ {Max(s)}] \in D[s \ {Max(s)}] /\ r[s] = step[s][r[s \ {Max(s)}]]
        BY <1>2, <1>5, <4>1 DEF Folded
      <4>3. R[s] = r[s] /\ R[s \ {Max(s)}] = r[s \ {Max(s)}] /\ seq[Max(s)] = Max(s)
        BY <1>1, <1>2, <4>1
      <4> HIDE DEF R, seq
      <4>4. QED
        BY <1>3, <3>2, <4>1, <4>2, <4>3
    <3>3. QED
      BY <3>1, <3>2
  <2> HIDE DEF seq
  <2>2. R = [s \in SUBSET (1..n) |-> R[s]]
    OBVIOUS
  <2> HIDE DEF R
  <2>3. QED
    BY <2>1, <2>2
<1> HIDE DEF R
<1> DEFINE iter[s \in SUBSET DOMAIN seq] ==
             IF s = {} THEN c ELSE LET k == Max(s) IN ScavEntry(iter[s \ {k}], seq[k], removep)
<1>7. scav_hash_entries(c, removep) = iter[DOMAIN seq]
  BY Zenon DEF FoldLeft, MapThenFoldSet, scav_hash_entries
<1>8. iter = [s \in SUBSET DOMAIN seq |-> IF s = {} THEN c ELSE LET k == Max(s) IN ScavEntry(iter[s \ {k}], seq[k], removep)]
  <2>1. \E q : q = [s \in SUBSET DOMAIN seq |-> IF s = {} THEN c ELSE LET k == Max(s) IN ScavEntry(q[s \ {k}], seq[k], removep)]
    <3> HIDE DEF seq
    <3>1. QED
      BY <1>1, <1>6, Zenon
  <2> HIDE DEF seq
  <2>2. QED
    BY <2>1, Zenon
<1> HIDE DEF iter
<1>9. iter[{}] \in D[{}]
  BY <1>1, <1>8
<1>10. ASSUME NEW s \in Places(n), iter[s \ {Max(s)}] \in D[s \ {Max(s)}]
       PROVE  iter[s] \in D[s]
  <2>1. seq[Max(s)] = Max(s) /\ s \in SUBSET DOMAIN seq /\ s # {}
    BY <1>1, <1>2
  <2> HIDE DEF seq
  <2>2. iter[s] = ScavEntry(iter[s \ {Max(s)}], Max(s), removep)
    BY <1>8, <2>1
  <2>3. QED
    BY <1>3, <1>10, <2>2
<1>11. iter[1..n] \in D[1..n]
  BY <1>9, <1>10, FoldEnds
<1>12. QED
  BY <1>1, <1>7, <1>11

\* scav_hash_entries keeps the lists and the agreement, and leaves no slot to be scavenged.
LEMMA HashEntriesAre ==
  ASSUME Collecting, NEW n \in Nat, NEW m \in Nat \ {0}, NEW c, NEW st, NEW removep, st = "valid",
         c \in Scavenged(n, m, st, Accessed /\ removep, {})
  PROVE  scav_hash_entries(c, removep) \in Scavenged(n, m, st, Accessed /\ removep, 1..n)
<1> DEFINE D == [s \in SUBSET (1..n) |-> Scavenged(n, m, st, Accessed /\ removep, s)]
<1>1. Slots(c.t) = 1..n
  BY DEF Scavenged, Colls, Tables, Slots
<1>2. ASSUME NEW s \in Places(n), NEW y \in D[s \ {Max(s)}]
      PROVE  ScavEntry(y, Max(s), removep) \in D[s]
  <2>1. Max(s) \in s /\ Max(s) \in 1..n /\ s \in SUBSET (1..n) /\ s \ {Max(s)} \in SUBSET (1..n)
    BY MaxIs DEF Places
  <2>2. y \in Scavenged(n, m, st, Accessed /\ removep, s \ {Max(s)}) /\ y.t.subtype = st
    BY <2>1 DEF Scavenged
  <2>3. PICK own : GcOK(n, m, y, own)
    BY <2>2 DEF Scavenged
  <2> DEFINE d == ScavEntry(y, Max(s), removep)
  <2>4. (\E own2 : GcOK(n, m, d, own2)) /\ OnlySlot(n, y, d, Max(s)) /\ (Accessed /\ removep => Clean(d, Max(s)))
    BY <2>1, <2>2, <2>3, ScavEntryIs DEF ScavEntryDone
  <2> HIDE DEF d
  <2>5. d \in Scavenged(n, m, st, Accessed /\ removep, s)
    BY <2>1, <2>2, <2>4, SlotDone
  <2>6. QED
    BY <2>1, <2>5 DEF d
<1>3. c \in D[{}]
  OBVIOUS
<1> HIDE DEF D
<1>4. scav_hash_entries(c, removep) \in D[1..n]
  BY <1>1, <1>2, <1>3, HashEntriesFold
<1>5. QED
  BY <1>4 DEF D

\* The same of scav_weak_entries.
LEMMA WeakEntriesFold ==
  ASSUME NEW n \in Nat, NEW c, Slots(c.t) = 1..n, NEW D, c \in D[{}],
         \A s \in Places(n) : \A y \in D[s \ {Max(s)}] : ScavWeakEntry(y, Max(s)) \in D[s]
  PROVE  scav_weak_entries(c) \in D[1..n]
<1> DEFINE seq == [i \in Slots(c.t) |-> i]
           step == [s \in Places(n) |-> [y \in D[s \ {Max(s)}] |-> ScavWeakEntry(y, Max(s))]]
<1>1. DOMAIN seq = 1..n
  OBVIOUS
<1>2. ASSUME NEW s \in Places(n)
      PROVE  Max(s) \in s /\ Max(s) \in 1..n /\ s \in SUBSET (1..n) /\ s \ {Max(s)} \in SUBSET (1..n) /\ s # {}
  BY MaxIs DEF Places
<1>3. ASSUME NEW s \in Places(n), NEW y \in D[s \ {Max(s)}]
      PROVE  ScavWeakEntry(y, Max(s)) \in D[s] /\ step[s][y] = ScavWeakEntry(y, Max(s))
  OBVIOUS
<1> HIDE DEF step
<1>4. Folds(n, c, step, D)
  BY <1>3 DEF Folds
<1>5. PICK r : Folded(n, c, step, D, r)
  BY <1>4, FoldExists
<1> DEFINE R == [s \in SUBSET (1..n) |-> r[s]]
<1>6. R = [s \in SUBSET (1..n) |-> IF s = {} THEN c ELSE ScavWeakEntry(R[s \ {Max(s)}], seq[Max(s)])]
  <2>1. ASSUME NEW s \in SUBSET (1..n)
        PROVE  R[s] = IF s = {} THEN c ELSE ScavWeakEntry(R[s \ {Max(s)}], seq[Max(s)])
    <3>1. CASE s = {}
      BY <1>5, <3>1 DEF Folded
    <3>2. CASE s # {}
      <4>1. s \in Places(n)
        BY <3>2 DEF Places
      <4>2. r[s \ {Max(s)}] \in D[s \ {Max(s)}] /\ r[s] = step[s][r[s \ {Max(s)}]]
        BY <1>2, <1>5, <4>1 DEF Folded
      <4>3. R[s] = r[s] /\ R[s \ {Max(s)}] = r[s \ {Max(s)}] /\ seq[Max(s)] = Max(s)
        BY <1>1, <1>2, <4>1
      <4> HIDE DEF R, seq
      <4>4. QED
        BY <1>3, <3>2, <4>1, <4>2, <4>3
    <3>3. QED
      BY <3>1, <3>2
  <2> HIDE DEF seq
  <2>2. R = [s \in SUBSET (1..n) |-> R[s]]
    OBVIOUS
  <2> HIDE DEF R
  <2>3. QED
    BY <2>1, <2>2
<1> HIDE DEF R
<1> DEFINE iter[s \in SUBSET DOMAIN seq] ==
             IF s = {} THEN c ELSE LET k == Max(s) IN ScavWeakEntry(iter[s \ {k}], seq[k])
<1>7. scav_weak_entries(c) = iter[DOMAIN seq]
  BY Zenon DEF FoldLeft, MapThenFoldSet, scav_weak_entries
<1>8. iter = [s \in SUBSET DOMAIN seq |-> IF s = {} THEN c ELSE LET k == Max(s) IN ScavWeakEntry(iter[s \ {k}], seq[k])]
  <2>1. \E q : q = [s \in SUBSET DOMAIN seq |-> IF s = {} THEN c ELSE LET k == Max(s) IN ScavWeakEntry(q[s \ {k}], seq[k])]
    <3> HIDE DEF seq
    <3>1. QED
      BY <1>1, <1>6, Zenon
  <2> HIDE DEF seq
  <2>2. QED
    BY <2>1, Zenon
<1> HIDE DEF iter
<1>9. iter[{}] \in D[{}]
  BY <1>1, <1>8
<1>10. ASSUME NEW s \in Places(n), iter[s \ {Max(s)}] \in D[s \ {Max(s)}]
       PROVE  iter[s] \in D[s]
  <2>1. seq[Max(s)] = Max(s) /\ s \in SUBSET DOMAIN seq /\ s # {}
    BY <1>1, <1>2
  <2> HIDE DEF seq
  <2>2. iter[s] = ScavWeakEntry(iter[s \ {Max(s)}], Max(s))
    BY <1>8, <2>1
  <2>3. QED
    BY <1>3, <1>10, <2>2
<1>11. iter[1..n] \in D[1..n]
  BY <1>9, <1>10, FoldEnds
<1>12. QED
  BY <1>1, <1>7, <1>11

\* scav_weak_entries scavenges the slots that are kept so far.
LEMMA WeakEntriesAre ==
  ASSUME Collecting, NEW n \in Nat, NEW m \in Nat \ {0}, NEW c, NEW st, st = "valid",
         c \in Scavenged(n, m, st, FALSE, {})
  PROVE  scav_weak_entries(c) \in Scavenged(n, m, st, FALSE, 1..n)
<1> DEFINE D == [s \in SUBSET (1..n) |-> Scavenged(n, m, st, FALSE, s)]
<1>1. Slots(c.t) = 1..n
  BY DEF Scavenged, Colls, Tables, Slots
<1>2. ASSUME NEW s \in Places(n), NEW y \in D[s \ {Max(s)}]
      PROVE  ScavWeakEntry(y, Max(s)) \in D[s]
  <2>1. Max(s) \in s /\ Max(s) \in 1..n /\ s \in SUBSET (1..n) /\ s \ {Max(s)} \in SUBSET (1..n)
    BY MaxIs DEF Places
  <2>2. y \in Scavenged(n, m, st, FALSE, s \ {Max(s)}) /\ y.t.subtype = st
    BY <2>1 DEF Scavenged
  <2>3. PICK own : GcOK(n, m, y, own)
    BY <2>2 DEF Scavenged
  <2> DEFINE d == ScavWeakEntry(y, Max(s))
  <2>4. (\E own2 : GcOK(n, m, d, own2)) /\ OnlySlot(n, y, d, Max(s)) /\ (FALSE => Clean(d, Max(s)))
    BY <2>1, <2>2, <2>3, ScavWeakEntryIs
  <2> HIDE DEF d
  <2>5. d \in Scavenged(n, m, st, FALSE, s)
    BY <2>1, <2>2, <2>4, SlotDone
  <2>6. QED
    BY <2>1, <2>5 DEF d
<1>3. c \in D[{}]
  OBVIOUS
<1> HIDE DEF D
<1>4. scav_weak_entries(c) \in D[1..n]
  BY <1>1, <1>2, <1>3, WeakEntriesFold
<1>5. QED
  BY <1>4 DEF D

\* The same of the scavenging of an ordinary vector.
LEMMA VectorFold ==
  ASSUME NEW n \in Nat, NEW c, Slots(c.t) = 1..n, NEW D, c \in D[{}],
         \A s \in Places(n) : \A y \in D[s \ {Max(s)}] : ScavengeValue(ScavengeKey(y, Max(s)), Max(s)) \in D[s]
  PROVE  ScavengeVector(c) \in D[1..n]
<1> DEFINE seq == [i \in Slots(c.t) |-> i]
           step == [s \in Places(n) |-> [y \in D[s \ {Max(s)}] |-> ScavengeValue(ScavengeKey(y, Max(s)), Max(s))]]
<1>1. DOMAIN seq = 1..n
  OBVIOUS
<1>2. ASSUME NEW s \in Places(n)
      PROVE  Max(s) \in s /\ Max(s) \in 1..n /\ s \in SUBSET (1..n) /\ s \ {Max(s)} \in SUBSET (1..n) /\ s # {}
  BY MaxIs DEF Places
<1>3. ASSUME NEW s \in Places(n), NEW y \in D[s \ {Max(s)}]
      PROVE  ScavengeValue(ScavengeKey(y, Max(s)), Max(s)) \in D[s] /\ step[s][y] = ScavengeValue(ScavengeKey(y, Max(s)), Max(s))
  OBVIOUS
<1> HIDE DEF step
<1>4. Folds(n, c, step, D)
  BY <1>3 DEF Folds
<1>5. PICK r : Folded(n, c, step, D, r)
  BY <1>4, FoldExists
<1> DEFINE R == [s \in SUBSET (1..n) |-> r[s]]
<1>6. R = [s \in SUBSET (1..n) |-> IF s = {} THEN c ELSE ScavengeValue(ScavengeKey(R[s \ {Max(s)}], seq[Max(s)]), seq[Max(s)])]
  <2>1. ASSUME NEW s \in SUBSET (1..n)
        PROVE  R[s] = IF s = {} THEN c ELSE ScavengeValue(ScavengeKey(R[s \ {Max(s)}], seq[Max(s)]), seq[Max(s)])
    <3>1. CASE s = {}
      BY <1>5, <3>1 DEF Folded
    <3>2. CASE s # {}
      <4>1. s \in Places(n)
        BY <3>2 DEF Places
      <4>2. r[s \ {Max(s)}] \in D[s \ {Max(s)}] /\ r[s] = step[s][r[s \ {Max(s)}]]
        BY <1>2, <1>5, <4>1 DEF Folded
      <4>3. R[s] = r[s] /\ R[s \ {Max(s)}] = r[s \ {Max(s)}] /\ seq[Max(s)] = Max(s)
        BY <1>1, <1>2, <4>1
      <4> HIDE DEF R, seq
      <4>4. QED
        BY <1>3, <3>2, <4>1, <4>2, <4>3
    <3>3. QED
      BY <3>1, <3>2
  <2> HIDE DEF seq
  <2>2. R = [s \in SUBSET (1..n) |-> R[s]]
    OBVIOUS
  <2> HIDE DEF R
  <2>3. QED
    BY <2>1, <2>2
<1> HIDE DEF R
<1> DEFINE iter[s \in SUBSET DOMAIN seq] ==
             IF s = {} THEN c ELSE LET k == Max(s) IN ScavengeValue(ScavengeKey(iter[s \ {k}], seq[k]), seq[k])
<1>7. ScavengeVector(c) = iter[DOMAIN seq]
  BY Zenon DEF FoldLeft, MapThenFoldSet, ScavengeVector
<1>8. iter = [s \in SUBSET DOMAIN seq |-> IF s = {} THEN c ELSE LET k == Max(s) IN ScavengeValue(ScavengeKey(iter[s \ {k}], seq[k]), seq[k])]
  <2>1. \E q : q = [s \in SUBSET DOMAIN seq |-> IF s = {} THEN c ELSE LET k == Max(s) IN ScavengeValue(ScavengeKey(q[s \ {k}], seq[k]), seq[k])]
    <3> HIDE DEF seq
    <3>1. QED
      BY <1>1, <1>6, Zenon
  <2> HIDE DEF seq
  <2>2. QED
    BY <2>1, Zenon
<1> HIDE DEF iter
<1>9. iter[{}] \in D[{}]
  BY <1>1, <1>8
<1>10. ASSUME NEW s \in Places(n), iter[s \ {Max(s)}] \in D[s \ {Max(s)}]
       PROVE  iter[s] \in D[s]
  <2>1. seq[Max(s)] = Max(s) /\ s \in SUBSET DOMAIN seq /\ s # {}
    BY <1>1, <1>2
  <2> HIDE DEF seq
  <2>2. iter[s] = ScavengeValue(ScavengeKey(iter[s \ {Max(s)}], Max(s)), Max(s))
    BY <1>8, <2>1
  <2>3. QED
    BY <1>3, <1>10, <2>2
<1>11. iter[1..n] \in D[1..n]
  BY <1>9, <1>10, FoldEnds
<1>12. QED
  BY <1>1, <1>7, <1>11

\* The vector of a table that is empty or must be rehashed is scavenged slot by slot.
LEMMA VectorIs ==
  ASSUME Collecting, NEW n \in Nat, NEW m \in Nat \ {0}, NEW c, NEW st, st # "valid",
         c \in Scavenged(n, m, st, TRUE, {})
  PROVE  ScavengeVector(c) \in Scavenged(n, m, st, TRUE, 1..n)
<1> DEFINE D == [s \in SUBSET (1..n) |-> Scavenged(n, m, st, TRUE, s)]
<1>1. Slots(c.t) = 1..n
  BY DEF Scavenged, Colls, Tables, Slots
<1>2. ASSUME NEW s \in Places(n), NEW y \in D[s \ {Max(s)}]
      PROVE  ScavengeValue(ScavengeKey(y, Max(s)), Max(s)) \in D[s]
  <2>1. Max(s) \in s /\ Max(s) \in 1..n /\ s \in SUBSET (1..n) /\ s \ {Max(s)} \in SUBSET (1..n)
    BY MaxIs DEF Places
  <2>2. y \in Scavenged(n, m, st, TRUE, s \ {Max(s)}) /\ y.t.subtype = st
    BY <2>1 DEF Scavenged
  <2>3. PICK own : GcOK(n, m, y, own)
    BY <2>2 DEF Scavenged
  <2> DEFINE d == ScavengeValue(ScavengeKey(y, Max(s)), Max(s))
  <2>4. (\E own2 : GcOK(n, m, d, own2)) /\ OnlySlot(n, y, d, Max(s)) /\ (TRUE => Clean(d, Max(s)))
    BY <2>1, <2>2, <2>3, ScavengeSlotIs
  <2> HIDE DEF d
  <2>5. d \in Scavenged(n, m, st, TRUE, s)
    BY <2>1, <2>2, <2>4, SlotDone
  <2>6. QED
    BY <2>1, <2>5 DEF d
<1>3. c \in D[{}]
  OBVIOUS
<1> HIDE DEF D
<1>4. ScavengeVector(c) \in D[1..n]
  BY <1>1, <1>2, <1>3, VectorFold
<1>5. QED
  BY <1>4 DEF D

\* What the passes of scav_weak_entries keep holds when scav_hash_entries starts.
LEMMA SweepFold ==
  ASSUME Collecting, NEW c, NEW D, c \in D[0],
         \A i \in 1..Cardinality(gc.from) : \A y \in D[i - 1] : scav_weak_entries(y) \in D[i]
  PROVE  /\ Cardinality(gc.from) \in Nat
         /\ \E y \in D[Cardinality(gc.from)] : scav_weak_tables(c) = scav_hash_entries(y, FALSE)
<1> DEFINE k == Cardinality(gc.from)
           step == [i \in 1..k |-> [y \in D[i - 1] |-> scav_weak_entries(y)]]
<1>1. k \in Nat
  <2>1. gc.from \subseteq Object /\ IsFiniteSet(Object)
    BY TableAssumption DEF Collecting
  <2>2. IsFiniteSet(gc.from)
    BY <2>1, FS_Subset
  <2>3. QED
    BY <2>2, FS_CardinalityType
<1>2. ASSUME NEW i \in 1..k, NEW y \in D[i - 1] PROVE step[i][y] = scav_weak_entries(y) /\ step[i][y] \in D[i]
  OBVIOUS
<1> HIDE DEF step, k
<1>3. Loops(k, c, step, D)
  BY <1>2 DEF Loops
<1>4. \E r : Looped(k, c, step, D, r)
  BY <1>1, <1>3, LoopExists
<1>5. PICK r : Looped(k, c, step, D, r)
  BY <1>4
<1> DEFINE R == [i \in 0..k |-> r[i]]
<1>6. R = [i \in 0..k |-> IF i = 0 THEN c ELSE scav_weak_entries(R[i-1])]
  <2>1. ASSUME NEW i \in 0..k PROVE R[i] = IF i = 0 THEN c ELSE scav_weak_entries(R[i-1])
    <3>1. CASE i = 0
      BY <1>5, <3>1 DEF Looped
    <3>2. CASE i # 0
      <4>1. i \in 1..k /\ i - 1 \in 0..k
        BY <1>1, <3>2
      <4>2. r[i] = step[i][r[i - 1]] /\ r[i - 1] \in D[i - 1] /\ R[i - 1] = r[i - 1] /\ R[i] = r[i]
        BY <1>5, <4>1 DEF Looped
      <4> HIDE DEF R
      <4>3. QED
        BY <1>2, <3>2, <4>1, <4>2
    <3>3. QED
      BY <3>1, <3>2
  <2>2. R = [i \in 0..k |-> R[i]]
    OBVIOUS
  <2> HIDE DEF R
  <2>3. QED
    BY <2>1, <2>2
<1> HIDE DEF R
<1> DEFINE sweep[i \in 0..Cardinality(gc.from)] == IF i = 0 THEN c ELSE scav_weak_entries(sweep[i-1])
<1>7. scav_weak_tables(c) = scav_hash_entries(sweep[Cardinality(gc.from)], FALSE)
  BY Zenon DEF scav_weak_tables
<1>8. sweep = [i \in 0..k |-> IF i = 0 THEN c ELSE scav_weak_entries(sweep[i-1])]
  <2>1. \E q : q = [i \in 0..k |-> IF i = 0 THEN c ELSE scav_weak_entries(q[i-1])]
    BY <1>6, Zenon
  <2>2. QED
    BY <2>1, Zenon DEF k
<1> HIDE DEF sweep
<1>9. sweep[0] = c /\ \A i \in 1..k : sweep[i] = scav_weak_entries(sweep[i - 1])
  BY <1>1, <1>8
<1>10. sweep[0] \in D[0] /\ \A i \in 1..k : sweep[i - 1] \in D[i - 1] => sweep[i] \in D[i]
  BY <1>2, <1>9
<1>11. sweep[k] \in D[k]
  BY <1>1, <1>10, LoopEnds
<1>12. QED
  BY <1>1, <1>7, <1>11 DEF k

\* The passes over the weak table keep the lists and the agreement.
LEMMA SweepIs ==
  ASSUME Collecting, NEW n \in Nat, NEW m \in Nat \ {0}, NEW c, c \in Scavenged(n, m, "valid", FALSE, {})
  PROVE  scav_weak_tables(c) \in Scavenged(n, m, "valid", FALSE, {})
<1> DEFINE k == Cardinality(gc.from)
           S == Scavenged(n, m, "valid", FALSE, {})
           D == [i \in 0..k |-> S]
<1>1. ASSUME NEW y \in S PROVE scav_weak_entries(y) \in S
  <2>1. scav_weak_entries(y) \in Scavenged(n, m, "valid", FALSE, 1..n)
    BY WeakEntriesAre
  <2>2. QED
    BY <2>1 DEF Scavenged
<1> HIDE DEF S
<1>2. k \in Nat
  <2>1. IsFiniteSet(gc.from)
    BY TableAssumption, FS_Subset DEF Collecting
  <2>2. QED
    BY <2>1, FS_CardinalityType
<1>3. c \in D[0] /\ \A i \in 1..k : \A y \in D[i - 1] : scav_weak_entries(y) \in D[i]
  <2> HIDE DEF k
  <2>1. c \in S
    BY DEF S
  <2>2. ASSUME NEW i \in 1..k PROVE i \in 0..k /\ i - 1 \in 0..k
    BY <1>2
  <2>3. QED
    BY <1>1, <1>2, <2>1, <2>2
<1> HIDE DEF D
<1>4. \E y \in D[k] : scav_weak_tables(c) = scav_hash_entries(y, FALSE)
  BY <1>3, SweepFold DEF k
<1>5. D[k] = S
  <2> HIDE DEF k
  <2>1. QED
    BY <1>2 DEF D
<1>6. PICK y \in S : scav_weak_tables(c) = scav_hash_entries(y, FALSE)
  BY <1>4, <1>5
<1>7. y \in Scavenged(n, m, "valid", Accessed /\ FALSE, {})
  BY DEF S, Scavenged
<1>8. scav_hash_entries(y, FALSE) \in Scavenged(n, m, "valid", Accessed /\ FALSE, 1..n)
  BY <1>7, HashEntriesAre
<1>9. QED
  BY <1>6, <1>8 DEF Scavenged

-----------------------------------------------------------------------------
(***************************************************************************)
(* The inductive invariant, of the values of the variables.                *)
(***************************************************************************)
GcRecord ==
  [pc : {"lisp", "roots", "copied", "settled"}, from : SUBSET Object,
   to : UNION {[S -> Addresses] : S \in SUBSET Object}, moved : SUBSET Object, reached : SUBSET Object,
   ops : Int, count : Int]

NoneOld(x, from) == \A i \in DOMAIN x.kv : ~Old(x.kv[i].key, from) /\ ~Old(x.kv[i].value, from)

Sized(x, moved, from, to, at, lv) ==
  \E n \in Nat \ {0}, m \in Nat \ {0} : \E own : Agrees(n, m, x, moved, own, from, to, at, lv)

Sound(x, w, at, lv, g) ==
  /\ w \in Weakness /\ at \in [Object -> Addresses] /\ lv \subseteq Object
  /\ g \in GcRecord /\ g.from \subseteq lv /\ g.to \in [g.from -> Addresses]
  /\ g.pc = "lisp" => g.from = {} /\ g.moved = {}
  /\ g.pc \in {"copied", "settled"} /\ x.subtype # "valid" => NoneOld(x, g.from)
  /\ Sized(x, g.moved, g.from, g.to, at, lv)

IInv == Sound(t, weak, place, live, gc)

\* What every operation of Lisp leaves alone.
LEMMA Operates ==
  ASSUME IInv, Operation
  PROVE  /\ gc' \in GcRecord /\ gc'.pc = "lisp" /\ gc'.from = {} /\ gc'.moved = {} /\ gc'.to \in [gc'.from -> Addresses]
         /\ gc.from = {} /\ gc.moved = {} /\ weak' = weak /\ live' = live
         /\ gc'.to = gc.to
  BY DEF IInv, Sound, Operation, GcRecord

\* An operation that leaves the table ready keeps the invariant.
LEMMA LispKeeps ==
  ASSUME IInv, Operation, place' = place, NEW n \in Nat \ {0}, NEW m \in Nat \ {0}, NEW own, Ready(n, m, t', own)
  PROVE  IInv'
<1>1. /\ gc' \in GcRecord /\ gc'.pc = "lisp" /\ gc'.from = {} /\ gc'.moved = {} /\ gc'.to \in [gc'.from -> Addresses]
      /\ weak' = weak /\ live' = live
  BY Operates
<1> DEFINE to == gc'.to
           y == t'
<1>2. Agrees(n, m, y, {}, own, {}, to, place, live)
  BY ReadyAgrees
<1>3. Sized(t', gc'.moved, gc'.from, gc'.to, place', live')
  BY <1>1, <1>2 DEF Sized
<1>4. weak \in Weakness /\ place \in [Object -> Addresses] /\ live \subseteq Object
  BY DEF IInv, Sound
<1>5. Sound(t', weak', place', live', gc')
  BY <1>1, <1>3, <1>4 DEF Sound
<1>6. QED
  BY <1>5 DEF IInv

\* The table that an operation finds, it makes ready.
LEMMA LispFinds ==
  ASSUME IInv, gc.pc = "lisp"
  PROVE  /\ place \in [Object -> Addresses] /\ live \subseteq Object
         /\ \E n \in Nat \ {0}, m \in Nat \ {0} : \E own : Agrees(n, m, t, {}, own, {}, gc.to, place, live)
<1>1. gc.from = {} /\ gc.moved = {} /\ place \in [Object -> Addresses] /\ live \subseteq Object
  BY DEF IInv, Sound
<1>2. Sized(t, {}, {}, gc.to, place, live)
  BY <1>1 DEF IInv, Sound
<1>3. QED
  BY <1>1, <1>2 DEF Sized

\* A new table is ready.
LEMMA MadeReady ==
  ASSUME NEW n \in Nat \ {0}, NEW m \in Nat \ {0}
  PROVE  \E own : Ready(n, m, MakeTable(n, m), own)
<1> DEFINE y == MakeTable(n, m)
<1>1. PICK own : /\ Whole(n, m, y, own) /\ \A i \in 1..n : IsFree(y.kv[i])
                 /\ y.subtype = "normal" /\ \A i \in 1..n : y.kv[i] = EmptySlot
  BY MadeIs
<1> HIDE DEF y
<1>2. FullOf(n, y) = {}
  BY <1>1 DEF FullOf
<1>3. Forwarded(n, y, {})
  BY <1>1 DEF Forwarded, EmptySlot, Word
<1>4. Distinct(n, y) /\ Alive(n, y, live)
  BY <1>2 DEF Distinct, Alive
<1>5. Ready(n, m, y, own)
  BY <1>1, <1>2, <1>3, <1>4 DEF Ready
<1>6. QED
  BY <1>5 DEF y

\* gethash keeps the invariant.
LEMMA GethashKeeps ==
  ASSUME IInv, Gethash
  PROVE  IInv'
<1>1. Operation /\ gc.pc = "lisp" /\ t' = Prepare(t) /\ place' = place
  BY DEF Gethash, Operation
<1>2. PICK n \in Nat \ {0}, m \in Nat \ {0} : \E own : Agrees(n, m, t, {}, own, {}, gc.to, place, live)
  BY <1>1, LispFinds
<1>3. PICK own0 : Agrees(n, m, t, {}, own0, {}, gc.to, place, live)
  BY <1>2
<1>4. place \in [Object -> Addresses] /\ n \in Nat
  BY <1>1, LispFinds
<1> DEFINE x == t
           to == gc.to
           p == Prepare(x)
<1>5. \E own : Ready(n, m, p, own)
  BY <1>3, <1>4, PrepareIs
<1> HIDE DEF p
<1>6. PICK own : Ready(n, m, p, own)
  BY <1>5
<1>7. Ready(n, m, t', own)
  BY <1>1, <1>6 DEF p
<1>8. QED
  BY <1>1, <1>7, LispKeeps

\* clrhash keeps the invariant.
LEMMA ClrHashKeeps ==
  ASSUME IInv, ClrHash
  PROVE  IInv'
<1>1. Operation /\ gc.pc = "lisp" /\ t' = MakeTable(Cardinality(Slots(t)), t.length) /\ place' = place
  BY DEF ClrHash, Operation
<1>2. PICK n \in Nat \ {0}, m \in Nat \ {0} : \E own : Agrees(n, m, t, {}, own, {}, gc.to, place, live)
  BY <1>1, LispFinds
<1>3. Cardinality(Slots(t)) = n /\ t.length = m
  <2>1. Slots(t) = 1..n /\ t.length = m
    BY <1>2, WholeIs DEF Agrees
  <2>2. Cardinality(1..n) = n
    BY FS_Interval
  <2>3. QED
    BY <2>1, <2>2
<1>4. PICK own : Ready(n, m, MakeTable(n, m), own)
  BY MadeReady
<1>5. Ready(n, m, t', own)
  BY <1>1, <1>3, <1>4
<1>6. QED
  BY <1>1, <1>5, LispKeeps

\* remhash keeps the invariant.
LEMMA RemHashKeeps ==
  ASSUME IInv, NEW k, RemHash(k)
  PROVE  IInv'
<1> DEFINE p == Prepare(t)
           i == Lookup(p, k)
           b == Bucket(p, k)
<1>1. Operation /\ gc.pc = "lisp" /\ place' = place /\ t' = IF i = 0 THEN p ELSE Release(Unlink(p, b, i), i)
  BY DEF RemHash, Operation
<1>2. PICK n \in Nat \ {0}, m \in Nat \ {0} : \E own : Agrees(n, m, t, {}, own, {}, gc.to, place, live)
  BY <1>1, LispFinds
<1>3. PICK own0 : Agrees(n, m, t, {}, own0, {}, gc.to, place, live)
  BY <1>2
<1>4. place \in [Object -> Addresses] /\ n \in Nat
  BY <1>1, LispFinds
<1>5. \E own : Ready(n, m, p, own)
  BY <1>3, <1>4, PrepareIs
<1> HIDE DEF p
<1>6. PICK own : Ready(n, m, p, own)
  BY <1>5
<1>7. Owned(n, m, p, own) /\ p.length = m
  BY <1>6, WholeIs DEF Ready
<1>8. b \in 0..m - 1
  BY <1>4, <1>7, BucketIs
<1>9. i # 0 => i \in 1..n /\ own[i] = b
  BY <1>4, <1>7, LookupIs
<1> HIDE DEF i, b
<1>10. CASE i = 0
  <2>1. Ready(n, m, t', own)
    BY <1>1, <1>6, <1>10
  <2>2. QED
    BY <1>1, <2>1, LispKeeps
<1>11. CASE i # 0
  <2>1. On(own, i, b)
    BY <1>9, <1>11 DEF On
  <2>2. \E own2 : Ready(n, m, Release(Unlink(p, b, i), i), own2)
    BY <1>4, <1>6, <1>8, <1>9, <1>11, <2>1, RemovedIs
  <2>3. PICK own2 : Ready(n, m, t', own2)
    BY <1>1, <1>11, <2>2
  <2>4. QED
    BY <1>1, <2>3, LispKeeps
<1>12. QED
  BY <1>10, <1>11

\* Preparing the table does not use up its free slots.
LEMMA StillFree ==
  ASSUME NEW n \in Nat \ {0}, NEW m \in Nat \ {0}, NEW x, NEW own0, Whole(n, m, x, own0), x.free # 0,
         NEW y, NEW own, Whole(n, m, y, own), y.kv = x.kv
  PROVE  y.free # 0
<1>1. x.free \in 1..n /\ own0[x.free] = FREE
  <2> DEFINE h == Heads(m, x)
  <2>1. x \in Tables(n, m) /\ Threaded(n, Ids(m), x.next, h, own0) /\ h[FREE] = x.free /\ FREE \in Ids(m)
    BY WholeIs, HeadsAre, IdsAre DEF Owned
  <2> HIDE DEF h
  <2>2. own0[h[FREE]] = FREE
    BY <2>1 DEF Threaded, Linked
  <2>3. x.free \in 0..n
    BY <2>1 DEF Tables
  <2>4. QED
    BY <2>1, <2>2, <2>3
<1>2. IsFree(y.kv[x.free])
  BY <1>1 DEF Whole
<1>3. own[x.free] = FREE /\ Owned(n, m, y, own)
  BY <1>1, <1>2 DEF Whole
<1>4. QED
  BY <1>1, <1>3, OnList

\* puthash keeps the invariant.
LEMMA PutHashKeeps ==
  ASSUME IInv, NEW k \in live, NEW v \in live \union {Imm}, PutHash(k, v)
  PROVE  IInv'
<1> DEFINE p == IF t.free = 0 THEN Rehash(t) ELSE Prepare(t)
           i == Lookup(p, k)
<1>1. /\ Operation /\ gc.pc = "lisp" /\ place' = place
      /\ t' = IF i # 0 THEN [p EXCEPT !.kv[i].value = Word(v), !.subtype = "valid"] ELSE Insert(p, k, v)
  BY DEF PutHash, Operation
<1>2. PICK n \in Nat \ {0}, m \in Nat \ {0} : \E own : Agrees(n, m, t, {}, own, {}, gc.to, place, live)
  BY <1>1, LispFinds
<1>3. PICK own0 : Agrees(n, m, t, {}, own0, {}, gc.to, place, live)
  BY <1>2
<1>4. place \in [Object -> Addresses] /\ live \subseteq Object /\ n \in Nat /\ n + 1 \in Nat \ {0} /\ m + 1 \in Nat \ {0}
  BY <1>1, LispFinds
<1>5. \E n2 \in Nat \ {0}, m2 \in Nat \ {0} : p.free # 0 /\ \E own : Ready(n2, m2, p, own)
  <2>1. CASE t.free = 0
    <3>1. p = Rehash(t)
      BY <2>1
    <3> HIDE DEF p
    <3>2. p.free # 0 /\ \E own : Ready(n + 1, m + 1, p, own)
      BY <1>3, <1>4, <3>1, GrownIs
    <3>3. QED
      BY <1>4, <3>2
  <2>2. CASE t.free # 0
    <3>1. p = Prepare(t)
      BY <2>2
    <3> HIDE DEF p
    <3>2. p.kv = t.kv /\ \E own : Ready(n, m, p, own)
      BY <1>3, <1>4, <3>1, PrepareIs
    <3>3. PICK own : Ready(n, m, p, own)
      BY <3>2
    <3>4. Whole(n, m, p, own) /\ Whole(n, m, t, own0)
      BY <1>3, <3>3 DEF Ready, Agrees
    <3>5. p.free # 0
      BY <2>2, <3>2, <3>4, StillFree
    <3>6. QED
      BY <3>2, <3>5
  <2>3. QED
    BY <2>1, <2>2
<1> HIDE DEF p
<1>6. PICK n2 \in Nat \ {0}, m2 \in Nat \ {0} : p.free # 0 /\ \E own : Ready(n2, m2, p, own)
  BY <1>5
<1>7. PICK own : Ready(n2, m2, p, own)
  BY <1>6
<1>8. Owned(n2, m2, p, own) /\ n2 \in Nat
  BY <1>7, WholeIs DEF Ready
<1>9. /\ i = 0 => \A j \in 1..n2 : own[j] = Bucket(p, k) => p.kv[j].key.o # k
      /\ i # 0 => i \in 1..n2 /\ p.kv[i].key.o = k
  BY <1>4, <1>8, LookupIs
<1> HIDE DEF i
<1>10. CASE i = 0
  <2>1. \A j \in 1..n2 : own[j] = Bucket(p, k) => p.kv[j].key.o # k
    BY <1>9, <1>10
  <2>2. \E own2 : Ready(n2, m2, Insert(p, k, v), own2)
    BY <1>4, <1>6, <1>7, <1>8, <2>1, PutNewIs
  <2>3. PICK own2 : Ready(n2, m2, t', own2)
    BY <1>1, <1>10, <2>2
  <2>4. QED
    BY <1>1, <2>3, LispKeeps
<1>11. CASE i # 0
  <2>1. i \in 1..n2 /\ p.kv[i].key.o = k
    BY <1>9, <1>11
  <2>2. Ready(n2, m2, [p EXCEPT !.kv[i].value = Word(v), !.subtype = "valid"], own)
    BY <1>4, <1>7, <1>8, <2>1, PutOverIs
  <2>3. Ready(n2, m2, t', own)
    BY <1>1, <1>11, <2>2
  <2>4. QED
    BY <1>1, <2>3, LispKeeps
<1>12. QED
  BY <1>10, <1>11

\* It holds of a new table.
LEMMA InitIs ==
  ASSUME Init
  PROVE  IInv
<1>1. /\ t = MakeTable(Size, Length) /\ weak \in Weakness /\ place \in [Object -> Addresses] /\ live = Object
      /\ gc = Idle
  BY DEF Init
<1>2. PICK own : Ready(Size, Length, t, own)
  BY <1>1, MadeReady, TableAssumption
<1>3. Size \in Nat \ {0} /\ Length \in Nat \ {0}
  BY TableAssumption
<1>4. gc.pc = "lisp" /\ gc.from = {} /\ gc.moved = {} /\ gc.to \in [{} -> Addresses]
  BY <1>1 DEF Idle
<1>5. gc \in GcRecord
  <2>1. [o \in {} |-> 0] \in UNION {[S -> Addresses] : S \in SUBSET Object}
    <3>1. [o \in {} |-> 0] \in [{} -> Addresses] /\ {} \in SUBSET Object
      OBVIOUS
    <3>2. QED
      BY <3>1
  <2>2. QED
    BY <1>1, <2>1 DEF GcRecord, Idle
<1> DEFINE to == gc.to
<1>6. Agrees(Size, Length, t, {}, own, {}, to, place, live)
  BY <1>2, <1>3, ReadyAgrees
<1>7. Sized(t, gc.moved, gc.from, gc.to, place, live)
  BY <1>3, <1>4, <1>6 DEF Sized
<1>8. QED
  BY <1>1, <1>4, <1>5, <1>7 DEF IInv, Sound

\* purify keeps the invariant.
LEMMA PurifyKeeps ==
  ASSUME IInv, Purify
  PROVE  IInv'
<1>1. /\ Operation /\ gc.pc = "lisp" /\ place' \in [Object -> Addresses]
      /\ t' = [t EXCEPT !.subtype = "must-rehash"]
  BY DEF Purify, Operation
<1>2. PICK n \in Nat \ {0}, m \in Nat \ {0} : \E own : Agrees(n, m, t, {}, own, {}, gc.to, place, live)
  BY <1>1, LispFinds
<1>3. PICK own : Agrees(n, m, t, {}, own, {}, gc.to, place, live)
  BY <1>2
<1>4. Whole(n, m, t, own) /\ Owned(n, m, t, own) /\ t \in Tables(n, m)
  BY <1>3, WholeIs DEF Agrees
<1> DEFINE y == t'
<1>5. /\ y.kv = t.kv /\ y.count = t.count /\ y.subtype = "must-rehash" /\ SameLists(t, y)
  BY <1>1, <1>4 DEF Tables, SameLists
<1>6. y \in Tables(n, m)
  BY <1>1, <1>4 DEF Tables, Subtypes
<1> HIDE DEF y
<1>7. Owned(n, m, y, own)
  BY <1>4, <1>5, <1>6, ListsAre
<1>8. FullOf(n, y) = FullOf(n, t)
  BY <1>5 DEF FullOf
<1>9. Whole(n, m, y, own)
  BY <1>4, <1>5, <1>7, <1>8 DEF Whole
<1>10. Agrees(n, m, y, {}, own, {}, gc.to, place', live)
  BY <1>3, <1>5, <1>8, <1>9 DEF Agrees, Forwarded, Distinct, Alive
<1>11. /\ gc' \in GcRecord /\ gc'.pc = "lisp" /\ gc'.from = {} /\ gc'.moved = {} /\ gc'.to \in [gc'.from -> Addresses]
       /\ weak' = weak /\ live' = live /\ gc'.to = gc.to
  BY <1>1, Operates
<1>12. Sized(t', gc'.moved, gc'.from, gc'.to, place', live')
  BY <1>10, <1>11 DEF Sized, y
<1>13. weak \in Weakness /\ live \subseteq Object
  BY DEF IInv, Sound
<1>14. Sound(t', weak', place', live', gc')
  BY <1>1, <1>11, <1>12, <1>13 DEF Sound
<1>15. QED
  BY <1>14 DEF IInv

\* The start of a collection keeps it.
LEMMA StartKeeps ==
  ASSUME IInv, NEW S \in SUBSET live, NEW to \in [S -> Addresses], StartCollection(S, to)
  PROVE  IInv'
<1>1. /\ gc.pc = "lisp" /\ (Accessed => t.rehash = 0)
      /\ gc' = [gc EXCEPT !.pc = "roots", !.from = S, !.to = to, !.count = @ + 1]
      /\ t' = t /\ weak' = weak /\ place' = place /\ live' = live
  BY DEF StartCollection
<1>2. PICK n \in Nat \ {0}, m \in Nat \ {0} : \E own : Agrees(n, m, t, {}, own, {}, gc.to, place, live)
  BY <1>1, LispFinds
<1>3. PICK own : Agrees(n, m, t, {}, own, {}, gc.to, place, live)
  BY <1>2
<1>4. Whole(n, m, t, own) /\ Owned(n, m, t, own) /\ Forwarded(n, t, {})
  BY <1>3, WholeIs DEF Agrees
<1>5. Accessed => \A i \in 1..n : own[i] # REHASH
  BY <1>1, <1>4, OnList
<1>6. \A i \in FullOf(n, t) : i \in 1..n /\ Addr(t.kv[i].key, to, place) = Addr(t.kv[i].key, gc.to, place)
  BY <1>4 DEF FullOf, Forwarded, Addr
<1>7. Agrees(n, m, t, {}, own, S, to, place, live)
  BY <1>3, <1>5, <1>6 DEF Agrees
<1>8. /\ gc' \in GcRecord /\ gc'.pc = "roots" /\ gc'.from = S /\ gc'.moved = {} /\ gc'.to = to
  <2>1. gc \in GcRecord /\ gc.moved = {} /\ live \subseteq Object
    BY <1>1 DEF IInv, Sound
  <2>2. gc'.pc = "roots" /\ gc'.from = S /\ gc'.moved = {} /\ gc'.to = to
    BY <1>1, <2>1 DEF GcRecord
  <2>3. S \in SUBSET Object /\ to \in UNION {[X -> Addresses] : X \in SUBSET Object}
    BY <2>1
  <2> DEFINE tos == UNION {[X -> Addresses] : X \in SUBSET Object}
             count == gc.count + 1
  <2>4. gc' = [gc EXCEPT !.pc = "roots", !.from = S, !.to = to, !.count = count] /\ count \in Int
    BY <1>1, <2>1 DEF GcRecord
  <2>5. GcRecord = [pc : {"lisp", "roots", "copied", "settled"}, from : SUBSET Object, to : tos,
                    moved : SUBSET Object, reached : SUBSET Object, ops : Int, count : Int]
    BY DEF GcRecord
  <2>6. to \in tos
    BY <2>3
  <2> HIDE DEF tos, count
  <2>7. gc' \in GcRecord
    BY <2>1, <2>3, <2>4, <2>5, <2>6
  <2>8. QED
    BY <2>2, <2>7
<1>9. Sized(t', gc'.moved, gc'.from, gc'.to, place', live')
  BY <1>1, <1>7, <1>8 DEF Sized
<1>10. weak \in Weakness /\ place \in [Object -> Addresses] /\ live \subseteq Object
  BY DEF IInv, Sound
<1>11. Sound(t', weak', place', live', gc')
  BY <1>1, <1>8, <1>9, <1>10 DEF Sound
<1>12. QED
  BY <1>11 DEF IInv

\* More objects have moved.
LEMMA MovedMore ==
  ASSUME NEW n, NEW m, NEW x, NEW moved, NEW moved2, NEW own, NEW from, NEW to, NEW at, NEW lv,
         Agrees(n, m, x, moved, own, from, to, at, lv), moved \subseteq moved2, moved2 \subseteq from
  PROVE  Agrees(n, m, x, moved2, own, from, to, at, lv)
<1>1. Forwarded(n, x, moved2)
  BY DEF Agrees, Forwarded
<1>2. \A w : Survives(w, from, moved) => Survives(w, from, moved2)
  BY DEF Survives
<1>3. QED
  BY <1>1, <1>2 DEF Agrees

\* What is reached by other ways keeps it.
LEMMA ReachKeeps ==
  ASSUME IInv, NEW o, Reach(o)
  PROVE  IInv'
<1>1. /\ gc.pc \in {"roots", "copied"} /\ o \in gc.from
      /\ gc' = [gc EXCEPT !.pc = "roots", !.moved = @ \union {o}, !.reached = @ \union {o}]
      /\ t' = t /\ weak' = weak /\ place' = place /\ live' = live
  BY DEF Reach
<1>2. gc \in GcRecord /\ gc.from \subseteq Object /\ Sized(t, gc.moved, gc.from, gc.to, place, live)
      /\ gc.from \subseteq live /\ gc.to \in [gc.from -> Addresses]
  BY DEF IInv, Sound
<1>3. PICK n \in Nat \ {0}, m \in Nat \ {0} : \E own : Agrees(n, m, t, gc.moved, own, gc.from, gc.to, place, live)
  BY <1>2 DEF Sized
<1>4. PICK own : Agrees(n, m, t, gc.moved, own, gc.from, gc.to, place, live)
  BY <1>3
<1>5. gc'.pc = "roots" /\ gc'.from = gc.from /\ gc'.to = gc.to /\ gc'.moved = gc.moved \union {o} /\ gc' \in GcRecord
  <2>1. gc'.pc = "roots" /\ gc'.from = gc.from /\ gc'.to = gc.to /\ gc'.moved = gc.moved \union {o}
    BY <1>1, <1>2 DEF GcRecord
  <2>2. gc.moved \union {o} \in SUBSET Object /\ gc.reached \union {o} \in SUBSET Object
    BY <1>1, <1>2 DEF GcRecord
  <2>3. gc' \in GcRecord
    BY <1>1, <1>2, <2>2 DEF GcRecord
  <2>4. QED
    BY <2>1, <2>3
<1>6. gc.moved \subseteq gc.from
  BY <1>4 DEF Agrees
<1> DEFINE moved2 == gc.moved \union {o}
<1>7. gc.moved \subseteq moved2 /\ moved2 \subseteq gc.from
  BY <1>1, <1>6
<1> HIDE DEF moved2
<1>8. Agrees(n, m, t, moved2, own, gc.from, gc.to, place, live)
  BY <1>4, <1>7, MovedMore
<1>9. Sized(t', gc'.moved, gc'.from, gc'.to, place', live')
  BY <1>1, <1>5, <1>8 DEF Sized, moved2
<1>10. weak \in Weakness /\ place \in [Object -> Addresses] /\ live \subseteq Object
  BY DEF IInv, Sound
<1>11. Sound(t', weak', place', live', gc')
  BY <1>1, <1>2, <1>5, <1>9, <1>10 DEF Sound
<1>12. QED
  BY <1>11 DEF IInv

\* What a collection finds.
LEMMA GcFinds ==
  ASSUME IInv
  PROVE  /\ Collecting
         /\ \E n \in Nat \ {0}, m \in Nat \ {0} : \E own : GcOK(n, m, Here, own)
<1>1. Collecting /\ Sized(t, gc.moved, gc.from, gc.to, place, live)
  BY DEF IInv, Sound, Collecting
<1>2. PICK n \in Nat \ {0}, m \in Nat \ {0} : \E own : Agrees(n, m, t, gc.moved, own, gc.from, gc.to, place, live)
  BY <1>1 DEF Sized
<1>3. PICK own : Agrees(n, m, t, gc.moved, own, gc.from, gc.to, place, live)
  BY <1>2
<1>4. Here.t = t /\ Here.moved = gc.moved /\ Here = [t |-> t, moved |-> gc.moved]
  BY DEF Here
<1>5. t \in Tables(n, m) /\ gc.moved \in SUBSET gc.from
  BY <1>3, WholeIs DEF Agrees
<1>6. Here \in Colls(n, m)
  BY <1>4, <1>5 DEF Colls
<1> HIDE DEF Here
<1>7. GcOK(n, m, Here, own)
  BY <1>3, <1>4, <1>6 DEF GcOK
<1>8. QED
  BY <1>1, <1>7

\* scav_weak_tables keeps the invariant.
LEMMA ScavKeeps ==
  ASSUME IInv, ScavWeakTables
  PROVE  IInv'
<1> DEFINE c == IF t.subtype = "valid" THEN scav_weak_tables(Here) ELSE ScavengeVector(Here)
<1>1. /\ gc.pc \in {"roots", "copied"} /\ t' = c.t
      /\ gc' = [gc EXCEPT !.moved = c.moved, !.pc = IF c.moved = gc.moved THEN "settled" ELSE "copied"]
      /\ weak' = weak /\ place' = place /\ live' = live
  BY DEF ScavWeakTables
<1>2. Collecting /\ gc \in GcRecord
  BY GcFinds DEF IInv, Sound
<1>3. PICK n \in Nat \ {0}, m \in Nat \ {0} : \E own : GcOK(n, m, Here, own)
  BY GcFinds
<1>4. Here \in Colls(n, m) /\ Here.t = t /\ n \in Nat
  BY <1>3 DEF GcOK, Here
<1>5. Here \in Scavenged(n, m, t.subtype, FALSE, {}) /\ Here \in Scavenged(n, m, t.subtype, TRUE, {})
  BY <1>3, <1>4 DEF Scavenged
<1>6. /\ c \in Colls(n, m) /\ \E own : GcOK(n, m, c, own)
      /\ c.t.subtype # "valid" => \A i \in 1..n : Clean(c, i)
  <2>1. CASE t.subtype = "valid"
    <3>1. c = scav_weak_tables(Here)
      BY <2>1
    <3>2. Here \in Scavenged(n, m, "valid", FALSE, {})
      BY <1>5, <2>1
    <3> HIDE DEF c
    <3>3. c \in Scavenged(n, m, "valid", FALSE, {})
      BY <1>2, <1>4, <3>1, <3>2, SweepIs
    <3>4. QED
      BY <3>3 DEF Scavenged
  <2>2. CASE t.subtype # "valid"
    <3>1. c = ScavengeVector(Here)
      BY <2>2
    <3> HIDE DEF c
    <3>2. ScavengeVector(Here) \in Scavenged(n, m, t.subtype, TRUE, 1..n)
      BY <1>2, <1>4, <1>5, <2>2, VectorIs
    <3>3. c \in Scavenged(n, m, t.subtype, TRUE, 1..n)
      BY <3>1, <3>2
    <3>4. QED
      BY <3>3 DEF Scavenged
  <2>3. QED
    BY <2>1, <2>2
<1> HIDE DEF c
<1>7. PICK own : GcOK(n, m, c, own)
  BY <1>6
<1>8. c.moved \subseteq gc.from /\ DOMAIN c.t.kv = 1..n
  BY <1>2, <1>4, <1>7, GcIs
<1>9. gc'.from = gc.from /\ gc'.to = gc.to /\ gc'.moved = c.moved /\ gc' \in GcRecord /\ gc'.pc \in {"settled", "copied"}
  <2>1. gc'.from = gc.from /\ gc'.to = gc.to /\ gc'.moved = c.moved /\ gc'.pc \in {"settled", "copied"}
    BY <1>1, <1>2 DEF GcRecord
  <2>2. c.moved \in SUBSET Object
    BY <1>2, <1>8 DEF GcRecord
  <2>3. gc' \in GcRecord
    BY <1>1, <1>2, <2>2 DEF GcRecord
  <2>4. QED
    BY <2>1, <2>3
<1>10. Sized(t', gc'.moved, gc'.from, gc'.to, place', live')
  BY <1>1, <1>7, <1>9 DEF Sized, GcOK
<1>11. t'.subtype # "valid" => NoneOld(t', gc'.from)
  BY <1>1, <1>6, <1>8, <1>9 DEF NoneOld, Clean, InFrom, Old
<1>12. /\ weak \in Weakness /\ place \in [Object -> Addresses] /\ live \subseteq Object
       /\ gc.from \subseteq live /\ gc.to \in [gc.from -> Addresses]
  BY DEF IInv, Sound
<1>13. Sound(t', weak', place', live', gc')
  BY <1>1, <1>9, <1>10, <1>11, <1>12 DEF Sound
<1>14. QED
  BY <1>13 DEF IInv

\* The end of a collection: what becomes of a word, an entry, the table.
LEMMA SettleIs ==
  ASSUME Collecting, NEW c, NEW w \in Words
  PROVE  /\ Settle(c, w) \in Words /\ ~Settle(c, w).up
         /\ ~InFrom(c, w) => Settle(c, w).o = w.o
         /\ Settle(c, w).o = Empty <=> w.o = Empty
<1>1. w.o \in Object \union {Imm, Empty, Lost} /\ w.up \in BOOLEAN
  BY DEF Words
<1>2. Empty \notin gc.from /\ Lost # Empty
  BY TableAssumption DEF Collecting
<1>3. Word(w.o) \in Words /\ Word(Lost) \in Words
  BY <1>1, WordsAre
<1>4. Word(w.o).o = w.o /\ ~Word(w.o).up /\ Word(Lost).o = Lost /\ ~Word(Lost).up
  BY DEF Word
<1>5. CASE w.up
  <2>1. Settle(c, w) = Word(w.o)
    BY <1>5, Zenon DEF Settle
  <2>2. QED
    BY <1>3, <1>4, <2>1
<1>6. CASE ~w.up /\ w.o \in gc.from
  <2>1. Settle(c, w) = Word(Lost)
    BY <1>6, Zenon DEF Settle
  <2>2. InFrom(c, w)
    BY <1>6 DEF InFrom
  <2>3. QED
    BY <1>2, <1>3, <1>4, <1>6, <2>1, <2>2
<1>7. CASE ~w.up /\ w.o \notin gc.from
  <2>1. Settle(c, w) = w
    BY <1>7, Zenon DEF Settle
  <2>2. QED
    BY <1>7, <2>1
<1>8. QED
  BY <1>5, <1>6, <1>7

SettledKv(c) == [i \in DOMAIN c.t.kv |-> [key |-> Settle(c, c.t.kv[i].key), value |-> Settle(c, c.t.kv[i].value)]]
Settled(c, y) == y = [c.t EXCEPT !.kv = SettledKv(c)]
Moved(c) == [o \in Object |-> IF o \in c.moved THEN gc.to[o] ELSE place[o]]

\* The settled entries.
LEMMA SettledKvIs ==
  ASSUME Collecting, NEW n \in Nat, NEW m \in Nat \ {0}, NEW c, NEW own, GcOK(n, m, c, own)
  PROVE  /\ SettledKv(c) \in [1..n -> Entry]
         /\ \A i \in 1..n : /\ SettledKv(c)[i].key = Settle(c, c.t.kv[i].key)
                            /\ SettledKv(c)[i].value = Settle(c, c.t.kv[i].value)
                            /\ (IsFree(SettledKv(c)[i]) <=> IsFree(c.t.kv[i]))
                            /\ c.t.kv[i].key \in Words /\ c.t.kv[i].value \in Words
<1>1. c.t.kv \in [1..n -> Entry]
  BY GcIs
<1>2. SettledKv(c) = [i \in 1..n |-> [key |-> Settle(c, c.t.kv[i].key), value |-> Settle(c, c.t.kv[i].value)]]
  BY <1>1 DEF SettledKv
<1>3. ASSUME NEW i \in 1..n
      PROVE  /\ c.t.kv[i].key \in Words /\ c.t.kv[i].value \in Words
             /\ Settle(c, c.t.kv[i].key) \in Words /\ Settle(c, c.t.kv[i].value) \in Words
             /\ Settle(c, c.t.kv[i].key).o = Empty <=> c.t.kv[i].key.o = Empty
             /\ Settle(c, c.t.kv[i].value).o = Empty <=> c.t.kv[i].value.o = Empty
  <2>1. c.t.kv[i].key \in Words /\ c.t.kv[i].value \in Words
    BY <1>1 DEF Entry
  <2>2. QED
    BY <2>1, SettleIs
<1>4. SettledKv(c) \in [1..n -> Entry]
  BY <1>2, <1>3 DEF Entry
<1>5. ASSUME NEW i \in 1..n
      PROVE  SettledKv(c)[i].key = Settle(c, c.t.kv[i].key) /\ SettledKv(c)[i].value = Settle(c, c.t.kv[i].value)
  BY <1>2
<1>6. QED
  BY <1>3, <1>4, <1>5 DEF IsFree

\* The moved objects have their new addresses.
LEMMA MovedIs ==
  ASSUME Collecting, NEW c, c.moved \subseteq gc.from
  PROVE  /\ Moved(c) \in [Object -> Addresses]
         /\ \A o \in Object : Moved(c)[o] = IF o \in c.moved THEN gc.to[o] ELSE place[o]
  BY DEF Collecting, Moved

\* A table with no old word agrees with the memory after the collection.
LEMMA SettledIs ==
  ASSUME Collecting, NEW n \in Nat, NEW m \in Nat \ {0}, NEW c, NEW own, GcOK(n, m, c, own),
         Accessed => \A i \in 1..n : Clean(c, i), NEW y, Settled(c, y), NEW to
  PROVE  Agrees(n, m, y, {}, own, {}, to, Moved(c), live \ (gc.from \ c.moved))
<1> DEFINE x == c.t
           kv == SettledKv(c)
           lv == live \ (gc.from \ c.moved)
<1>1. /\ Whole(n, m, x, own) /\ Owned(n, m, x, own) /\ x \in Tables(n, m) /\ x.kv \in [1..n -> Entry]
      /\ c.moved \subseteq gc.from /\ Forwarded(n, x, c.moved)
  BY GcIs
<1>2. Agrees(n, m, x, c.moved, own, gc.from, gc.to, place, live)
  BY DEF GcOK
<1>3. /\ kv \in [1..n -> Entry]
      /\ \A i \in 1..n : /\ kv[i].key = Settle(c, x.kv[i].key) /\ kv[i].value = Settle(c, x.kv[i].value)
                         /\ (IsFree(kv[i]) <=> IsFree(x.kv[i]))
                         /\ x.kv[i].key \in Words /\ x.kv[i].value \in Words
  BY SettledKvIs
<1> HIDE DEF kv, x
<1>4. y = [x EXCEPT !.kv = kv]
  BY DEF Settled, kv, x
<1>5. y.kv = kv /\ y.count = x.count /\ y.subtype = x.subtype /\ SameLists(x, y) /\ y \in Tables(n, m)
  BY <1>1, <1>3, <1>4 DEF Tables, SameLists
<1>6. Owned(n, m, y, own)
  BY <1>1, <1>5, ListsAre
<1>7. FullOf(n, y) = FullOf(n, x) /\ \A i \in FullOf(n, x) : i \in 1..n
  BY <1>3, <1>5 DEF FullOf
<1>8. Whole(n, m, y, own)
  BY <1>1, <1>3, <1>5, <1>6, <1>7 DEF Whole
<1>9. Forwarded(n, y, {})
  BY <1>3, <1>5, SettleIs DEF Forwarded
<1>10. y.subtype = "normal" => FullOf(n, y) = {}
  BY <1>2, <1>5, <1>7 DEF Agrees
<1>11. ASSUME Accessed, NEW i \in 1..n
       PROVE  /\ y.kv[i].key.o = x.kv[i].key.o /\ y.kv[i].value.o = x.kv[i].value.o
              /\ ~y.kv[i].key.up
              /\ ~InFrom(c, x.kv[i].key) /\ ~InFrom(c, x.kv[i].value)
  <2>1. ~InFrom(c, x.kv[i].key) /\ ~InFrom(c, x.kv[i].value)
    BY <1>11, Zenon DEF Clean, x
  <2>2. QED
    BY <1>3, <1>5, <2>1, SettleIs
<1>12. ASSUME Accessed, NEW i \in FullOf(n, y)
       PROVE  y.kv[i].key.o \in lv /\ y.kv[i].value.o \in lv \union {Imm} /\ y.kv[i].key.o \in Object
  <2>1. i \in 1..n /\ i \in FullOf(n, x)
    BY <1>7, <1>12
  <2>2. x.kv[i].key.o \in live /\ x.kv[i].value.o \in live \union {Imm}
    BY <1>2, <1>12, <2>1 DEF Agrees, Alive
  <2>3. \A w \in {x.kv[i].key, x.kv[i].value} : w.o \in gc.from => w.o \in c.moved
    BY <1>1, <1>11, <1>12, <2>1 DEF Forwarded, InFrom
  <2>4. x.kv[i].key.o \in lv /\ x.kv[i].value.o \in lv \union {Imm}
    BY <2>2, <2>3
  <2>5. y.kv[i].key.o = x.kv[i].key.o /\ y.kv[i].value.o = x.kv[i].value.o
    BY <1>11, <1>12, <2>1
  <2>6. QED
    BY <2>2, <2>4, <2>5 DEF Collecting
<1>13. Accessed => Distinct(n, y) /\ Alive(n, y, lv)
  <2> SUFFICES ASSUME Accessed PROVE Distinct(n, y) /\ Alive(n, y, lv)
    OBVIOUS
  <2>1. Distinct(n, x)
    BY <1>2 DEF Agrees
  <2>2. Distinct(n, y)
    BY <1>7, <1>11, <2>1 DEF Distinct
  <2>3. Alive(n, y, lv)
    BY <1>12 DEF Alive
  <2>4. QED
    BY <2>2, <2>3
<1>14. ASSUME Accessed, y.subtype = "valid", NEW i \in FullOf(n, y)
       PROVE  own[i] = Addr(y.kv[i].key, to, Moved(c)) % m \/ own[i] = REHASH
  <2>1. i \in 1..n /\ i \in FullOf(n, x)
    BY <1>7, <1>14
  <2>2. own[i] = Addr(x.kv[i].key, gc.to, place) % m \/ own[i] = REHASH
    BY <1>2, <1>5, <1>14, <2>1 DEF Agrees
  <2> DEFINE w == x.kv[i].key
             o == w.o
  <2>3. o \in Object /\ y.kv[i].key.o = o /\ ~y.kv[i].key.up /\ ~(o \in gc.from /\ ~w.up) /\ (w.up => o \in c.moved)
    BY <1>1, <1>11, <1>12, <1>14, <2>1 DEF Forwarded, InFrom
  <2>4. Moved(c)[o] = IF o \in c.moved THEN gc.to[o] ELSE place[o]
    BY <1>1, <2>3, MovedIs
  <2> HIDE DEF o, w
  <2>5. Addr(y.kv[i].key, to, Moved(c)) = Moved(c)[o]
    BY <2>3 DEF Addr, Hash
  <2>6. Addr(w, gc.to, place) = IF w.up THEN gc.to[o] ELSE place[o]
    BY <2>3 DEF Addr, Hash, o
  <2>7. Addr(y.kv[i].key, to, Moved(c)) = Addr(w, gc.to, place)
    BY <1>1, <2>3, <2>4, <2>5, <2>6
  <2>8. QED
    BY <2>2, <2>7 DEF w
<1>15. \A i \in 1..n : ~Old(y.kv[i].key, {}) /\ Survives(y.kv[i].value, {}, {})
  BY DEF Old, Survives
<1>16. QED
  BY <1>8, <1>9, <1>10, <1>13, <1>14, <1>15 DEF Agrees

\* The end of a collection keeps the invariant.
LEMMA EndKeeps ==
  ASSUME IInv, EndCollection
  PROVE  IInv'
<1> DEFINE c == IF t.subtype = "valid" THEN scav_hash_entries(Here, TRUE) ELSE Here
<1>1. /\ gc.pc \in {"copied", "settled"}
      /\ t' = [c.t EXCEPT !.kv = [i \in DOMAIN @ |-> [key |-> Settle(c, @[i].key), value |-> Settle(c, @[i].value)]]]
      /\ live' = live \ (gc.from \ c.moved)
      /\ place' = Moved(c)
      /\ gc' = [Idle EXCEPT !.ops = gc.ops, !.count = gc.count] /\ weak' = weak
  BY DEF EndCollection, Moved
<1>2. Collecting /\ gc \in GcRecord
  BY GcFinds DEF IInv, Sound
<1>3. PICK n \in Nat \ {0}, m \in Nat \ {0} : \E own : GcOK(n, m, Here, own)
  BY GcFinds
<1>4. Here \in Colls(n, m) /\ Here.t = t /\ n \in Nat /\ Here.moved = gc.moved
  BY <1>3 DEF GcOK, Here
<1>5. /\ c \in Colls(n, m) /\ \E own : GcOK(n, m, c, own)
      /\ Accessed => \A i \in 1..n : Clean(c, i)
  <2>1. CASE t.subtype = "valid"
    <3>1. c = scav_hash_entries(Here, TRUE)
      BY <2>1
    <3>2. Here \in Scavenged(n, m, "valid", Accessed /\ TRUE, {})
      BY <1>3, <1>4, <2>1 DEF Scavenged
    <3> HIDE DEF c
    <3>3. c \in Scavenged(n, m, "valid", Accessed /\ TRUE, 1..n)
      BY <1>2, <1>4, <3>1, <3>2, HashEntriesAre
    <3>4. QED
      BY <3>3, Zenon DEF Scavenged
  <2>2. CASE t.subtype # "valid"
    <3>1. c = Here
      BY <2>2
    <3>2. NoneOld(t, gc.from) /\ DOMAIN t.kv = 1..n
      BY <1>1, <1>4, <2>2 DEF IInv, Sound, Colls, Tables
    <3> HIDE DEF c
    <3>3. \A i \in 1..n : Clean(c, i)
      BY <1>4, <3>1, <3>2 DEF NoneOld, Clean, InFrom, Old
    <3>4. QED
      BY <1>3, <1>4, <3>1, <3>3
  <2>3. QED
    BY <2>1, <2>2
<1>6. Settled(c, t')
  BY <1>1, Zenon DEF Settled, SettledKv
<1> HIDE DEF c
<1>7. PICK own : GcOK(n, m, c, own)
  BY <1>5
<1>8. gc'.pc = "lisp" /\ gc'.from = {} /\ gc'.moved = {} /\ gc'.to \in [{} -> Addresses] /\ gc' \in GcRecord
  <2>1. [o \in {} |-> 0] \in UNION {[S -> Addresses] : S \in SUBSET Object}
    <3>1. [o \in {} |-> 0] \in [{} -> Addresses] /\ {} \in SUBSET Object
      OBVIOUS
    <3>2. QED
      BY <3>1
  <2>2. gc.ops \in Int /\ gc.count \in Int
    BY <1>2 DEF GcRecord
  <2>3. QED
    BY <1>1, <2>1, <2>2 DEF GcRecord, Idle
<1> DEFINE to == gc'.to
           y == t'
<1>9. Agrees(n, m, y, {}, own, {}, to, Moved(c), live \ (gc.from \ c.moved))
  <2> HIDE DEF to, y
  <2>1. Settled(c, y)
    BY <1>6 DEF y
  <2>2. QED
    BY <1>2, <1>4, <1>5, <1>7, <2>1, SettledIs
<1>10. Sized(t', gc'.moved, gc'.from, gc'.to, place', live')
  <2>1. Agrees(n, m, t', gc'.moved, own, gc'.from, gc'.to, place', live')
    BY <1>1, <1>8, <1>9
  <2> HIDE DEF to, y
  <2>2. QED
    BY <2>1, Zenon DEF Sized
<1>11. place' \in [Object -> Addresses] /\ live' \subseteq Object /\ weak' \in Weakness
  <2>1. c.moved \subseteq gc.from
    BY <1>5 DEF Colls
  <2>2. QED
    BY <1>1, <1>2, <2>1, MovedIs DEF Collecting
<1>12. Sound(t', weak', place', live', gc')
  BY <1>8, <1>10, <1>11 DEF Sound
<1>13. QED
  BY <1>12 DEF IInv

-----------------------------------------------------------------------------
(***************************************************************************)
(* What the invariant says of the table.                                   *)
(***************************************************************************)
IdOf(p) == IF p = 1 THEN FREE ELSE IF p = 2 THEN REHASH ELSE p - 3

\* Lists has the chain of each list.
LEMMA ListsIs ==
  ASSUME NEW n \in Nat, NEW m \in Nat \ {0}, NEW own, Owned(n, m, t, own)
  PROVE  /\ Len(Lists) = m + 2
         /\ \A p \in 1..m + 2 : ListOf(n, own, IdOf(p), Lists[p])
<1> DEFINE h == Heads(m, t)
           a == <<Chain(t.next, t.free), Chain(t.next, t.rehash)>>
           z == [b \in 1..m |-> Chain(t.next, t.index[b - 1])]
<1>1. /\ t.length = m /\ Threaded(n, Ids(m), t.next, h, own) /\ NONE \notin Ids(m)
      /\ h[FREE] = t.free /\ h[REHASH] = t.rehash /\ FREE \in Ids(m) /\ REHASH \in Ids(m)
  BY HeadsAre, IdsAre DEF Owned, Tables
<1>12. m \in Nat
  OBVIOUS
<1>2. \A b \in 0..m - 1 : h[b] = t.index[b] /\ b \in Ids(m)
  <2>1. \A b \in 0..m - 1 : b \in Ids(m)
    BY DEF Ids
  <2>2. \A b \in 0..m - 1 : b # FREE /\ b # REHASH
    BY DEF FREE, REHASH
  <2>3. QED
    BY <2>1, <2>2 DEF Heads
<1> HIDE DEF h
<1>3. ASSUME NEW l \in Ids(m) PROVE ListOf(n, own, l, Chain(t.next, h[l]))
  BY <1>1, <1>3, ChainIsList DEF ListOf
<1>4. ListOf(n, own, FREE, Chain(t.next, t.free)) /\ ListOf(n, own, REHASH, Chain(t.next, t.rehash))
  BY <1>1, <1>3
<1>5. \A b \in 1..m : ListOf(n, own, b - 1, z[b])
  <2>1. TAKE b \in 1..m
  <2>2. b - 1 \in 0..m - 1
    OBVIOUS
  <2>3. ListOf(n, own, b - 1, Chain(t.next, t.index[b - 1]))
    BY <1>2, <1>3, <2>2
  <2>4. QED
    BY <2>3
<1>6. Lists = a \o z
  BY <1>1, Zenon DEF Lists
<1>7. a[1] = Chain(t.next, t.free) /\ a[2] = Chain(t.next, t.rehash) /\ Len(a) = 2
  OBVIOUS
<1>8. a \in Seq(Seq(1..n)) /\ z \in Seq(Seq(1..n)) /\ Len(z) = m
  <2>1. Chain(t.next, t.free) \in Seq(1..n) /\ Chain(t.next, t.rehash) \in Seq(1..n)
    BY <1>4 DEF ListOf
  <2>2. \A b \in 1..m : z[b] \in Seq(1..n)
    BY <1>5 DEF ListOf
  <2>3. a \in Seq(Seq(1..n))
    BY <2>1
  <2>4. z = [b \in 1..m |-> z[b]]
    OBVIOUS
  <2> HIDE DEF z
  <2>5. z \in [1..m -> Seq(1..n)]
    BY <2>2, <2>4
  <2> DEFINE U == Seq(1..n)
  <2> HIDE DEF U
  <2>6. z \in [1..m -> U]
    BY <2>5 DEF U
  <2>7. z \in Seq(U) /\ Len(z) = m
    BY <2>6, IsASeq, LenProperties
  <2>8. QED
    BY <2>3, <2>7 DEF U
<1> HIDE DEF a, z
<1>9. /\ Len(a \o z) = m + 2
      /\ \A p \in 1..m + 2 : (a \o z)[p] = IF p <= 2 THEN a[p] ELSE z[p - 2]
  <2> DEFINE U == Seq(1..n)
  <2>1. a \in Seq(U) /\ z \in Seq(U)
    BY <1>8
  <2> HIDE DEF U
  <2>2. Len(a \o z) = Len(a) + Len(z) /\ \A i \in 1..Len(a) + Len(z) :
           (a \o z)[i] = IF i <= Len(a) THEN a[i] ELSE z[i - Len(a)]
    BY <2>1, ConcatProperties
  <2>3. Len(a) + Len(z) = m + 2 /\ Len(a) = 2
    BY <1>7, <1>8
  <2>4. QED
    BY <2>2, <2>3
<1>10. ASSUME NEW p \in 1..m + 2 PROVE ListOf(n, own, IdOf(p), Lists[p])
  <2>1. CASE p = 1
    BY <1>4, <1>6, <1>7, <1>9, <2>1 DEF IdOf
  <2>2. CASE p = 2
    BY <1>4, <1>6, <1>7, <1>9, <2>2 DEF IdOf
  <2>3. CASE p # 1 /\ p # 2
    <3>1. p - 2 \in 1..m /\ (p - 2) - 1 = p - 3 /\ ~(p <= 2)
      BY <2>3
    <3>2. ListOf(n, own, p - 3, z[p - 2])
      BY <1>5, <3>1
    <3>3. Lists[p] = z[p - 2] /\ IdOf(p) = p - 3
      BY <1>6, <1>9, <2>3, <3>1 DEF IdOf
    <3>4. QED
      BY <3>2, <3>3
  <2>4. QED
    BY <2>1, <2>2, <2>3
<1>11. QED
  BY <1>6, <1>9, <1>10

\* Each slot is on one list, once.
Spots(n, m, ls, i) == {p \in (1..m + 2) \X (1..n) : p[2] <= Len(ls[p[1]]) /\ ls[p[1]][p[2]] = i}

LEMMA OnceIs ==
  ASSUME NEW n \in Nat, NEW m \in Nat \ {0}, NEW own, NEW ls, Len(ls) = m + 2,
         \A p \in 1..m + 2 : ListOf(n, own, IdOf(p), ls[p]),
         NEW i \in 1..n, own[i] \in Ids(m)
  PROVE  Cardinality(Spots(n, m, ls, i)) = 1
<1> DEFINE S == {p \in (1..m + 2) \X (1..n) : p[2] <= Len(ls[p[1]]) /\ ls[p[1]][p[2]] = i}
<1>1. \E p \in 1..m + 2 : IdOf(p) = own[i]
  <2>1. CASE own[i] = FREE
    BY <2>1 DEF IdOf
  <2>2. CASE own[i] = REHASH
    BY <2>2 DEF IdOf
  <2>3. CASE own[i] \in 0..m - 1
    <3>1. own[i] + 3 \in 1..m + 2 /\ IdOf(own[i] + 3) = own[i]
      BY <2>3 DEF IdOf
    <3>2. QED
      BY <3>1
  <2>4. QED
    BY <2>1, <2>2, <2>3, IdsAre
<1>2. PICK p \in 1..m + 2 : IdOf(p) = own[i]
  BY <1>1
<1>3. \A q \in 1..m + 2 : IdOf(q) = own[i] => q = p
  BY <1>2 DEF IdOf, FREE, REHASH
<1>4. ListOf(n, own, own[i], ls[p])
  BY <1>2
<1>5. PICK k \in 1..Len(ls[p]) : ls[p][k] = i
  BY <1>4 DEF ListOf
<1>6. Len(ls[p]) \in Nat /\ Len(ls[p]) <= n
  BY <1>4, LenProperties DEF ListOf
<1>7. k \in 1..n /\ k <= Len(ls[p])
  BY <1>6
<1>8. <<p, k>> \in S
  BY <1>5, <1>7
<1>9. ASSUME NEW q \in S PROVE q = <<p, k>>
  <2>1. q = <<q[1], q[2]>> /\ q[1] \in 1..m + 2 /\ q[2] \in 1..n /\ q[2] <= Len(ls[q[1]]) /\ ls[q[1]][q[2]] = i
    OBVIOUS
  <2>2. PICK u \in 1..m + 2 : u = q[1]
    BY <2>1
  <2>3. PICK j \in 1..n : j = q[2]
    BY <2>1
  <2>4. ListOf(n, own, IdOf(u), ls[u])
    OBVIOUS
  <2>5. Len(ls[u]) \in Nat
    BY <2>4, LenProperties DEF ListOf
  <2>6. j \in 1..Len(ls[u]) /\ ls[u][j] = i
    BY <2>1, <2>2, <2>3, <2>5
  <2>7. own[i] = IdOf(u)
    <3>1. \A a \in 1..n : own[a] = IdOf(u) <=> \E b \in 1..Len(ls[u]) : ls[u][b] = a
      BY <2>4 DEF ListOf
    <3>2. QED
      BY <2>6, <3>1
  <2>8. u = p
    BY <1>3, <2>7
  <2>9. j = k
    BY <1>4, <1>5, <2>6, <2>8 DEF ListOf
  <2>10. QED
    BY <2>1, <2>2, <2>3, <2>8, <2>9
<1>10. S = {<<p, k>>}
  BY <1>8, <1>9
<1>11. QED
  BY <1>10, FS_Singleton DEF Spots

OnOne(ls) ==
  \A i \in Slots(t) : Cardinality({p \in (1..Len(ls)) \X (1..Len(t.kv)) :
                                    p[2] <= Len(ls[p[1]]) /\ ls[p[1]][p[2]] = i}) = 1
FreeIs(ls) == {i \in Slots(t) : IsFree(t.kv[i])} = ToSet(ls[1])
Counted == t.count = Cardinality({i \in Slots(t) : ~IsFree(t.kv[i])})

\* The three parts of SlotsOnce.
LEMMA OnceUnfolded ==
  SlotsOnce <=> \A ls \in {Lists} : OnOne(ls) /\ FreeIs(ls) /\ Counted
BY Zenon DEF SlotsOnce, OnOne, FreeIs, Counted

\* The invariant implies each of them.
LEMMA SlotsOnceHolds ==
  ASSUME IInv
  PROVE  SlotsOnce
<1>1. PICK n \in Nat \ {0}, m \in Nat \ {0} :
        \E own : Agrees(n, m, t, gc.moved, own, gc.from, gc.to, place, live)
  BY DEF IInv, Sound, Sized
<1>2. PICK own : Whole(n, m, t, own)
  BY <1>1 DEF Agrees
<1>3. /\ Owned(n, m, t, own) /\ t \in Tables(n, m) /\ Slots(t) = 1..n /\ own \in [1..n -> Ids(m) \union {NONE}]
      /\ \A i \in 1..n : own[i] # NONE
  BY <1>2, WholeIs DEF Whole
<1>4. Len(t.kv) = n
  BY <1>3 DEF Tables
<1>5. Len(Lists) = m + 2 /\ \A p \in 1..m + 2 : ListOf(n, own, IdOf(p), Lists[p])
  BY <1>3, ListsIs
<1> DEFINE ls == Lists
<1> HIDE DEF ls
<1>6. ASSUME NEW i \in Slots(t)
      PROVE  Cardinality({p \in (1..Len(ls)) \X (1..Len(t.kv)) : p[2] <= Len(ls[p[1]]) /\ ls[p[1]][p[2]] = i}) = 1
  <2>1. Len(ls) = m + 2 /\ \A p \in 1..m + 2 : ListOf(n, own, IdOf(p), ls[p])
    BY <1>5 DEF ls
  <2>2. i \in 1..n /\ own[i] \in Ids(m)
    BY <1>3
  <2>3. Cardinality(Spots(n, m, ls, i)) = 1
    BY <2>1, <2>2, OnceIs
  <2>4. QED
    BY <1>4, <2>1, <2>3 DEF Spots
<1>7. {i \in Slots(t) : IsFree(t.kv[i])} = ToSet(ls[1])
  <2>1. ListOf(n, own, FREE, ls[1])
    <3>1. 1 \in 1..m + 2 /\ IdOf(1) = FREE
      BY DEF IdOf
    <3>2. QED
      BY <1>5, <3>1 DEF ls
  <2>2. ls[1] \in Seq(1..n) /\ DOMAIN ls[1] = 1..Len(ls[1]) /\ \A j \in 1..Len(ls[1]) : ls[1][j] \in 1..n
    BY <2>1, LenProperties, ElementOfSeq DEF ListOf
  <2>3. \A i \in 1..n : IsFree(t.kv[i]) <=> \E j \in 1..Len(ls[1]) : ls[1][j] = i
    BY <1>2, <2>1 DEF Whole, ListOf
  <2> DEFINE f == ls[1]
  <2>4. f \in Seq(1..n) /\ DOMAIN f = 1..Len(f) /\ (\A j \in 1..Len(f) : f[j] \in 1..n)
        /\ \A i \in 1..n : IsFree(t.kv[i]) <=> \E j \in 1..Len(f) : f[j] = i
    BY <2>2, <2>3
  <2> HIDE DEF f
  <2>5. ToSet(f) = {f[j] : j \in 1..Len(f)}
    BY <2>4 DEF ToSet
  <2>6. {i \in 1..n : IsFree(t.kv[i])} = ToSet(f)
    BY <2>4, <2>5
  <2>7. QED
    BY <1>3, <2>6 DEF f
<1>8. t.count = Cardinality({i \in Slots(t) : ~IsFree(t.kv[i])})
  BY <1>2, <1>3 DEF Whole, FullOf
<1>9. OnOne(ls) /\ FreeIs(ls) /\ Counted
  BY <1>6, <1>7, <1>8, Zenon DEF OnOne, FreeIs, Counted
<1>10. QED
  BY <1>9, OnceUnfolded DEF ls

\* The invariant implies the types.
LEMMA TypeHolds ==
  ASSUME IInv
  PROVE  TypeOK
<1>1. PICK n \in Nat \ {0}, m \in Nat \ {0} :
        \E own : Agrees(n, m, t, gc.moved, own, gc.from, gc.to, place, live)
  BY DEF IInv, Sound, Sized
<1>2. PICK own : Agrees(n, m, t, gc.moved, own, gc.from, gc.to, place, live)
  BY <1>1
<1>3. /\ Whole(n, m, t, own) /\ t \in Tables(n, m) /\ Slots(t) = 1..n /\ t.length = m /\ gc.moved \subseteq gc.from
  BY <1>2, WholeIs DEF Agrees
<1>4. t.kv \in Seq(Entry) /\ Len(t.kv) = n
  <2>1. t.kv \in [1..n -> Entry]
    BY <1>3 DEF Tables
  <2> HIDE DEF Entry
  <2>2. QED
    BY <2>1, IsASeq, LenProperties
<1>5. t.index \in [Buckets(t) -> Slots(t) \union {0}] /\ t.next \in [Slots(t) -> Slots(t) \union {0}]
      /\ {t.free, t.rehash} \subseteq Slots(t) \union {0}
  <2>1. Slots(t) \union {0} = 0..n /\ Buckets(t) = 0..m - 1
    BY <1>3 DEF Buckets
  <2>2. QED
    BY <1>3, <2>1 DEF Tables
<1>6. t.count \in 0..Len(t.kv)
  BY <1>3, <1>4, FullIsFinite DEF Whole
<1>7. t.subtype \in {"normal", "valid", "must-rehash"}
  BY <1>3 DEF Tables, Subtypes
<1>8. /\ weak \in Weakness /\ live \subseteq Object /\ place \in [Object -> Addresses]
      /\ gc.pc \in {"lisp", "roots", "copied", "settled"}
  BY DEF IInv, Sound, GcRecord
<1>9. t.length \in Nat \ {0}
  BY <1>3
<1>10. QED
  BY <1>3, <1>4, <1>5, <1>6, <1>7, <1>8, <1>9 DEF TypeOK, Entry

\* The invariant implies that gethash finds each entry.
LEMMA LookupFindsHolds ==
  ASSUME IInv, Accessed
  PROVE  LookupFinds
<1> SUFFICES ASSUME gc.pc = "lisp", NEW x, x = Prepare(t), NEW i \in Slots(x), ~IsFree(x.kv[i])
             PROVE  Lookup(x, x.kv[i].key.o) = i
  BY DEF LookupFinds
<1>1. PICK n \in Nat \ {0}, m \in Nat \ {0} : \E own : Agrees(n, m, t, {}, own, {}, gc.to, place, live)
  BY LispFinds
<1>2. PICK own0 : Agrees(n, m, t, {}, own0, {}, gc.to, place, live)
  BY <1>1
<1>3. place \in [Object -> Addresses] /\ n \in Nat
  BY LispFinds
<1> DEFINE y == t
<1>4. \E own : Ready(n, m, Prepare(y), own)
  BY <1>2, <1>3, PrepareIs
<1>5. PICK own : Ready(n, m, x, own)
  BY <1>4
<1>6. Whole(n, m, x, own) /\ Owned(n, m, x, own) /\ x.length = m /\ Slots(x) = 1..n /\ Distinct(n, x)
  BY <1>5, WholeIs DEF Ready
<1>7. i \in 1..n /\ i \in FullOf(n, x)
  BY <1>6 DEF FullOf
<1> DEFINE o == x.kv[i].key.o
           l == Lookup(x, o)
<1>8. own[i] = Bucket(x, o)
  BY <1>5, <1>6, <1>7 DEF Ready, Bucket
<1>9. Bucket(x, o) \in 0..m - 1
  BY <1>3, <1>6, BucketIs
<1>10. /\ l = 0 => \A j \in 1..n : own[j] = Bucket(x, o) => x.kv[j].key.o # o
       /\ l # 0 => l \in 1..n /\ own[l] = Bucket(x, o) /\ x.kv[l].key.o = o
  BY <1>3, <1>6, LookupIs
<1> HIDE DEF l
<1>11. l # 0 /\ l \in 1..n /\ own[l] = Bucket(x, o) /\ x.kv[l].key.o = o
  BY <1>7, <1>8, <1>10
<1>12. l \in FullOf(n, x)
  <2>1. own[l] # FREE
    BY <1>9, <1>11, IdsAre
  <2>2. QED
    BY <1>6, <1>11, <2>1 DEF Whole, FullOf
<1>13. l = i
  BY <1>6, <1>7, <1>11, <1>12 DEF Distinct
<1>14. QED
  BY <1>13 DEF l

\* The invariant implies that no freed memory is pointed to.
LEMMA NoDanglingHolds ==
  ASSUME IInv, Accessed
  PROVE  NoDangling
<1> SUFFICES ASSUME gc.pc = "lisp", NEW i \in Slots(t)
             PROVE  {t.kv[i].key.o, t.kv[i].value.o} \subseteq live \union {Imm, Empty}
  BY DEF NoDangling
<1>1. PICK n \in Nat \ {0}, m \in Nat \ {0} : \E own : Agrees(n, m, t, {}, own, {}, gc.to, place, live)
  BY LispFinds
<1>2. Alive(n, t, live) /\ Slots(t) = 1..n
  BY <1>1, WholeIs DEF Agrees
<1>3. CASE IsFree(t.kv[i])
  BY <1>3 DEF IsFree
<1>4. CASE ~IsFree(t.kv[i])
  <2>1. i \in FullOf(n, t)
    BY <1>2, <1>4 DEF FullOf
  <2>2. QED
    BY <1>2, <2>1 DEF Alive
<1>5. QED
  BY <1>3, <1>4

-----------------------------------------------------------------------------
(***************************************************************************)
(* The theorems.                                                           *)
(***************************************************************************)
LEMMA NextKeeps ==
  ASSUME IInv, [Next]_vars
  PROVE  IInv'
<1>1. CASE Gethash
  BY <1>1, GethashKeeps
<1>2. CASE ClrHash
  BY <1>2, ClrHashKeeps
<1>3. CASE Purify
  BY <1>3, PurifyKeeps
<1>4. ASSUME NEW k \in live, NEW v \in live \union {Imm}, PutHash(k, v)
      PROVE  IInv'
  BY <1>4, PutHashKeeps
<1>5. ASSUME NEW k \in live, RemHash(k)
      PROVE  IInv'
  BY <1>5, RemHashKeeps
<1>6. ASSUME NEW S \in (SUBSET live) \ {{}}, NEW to \in [S -> Addresses], StartCollection(S, to)
      PROVE  IInv'
  <2>1. S \in SUBSET live
    OBVIOUS
  <2>2. QED
    BY <1>6, <2>1, StartKeeps
<1>7. ASSUME NEW o \in Object, Reach(o)
      PROVE  IInv'
  BY <1>7, ReachKeeps
<1>8. CASE ScavWeakTables
  BY <1>8, ScavKeeps
<1>9. CASE EndCollection
  BY <1>9, EndKeeps
<1>10. CASE UNCHANGED vars
  BY <1>10 DEF vars, IInv
<1>11. QED
  BY <1>1, <1>2, <1>3, <1>4, <1>5, <1>6, <1>7, <1>8, <1>9, <1>10 DEF Next

(* The lists and entries of the table agree with the memory in every state of
   Lisp and of the collector (gencgc.c scav_weak_tables, hash-new.lisp).   *)
THEOREM Invariance == Spec => []IInv
<1>1. Init => IInv
  BY InitIs
<1>2. IInv /\ [Next]_vars => IInv'
  BY NextKeeps
<1>3. QED
  BY <1>1, <1>2, PTL DEF Spec

(* The table, its vectors and the collection are always records of the types that
   hash-new.lisp and gencgc.c give them: every index is 0 or a slot.       *)
THEOREM TypeCorrect == Spec => []TypeOK
<1>1. IInv => TypeOK
  BY TypeHolds
<1>2. QED
  BY <1>1, Invariance, PTL

(* Whatever free_hash_entry, scav_hash_entries, rehash, puthash and remhash do, each
   slot is once on one list, the free ones on the free list, and number-entries
   is the number of the others.  Nothing is assumed of when Lisp uses the table. *)
THEOREM ListsPartition == Spec => []SlotsOnce
<1>1. IInv => SlotsOnce
  BY SlotsOnceHolds
<1>2. QED
  BY <1>1, Invariance, PTL

(* The lists are a partition and gethash, after the rehash or the flush it starts
   with, finds every entry the table holds, wherever its key was moved to.  *)
THEOREM TableIsSound ==
  ASSUME Accessed
  PROVE  Spec => []TableSound
<1>1. IInv => TableSound
  BY SlotsOnceHolds, LookupFindsHolds DEF TableSound
<1>2. QED
  BY <1>1, Invariance, PTL

(* When a collection has ended no slot holds a pointer to memory it freed: the
   entries whose key or value died were removed, and all others forwarded.   *)
THEOREM NothingDangles ==
  ASSUME Accessed
  PROVE  Spec => []NoDangling
<1>1. IInv => NoDangling
  BY NoDanglingHolds
<1>2. QED
  BY <1>1, Invariance, PTL

-----------------------------------------------------------------------------
(***************************************************************************)
(* The map of WeakMap: what its closure Alive is, and what of the table    *)
(* determines it.                                                          *)
(***************************************************************************)

\* A set that only grows, in a set of at most k more elements, is complete after k steps.
Grows(U, G) == G \in [SUBSET U -> SUBSET U] /\ \A A \in SUBSET U : A \subseteq G[A]
Fixed(U, G, S, X) ==
  /\ X \in SUBSET U /\ S \subseteq X /\ G[X] = X
  /\ \A A \in SUBSET U : S \subseteq A /\ (\A B \in SUBSET A : G[B] \subseteq A) => X \subseteq A

\* What k steps of G make of S is the least set with S that G leaves as it is.
LEMMA GrownSetIs ==
  ASSUME NEW U, IsFiniteSet(U), NEW G, Grows(U, G), NEW S \in SUBSET U, NEW k \in Nat,
         Cardinality(U) <= k + Cardinality(S),
         NEW g, g[0] = S, \A i \in 1..k : g[i] = G[g[i - 1]]
  PROVE  Fixed(U, G, S, g[k])
<1> DEFINE Near(B) == /\ B \in SUBSET U /\ S \subseteq B
                      /\ \A A \in SUBSET U : S \subseteq A /\ (\A C \in SUBSET A : G[C] \subseteq A) => B \subseteq A
           D == [i \in 0..k |-> {B \in SUBSET U : Near(B) /\ (G[B] = B \/ Cardinality(B) >= i + Cardinality(S))}]
<1>1. \A B \in SUBSET U : IsFiniteSet(B) /\ Cardinality(B) \in Nat
  BY FS_Subset, FS_CardinalityType
<1>2. ASSUME NEW B, Near(B)
      PROVE  Near(G[B])
  BY <1>2 DEF Grows
<1>3. g[0] \in D[0]
  <2>1. Near(S) /\ Cardinality(S) >= 0 + Cardinality(S)
    BY <1>1
  <2> HIDE DEF Near
  <2>2. QED
    BY <2>1
<1>4. ASSUME NEW i \in 1..k, g[i - 1] \in D[i - 1]
      PROVE  g[i] \in D[i]
  <2> DEFINE B == g[i - 1]
  <2> HIDE DEF B
  <2>1. i - 1 \in 0..k /\ i \in 0..k
    OBVIOUS
  <2>2. B \in SUBSET U /\ Near(B) /\ (G[B] = B \/ Cardinality(B) >= (i - 1) + Cardinality(S))
    <3> HIDE DEF Near
    <3>1. QED
      BY <1>4, <2>1 DEF B
  <2>3. g[i] = G[B] /\ Near(G[B]) /\ G[B] \in SUBSET U /\ B \subseteq G[B]
    <3>1. g[i] = G[B]
      BY DEF B
    <3>2. Near(G[B])
      BY <1>2, <2>2
    <3>3. QED
      BY <2>2, <3>1, <3>2 DEF Grows
  <2>4. G[G[B]] = G[B] \/ Cardinality(G[B]) >= i + Cardinality(S)
    <3>1. CASE G[B] = B
      BY <3>1
    <3>2. CASE G[B] # B
      <4>1. Cardinality(B) < Cardinality(G[B])
        BY <1>1, <2>2, <2>3, <3>2, FS_Subset
      <4>2. Cardinality(B) \in Nat /\ Cardinality(G[B]) \in Nat /\ Cardinality(S) \in Nat
        BY <1>1, <2>2, <2>3
      <4>3. QED
        BY <2>2, <3>2, <4>1, <4>2
    <3>3. QED
      BY <3>1, <3>2
  <2> HIDE DEF Near
  <2>5. QED
    BY <2>1, <2>3, <2>4
<1> HIDE DEF D
<1>5. g[k] \in D[k]
  BY <1>3, <1>4, LoopEnds
<1>6. g[k] \in SUBSET U /\ Near(g[k]) /\ (G[g[k]] = g[k] \/ Cardinality(g[k]) >= k + Cardinality(S))
  <2>1. k \in 0..k
    OBVIOUS
  <2> HIDE DEF Near
  <2>2. QED
    BY <1>5, <2>1 DEF D
<1>7. G[g[k]] = g[k]
  <2>1. CASE Cardinality(g[k]) >= k + Cardinality(S)
    <3>1. Cardinality(g[k]) >= Cardinality(U) /\ Cardinality(g[k]) \in Nat /\ Cardinality(U) \in Nat
      BY <1>1, <1>6, <2>1, FS_CardinalityType
    <3>2. g[k] = U
      BY <1>6, <3>1, FS_Subset
    <3>3. U \in SUBSET U /\ U \subseteq G[U] /\ G[U] \in SUBSET U
      BY DEF Grows
    <3>4. QED
      BY <3>2, <3>3
  <2>2. QED
    BY <1>6, <2>1
<1>8. QED
  BY <1>6, <1>7 DEF Fixed

\* An entry is asked for by a set when its weakness is satisfied in it.
Wanted(x, w, i, A) ==
  \/ x.subtype = "must-rehash"
  \/ w = "key" /\ x.kv[i].key.o \in A
  \/ w = "value" /\ x.kv[i].value.o \in A
  \/ w = "key-and-value" /\ x.kv[i].key.o \in A /\ x.kv[i].value.o \in A
  \/ w = "key-or-value" /\ (x.kv[i].key.o \in A \/ x.kv[i].value.o \in A)

\* A set that has the key and the value of each entry it asks for.
Closed(x, w, A) == \A i \in Full(x) : Wanted(x, w, i, A) => x.kv[i].key.o \in A /\ x.kv[i].value.o \in A

\* The slots that hold entries have different keys, and live keys and values.
MapLike(x, lv) ==
  /\ \A i, j \in Full(x) : x.kv[i].key.o = x.kv[j].key.o => i = j
  /\ \A i \in Full(x) : x.kv[i].key.o \in lv /\ x.kv[i].value.o \in lv \union {Imm}

Values == Object \union {Imm}

\* The map of a table takes the key of each entry to its value.
LEMMA MapIs ==
  ASSUME NEW x, NEW lv, MapLike(x, lv)
  PROVE  /\ MapOf(x) = [k \in DOMAIN MapOf(x) |-> MapOf(x)[k]]
         /\ DOMAIN MapOf(x) = {x.kv[i].key.o : i \in Full(x)}
         /\ \A i \in Full(x) : MapOf(x)[x.kv[i].key.o] = x.kv[i].value.o
<1>1. ASSUME NEW i \in Full(x)
      PROVE  MapOf(x)[x.kv[i].key.o] = x.kv[i].value.o
  <2> DEFINE j == CHOOSE j \in Full(x) : x.kv[j].key.o = x.kv[i].key.o
  <2>1. j \in Full(x) /\ x.kv[j].key.o = x.kv[i].key.o
    OBVIOUS
  <2>2. j = i
    <3> HIDE DEF j
    <3>1. QED
      BY <2>1 DEF MapLike
  <2>3. MapOf(x)[x.kv[i].key.o] = x.kv[j].value.o
    BY Zenon DEF MapOf
  <2> HIDE DEF j
  <2>4. QED
    BY <2>2, <2>3
<1>2. MapOf(x) = [k \in DOMAIN MapOf(x) |-> MapOf(x)[k]] /\ DOMAIN MapOf(x) = {x.kv[i].key.o : i \in Full(x)}
  BY DEF MapOf
<1>3. QED
  BY <1>1, <1>2

\* Two tables with the same entries are the same map.
LEMMA SameMap ==
  ASSUME NEW x, NEW lv, MapLike(x, lv), NEW f, f = [k \in DOMAIN f |-> f[k]],
         DOMAIN f = {x.kv[i].key.o : i \in Full(x)},
         \A i \in Full(x) : f[x.kv[i].key.o] = x.kv[i].value.o
  PROVE  MapOf(x) = f
<1>1. ASSUME NEW k \in DOMAIN f PROVE MapOf(x)[k] = f[k]
  <2>1. PICK i \in Full(x) : k = x.kv[i].key.o
    OBVIOUS
  <2>2. QED
    BY <2>1, MapIs
<1>2. QED
  BY <1>1, MapIs

\* WeakMap retains an entry when the entry is asked for.
LEMMA RetainedIs ==
  ASSUME NEW lv, MapLike(t, lv), NEW i \in Full(t), NEW A
  PROVE  Map!Retained(t.kv[i].key.o, MapOf(t)[t.kv[i].key.o], A) <=> Wanted(t, weak, i, A)
<1>1. MapOf(t)[t.kv[i].key.o] = t.kv[i].value.o
  BY MapIs
<1>2. QED
  BY <1>1 DEF Map!Retained, Wanted

\* What the entries that A asks for add to A.
Entries(A) ==
  UNION {{k, MapOf(t)[k]} : k \in {x \in DOMAIN MapOf(t) : Map!Retained(x, MapOf(t)[x], A)}}

\* They are the keys and values of the entries that A asks for.
LEMMA EntriesAre ==
  ASSUME NEW lv, lv \subseteq Object, MapLike(t, lv), NEW A
  PROVE  /\ Entries(A) \subseteq Values
         /\ \A i \in Full(t) : Wanted(t, weak, i, A) =>
              t.kv[i].key.o \in Entries(A) /\ t.kv[i].value.o \in Entries(A)
         /\ \A v \in Entries(A) : \E i \in Full(t) : Wanted(t, weak, i, A) /\ v \in {t.kv[i].key.o, t.kv[i].value.o}
<1>1. ASSUME NEW v \in Entries(A)
      PROVE  \E i \in Full(t) : Wanted(t, weak, i, A) /\ v \in {t.kv[i].key.o, t.kv[i].value.o}
  <2>1. PICK k \in DOMAIN MapOf(t) : Map!Retained(k, MapOf(t)[k], A) /\ v \in {k, MapOf(t)[k]}
    BY DEF Entries
  <2>2. PICK i \in Full(t) : k = t.kv[i].key.o
    <3>1. DOMAIN MapOf(t) = {t.kv[i].key.o : i \in Full(t)}
      BY MapIs
    <3>2. QED
      BY <2>1, <3>1
  <2>3. MapOf(t)[k] = t.kv[i].value.o /\ Wanted(t, weak, i, A)
    BY <2>1, <2>2, MapIs, RetainedIs
  <2>4. QED
    BY <2>1, <2>2, <2>3
<1>2. ASSUME NEW i \in Full(t), Wanted(t, weak, i, A)
      PROVE  t.kv[i].key.o \in Entries(A) /\ t.kv[i].value.o \in Entries(A)
  <2>1. t.kv[i].key.o \in DOMAIN MapOf(t) /\ MapOf(t)[t.kv[i].key.o] = t.kv[i].value.o
    BY MapIs, Zenon
  <2>2. Map!Retained(t.kv[i].key.o, MapOf(t)[t.kv[i].key.o], A)
    BY <1>2, RetainedIs
  <2>3. QED
    BY <2>1, <2>2 DEF Entries
<1>3. Entries(A) \subseteq Values
  BY <1>1 DEF MapLike, Values
<1>4. QED
  BY <1>1, <1>2, <1>3

\* A larger set asks for more.
LEMMA WantedMore ==
  ASSUME NEW x, NEW w, NEW i, NEW A, NEW B \in SUBSET A, Wanted(x, w, i, B)
  PROVE  Wanted(x, w, i, A)
BY DEF Wanted

\* The module WeakMap counts as this one does.
LEMMA CardinalityIs ==
  ASSUME NEW S
  PROVE  Map!Cardinality(S) = Cardinality(S)
BY Zenon DEF Map!Cardinality, Cardinality

\* WeakMap's Alive is a loop, of a step for each object.
LEMMA AliveLoops ==
  ASSUME NEW G, Grows(Values, G), \A A \in SUBSET Values : G[A] = A \union Entries(A), NEW S \in SUBSET Object
  PROVE  /\ Cardinality(Object) \in Nat
         /\ \E g : /\ g[0] = S \union {Imm} /\ \A i \in 1..Cardinality(Object) : g[i] = G[g[i - 1]]
                   /\ Map!Alive(S) = g[Cardinality(Object)]
<1> DEFINE k == Cardinality(Object)
           c == S \union {Imm}
           next(B) == UNION {A \union Entries(A) : A \in {B}}
           step == [i \in 1..k |-> G]
           D == [i \in 0..k |-> SUBSET Values]
<1>1. k \in Nat
  BY TableAssumption, FS_CardinalityType
<1> HIDE DEF k
<1>2. c \in D[0]
  BY <1>1 DEF Values
<1>3. ASSUME NEW B \in SUBSET Values PROVE next(B) = G[B] /\ G[B] \in SUBSET Values
  BY DEF Grows
<1> HIDE DEF next, c
<1>4. Loops(k, c, step, D)
  <2>1. \A i \in 1..k : i \in 0..k /\ i - 1 \in 0..k
    BY <1>1
  <2>2. QED
    BY <1>2, <1>3, <2>1 DEF Loops
<1>5. PICK r : Looped(k, c, step, D, r)
  <2> HIDE DEF step, D
  <2>1. QED
    BY <1>1, <1>4, LoopExists
<1> DEFINE R == [i \in 0..k |-> r[i]]
<1>6. R = [i \in 0..k |-> IF i = 0 THEN c ELSE next(R[i - 1])]
  <2>1. ASSUME NEW i \in 0..k PROVE R[i] = IF i = 0 THEN c ELSE next(R[i - 1])
    <3>1. CASE i = 0
      BY <1>5, <3>1 DEF Looped
    <3>2. CASE i # 0
      <4>1. i \in 1..k /\ i - 1 \in 0..k
        BY <1>1, <3>2
      <4>2. r[i] = G[r[i - 1]] /\ r[i - 1] \in SUBSET Values
        BY <1>5, <4>1 DEF Looped
      <4>3. R[i - 1] = r[i - 1] /\ R[i] = r[i]
        BY <4>1
      <4> HIDE DEF R
      <4>4. QED
        BY <1>3, <3>2, <4>2, <4>3
    <3>3. QED
      BY <3>1, <3>2
  <2>2. R = [i \in 0..k |-> R[i]]
    OBVIOUS
  <2> HIDE DEF R
  <2>3. QED
    BY <2>1, <2>2
<1> HIDE DEF R
<1> DEFINE grow[i \in 0..Cardinality(Object)] ==
             IF i = 0 THEN S \union {Imm}
             ELSE UNION {A \union UNION {{v, MapOf(t)[v]} : v \in {x \in DOMAIN MapOf(t) : Map!Retained(x, MapOf(t)[x], A)}} :
                           A \in {grow[i - 1]}}
<1>7. Map!Alive(S) = grow[Cardinality(Object)]
  BY Zenon, CardinalityIs DEF Map!Alive
<1>8. grow = [i \in 0..k |-> IF i = 0 THEN c ELSE next(grow[i - 1])]
  <2>1. \E q : q = [i \in 0..k |-> IF i = 0 THEN c ELSE next(q[i - 1])]
    BY <1>6, Zenon
  <2>2. QED
    BY <2>1, Zenon DEF k, c, next, Entries
<1> HIDE DEF grow
<1>9. grow[0] = c /\ \A i \in 1..k : grow[i] = next(grow[i - 1])
  BY <1>1, <1>8
<1>10. grow[k] \in D[k] /\ \A i \in 0..k : grow[i] \in SUBSET Values
  <2> DEFINE E == [i \in 0..k |-> SUBSET Values]
  <2>1. ASSUME NEW j \in 0..k PROVE grow[j] \in SUBSET Values
    <3>1. grow[0] \in E[0]
      BY <1>2, <1>9
    <3>2. ASSUME NEW i \in 1..j, grow[i - 1] \in E[i - 1] PROVE grow[i] \in E[i]
      <4>1. i \in 0..k /\ i - 1 \in 0..k /\ i \in 1..k
        BY <1>1
      <4>2. grow[i - 1] \in SUBSET Values
        BY <3>2, <4>1
      <4>3. QED
        BY <1>3, <1>9, <4>1, <4>2
    <3> HIDE DEF E
    <3>3. grow[j] \in E[j]
      BY <1>1, <3>1, <3>2, LoopEnds
    <3>4. QED
      BY <3>3 DEF E
  <2>2. QED
    BY <1>1, <2>1
<1>11. \A i \in 1..k : grow[i] = G[grow[i - 1]]
  <2>1. \A i \in 1..k : i - 1 \in 0..k
    BY <1>1
  <2>2. QED
    BY <1>3, <1>9, <1>10, <2>1
<1>12. QED
  BY <1>1, <1>7, <1>9, <1>11 DEF k, c

\* What is alive when S is: the smallest set with S that has what its entries ask for.
LEMMA AliveIs ==
  ASSUME live \subseteq Object, MapLike(t, live), NEW S \in SUBSET Object
  PROVE  /\ Map!Alive(S) \in SUBSET Values /\ S \union {Imm} \subseteq Map!Alive(S)
         /\ Closed(t, weak, Map!Alive(S))
         /\ \A A \in SUBSET Values : S \union {Imm} \subseteq A /\ Closed(t, weak, A) => Map!Alive(S) \subseteq A
<1> DEFINE G == [A \in SUBSET Values |-> A \union Entries(A)]
           c == S \union {Imm}
<1>1. \A A : Entries(A) \subseteq Values
  BY EntriesAre
<1>2. Grows(Values, G) /\ \A A \in SUBSET Values : G[A] = A \union Entries(A)
  BY <1>1 DEF Grows
<1> HIDE DEF G
<1>3. PICK g : /\ g[0] = c /\ \A i \in 1..Cardinality(Object) : g[i] = G[g[i - 1]]
               /\ Map!Alive(S) = g[Cardinality(Object)]
  BY <1>2, AliveLoops
<1>4. IsFiniteSet(Values) /\ Cardinality(Values) = Cardinality(Object) + 1 /\ Cardinality(Object) \in Nat
  <2>1. IsFiniteSet(Object) /\ Imm \notin Object
    BY TableAssumption
  <2>2. QED
    BY <2>1, FS_AddElement, FS_CardinalityType DEF Values
<1>5. c \in SUBSET Values /\ Cardinality(c) \in Nat /\ Cardinality(c) >= 1
  <2>1. c \in SUBSET Values /\ c # {}
    BY DEF Values
  <2>2. IsFiniteSet(c)
    BY <1>4, <2>1, FS_Subset
  <2>3. Cardinality(c) \in Nat /\ Cardinality(c) # 0
    BY <2>1, <2>2, FS_EmptySet, FS_CardinalityType
  <2>4. QED
    BY <2>1, <2>3
<1> HIDE DEF c
<1>6. Fixed(Values, G, c, g[Cardinality(Object)])
  <2> DEFINE k == Cardinality(Object)
  <2>1. k \in Nat /\ Cardinality(Values) <= k + Cardinality(c)
    BY <1>4, <1>5
  <2>2. g[0] = c /\ \A i \in 1..k : g[i] = G[g[i - 1]]
    BY <1>3
  <2> HIDE DEF k
  <2>3. Fixed(Values, G, c, g[k])
    BY <1>2, <1>4, <1>5, <2>1, <2>2, GrownSetIs
  <2>4. QED
    BY <2>3 DEF k
<1> DEFINE X == Map!Alive(S)
<1>7. Fixed(Values, G, c, X)
  BY <1>3, <1>6
<1> HIDE DEF X
<1>8. Entries(X) \subseteq X
  BY <1>2, <1>7 DEF Fixed
<1>9. Closed(t, weak, X)
  <2>1. ASSUME NEW i \in Full(t), Wanted(t, weak, i, X)
        PROVE  t.kv[i].key.o \in X /\ t.kv[i].value.o \in X
    BY <1>8, <2>1, EntriesAre
  <2>2. QED
    BY <2>1 DEF Closed
<1>10. ASSUME NEW A \in SUBSET Values, c \subseteq A, Closed(t, weak, A)
       PROVE  X \subseteq A
  <2>1. ASSUME NEW B \in SUBSET A
        PROVE  G[B] \subseteq A
    <3>1. ASSUME NEW v \in Entries(B)
          PROVE  v \in A
      <4>1. PICK i \in Full(t) : Wanted(t, weak, i, B) /\ v \in {t.kv[i].key.o, t.kv[i].value.o}
        BY EntriesAre
      <4>2. Wanted(t, weak, i, A)
        BY <4>1, WantedMore
      <4>3. QED
        BY <1>10, <4>1, <4>2 DEF Closed
    <3>2. B \in SUBSET Values
      BY DEF Values
    <3>3. QED
      BY <1>2, <3>1, <3>2
  <2>2. QED
    BY <1>7, <1>10, <2>1 DEF Fixed
<1>11. QED
  BY <1>7, <1>9, <1>10 DEF c, X, Fixed

\* What survives: the objects out of from space, and those that have been moved.
Kept(lv, from, moved) == (lv \ from) \union moved \union {Imm}

\* When the set that survives has what its entries ask for, and any such set has it, it is Alive.
LEMMA KeptIsAlive ==
  ASSUME live \subseteq Object, MapLike(t, live), NEW from, NEW reached, NEW moved,
         reached \subseteq moved, moved \subseteq from, from \subseteq live,
         Closed(t, weak, Kept(live, from, moved)),
         \A A \in SUBSET Values : Kept(live, from, reached) \subseteq A /\ Closed(t, weak, A)
                                   => Kept(live, from, moved) \subseteq A
  PROVE  Map!Alive((live \ from) \union reached) = Kept(live, from, moved)
<1> DEFINE S == (live \ from) \union reached
           X == Map!Alive(S)
<1>1. S \in SUBSET Object /\ S \union {Imm} = Kept(live, from, reached)
  BY DEF Kept
<1>2. /\ X \in SUBSET Values /\ S \union {Imm} \subseteq X /\ Closed(t, weak, X)
      /\ \A A \in SUBSET Values : S \union {Imm} \subseteq A /\ Closed(t, weak, A) => X \subseteq A
  BY <1>1, AliveIs
<1> HIDE DEF X, S
<1>3. Kept(live, from, moved) \subseteq X
  BY <1>1, <1>2
<1>4. X \subseteq Kept(live, from, moved)
  <2>1. Kept(live, from, moved) \in SUBSET Values /\ Kept(live, from, reached) \subseteq Kept(live, from, moved)
    BY DEF Kept, Values
  <2>2. QED
    BY <1>1, <1>2, <2>1
<1>5. QED
  BY <1>3, <1>4 DEF X, S

-----------------------------------------------------------------------------
(***************************************************************************)
(* What the collector keeps alive for the table.                           *)
(***************************************************************************)

\* The slots that hold entries.
LEMMA FullIs ==
  ASSUME NEW n, NEW m, NEW x, NEW own, Whole(n, m, x, own)
  PROVE  Full(x) = FullOf(n, x) /\ Full(x) = {i \in 1..n : ~IsFree(x.kv[i])}
BY WholeIs DEF Full, FullOf

\* The entries of the invariant are those of a map.
LEMMA IsMapLike ==
  ASSUME NEW n, NEW m, NEW x, NEW own, Whole(n, m, x, own), NEW lv, Distinct(n, x), Alive(n, x, lv)
  PROVE  MapLike(x, lv)
BY FullIs DEF MapLike, Distinct, Alive

SameAll(n, x, y) == y.subtype = x.subtype /\ \A j \in 1..n : SameObjects(x.kv[j], y.kv[j])

\* What an entry asks for depends on the objects of the words only.
LEMMA SameClosed ==
  ASSUME NEW n, NEW m, NEW x, NEW y, x \in Tables(n, m), y \in Tables(n, m), SameAll(n, x, y), NEW w, NEW A
  PROVE  /\ Full(y) = Full(x) /\ (Closed(y, w, A) <=> Closed(x, w, A))
         /\ \A i \in Full(x) : Wanted(y, w, i, A) <=> Wanted(x, w, i, A)
<1>1. Slots(x) = 1..n /\ Slots(y) = 1..n
  BY DEF Tables, Slots
<1>2. \A i \in 1..n : y.kv[i].key.o = x.kv[i].key.o /\ y.kv[i].value.o = x.kv[i].value.o
  BY DEF SameAll, SameObjects
<1>3. Full(y) = Full(x) /\ \A i \in Full(x) : i \in 1..n
  BY <1>1, <1>2 DEF Full, IsFree
<1>4. \A i \in Full(x) : Wanted(y, w, i, A) <=> Wanted(x, w, i, A)
  <2>1. y.subtype = x.subtype
    BY DEF SameAll
  <2>2. QED
    BY <1>2, <1>3, <2>1 DEF Wanted
<1>5. QED
  BY <1>2, <1>3, <1>4 DEF Closed

Good(n, m, st, c) == c \in Colls(n, m) /\ c.t.subtype = st /\ \E own : GcOK(n, m, c, own)

KeptBy(c) == Kept(live, gc.from, c.moved)

\* d has the objects of c in its slots, and moved only what must be alive when the objects moved by c are.
Follows(n, c, d) ==
  /\ SameAll(n, c.t, d.t) /\ c.moved \subseteq d.moved
  /\ \A A \in SUBSET Values : KeptBy(c) \subseteq A /\ Closed(c.t, weak, A) => KeptBy(d) \subseteq A

\* Nothing is moved: c follows itself.
LEMMA FollowsItself ==
  ASSUME NEW n, NEW c
  PROVE  Follows(n, c, c)
BY DEF Follows, SameAll, SameObjects

\* Steps of the collector follow each other.
LEMMA FollowsOn ==
  ASSUME NEW n, NEW m, NEW c \in Colls(n, m), NEW d \in Colls(n, m), NEW e \in Colls(n, m),
         Follows(n, c, d), Follows(n, d, e)
  PROVE  Follows(n, c, e)
<1>1. SameAll(n, c.t, e.t) /\ c.moved \subseteq e.moved
  BY DEF Follows, SameAll, SameObjects
<1>2. c.t \in Tables(n, m) /\ d.t \in Tables(n, m) /\ SameAll(n, c.t, d.t)
  BY DEF Colls, Follows
<1>3. ASSUME NEW A \in SUBSET Values, KeptBy(c) \subseteq A, Closed(c.t, weak, A)
      PROVE  KeptBy(e) \subseteq A
  <2>1. KeptBy(d) \subseteq A
    BY <1>3 DEF Follows
  <2>2. Closed(d.t, weak, A)
    BY <1>2, <1>3, SameClosed
  <2>3. QED
    BY <2>1, <2>2 DEF Follows
<1>4. QED
  BY <1>1, <1>3 DEF Follows

\* The objects of a word that has to be forwarded.
OldOf(w) == {o \in {w.o} : Old(w, gc.from)}

\* A step of the collector for slot i that moves the objects of ws.
Moves(n, m, c, d, ws) ==
  /\ d.t \in Tables(n, m) /\ d = [t |-> d.t, moved |-> d.moved] /\ SameAll(n, c.t, d.t)
  /\ d.moved = c.moved \union ws

\* scavenge of a key or of a value moves the object the word points to, if it is an old pointer.
LEMMA WordsMove ==
  ASSUME NEW n, NEW m, NEW c, c.t \in Tables(n, m), NEW i \in 1..n, c = [t |-> c.t, moved |-> c.moved]
  PROVE  /\ Moves(n, m, c, ScavengeKey(c, i), OldOf(c.t.kv[i].key))
         /\ ScavengeKey(c, i).t.kv[i].value = c.t.kv[i].value
         /\ Moves(n, m, c, ScavengeValue(c, i), OldOf(c.t.kv[i].value))
         /\ ScavengeKey(c, i).t.index = c.t.index
<1> DEFINE e == c.t.kv[i]
<1>1. e \in Entry /\ c.t.kv \in [1..n -> Entry]
  BY DEF Tables
<1>2. \A w : InFrom(c, w) <=> Old(w, gc.from)
  BY DEF InFrom, Old
<1>3. ASSUME NEW e2 \in Entry, SameObjects(e, e2)
      PROVE  /\ Reword(c.t, i, e2) \in Tables(n, m) /\ SameAll(n, c.t, Reword(c.t, i, e2))
             /\ Reword(c.t, i, e2).kv[i] = e2 /\ Reword(c.t, i, e2).index = c.t.index
  <2> DEFINE f == [c.t.kv EXCEPT ![i] = e2]
  <2>1. f \in [1..n -> Entry] /\ f[i] = e2 /\ \A j \in 1..n : j # i => f[j] = c.t.kv[j]
    BY <1>1
  <2> HIDE DEF f
  <2>2. [c.t EXCEPT !.kv = f] \in Tables(n, m) /\ [c.t EXCEPT !.kv = f].kv = f
        /\ [c.t EXCEPT !.kv = f].subtype = c.t.subtype /\ [c.t EXCEPT !.kv = f].index = c.t.index
    BY <2>1 DEF Tables
  <2>3. \A j \in 1..n : SameObjects(c.t.kv[j], f[j])
    BY <1>3, <2>1 DEF SameObjects
  <2>4. Reword(c.t, i, e2) = [c.t EXCEPT !.kv = f]
    BY DEF Reword, f
  <2>5. QED
    BY <2>1, <2>2, <2>3, <2>4 DEF SameAll
<1>4. UpKey(e) \in Entry /\ SameObjects(e, UpKey(e)) /\ UpKey(e).value = e.value
      /\ UpValue(e) \in Entry /\ SameObjects(e, UpValue(e))
  BY <1>1, UpKeyIs, UpValueIs
<1>5. SameAll(n, c.t, c.t)
  BY DEF SameAll, SameObjects
<1>6. /\ ScavengeKey(c, i) = IF Old(e.key, gc.from)
             THEN [t |-> Reword(c.t, i, UpKey(e)), moved |-> c.moved \union {e.key.o}] ELSE c
      /\ ScavengeValue(c, i) = IF Old(e.value, gc.from)
             THEN [t |-> Reword(c.t, i, UpValue(e)), moved |-> c.moved \union {e.value.o}] ELSE c
  BY <1>2, ScavengeIs
<1> HIDE DEF e
<1>7. CASE Old(e.key, gc.from) /\ Old(e.value, gc.from)
  BY <1>3, <1>4, <1>6, <1>7 DEF Moves, OldOf, e
<1>8. CASE Old(e.key, gc.from) /\ ~Old(e.value, gc.from)
  BY <1>3, <1>4, <1>5, <1>6, <1>8 DEF Moves, OldOf, e
<1>9. CASE ~Old(e.key, gc.from) /\ Old(e.value, gc.from)
  BY <1>3, <1>4, <1>5, <1>6, <1>9 DEF Moves, OldOf, e
<1>10. CASE ~Old(e.key, gc.from) /\ ~Old(e.value, gc.from)
  BY <1>5, <1>6, <1>10 DEF Moves, OldOf, e
<1>11. QED
  BY <1>7, <1>8, <1>9, <1>10

\* Recording a slot for rehashing changes the lists only.
LEMMA RecordMoves ==
  ASSUME NEW n, NEW m, NEW c, NEW d, NEW ws, Moves(n, m, c, d, ws), NEW i \in 1..n
  PROVE  LET r == maybe_record_for_rehashing(c, d, i)
         IN  SameAll(n, c.t, r.t) /\ r.moved = c.moved \union ws
<1> DEFINE b == BucketOf(c, i)
           y == record_for_rehashing(d.t, b, i)
<1>1. \A x \in Tables(n, m) : Unlink(x, b, i).kv = x.kv /\ Unlink(x, b, i).subtype = x.subtype
  <2>1. TAKE x \in Tables(n, m)
  <2>2. CASE x.index[b] = i
    BY <2>2 DEF Unlink, Tables
  <2>3. CASE x.index[b] # i
    BY <2>3 DEF Unlink, Tables
  <2>4. QED
    BY <2>2, <2>3
<1>2. y.kv = d.t.kv /\ y.subtype = d.t.subtype
  <2>1. d.t \in Tables(n, m)
    BY DEF Moves
  <2>2. CASE OnChain(d.t, b, i)
    <3> DEFINE z == Unlink(d.t, b, i)
    <3>1. z.kv = d.t.kv /\ z.subtype = d.t.subtype
      BY <1>1, <2>1
    <3>2. y = [z EXCEPT !.next[i] = d.t.rehash, !.rehash = i]
      BY <2>2 DEF record_for_rehashing
    <3> HIDE DEF z, y
    <3>3. QED
      BY <3>1, <3>2
  <2>3. CASE ~OnChain(d.t, b, i)
    BY <2>3 DEF record_for_rehashing
  <2>4. QED
    BY <2>2, <2>3
<1> HIDE DEF y
<1> DEFINE r == maybe_record_for_rehashing(c, d, i)
<1>3. r = d \/ r = [d EXCEPT !.t = y]
  BY DEF maybe_record_for_rehashing, y, b
<1> HIDE DEF r, b
<1>4. r.t.kv = d.t.kv /\ r.t.subtype = d.t.subtype /\ r.moved = d.moved
  BY <1>2, <1>3 DEF Moves
<1>5. SameAll(n, c.t, r.t) /\ r.moved = c.moved \union ws
  BY <1>4 DEF Moves, SameAll
<1>6. QED
  BY <1>5 DEF r

\* A word of an entry survives when its object does; those of a free slot always do.
LEMMA SurvivesIs ==
  ASSUME Collecting, Accessed, NEW n \in Nat, NEW m \in Nat \ {0}, NEW c, NEW own, GcOK(n, m, c, own), NEW i \in 1..n
  PROVE  LET e == c.t.kv[i]
         IN  /\ i \in Full(c.t) => /\ e.key.o \in live /\ e.value.o \in live \union {Imm}
                                   /\ survives_gc(c, e.key) <=> e.key.o \in KeptBy(c)
                                   /\ survives_gc(c, e.value) <=> e.value.o \in KeptBy(c)
             /\ i \notin Full(c.t) => survives_gc(c, e.key) /\ survives_gc(c, e.value)
                                      /\ OldOf(e.key) = {} /\ OldOf(e.value) = {}
<1> DEFINE e == c.t.kv[i]
<1>1. /\ Whole(n, m, c.t, own) /\ Forwarded(n, c.t, c.moved) /\ Alive(n, c.t, live)
      /\ c.moved \subseteq gc.from /\ gc.from \subseteq live /\ live \subseteq Object
  BY GcIs DEF GcOK, Agrees, Collecting
<1>2. Full(c.t) = FullOf(n, c.t)
  BY <1>1, FullIs
<1>3. Imm \notin Object /\ Empty \notin Object
  BY TableAssumption
<1>4. (e.key.up => e.key.o \in c.moved) /\ (e.value.up => e.value.o \in c.moved)
  BY <1>1 DEF Forwarded
<1>5. ASSUME i \in Full(c.t)
      PROVE  e.key.o \in live /\ e.value.o \in live \union {Imm}
  BY <1>1, <1>2, <1>5 DEF Alive
<1>6. ASSUME i \notin Full(c.t)
      PROVE  e.key.o = Empty /\ e.value.o = Empty
  BY <1>2, <1>6 DEF FullOf, IsFree
<1>7. ASSUME NEW w, w.up => w.o \in c.moved, w.o \in live \union {Imm}
      PROVE  survives_gc(c, w) <=> w.o \in KeptBy(c)
  BY <1>1, <1>3, <1>7 DEF survives_gc, InFrom, KeptBy, Kept
<1>8. ASSUME NEW w, w.o = Empty
      PROVE  survives_gc(c, w) /\ OldOf(w) = {}
  BY <1>1, <1>3, <1>8 DEF survives_gc, InFrom, OldOf, Old
<1> HIDE DEF e
<1>9. QED
  BY <1>4, <1>5, <1>6, <1>7, <1>8 DEF e

\* Only an entry both of whose words survive is not on the chain of its key.
LEMMA ListedIs ==
  ASSUME Collecting, Accessed, NEW n \in Nat, NEW m \in Nat \ {0}, NEW c, NEW own, GcOK(n, m, c, own),
         c.t.subtype = "valid", NEW i \in Full(c.t)
  PROVE  LET e == c.t.kv[i]
             b == BucketOf(c, i)
         IN  \/ c.t.index[b] # 0 /\ OnChain(c.t, b, i) /\ own[i] = b /\ b \in 0..m - 1
             \/ survives_gc(c, e.key) /\ survives_gc(c, e.value)
<1> DEFINE e == c.t.kv[i]
           b == BucketOf(c, i)
<1>1. Whole(n, m, c.t, own) /\ Owned(n, m, c.t, own)
  BY GcIs
<1>2. Full(c.t) = FullOf(n, c.t) /\ i \in 1..n
  BY <1>1, FullIs
<1>3. b \in 0..m - 1 /\ b = Addr(e.key, gc.to, place) % m
  BY <1>2, GcIs
<1>4. own[i] = b \/ own[i] = REHASH
  BY <1>2, <1>3 DEF GcOK, Agrees
<1>5. CASE own[i] = b
  BY <1>1, <1>2, <1>3, <1>5, OnList
<1>6. CASE own[i] = REHASH
  <2>1. ~Old(e.key, gc.from) /\ Survives(e.value, gc.from, c.moved)
    BY <1>2, <1>6 DEF GcOK, Agrees
  <2>2. QED
    BY <2>1 DEF survives_gc, InFrom, Old, Survives
<1>7. QED
  BY <1>4, <1>5, <1>6

Stays(n, m, c, d, i) ==
  /\ Follows(n, c, d) /\ (d.moved = c.moved => d = c)
  /\ d = c /\ i \in Full(c.t) /\ Wanted(c.t, weak, i, KeptBy(c)) =>
       c.t.kv[i].key.o \in KeptBy(c) /\ c.t.kv[i].value.o \in KeptBy(c)

\* scav_weak_entries moves the missing half of an entry that is asked for, and leaves the others.
LEMMA WeakEntryStays ==
  ASSUME Collecting, Accessed, NEW n \in Nat, NEW m \in Nat \ {0}, NEW c, NEW own, GcOK(n, m, c, own),
         c.t.subtype = "valid", NEW i \in 1..n
  PROVE  Stays(n, m, c, ScavWeakEntry(c, i), i)
<1> DEFINE e == c.t.kv[i]
           key == survives_gc(c, e.key)
           value == survives_gc(c, e.value)
           listed == c.t.index[BucketOf(c, i)] # 0
           d == ScavWeakEntry(c, i)
           half == weak \in {"key", "key-or-value"} /\ key /\ listed /\ ~value
           other == weak \in {"value", "key-or-value"} /\ value /\ ~key
           Forced(v) == \A A \in SUBSET Values : KeptBy(c) \subseteq A /\ Closed(c.t, weak, A) => v \in A
<1>1. c.t \in Tables(n, m) /\ c = [t |-> c.t, moved |-> c.moved]
  BY GcIs
<1>2. /\ Moves(n, m, c, ScavengeKey(c, i), OldOf(e.key))
      /\ Moves(n, m, c, ScavengeValue(c, i), OldOf(e.value))
  BY <1>1, WordsMove
<1>3. /\ i \in Full(c.t) => /\ e.key.o \in live /\ e.value.o \in live \union {Imm}
                            /\ key <=> e.key.o \in KeptBy(c)
                            /\ value <=> e.value.o \in KeptBy(c)
      /\ i \notin Full(c.t) => key /\ value
  BY SurvivesIs
<1>4. i \in Full(c.t) => listed \/ (key /\ value)
  BY ListedIs
<1>5. /\ half => d = ScavengeValue(c, i)
      /\ ~half /\ other => d = maybe_record_for_rehashing(c, ScavengeKey(c, i), i)
      /\ ~half /\ ~other => d = c
  BY Zenon DEF ScavWeakEntry
<1>6. (~key => OldOf(e.key) = {e.key.o} /\ e.key.o \notin c.moved)
      /\ (~value => OldOf(e.value) = {e.value.o} /\ e.value.o \notin c.moved)
  BY DEF survives_gc, InFrom, OldOf, Old
<1>7. \A A \in SUBSET Values : KeptBy(c) \subseteq A => c.moved \subseteq A
  BY DEF KeptBy, Kept
<1>8. ASSUME NEW v, SameAll(n, c.t, d.t), d.moved = c.moved \union {v}, v \notin c.moved, Forced(v)
      PROVE  Stays(n, m, c, d, i)
  <2>1. d.moved # c.moved /\ c.moved \subseteq d.moved
    BY <1>8
  <2>2. KeptBy(d) = KeptBy(c) \union {v}
    BY <1>8 DEF KeptBy, Kept
  <2>3. Follows(n, c, d)
    BY <1>8, <2>1, <2>2 DEF Follows
  <2>4. QED
    BY <2>1, <2>3 DEF Stays
<1> SUFFICES Stays(n, m, c, d, i)
  OBVIOUS
<1> HIDE DEF d, key, value, listed, e
<1>9. CASE half
  <2>1. d = ScavengeValue(c, i) /\ i \in Full(c.t)
    BY <1>3, <1>5, <1>9
  <2>2. SameAll(n, c.t, d.t) /\ d.moved = c.moved \union {e.value.o} /\ e.value.o \notin c.moved
    BY <1>2, <1>6, <1>9, <2>1 DEF Moves
  <2>3. ASSUME NEW A \in SUBSET Values, KeptBy(c) \subseteq A, Closed(c.t, weak, A)
        PROVE  e.value.o \in A
    <3>1. e.key.o \in A
      BY <1>3, <1>9, <2>1, <2>3
    <3>2. Wanted(c.t, weak, i, A)
      BY <1>9, <3>1 DEF Wanted, e
    <3>3. QED
      BY <2>1, <2>3, <3>2 DEF Closed, e
  <2>4. Forced(e.value.o)
    BY <2>3
  <2> HIDE DEF Forced
  <2>5. QED
    BY <1>8, <2>2, <2>4
<1>10. CASE ~half /\ other
  <2>1. d = maybe_record_for_rehashing(c, ScavengeKey(c, i), i) /\ i \in Full(c.t)
    BY <1>3, <1>5, <1>10
  <2>2. SameAll(n, c.t, d.t) /\ d.moved = c.moved \union {e.key.o} /\ e.key.o \notin c.moved
    BY <1>2, <1>6, <1>10, <2>1, RecordMoves
  <2>3. ASSUME NEW A \in SUBSET Values, KeptBy(c) \subseteq A, Closed(c.t, weak, A)
        PROVE  e.key.o \in A
    <3>1. e.value.o \in A
      BY <1>3, <1>10, <2>1, <2>3
    <3>2. Wanted(c.t, weak, i, A)
      BY <1>10, <3>1 DEF Wanted, e
    <3>3. QED
      BY <2>1, <2>3, <3>2 DEF Closed, e
  <2>4. Forced(e.key.o)
    BY <2>3
  <2> HIDE DEF Forced
  <2>5. QED
    BY <1>8, <2>2, <2>4
<1>11. CASE ~half /\ ~other
  <2>1. d = c /\ Follows(n, c, d)
    BY <1>5, <1>11, FollowsItself
  <2>2. ASSUME i \in Full(c.t), Wanted(c.t, weak, i, KeptBy(c))
        PROVE  e.key.o \in KeptBy(c) /\ e.value.o \in KeptBy(c)
    <3>1. (key \/ value) /\ (weak = "key" => key) /\ (weak = "value" => value)
          /\ (weak = "key-and-value" => key /\ value)
      BY <1>3, <2>2 DEF Wanted, e, Collecting, Weakness
    <3>2. key /\ value
      BY <1>4, <1>11, <2>2, <3>1 DEF Collecting, Weakness
    <3>3. QED
      BY <1>3, <2>2, <3>2
  <2>3. d.moved = c.moved => d = c
    BY <2>1
  <2>4. QED
    BY <2>1, <2>2, <2>3, Zenon DEF Stays, e
<1>12. QED
  BY <1>9, <1>10, <1>11

\* What survives is a finite set of objects and the immediate value.
LEMMA KeptValues ==
  ASSUME Collecting, NEW n, NEW m, NEW c \in Colls(n, m)
  PROVE  KeptBy(c) \in SUBSET Values /\ c.moved \subseteq gc.from /\ IsFiniteSet(c.moved) /\ IsFiniteSet(gc.from)
<1>1. c.moved \subseteq gc.from /\ gc.from \subseteq live /\ live \subseteq Object /\ IsFiniteSet(Object)
  BY TableAssumption DEF Colls, Collecting
<1>2. IsFiniteSet(gc.from)
  BY <1>1, FS_Subset
<1>3. QED
  BY <1>1, <1>2, FS_Subset DEF KeptBy, Kept, Values

\* When what survives has all its entries ask for, nothing more is moved.
LEMMA ClosedStays ==
  ASSUME Collecting, NEW n, NEW m, NEW c \in Colls(n, m), NEW d \in Colls(n, m), Follows(n, c, d),
         Closed(c.t, weak, KeptBy(c))
  PROVE  d.moved = c.moved /\ Closed(d.t, weak, KeptBy(d))
<1>1. KeptBy(c) \in SUBSET Values
  BY KeptValues
<1>2. KeptBy(d) \subseteq KeptBy(c) /\ c.moved \subseteq d.moved /\ SameAll(n, c.t, d.t)
  BY <1>1 DEF Follows
<1>3. d.moved \subseteq gc.from /\ Imm \notin gc.from
  BY TableAssumption, KeptValues DEF Collecting
<1>4. d.moved = c.moved
  BY <1>2, <1>3 DEF KeptBy, Kept
<1>5. c.t \in Tables(n, m) /\ d.t \in Tables(n, m)
  BY DEF Colls
<1>6. Closed(d.t, weak, KeptBy(c))
  BY <1>2, <1>5, SameClosed
<1>7. KeptBy(d) = KeptBy(c)
  BY <1>4 DEF KeptBy
<1>8. QED
  BY <1>4, <1>6, <1>7

\* A pass that moves nothing has found every entry that is asked for whole.
LEMMA WeakEntriesStay ==
  ASSUME Collecting, Accessed, NEW n \in Nat, NEW m \in Nat \ {0}, NEW c, Good(n, m, "valid", c)
  PROVE  LET d == scav_weak_entries(c)
         IN  Good(n, m, "valid", d) /\ Follows(n, c, d) /\ (d.moved = c.moved => Closed(c.t, weak, KeptBy(c)))
<1> DEFINE Same(y, s) == y.moved = c.moved => y = c /\ \A i \in s : ScavWeakEntry(c, i) = c
           D == [s \in SUBSET (1..n) |-> {y \in Colls(n, m) : Good(n, m, "valid", y) /\ Follows(n, c, y) /\ Same(y, s)}]
<1>1. c \in Colls(n, m) /\ Slots(c.t) = 1..n
  BY DEF Good, Colls, Tables, Slots
<1>2. c \in D[{}]
  <2>1. Follows(n, c, c)
    BY FollowsItself
  <2>2. QED
    BY <1>1, <2>1
<1>3. ASSUME NEW s \in Places(n), NEW y \in D[s \ {Max(s)}]
      PROVE  ScavWeakEntry(y, Max(s)) \in D[s]
  <2> DEFINE k == Max(s)
             z == ScavWeakEntry(y, k)
  <2>1. k \in s /\ k \in 1..n /\ s \in SUBSET (1..n) /\ s \ {k} \in SUBSET (1..n)
    BY MaxIs DEF Places
  <2>2. y \in Colls(n, m) /\ Good(n, m, "valid", y) /\ Follows(n, c, y) /\ Same(y, s \ {k})
    BY <2>1
  <2>3. PICK own : GcOK(n, m, y, own) /\ y.t.subtype = "valid"
    BY <2>2 DEF Good
  <2>4. Stays(n, m, y, z, k)
    BY <2>1, <2>3, WeakEntryStays
  <2>5. (\E own2 : GcOK(n, m, z, own2)) /\ OnlySlot(n, y, z, k)
    BY <2>1, <2>3, ScavWeakEntryIs
  <2> HIDE DEF z, k
  <2>6. Good(n, m, "valid", z) /\ z \in Colls(n, m)
    BY <2>3, <2>5 DEF Good, GcOK, OnlySlot
  <2>7. Follows(n, y, z) /\ (z.moved = y.moved => z = y)
    BY <2>4 DEF Stays
  <2>8. Follows(n, c, z)
    BY <1>1, <2>2, <2>6, <2>7, FollowsOn
  <2>9. Same(z, s)
    <3>1. SUFFICES ASSUME z.moved = c.moved
                   PROVE  z = c /\ \A i \in s : ScavWeakEntry(c, i) = c
      OBVIOUS
    <3>2. y.moved = c.moved /\ z.moved = y.moved
      BY <2>2, <2>7, <3>1 DEF Follows
    <3>3. y = c /\ z = c /\ \A i \in s \ {k} : ScavWeakEntry(c, i) = c
      BY <2>2, <2>7, <3>2
    <3>4. ScavWeakEntry(c, k) = c
      BY <3>3 DEF z
    <3>5. QED
      BY <3>3, <3>4
  <2> HIDE DEF Same
  <2>10. z \in D[s]
    BY <2>1, <2>6, <2>8, <2>9
  <2>11. QED
    BY <2>10 DEF z, k
<1> DEFINE d == scav_weak_entries(c)
<1> HIDE DEF D
<1>4. d \in D[1..n]
  BY <1>1, <1>2, <1>3, WeakEntriesFold
<1> HIDE DEF d
<1>5. Good(n, m, "valid", d) /\ Follows(n, c, d) /\ Same(d, 1..n)
  <2> HIDE DEF Same
  <2>1. QED
    BY <1>4 DEF D
<1>6. ASSUME d.moved = c.moved
      PROVE  Closed(c.t, weak, KeptBy(c))
  <2>1. PICK own : GcOK(n, m, c, own) /\ c.t.subtype = "valid"
    BY DEF Good
  <2>2. \A i \in Full(c.t) : i \in 1..n
    BY <1>1 DEF Full
  <2>3. ASSUME NEW i \in Full(c.t), Wanted(c.t, weak, i, KeptBy(c))
        PROVE  c.t.kv[i].key.o \in KeptBy(c) /\ c.t.kv[i].value.o \in KeptBy(c)
    <3>1. ScavWeakEntry(c, i) = c /\ i \in 1..n
      BY <1>5, <1>6, <2>2
    <3>2. Stays(n, m, c, c, i)
      BY <2>1, <3>1, WeakEntryStays
    <3>3. QED
      BY <2>3, <3>2, Zenon DEF Stays
  <2>4. QED
    BY <2>3 DEF Closed
<1>7. QED
  BY <1>5, <1>6 DEF d

\* After as many passes as there are objects to move, what survives has all its entries ask for.
LEMMA SweepCloses ==
  ASSUME Collecting, Accessed, NEW n \in Nat, NEW m \in Nat \ {0}, NEW c, Good(n, m, "valid", c)
  PROVE  \E y : /\ Good(n, m, "valid", y) /\ Follows(n, c, y) /\ Closed(y.t, weak, KeptBy(y))
                /\ scav_weak_tables(c) = scav_hash_entries(y, FALSE)
<1> DEFINE k == Cardinality(gc.from)
           Done(y, i) == Closed(y.t, weak, KeptBy(y)) \/ Cardinality(y.moved) >= i
           D == [i \in 0..k |-> {y \in Colls(n, m) : Good(n, m, "valid", y) /\ Follows(n, c, y) /\ Done(y, i)}]
<1>1. c \in Colls(n, m)
  BY DEF Good
<1>2. IsFiniteSet(gc.from) /\ k \in Nat
  BY <1>1, KeptValues, FS_CardinalityType
<1> HIDE DEF k
<1>3. \A y \in Colls(n, m) : IsFiniteSet(y.moved) /\ Cardinality(y.moved) \in Nat /\ y.moved \subseteq gc.from
  BY KeptValues, FS_CardinalityType
<1>4. c \in D[0]
  <2>1. Follows(n, c, c) /\ Done(c, 0) /\ 0 \in 0..k
    BY <1>1, <1>2, <1>3, FollowsItself
  <2> HIDE DEF Done
  <2>2. QED
    BY <1>1, <2>1
<1>5. ASSUME NEW i \in 1..k, NEW y \in D[i - 1]
      PROVE  scav_weak_entries(y) \in D[i]
  <2> DEFINE z == scav_weak_entries(y)
  <2>1. i \in 0..k /\ i - 1 \in 0..k /\ i \in Nat
    BY <1>2
  <2>2. y \in Colls(n, m) /\ Good(n, m, "valid", y) /\ Follows(n, c, y) /\ Done(y, i - 1)
    <3> HIDE DEF Done
    <3>1. QED
      BY <2>1
  <2>3. Good(n, m, "valid", z) /\ Follows(n, y, z) /\ (z.moved = y.moved => Closed(y.t, weak, KeptBy(y)))
    BY <2>2, WeakEntriesStay
  <2> HIDE DEF z
  <2>4. z \in Colls(n, m)
    BY <2>3 DEF Good
  <2>5. Follows(n, c, z)
    BY <1>1, <2>2, <2>3, <2>4, FollowsOn
  <2>6. Done(z, i)
    <3>1. CASE Closed(y.t, weak, KeptBy(y))
      BY <2>2, <2>3, <2>4, <3>1, ClosedStays
    <3>2. CASE ~Closed(y.t, weak, KeptBy(y))
      <4>1. y.moved \subseteq z.moved /\ y.moved # z.moved
        BY <2>3, <3>2 DEF Follows
      <4>2. Cardinality(y.moved) < Cardinality(z.moved)
        <5>1. IsFiniteSet(z.moved) /\ y.moved \in SUBSET z.moved
          BY <1>3, <2>4, <4>1
        <5>2. Cardinality(y.moved) <= Cardinality(z.moved) /\ Cardinality(y.moved) # Cardinality(z.moved)
          BY <4>1, <5>1, FS_Subset
        <5>3. QED
          BY <1>3, <2>2, <2>4, <5>2
      <4>3. Cardinality(y.moved) >= i - 1
        BY <2>2, <3>2
      <4>4. Cardinality(y.moved) \in Nat /\ Cardinality(z.moved) \in Nat
        BY <1>3, <2>2, <2>4
      <4>5. QED
        BY <2>1, <4>2, <4>3, <4>4
    <3>3. QED
      BY <3>1, <3>2
  <2> HIDE DEF Done
  <2>7. z \in D[i]
    BY <2>1, <2>3, <2>4, <2>5, <2>6
  <2>8. QED
    BY <2>7 DEF z
<1> HIDE DEF D
<1>6. \E y \in D[k] : scav_weak_tables(c) = scav_hash_entries(y, FALSE)
  BY <1>4, <1>5, SweepFold DEF k
<1>7. PICK y \in Colls(n, m) : /\ Good(n, m, "valid", y) /\ Follows(n, c, y) /\ Done(y, k)
                               /\ scav_weak_tables(c) = scav_hash_entries(y, FALSE)
  <2> HIDE DEF Done
  <2>1. k \in 0..k
    BY <1>2
  <2>2. QED
    BY <1>6, <2>1 DEF D
<1>8. Closed(y.t, weak, KeptBy(y))
  <2>1. CASE Cardinality(y.moved) >= k
    <3>1. y.moved = gc.from
      <4>1. Cardinality(y.moved) \in Nat /\ y.moved \subseteq gc.from
        BY <1>3
      <4>2. QED
        BY <1>2, <2>1, <4>1, FS_Subset DEF k
    <3>2. PICK own : GcOK(n, m, y, own)
      BY <1>7 DEF Good
    <3>3. ASSUME NEW i \in Full(y.t)
          PROVE  y.t.kv[i].key.o \in KeptBy(y) /\ y.t.kv[i].value.o \in KeptBy(y)
      <4>1. i \in 1..n
        BY <3>2, <3>3 DEF Full, Slots, Colls, Tables
      <4>2. y.t.kv[i].key.o \in live /\ y.t.kv[i].value.o \in live \union {Imm}
        BY <3>2, <4>1, SurvivesIs
      <4>3. QED
        BY <3>1, <4>2 DEF KeptBy, Kept
    <3>4. QED
      BY <3>3 DEF Closed
  <2>2. QED
    BY <1>7, <2>1
<1>9. QED
  BY <1>7, <1>8

\* An entry may be removed when its bucket is not empty and it is not asked for.
LEMMA RemovableWhen ==
  ASSUME weak \in Weakness, NEW c, NEW i
  PROVE  LET listed == c.t.index[BucketOf(c, i)] # 0
             key == ~survives_gc(c, c.t.kv[i].key) /\ listed
             value == ~survives_gc(c, c.t.kv[i].value) /\ listed
         IN  removable(c, i) <=> \/ weak = "key" /\ key
                                 \/ weak = "value" /\ value
                                 \/ weak = "key-and-value" /\ (key \/ value)
                                 \/ weak = "key-or-value" /\ key /\ value
<1> DEFINE listed == c.t.index[BucketOf(c, i)] # 0
           key == ~survives_gc(c, c.t.kv[i].key) /\ listed
           value == ~survives_gc(c, c.t.kv[i].value) /\ listed
<1>1. weak = "key" => removable(c, i) = key
  BY Zenon DEF removable
<1>2. weak = "value" => removable(c, i) = value
  BY Zenon DEF removable
<1>3. weak = "key-and-value" => removable(c, i) = (key \/ value)
  BY Zenon DEF removable
<1>4. weak = "key-or-value" => removable(c, i) = (key /\ value)
  BY Zenon DEF removable
<1> HIDE DEF key, value
<1>5. removable(c, i) <=> \/ weak = "key" /\ key
                          \/ weak = "value" /\ value
                          \/ weak = "key-and-value" /\ (key \/ value)
                          \/ weak = "key-or-value" /\ key /\ value
  <2>1. CASE weak = "key"
    BY <1>1, <2>1
  <2>2. CASE weak = "value"
    BY <1>2, <2>2
  <2>3. CASE weak = "key-and-value"
    BY <1>3, <2>3
  <2>4. CASE weak = "key-or-value"
    BY <1>4, <2>4
  <2>5. QED
    BY <2>1, <2>2, <2>3, <2>4 DEF Weakness
<1>6. QED
  BY <1>5 DEF key, value

\* Entries of c that nothing asks for.
Unwanted(c, i) == i \in Full(c.t) /\ ~Wanted(c.t, weak, i, KeptBy(c))

\* removable is true of the entries nothing asks for, and those are on the chains they are looked for on.
LEMMA RemovedUnwanted ==
  ASSUME Collecting, Accessed, NEW n \in Nat, NEW m \in Nat \ {0}, NEW c, NEW own, GcOK(n, m, c, own),
         c.t.subtype = "valid", NEW i \in 1..n
  PROVE  /\ removable(c, i) <=> Unwanted(c, i)
         /\ Unwanted(c, i) => LET b == BucketOf(c, i) IN OnChain(c.t, b, i) /\ own[i] = b /\ b \in 0..m - 1
<1> DEFINE e == c.t.kv[i]
           b == BucketOf(c, i)
           listed == c.t.index[b] # 0
           key == survives_gc(c, e.key)
           value == survives_gc(c, e.value)
           found == OnChain(c.t, b, i) /\ own[i] = b /\ b \in 0..m - 1
<1>1. /\ i \in Full(c.t) => (key <=> e.key.o \in KeptBy(c)) /\ (value <=> e.value.o \in KeptBy(c))
      /\ i \notin Full(c.t) => key /\ value
  BY SurvivesIs
<1>2. ASSUME i \in Full(c.t)
      PROVE  (listed /\ found) \/ (key /\ value)
  BY <1>2, ListedIs
<1>3. weak \in Weakness
  BY DEF Collecting
<1>4. removable(c, i) <=> \/ weak = "key" /\ ~key /\ listed
                          \/ weak = "value" /\ ~value /\ listed
                          \/ weak = "key-and-value" /\ ((~key /\ listed) \/ (~value /\ listed))
                          \/ weak = "key-or-value" /\ ~key /\ ~value /\ listed
  BY <1>3, RemovableWhen
<1> HIDE DEF key, value, listed, found
<1>5. i \in Full(c.t) => (Wanted(c.t, weak, i, KeptBy(c)) <=>
         \/ weak = "key" /\ key
         \/ weak = "value" /\ value
         \/ weak = "key-and-value" /\ key /\ value
         \/ weak = "key-or-value" /\ (key \/ value))
  BY <1>1 DEF Wanted
<1>6. removable(c, i) <=> Unwanted(c, i)
  <2>1. CASE i \notin Full(c.t)
    BY <1>1, <1>4, <2>1 DEF Unwanted
  <2>2. CASE i \in Full(c.t)
    BY <1>2, <1>3, <1>4, <1>5, <2>2 DEF Unwanted, Weakness
  <2>3. QED
    BY <2>1, <2>2
<1>7. Unwanted(c, i) => found
  BY <1>2, <1>3, <1>5 DEF Unwanted, Weakness
<1>8. QED
  BY <1>6, <1>7 DEF found

\* Both words of an entry are scavenged.
LEMMA BothMove ==
  ASSUME NEW n, NEW m, NEW c, c.t \in Tables(n, m), NEW i \in 1..n, c = [t |-> c.t, moved |-> c.moved]
  PROVE  Moves(n, m, c, ScavengeValue(ScavengeKey(c, i), i), OldOf(c.t.kv[i].key) \union OldOf(c.t.kv[i].value))
<1> DEFINE d == ScavengeKey(c, i)
           f == ScavengeValue(d, i)
<1>1. Moves(n, m, c, d, OldOf(c.t.kv[i].key)) /\ d.t.kv[i].value = c.t.kv[i].value
  BY WordsMove
<1> HIDE DEF d
<1>2. d.t \in Tables(n, m) /\ d = [t |-> d.t, moved |-> d.moved]
  BY <1>1 DEF Moves
<1>3. Moves(n, m, d, f, OldOf(d.t.kv[i].value))
  BY <1>2, WordsMove
<1> HIDE DEF f
<1>4. SameAll(n, c.t, f.t)
  BY <1>1, <1>3 DEF Moves, SameAll, SameObjects
<1>5. f.moved = c.moved \union (OldOf(c.t.kv[i].key) \union OldOf(c.t.kv[i].value))
  BY <1>1, <1>3 DEF Moves
<1>6. Moves(n, m, c, f, OldOf(c.t.kv[i].key) \union OldOf(c.t.kv[i].value))
  BY <1>3, <1>4, <1>5 DEF Moves
<1>7. QED
  BY <1>6 DEF f, d

Entered(n, c, d, i, gone) ==
  /\ d.moved = c.moved /\ d.t.subtype = c.t.subtype
  /\ IF gone THEN d.t.kv[i] = EmptySlot ELSE SameObjects(c.t.kv[i], d.t.kv[i])

\* scav_hash_entries frees an entry that nothing asks for, and moves nothing that was not moved.
LEMMA EntryEntered ==
  ASSUME Collecting, Accessed, NEW n \in Nat, NEW m \in Nat \ {0}, NEW c, NEW own, GcOK(n, m, c, own),
         c.t.subtype = "valid", NEW i \in 1..n, NEW removep \in BOOLEAN, Closed(c.t, weak, KeptBy(c))
  PROVE  Entered(n, c, ScavEntry(c, i, removep), i, removep /\ Unwanted(c, i))
<1> DEFINE x == c.t
           b == BucketOf(c, i)
           d == ScavEntry(c, i, removep)
<1>1. Whole(n, m, x, own) /\ x \in Tables(n, m) /\ c = [t |-> c.t, moved |-> c.moved]
  BY GcIs
<1>2. /\ removable(c, i) <=> Unwanted(c, i)
      /\ Unwanted(c, i) => OnChain(x, b, i) /\ own[i] = b /\ b \in 0..m - 1
  BY RemovedUnwanted
<1>3. CASE ~Unwanted(c, i)
  <2> DEFINE ws == OldOf(c.t.kv[i].key) \union OldOf(c.t.kv[i].value)
  <2>1. ~removable(c, i)
    BY <1>2, <1>3
  <2>2. d = maybe_record_for_rehashing(c, ScavengeValue(ScavengeKey(c, i), i), i)
    BY <2>1, Zenon DEF ScavEntry
  <2>3. Moves(n, m, c, ScavengeValue(ScavengeKey(c, i), i), ws)
    BY <1>1, BothMove
  <2> HIDE DEF d, ws
  <2>4. SameAll(n, c.t, d.t) /\ d.moved = c.moved \union ws
    BY <2>2, <2>3, RecordMoves
  <2>5. ws \subseteq c.moved
    <3>1. /\ i \in Full(c.t) => /\ survives_gc(c, c.t.kv[i].key) <=> c.t.kv[i].key.o \in KeptBy(c)
                                /\ survives_gc(c, c.t.kv[i].value) <=> c.t.kv[i].value.o \in KeptBy(c)
          /\ i \notin Full(c.t) => OldOf(c.t.kv[i].key) = {} /\ OldOf(c.t.kv[i].value) = {}
      BY SurvivesIs
    <3>2. CASE i \in Full(c.t)
      <4>1. c.t.kv[i].key.o \in KeptBy(c) /\ c.t.kv[i].value.o \in KeptBy(c)
        BY <1>3, <3>2 DEF Unwanted, Closed
      <4>2. QED
        BY <3>1, <3>2, <4>1 DEF survives_gc, InFrom, OldOf, Old, ws
    <3>3. CASE i \notin Full(c.t)
      BY <3>1, <3>3 DEF ws
    <3>4. QED
      BY <3>2, <3>3
  <2>6. Entered(n, c, d, i, FALSE)
    BY <2>4, <2>5 DEF Entered, SameAll
  <2>7. (removep /\ Unwanted(c, i)) = FALSE
    BY <1>3
  <2>8. QED
    BY <2>6, <2>7 DEF d
<1>4. CASE Unwanted(c, i) /\ ~removep
  <2>1. d = c
    BY <1>2, <1>4, Zenon DEF ScavEntry
  <2>2. QED
    BY <1>4, <2>1 DEF Entered, SameObjects
<1>5. CASE Unwanted(c, i) /\ removep
  <2> DEFINE y == free_hash_entry(x, b, i)
  <2>1. d = [c EXCEPT !.t = y]
    BY <1>2, <1>5, Zenon DEF ScavEntry
  <2>2. y = Release(Unlink(x, b, i), i) /\ On(own, i, b) /\ b \in 0..m - 1
    BY <1>2, <1>5 DEF free_hash_entry, On
  <2> HIDE DEF d, y
  <2>3. PICK own2 : Freed(n, m, x, i, own, y, own2)
    BY <1>1, <2>2, FreedIs
  <2>4. d.t = y /\ d.moved = c.moved
    BY <1>1, <2>1
  <2>5. d.t.kv[i] = EmptySlot /\ d.t.subtype = c.t.subtype
    BY <1>1, <2>3, <2>4 DEF Freed, Tables
  <2>6. Entered(n, c, d, i, removep /\ Unwanted(c, i))
    BY <1>5, <2>4, <2>5 DEF Entered
  <2>7. QED
    BY <2>6 DEF d
<1>6. QED
  BY <1>3, <1>4, <1>5

\* The slots of s have been done: the entries of c that nothing asks for are gone, if removep, the others are there.
Left(n, c, y, removep, s) ==
  /\ y.moved = c.moved /\ y.t.subtype = c.t.subtype
  /\ \A j \in 1..n : IF removep /\ j \in s /\ Unwanted(c, j) THEN y.t.kv[j] = EmptySlot
                     ELSE SameObjects(c.t.kv[j], y.t.kv[j])

\* What is left asks for what it asked for before.
LEMMA LeftIs ==
  ASSUME NEW n, NEW m, NEW c \in Colls(n, m), NEW y \in Colls(n, m), NEW removep, NEW s, Left(n, c, y, removep, s)
  PROVE  /\ KeptBy(y) = KeptBy(c)
         /\ \A j \in Full(y.t) : j \in Full(c.t) /\ ~(removep /\ j \in s /\ Unwanted(c, j))
         /\ \A j \in 1..n : ~(removep /\ j \in s /\ Unwanted(c, j)) =>
              (j \in Full(y.t) <=> j \in Full(c.t)) /\ (Unwanted(y, j) <=> Unwanted(c, j))
         /\ Closed(c.t, weak, KeptBy(c)) => Closed(y.t, weak, KeptBy(y))
<1>1. KeptBy(y) = KeptBy(c) /\ y.t.subtype = c.t.subtype
  BY DEF Left, KeptBy
<1>2. Slots(c.t) = 1..n /\ Slots(y.t) = 1..n
  BY DEF Colls, Tables, Slots
<1>3. ASSUME NEW j \in 1..n, ~(removep /\ j \in s /\ Unwanted(c, j))
      PROVE  y.t.kv[j].key.o = c.t.kv[j].key.o /\ y.t.kv[j].value.o = c.t.kv[j].value.o
  BY <1>3 DEF Left, SameObjects
<1>4. ASSUME NEW j \in 1..n, removep /\ j \in s /\ Unwanted(c, j)
      PROVE  j \notin Full(y.t)
  BY <1>4, WordsAre DEF Left, Full
<1>5. ASSUME NEW j \in 1..n, ~(removep /\ j \in s /\ Unwanted(c, j))
      PROVE  /\ j \in Full(y.t) <=> j \in Full(c.t)
             /\ Wanted(y.t, weak, j, KeptBy(y)) <=> Wanted(c.t, weak, j, KeptBy(c))
             /\ Unwanted(y, j) <=> Unwanted(c, j)
  <2>1. j \in Full(y.t) <=> j \in Full(c.t)
    BY <1>2, <1>3, <1>5 DEF Full, IsFree
  <2>2. Wanted(y.t, weak, j, KeptBy(y)) <=> Wanted(c.t, weak, j, KeptBy(c))
    BY <1>1, <1>3, <1>5 DEF Wanted
  <2>3. QED
    BY <2>1, <2>2 DEF Unwanted
<1>6. \A j \in Full(y.t) : j \in 1..n /\ j \in Full(c.t) /\ ~(removep /\ j \in s /\ Unwanted(c, j))
  <2>1. \A j \in Full(y.t) : j \in 1..n
    BY <1>2 DEF Full
  <2>2. QED
    BY <1>4, <1>5, <2>1
<1>7. ASSUME Closed(c.t, weak, KeptBy(c))
      PROVE  Closed(y.t, weak, KeptBy(y))
  BY <1>1, <1>3, <1>5, <1>6, <1>7 DEF Closed
<1>8. QED
  BY <1>1, <1>5, <1>6, <1>7

\* One slot more.
LEMMA LeftMore ==
  ASSUME NEW n, NEW m, NEW c \in Colls(n, m), NEW y \in Colls(n, m), NEW z \in Colls(n, m),
         NEW removep \in BOOLEAN, NEW s \in SUBSET (1..n), NEW k \in s, Left(n, c, y, removep, s \ {k}),
         OnlySlot(n, y, z, k), Entered(n, y, z, k, removep /\ Unwanted(y, k))
  PROVE  Left(n, c, z, removep, s)
<1>1. Unwanted(y, k) <=> Unwanted(c, k)
  BY LeftIs
<1>2. z.moved = c.moved /\ z.t.subtype = c.t.subtype
  BY DEF Left, Entered
<1>3. ASSUME NEW j \in 1..n, j # k
      PROVE  IF removep /\ j \in s /\ Unwanted(c, j) THEN z.t.kv[j] = EmptySlot
             ELSE SameObjects(c.t.kv[j], z.t.kv[j])
  <2>1. z.t.kv[j] = y.t.kv[j] /\ (j \in s <=> j \in s \ {k})
    BY <1>3 DEF OnlySlot
  <2>2. QED
    BY <2>1 DEF Left
<1>4. IF removep /\ k \in s /\ Unwanted(c, k) THEN z.t.kv[k] = EmptySlot
      ELSE SameObjects(c.t.kv[k], z.t.kv[k])
  <2>1. SameObjects(c.t.kv[k], y.t.kv[k])
    BY DEF Left
  <2>2. CASE removep /\ Unwanted(c, k)
    BY <1>1, <2>2 DEF Entered
  <2>3. CASE ~(removep /\ Unwanted(c, k))
    BY <1>1, <2>1, <2>3 DEF Entered, SameObjects
  <2>4. QED
    BY <2>2, <2>3
<1>5. QED
  BY <1>2, <1>3, <1>4 DEF Left

\* What scav_hash_entries makes of a table when what survives has all its entries ask for.
LEMMA HashEntriesLeave ==
  ASSUME Collecting, Accessed, NEW n \in Nat, NEW m \in Nat \ {0}, NEW c, Good(n, m, "valid", c),
         NEW removep \in BOOLEAN, Closed(c.t, weak, KeptBy(c))
  PROVE  LET d == scav_hash_entries(c, removep)
         IN  Good(n, m, "valid", d) /\ Left(n, c, d, removep, 1..n)
<1> DEFINE D == [s \in SUBSET (1..n) |-> {y \in Colls(n, m) : Good(n, m, "valid", y) /\ Left(n, c, y, removep, s)}]
<1>1. c \in Colls(n, m) /\ Slots(c.t) = 1..n
  BY DEF Good, Colls, Tables, Slots
<1>2. c \in D[{}]
  <2>1. Left(n, c, c, removep, {})
    BY DEF Left, SameObjects
  <2>2. QED
    BY <1>1, <2>1
<1>3. ASSUME NEW s \in Places(n), NEW y \in D[s \ {Max(s)}]
      PROVE  ScavEntry(y, Max(s), removep) \in D[s]
  <2> DEFINE k == Max(s)
             z == ScavEntry(y, k, removep)
  <2>1. k \in s /\ k \in 1..n /\ s \in SUBSET (1..n) /\ s \ {k} \in SUBSET (1..n)
    BY MaxIs DEF Places
  <2>2. y \in Colls(n, m) /\ Good(n, m, "valid", y) /\ Left(n, c, y, removep, s \ {k})
    BY <2>1
  <2>3. PICK own : GcOK(n, m, y, own) /\ y.t.subtype = "valid"
    BY <2>2 DEF Good
  <2>4. Closed(y.t, weak, KeptBy(y))
    BY <1>1, <2>2, LeftIs
  <2>5. Entered(n, y, z, k, removep /\ Unwanted(y, k))
    BY <2>1, <2>3, <2>4, EntryEntered
  <2>6. (\E own2 : GcOK(n, m, z, own2)) /\ OnlySlot(n, y, z, k)
    BY <2>1, <2>3, ScavEntryIs DEF ScavEntryDone
  <2> HIDE DEF z, k
  <2>7. Good(n, m, "valid", z) /\ z \in Colls(n, m)
    BY <2>3, <2>6 DEF Good, GcOK, OnlySlot
  <2>8. Left(n, c, z, removep, s)
    BY <1>1, <2>1, <2>2, <2>5, <2>6, <2>7, LeftMore
  <2>9. z \in D[s]
    BY <2>1, <2>7, <2>8
  <2>10. QED
    BY <2>9 DEF z, k
<1> DEFINE d == scav_hash_entries(c, removep)
<1> HIDE DEF D
<1>4. d \in D[1..n]
  BY <1>1, <1>2, <1>3, HashEntriesFold
<1> HIDE DEF d
<1>5. Good(n, m, "valid", d) /\ Left(n, c, d, removep, 1..n)
  BY <1>4 DEF D
<1>6. QED
  BY <1>5 DEF d

\* A round of the collector leaves what its entries ask for among what survives, and nothing too much.
LEMMA RoundCloses ==
  ASSUME Collecting, Accessed, NEW n \in Nat, NEW m \in Nat \ {0}, NEW c, Good(n, m, "valid", c)
  PROVE  LET d == scav_weak_tables(c)
         IN  Good(n, m, "valid", d) /\ Follows(n, c, d) /\ Closed(d.t, weak, KeptBy(d))
<1>1. PICK y : /\ Good(n, m, "valid", y) /\ Follows(n, c, y) /\ Closed(y.t, weak, KeptBy(y))
               /\ scav_weak_tables(c) = scav_hash_entries(y, FALSE)
  BY SweepCloses
<1> DEFINE d == scav_weak_tables(c)
<1>2. Good(n, m, "valid", d) /\ Left(n, y, d, FALSE, 1..n)
  <2>1. Good(n, m, "valid", scav_hash_entries(y, FALSE)) /\ Left(n, y, scav_hash_entries(y, FALSE), FALSE, 1..n)
    BY <1>1, HashEntriesLeave
  <2>2. QED
    BY <1>1, <2>1
<1> HIDE DEF d
<1>3. c \in Colls(n, m) /\ y \in Colls(n, m) /\ d \in Colls(n, m)
  BY <1>1, <1>2 DEF Good
<1>4. Follows(n, y, d)
  <2>1. SameAll(n, y.t, d.t) /\ d.moved = y.moved
    BY <1>2 DEF Left, SameAll
  <2>2. QED
    BY <2>1 DEF Follows, KeptBy
<1>5. Follows(n, c, d)
  BY <1>1, <1>3, <1>4, FollowsOn
<1>6. Closed(d.t, weak, KeptBy(d))
  BY <1>1, <1>2, <1>3, LeftIs
<1>7. QED
  BY <1>2, <1>5, <1>6 DEF d

\* The vector of an empty table has nothing to scavenge, the one of a table to be rehashed keeps all its entries.
LEMMA SlotFollows ==
  ASSUME Collecting, Accessed, NEW n \in Nat, NEW m \in Nat \ {0}, NEW c, NEW own, GcOK(n, m, c, own), NEW i \in 1..n,
         c.t.subtype # "valid"
  PROVE  Follows(n, c, ScavengeValue(ScavengeKey(c, i), i))
<1> DEFINE d == ScavengeValue(ScavengeKey(c, i), i)
           e == c.t.kv[i]
           ws == OldOf(e.key) \union OldOf(e.value)
<1>1. c.t \in Tables(n, m) /\ c = [t |-> c.t, moved |-> c.moved] /\ Whole(n, m, c.t, own)
  BY GcIs
<1>2. Moves(n, m, c, d, ws)
  BY <1>1, BothMove
<1> HIDE DEF d
<1>3. c.t.subtype \in {"normal", "must-rehash"}
  BY <1>1 DEF Tables, Subtypes
<1>4. c.t.subtype = "normal" => i \notin Full(c.t)
  BY <1>1, FullIs DEF GcOK, Agrees
<1>5. i \notin Full(c.t) => ws = {}
  BY SurvivesIs
<1>6. ASSUME NEW A \in SUBSET Values, KeptBy(c) \subseteq A, Closed(c.t, weak, A)
      PROVE  ws \subseteq A
  <2>1. CASE i \in Full(c.t)
    <3>1. Wanted(c.t, weak, i, A)
      BY <1>3, <1>4, <2>1 DEF Wanted
    <3>2. e.key.o \in A /\ e.value.o \in A
      BY <1>6, <2>1, <3>1 DEF Closed
    <3>3. QED
      BY <3>2 DEF OldOf
  <2>2. CASE i \notin Full(c.t)
    BY <1>5, <2>2
  <2>3. QED
    BY <2>1, <2>2
<1> HIDE DEF ws
<1>7. SameAll(n, c.t, d.t) /\ d.moved = c.moved \union ws /\ KeptBy(d) = KeptBy(c) \union ws
  BY <1>2 DEF Moves, KeptBy, Kept
<1>8. Follows(n, c, d)
  BY <1>6, <1>7 DEF Follows
<1>9. QED
  BY <1>8 DEF d

\* ScavengeVector leaves no entry that asks for what does not survive.
LEMMA VectorCloses ==
  ASSUME Collecting, Accessed, NEW n \in Nat, NEW m \in Nat \ {0}, NEW c, NEW st, st # "valid", Good(n, m, st, c)
  PROVE  LET d == ScavengeVector(c)
         IN  Good(n, m, st, d) /\ Follows(n, c, d) /\ Closed(d.t, weak, KeptBy(d))
<1> DEFINE D == [s \in SUBSET (1..n) |-> {y \in Colls(n, m) : Good(n, m, st, y) /\ Follows(n, c, y)}]
           d == ScavengeVector(c)
<1>1. c \in Colls(n, m) /\ Slots(c.t) = 1..n
  BY DEF Good, Colls, Tables, Slots
<1>2. c \in D[{}]
  <2>1. Follows(n, c, c)
    BY FollowsItself
  <2>2. QED
    BY <1>1, <2>1
<1>3. ASSUME NEW s \in Places(n), NEW y \in D[s \ {Max(s)}]
      PROVE  ScavengeValue(ScavengeKey(y, Max(s)), Max(s)) \in D[s]
  <2> DEFINE k == Max(s)
             z == ScavengeValue(ScavengeKey(y, k), k)
  <2>1. k \in s /\ k \in 1..n /\ s \in SUBSET (1..n) /\ s \ {k} \in SUBSET (1..n)
    BY MaxIs DEF Places
  <2>2. y \in Colls(n, m) /\ Good(n, m, st, y) /\ Follows(n, c, y)
    BY <2>1
  <2>3. PICK own : GcOK(n, m, y, own) /\ y.t.subtype = st
    BY <2>2 DEF Good
  <2>4. Follows(n, y, z)
    BY <2>1, <2>3, SlotFollows
  <2>5. GcOK(n, m, z, own) /\ OnlySlot(n, y, z, k)
    BY <2>1, <2>3, ScavengeSlotIs
  <2> HIDE DEF z, k
  <2>6. Good(n, m, st, z) /\ z \in Colls(n, m)
    BY <2>3, <2>5 DEF Good, GcOK, OnlySlot
  <2>7. Follows(n, c, z)
    BY <1>1, <2>2, <2>4, <2>6, FollowsOn
  <2>8. z \in D[s]
    BY <2>1, <2>6, <2>7
  <2>9. QED
    BY <2>8 DEF z, k
<1> HIDE DEF D
<1>4. d \in D[1..n]
  BY <1>1, <1>2, <1>3, VectorFold
<1>5. \A i \in 1..n : Clean(d, i)
  <2>1. c \in Scavenged(n, m, st, TRUE, {})
    BY DEF Scavenged, Good
  <2>2. d \in Scavenged(n, m, st, TRUE, 1..n)
    BY <2>1, VectorIs
  <2> HIDE DEF d
  <2>3. QED
    BY <2>2 DEF Scavenged
<1> HIDE DEF d
<1>6. Good(n, m, st, d) /\ Follows(n, c, d)
  BY <1>4 DEF D
<1>7. Closed(d.t, weak, KeptBy(d))
  <2>1. PICK own : GcOK(n, m, d, own)
    BY <1>6 DEF Good
  <2>2. ASSUME NEW i \in Full(d.t)
        PROVE  d.t.kv[i].key.o \in KeptBy(d) /\ d.t.kv[i].value.o \in KeptBy(d)
    <3>1. i \in 1..n
      BY <2>1, <2>2 DEF GcOK, Colls, Tables, Full, Slots
    <3>2. survives_gc(d, d.t.kv[i].key) /\ survives_gc(d, d.t.kv[i].value)
      BY <1>5, <3>1 DEF Clean, survives_gc
    <3>3. QED
      BY <2>1, <3>1, <3>2, SurvivesIs
  <2>3. QED
    BY <2>2 DEF Closed
<1>8. QED
  BY <1>6, <1>7 DEF d

\* What Accessed says of the collector's invariant.
LEMMA GoodIsMap ==
  ASSUME Collecting, Accessed, NEW n \in Nat, NEW m \in Nat \ {0}, NEW c, NEW st, Good(n, m, st, c)
  PROVE  MapLike(c.t, live) /\ Slots(c.t) = 1..n /\ c.moved \subseteq gc.from
<1>1. PICK own : GcOK(n, m, c, own)
  BY DEF Good
<1>2. Whole(n, m, c.t, own) /\ Distinct(n, c.t) /\ Alive(n, c.t, live) /\ Slots(c.t) = 1..n /\ c.moved \subseteq gc.from
  BY <1>1, GcIs DEF GcOK, Agrees
<1>3. QED
  BY <1>2, IsMapLike

-----------------------------------------------------------------------------
(***************************************************************************)
(* The steps of WeakMap.                                                   *)
(***************************************************************************)

SameFull(x, y) == Full(y) = Full(x) /\ \A i \in Full(x) : SameObjects(x.kv[i], y.kv[i])

\* The objects of the entries determine the map.
LEMMA MapStays ==
  ASSUME NEW x, NEW lv, MapLike(x, lv), NEW y, SameFull(x, y)
  PROVE  MapOf(y) = MapOf(x)
<1>1. MapLike(y, lv)
  BY DEF MapLike, SameFull, SameObjects
<1>2. /\ MapOf(x) = [k \in DOMAIN MapOf(x) |-> MapOf(x)[k]]
      /\ DOMAIN MapOf(x) = {x.kv[i].key.o : i \in Full(x)}
      /\ \A i \in Full(x) : MapOf(x)[x.kv[i].key.o] = x.kv[i].value.o
  BY MapIs
<1>3. {x.kv[i].key.o : i \in Full(x)} = {y.kv[i].key.o : i \in Full(y)}
  BY DEF SameFull, SameObjects
<1>4. \A i \in Full(y) : MapOf(x)[y.kv[i].key.o] = y.kv[i].value.o
  BY <1>2 DEF SameFull, SameObjects
<1> DEFINE f == MapOf(x)
<1>5. f = [k \in DOMAIN f |-> f[k]] /\ DOMAIN f = {y.kv[i].key.o : i \in Full(y)}
      /\ \A i \in Full(y) : f[y.kv[i].key.o] = y.kv[i].value.o
  BY <1>2, <1>3, <1>4
<1> HIDE DEF f
<1>6. MapOf(y) = f
  BY <1>1, <1>5, SameMap
<1>7. QED
  BY <1>6 DEF f

\* An entry is put into slot i, the other entries stay.
Puts(x, y, i, k, v) ==
  /\ Full(y) = Full(x) \union {i} /\ y.kv[i].key.o = k /\ y.kv[i].value.o = v
  /\ i \in Full(x) => x.kv[i].key.o = k
  /\ \A j \in Full(x) : j # i => SameObjects(x.kv[j], y.kv[j])

\* The map of y is that of x with v for k.
WithEntry(x, y, k, v) == MapOf(y) = [z \in DOMAIN MapOf(x) \union {k} |-> IF z = k THEN v ELSE MapOf(x)[z]]

\* An entry put into a table is one of its map.
LEMMA MapPuts ==
  ASSUME NEW x, NEW lv, MapLike(x, lv), NEW y, MapLike(y, lv), NEW i, NEW k, NEW v, Puts(x, y, i, k, v)
  PROVE  WithEntry(x, y, k, v)
<1> DEFINE f == [z \in DOMAIN MapOf(x) \union {k} |-> IF z = k THEN v ELSE MapOf(x)[z]]
<1>1. /\ DOMAIN MapOf(x) = {x.kv[j].key.o : j \in Full(x)}
      /\ \A j \in Full(x) : MapOf(x)[x.kv[j].key.o] = x.kv[j].value.o
  BY MapIs
<1>2. /\ Full(y) = Full(x) \union {i} /\ y.kv[i].key.o = k /\ y.kv[i].value.o = v
      /\ i \in Full(x) => x.kv[i].key.o = k
      /\ \A j \in Full(x) : j # i => y.kv[j].key.o = x.kv[j].key.o /\ y.kv[j].value.o = x.kv[j].value.o
  BY DEF Puts, SameObjects
<1>3. DOMAIN f = {y.kv[j].key.o : j \in Full(y)}
  <2>1. \A z \in DOMAIN MapOf(x) \union {k} : \E j \in Full(y) : z = y.kv[j].key.o
    BY <1>1, <1>2
  <2>2. \A j \in Full(y) : y.kv[j].key.o \in DOMAIN MapOf(x) \union {k}
    BY <1>1, <1>2
  <2>3. QED
    BY <2>1, <2>2
<1>4. ASSUME NEW j \in Full(y)
      PROVE  f[y.kv[j].key.o] = y.kv[j].value.o
  <2>1. CASE j = i
    BY <1>2, <2>1
  <2>2. CASE j # i
    <3>1. y.kv[j].key.o # k
      BY <1>2, <2>2 DEF MapLike
    <3>2. j \in Full(x) /\ y.kv[j].key.o = x.kv[j].key.o /\ y.kv[j].value.o = x.kv[j].value.o
      BY <1>2, <2>2
    <3>3. y.kv[j].key.o \in DOMAIN MapOf(x) /\ MapOf(x)[y.kv[j].key.o] = y.kv[j].value.o
      BY <1>1, <3>2
    <3>4. QED
      BY <3>1, <3>3
  <2>3. QED
    BY <2>1, <2>2
<1>5. f = [z \in DOMAIN f |-> f[z]]
  OBVIOUS
<1> HIDE DEF f
<1>6. MapOf(y) = f
  BY <1>3, <1>4, <1>5, SameMap
<1>7. QED
  BY <1>6 DEF f, WithEntry

\* Some entries go, the others stay.
Drops(x, y, gone) ==
  /\ Full(y) = Full(x) \ gone
  /\ \A j \in Full(y) : SameObjects(x.kv[j], y.kv[j])

\* The entries taken out of a table are taken out of its map.
LEMMA MapDrops ==
  ASSUME NEW x, NEW lv, MapLike(x, lv), NEW y, NEW gone, Drops(x, y, gone), NEW S, S \subseteq DOMAIN MapOf(x),
         \A j \in Full(x) : x.kv[j].key.o \in S <=> j \notin gone
  PROVE  MapOf(y) = [z \in S |-> MapOf(x)[z]]
<1> DEFINE f == [z \in S |-> MapOf(x)[z]]
<1>1. /\ DOMAIN MapOf(x) = {x.kv[j].key.o : j \in Full(x)}
      /\ \A j \in Full(x) : MapOf(x)[x.kv[j].key.o] = x.kv[j].value.o
  BY MapIs
<1>2. \A j \in Full(y) : j \in Full(x) /\ j \notin gone /\ y.kv[j].key.o = x.kv[j].key.o /\ y.kv[j].value.o = x.kv[j].value.o
  BY DEF Drops, SameObjects
<1>3. MapLike(y, lv)
  BY <1>2 DEF MapLike
<1>4. DOMAIN f = {y.kv[j].key.o : j \in Full(y)}
  <2>1. \A j \in Full(y) : y.kv[j].key.o \in S
    BY <1>2
  <2>2. ASSUME NEW z \in S
        PROVE  \E j \in Full(y) : z = y.kv[j].key.o
    <3>1. PICK j \in Full(x) : z = x.kv[j].key.o
      BY <1>1
    <3>2. j \in Full(y)
      BY <3>1 DEF Drops
    <3>3. QED
      BY <1>2, <3>1, <3>2
  <2>3. QED
    BY <2>1, <2>2
<1>5. \A j \in Full(y) : f[y.kv[j].key.o] = y.kv[j].value.o
  BY <1>1, <1>2
<1>6. f = [z \in DOMAIN f |-> f[z]]
  OBVIOUS
<1> HIDE DEF f
<1>7. MapOf(y) = f
  BY <1>3, <1>4, <1>5, <1>6, SameMap
<1>8. QED
  BY <1>7 DEF f

\* The map of the table of which Lisp's operations start.
LEMMA ReadyMap ==
  ASSUME Accessed, NEW n, NEW m, NEW x, NEW own, Ready(n, m, x, own)
  PROVE  MapLike(x, live) /\ Full(x) = FullOf(n, x) /\ Full(x) \subseteq 1..n /\ Slots(x) = 1..n
         /\ x.subtype # "must-rehash"
<1>1. Whole(n, m, x, own) /\ Distinct(n, x) /\ Alive(n, x, live) /\ x.subtype # "must-rehash"
  BY DEF Ready
<1>2. QED
  BY <1>1, FullIs, IsMapLike, WholeIs

\* What has been moved must be alive, and after a pass over the table that is all that must be.
AsAlive ==
  /\ gc.reached \subseteq gc.moved /\ (gc.pc = "lisp" => gc.reached = {})
  /\ \A A \in SUBSET Values : Kept(live, gc.from, gc.reached) \subseteq A /\ Closed(t, weak, A)
                                 => Kept(live, gc.from, gc.moved) \subseteq A
  /\ gc.pc \in {"copied", "settled"} => Closed(t, weak, Kept(live, gc.from, gc.moved))

\* Between two collections nothing is moved.
LEMMA LispAsAlive ==
  ASSUME gc.pc = "lisp", gc.reached = {}, gc.moved = {}
  PROVE  AsAlive
BY DEF AsAlive

\* In every state, when Lisp uses the table between two collections.
LEMMA MapLikeNow ==
  ASSUME IInv, Accessed
  PROVE  MapLike(t, live)
<1>1. PICK n \in Nat \ {0}, m \in Nat \ {0} : \E own : Agrees(n, m, t, gc.moved, own, gc.from, gc.to, place, live)
  BY DEF IInv, Sound, Sized
<1>2. PICK own : Whole(n, m, t, own) /\ Distinct(n, t) /\ Alive(n, t, live)
  BY <1>1 DEF Agrees
<1>3. QED
  BY <1>2, IsMapLike

\* What an operation of Lisp leaves alone, as WeakMap sees it.
LEMMA OperatesHeld ==
  ASSUME IInv, AsAlive, Operation
  PROVE  AsAlive' /\ HeldNow = live /\ HeldNow' = live /\ live' = live /\ weak' = weak
<1>1. gc.pc = "lisp" /\ gc' = [gc EXCEPT !.ops = @ + 1] /\ gc \in GcRecord
  BY DEF Operation, IInv, Sound
<1>2. gc'.pc = "lisp" /\ gc'.from = {} /\ gc'.moved = {} /\ gc.from = {} /\ weak' = weak /\ live' = live
  BY Operates
<1>3. gc.reached = {} /\ gc'.reached = {}
  BY <1>1 DEF AsAlive, GcRecord
<1>4. AsAlive'
  BY <1>2, <1>3 DEF AsAlive
<1>5. QED
  BY <1>2, <1>3, <1>4 DEF HeldNow

\* A use of the table, by what it makes of the map.
LEMMA IsUse ==
  ASSUME IInv, AsAlive, Operation, t'.subtype # "must-rehash",
         \/ \E k \in live, v \in live \union {Imm} : MapOf(t') = [z \in DOMAIN MapOf(t) \union {k} |-> IF z = k THEN v ELSE MapOf(t)[z]]
         \/ \E k \in live : MapOf(t') = [z \in DOMAIN MapOf(t) \ {k} |-> MapOf(t)[z]]
         \/ MapOf(t') = << >>
         \/ MapOf(t') = MapOf(t)
  PROVE  Map!Use /\ AsAlive'
<1>1. AsAlive' /\ HeldNow = live /\ HeldNow' = live /\ live' = live /\ weak' = weak
  BY OperatesHeld
<1>2. MapOf(t)' = MapOf(t')
  BY Zenon DEF MapOf, Full, Slots, IsFree
<1>3. (t.subtype = "must-rehash")' = FALSE
  OBVIOUS
<1>4. \/ \E k \in live, v \in live \union {Imm} : Map!Put(k, v)
      \/ \E k \in live : Map!Rem(k)
      \/ MapOf(t)' = << >>
      \/ MapOf(t)' = MapOf(t)
  BY <1>2, Zenon DEF Map!Put, Map!Rem
<1>5. Map!Use
  BY <1>1, <1>3, <1>4, Zenon DEF Map!Use
<1>6. QED
  BY <1>1, <1>5

\* gethash leaves the map as it is.
LEMMA GethashUses ==
  ASSUME IInv, AsAlive, Accessed, Gethash
  PROVE  Map!Use /\ AsAlive'
<1>1. Operation /\ gc.pc = "lisp" /\ t' = Prepare(t)
  BY DEF Gethash, Operation
<1>2. PICK n \in Nat \ {0}, m \in Nat \ {0} : \E own : Agrees(n, m, t, {}, own, {}, gc.to, place, live)
  BY <1>1, LispFinds
<1>3. PICK own0 : Agrees(n, m, t, {}, own0, {}, gc.to, place, live)
  BY <1>2
<1>4. place \in [Object -> Addresses] /\ n \in Nat
  BY <1>1, LispFinds
<1> DEFINE to == gc.to
           p == Prepare(t)
<1>5. p.kv = t.kv /\ \E own : Ready(n, m, p, own)
  <2> HIDE DEF to
  <2>1. Agrees(n, m, t, {}, own0, {}, to, place, live)
    BY <1>3 DEF to
  <2>2. QED
    BY <1>4, <2>1, PrepareIs
<1> HIDE DEF p
<1>6. PICK own : Ready(n, m, p, own)
  BY <1>5
<1>7. SameFull(t, p)
  BY <1>5 DEF SameFull, Full, Slots, SameObjects
<1>8. MapOf(p) = MapOf(t)
  BY <1>7, MapLikeNow, MapStays
<1>9. MapOf(t') = MapOf(t) /\ t'.subtype # "must-rehash"
  BY <1>1, <1>6, <1>8, ReadyMap DEF p
<1>10. QED
  BY <1>1, <1>9, IsUse

\* clrhash empties it.
LEMMA ClrHashUses ==
  ASSUME IInv, AsAlive, Accessed, ClrHash
  PROVE  Map!Use /\ AsAlive'
<1>1. Operation /\ gc.pc = "lisp" /\ t' = MakeTable(Cardinality(Slots(t)), t.length)
  BY DEF ClrHash, Operation
<1> DEFINE n == Cardinality(Slots(t))
<1>2. t'.kv = [i \in 1..n |-> EmptySlot] /\ t'.subtype = "normal"
  BY <1>1 DEF MakeTable
<1>3. Full(t') = {}
  <2> HIDE DEF n
  <2>1. \A i \in Slots(t') : IsFree(t'.kv[i])
    BY <1>2, WordsAre DEF Slots
  <2>2. QED
    BY <2>1 DEF Full
<1>4. MapOf(t') = << >>
  <2>1. {t'.kv[i].key.o : i \in Full(t')} = {}
    BY <1>3
  <2>2. MapOf(t') = [k \in {} |-> t'.kv[CHOOSE i \in Full(t') : t'.kv[i].key.o = k].value.o]
    BY <2>1 DEF MapOf
  <2>3. QED
    BY <2>2
<1>5. QED
  BY <1>1, <1>2, <1>4, IsUse

\* purify makes the table strong.
LEMMA PurifyIsPurify ==
  ASSUME IInv, AsAlive, Accessed, Purify
  PROVE  Map!Purify /\ AsAlive'
<1>1. Operation /\ t.subtype = "valid" /\ t' = [t EXCEPT !.subtype = "must-rehash"]
  BY DEF Purify
<1>2. AsAlive' /\ HeldNow = live /\ HeldNow' = live /\ live' = live /\ weak' = weak
  BY <1>1, OperatesHeld
<1>3. PICK n \in Nat, m \in Nat : t \in Tables(n, m)
  BY WholeIs DEF IInv, Sound, Sized, Agrees
<1>4. t'.kv = t.kv /\ t'.subtype = "must-rehash"
  BY <1>1, <1>3 DEF Tables
<1>5. MapOf(t') = MapOf(t)
  BY <1>4 DEF MapOf, Full, Slots
<1>6. MapOf(t)' = MapOf(t') /\ (t.subtype = "must-rehash")' = TRUE
  BY <1>4 DEF MapOf, Full, Slots, IsFree
<1>7. Map!Purify
  BY <1>2, <1>5, <1>6 DEF Map!Purify
<1>8. QED
  BY <1>2, <1>7

\* What a change makes of the map, when it leaves the table to be found by Lisp.
MapWithout(x, y, k) == MapOf(y) = [z \in DOMAIN MapOf(x) \ {k} |-> MapOf(x)[z]] /\ y.subtype # "must-rehash"

\* remhash of a key takes its entry away.
LEMMA RemovedMap ==
  ASSUME Accessed, NEW n \in Nat, NEW m \in Nat \ {0}, NEW p, NEW own, Ready(n, m, p, own),
         NEW k, NEW b \in 0..m - 1, NEW i \in 1..n, On(own, i, b), i \in Full(p), p.kv[i].key.o = k
  PROVE  MapWithout(p, Release(Unlink(p, b, i), i), k)
<1> DEFINE y == Release(Unlink(p, b, i), i)
<1>1. Whole(n, m, p, own) /\ p \in Tables(n, m) /\ p.kv \in [1..n -> Entry] /\ p.subtype # "must-rehash"
  BY WholeIs DEF Ready, Tables
<1>2. MapLike(p, live) /\ Full(p) \subseteq 1..n /\ Slots(p) = 1..n
  BY ReadyMap
<1>3. PICK own2 : Freed(n, m, p, i, own, y, own2)
  BY <1>1, FreedIs
<1> HIDE DEF y
<1>4. y.kv = [p.kv EXCEPT ![i] = EmptySlot] /\ y.subtype = p.subtype
  BY <1>3 DEF Freed
<1>5. DOMAIN y.kv = 1..n /\ y.kv[i] = EmptySlot /\ \A j \in 1..n : j # i => y.kv[j] = p.kv[j]
  BY <1>1, <1>4
<1>6. Full(y) = Full(p) \ {i}
  <2>1. \A j \in 1..n : j \in Full(y) <=> j \in Full(p) /\ j # i
    BY <1>2, <1>5, WordsAre DEF Full, Slots
  <2>2. Full(y) \subseteq 1..n
    BY <1>5 DEF Full, Slots
  <2>3. QED
    BY <1>2, <2>1, <2>2
<1>7. \A j \in Full(y) : SameObjects(p.kv[j], y.kv[j])
  BY <1>2, <1>5, <1>6 DEF SameObjects
<1> DEFINE gone == {i}
           S == DOMAIN MapOf(p) \ {k}
<1>8. Drops(p, y, gone)
  BY <1>6, <1>7 DEF Drops
<1>9. \A j \in Full(p) : p.kv[j].key.o \in S <=> j \notin gone
  <2>1. DOMAIN MapOf(p) = {p.kv[j].key.o : j \in Full(p)}
    BY <1>2, MapIs
  <2>2. \A j \in Full(p) : p.kv[j].key.o = k <=> j = i
    BY <1>2 DEF MapLike
  <2>3. QED
    BY <2>1, <2>2
<1>10. S \subseteq DOMAIN MapOf(p)
  OBVIOUS
<1> HIDE DEF gone, S
<1>11. MapOf(y) = [z \in S |-> MapOf(p)[z]]
  BY <1>2, <1>8, <1>9, <1>10, MapDrops
<1>12. QED
  BY <1>1, <1>4, <1>11 DEF y, S, MapWithout

\* remhash takes the key out of the map, or finds none and leaves it.
LEMMA RemHashUses ==
  ASSUME IInv, AsAlive, Accessed, NEW k \in live, RemHash(k)
  PROVE  Map!Use /\ AsAlive'
<1> DEFINE p == Prepare(t)
           i == Lookup(p, k)
           b == Bucket(p, k)
<1>1. Operation /\ gc.pc = "lisp" /\ t' = IF i = 0 THEN p ELSE Release(Unlink(p, b, i), i)
  BY DEF RemHash, Operation
<1>2. PICK n \in Nat \ {0}, m \in Nat \ {0} : \E own : Agrees(n, m, t, {}, own, {}, gc.to, place, live)
  BY <1>1, LispFinds
<1>3. PICK own0 : Agrees(n, m, t, {}, own0, {}, gc.to, place, live)
  BY <1>2
<1>4. place \in [Object -> Addresses] /\ n \in Nat /\ live \subseteq Object
  BY <1>1, LispFinds
<1>5. p.kv = t.kv /\ \E own : Ready(n, m, p, own)
  <2> DEFINE to == gc.to
  <2> HIDE DEF to
  <2>1. Agrees(n, m, t, {}, own0, {}, to, place, live)
    BY <1>3 DEF to
  <2>2. QED
    BY <1>4, <2>1, PrepareIs
<1> HIDE DEF p
<1>6. PICK own : Ready(n, m, p, own)
  BY <1>5
<1>7. Owned(n, m, p, own) /\ p.length = m /\ Slots(p) = 1..n
  BY <1>6, WholeIs DEF Ready
<1>8. MapOf(p) = MapOf(t) /\ p.subtype # "must-rehash"
  <2>1. SameFull(t, p)
    BY <1>5 DEF SameFull, Full, Slots, SameObjects
  <2>2. MapOf(p) = MapOf(t)
    BY <2>1, MapLikeNow, MapStays
  <2>3. QED
    BY <1>6, <2>2, ReadyMap
<1>9. b \in 0..m - 1
  BY <1>4, <1>7, BucketIs
<1>10. i # 0 => i \in 1..n /\ own[i] = b /\ p.kv[i].key.o = k
  BY <1>4, <1>7, LookupIs
<1> HIDE DEF i, b
<1>11. CASE i = 0
  <2>1. MapOf(t') = MapOf(t) /\ t'.subtype # "must-rehash"
    BY <1>1, <1>8, <1>11
  <2>2. QED
    BY <1>1, <2>1, IsUse
<1>12. CASE i # 0
  <2>1. On(own, i, b) /\ i \in 1..n /\ p.kv[i].key.o = k
    BY <1>10, <1>12 DEF On
  <2>2. i \in Full(p)
    <3>1. k # Empty
      BY <1>4, TableAssumption
    <3>2. QED
      BY <1>7, <2>1, <3>1 DEF Full, IsFree
  <2> DEFINE y == Release(Unlink(p, b, i), i)
  <2>3. MapWithout(p, y, k)
    BY <1>4, <1>6, <1>9, <2>1, <2>2, RemovedMap
  <2>4. t' = y
    BY <1>1, <1>12
  <2> HIDE DEF y
  <2>5. t'.subtype # "must-rehash" /\ MapOf(t') = [z \in DOMAIN MapOf(t) \ {k} |-> MapOf(t)[z]]
    BY <1>8, <2>3, <2>4 DEF MapWithout
  <2>6. QED
    BY <1>1, <2>5, IsUse
<1>13. QED
  BY <1>11, <1>12

\* What puthash makes of the map.
With(x, y, k, v) == WithEntry(x, y, k, v) /\ y.subtype # "must-rehash"

\* puthash of a key that has an entry changes the value of the entry.
LEMMA PutOverMap ==
  ASSUME Accessed, live \subseteq Object, NEW n \in Nat, NEW m \in Nat \ {0}, NEW p, NEW own, Ready(n, m, p, own),
         NEW k \in live, NEW v \in live \union {Imm}, NEW i \in 1..n, p.kv[i].key.o = k
  PROVE  With(p, [p EXCEPT !.kv[i].value = Word(v), !.subtype = "valid"], k, v)
<1> DEFINE y == [p EXCEPT !.kv[i].value = Word(v), !.subtype = "valid"]
<1>1. Whole(n, m, p, own) /\ p \in Tables(n, m) /\ p.kv \in [1..n -> Entry]
  BY WholeIs DEF Ready, Tables
<1>2. MapLike(p, live) /\ Full(p) \subseteq 1..n /\ Slots(p) = 1..n
  BY ReadyMap
<1>3. Ready(n, m, y, own)
  BY PutOverIs
<1>4. MapLike(y, live) /\ y.subtype # "must-rehash" /\ Full(y) \subseteq 1..n /\ Slots(y) = 1..n
  <2> HIDE DEF y
  <2>1. QED
    BY <1>3, ReadyMap
<1>5. y.kv = [p.kv EXCEPT ![i] = [p.kv[i] EXCEPT !.value = Word(v)]]
  BY <1>1 DEF Tables
<1> HIDE DEF y
<1>6. y.kv[i].key.o = k /\ y.kv[i].value.o = v /\ \A j \in 1..n : j # i => y.kv[j] = p.kv[j]
  BY <1>1, <1>5 DEF Entry, Word
<1>7. k # Empty
  BY TableAssumption
<1>8. i \in Full(p) /\ Full(y) = Full(p) \union {i}
  <2>1. \A j \in 1..n : j \in Full(y) <=> j \in Full(p)
    BY <1>2, <1>4, <1>6, <1>7 DEF Full, IsFree
  <2>2. i \in Full(p)
    BY <1>2, <1>7 DEF Full, IsFree
  <2>3. QED
    BY <1>2, <1>4, <2>1, <2>2
<1>9. \A j \in Full(p) : j # i => SameObjects(p.kv[j], y.kv[j])
  BY <1>2, <1>6 DEF SameObjects
<1>10. Puts(p, y, i, k, v)
  BY <1>6, <1>8, <1>9 DEF Puts
<1>11. WithEntry(p, y, k, v)
  BY <1>2, <1>4, <1>10, MapPuts
<1>12. QED
  BY <1>4, <1>11 DEF y, With

\* puthash of a new key makes an entry in the first free slot.
LEMMA PutNewMap ==
  ASSUME Accessed, live \subseteq Object, place \in [Object -> Addresses],
         NEW n \in Nat, NEW m \in Nat \ {0}, NEW p, NEW own, Ready(n, m, p, own), p.free # 0,
         NEW k \in live, NEW v \in live \union {Imm},
         \A i \in 1..n : own[i] = Bucket(p, k) => p.kv[i].key.o # k
  PROVE  With(p, Insert(p, k, v), k, v)
<1> DEFINE y == Insert(p, k, v)
           i == p.free
           e == [key |-> Word(k), value |-> Word(v)]
<1>1. Whole(n, m, p, own) /\ p \in Tables(n, m) /\ p.kv \in [1..n -> Entry]
  BY WholeIs DEF Ready, Tables
<1>2. MapLike(p, live) /\ Full(p) \subseteq 1..n /\ Slots(p) = 1..n
  BY ReadyMap
<1>3. PICK own3 : Ready(n, m, y, own3)
  BY PutNewIs
<1>4. MapLike(y, live) /\ y.subtype # "must-rehash" /\ Full(y) \subseteq 1..n /\ Slots(y) = 1..n
  <2> HIDE DEF y
  <2>1. QED
    BY <1>3, ReadyMap
<1>5. k \in Object /\ v \in Object \union {Imm}
  OBVIOUS
<1>6. PICK own2 : Inserted(n, m, p, k, v, own, y, own2)
  BY <1>1, <1>5, InsertIs
<1> HIDE DEF y
<1>7. i \in 1..n /\ IsFree(p.kv[i]) /\ y.kv = [p.kv EXCEPT ![i] = e]
  BY <1>6 DEF Inserted
<1>8. e.key.o = k /\ e.value.o = v /\ k # Empty
  BY <1>5, TableAssumption DEF Word
<1> HIDE DEF i, e
<1>9. y.kv[i].key.o = k /\ y.kv[i].value.o = v /\ \A j \in 1..n : j # i => y.kv[j] = p.kv[j]
  BY <1>1, <1>7, <1>8
<1>10. i \notin Full(p) /\ Full(y) = Full(p) \union {i}
  <2>1. \A j \in 1..n : j \in Full(y) <=> j \in Full(p) \/ j = i
    BY <1>2, <1>4, <1>8, <1>9 DEF Full, IsFree
  <2>2. i \notin Full(p)
    BY <1>7 DEF Full
  <2>3. QED
    BY <1>2, <1>4, <1>7, <2>1, <2>2
<1>11. \A j \in Full(p) : j # i => SameObjects(p.kv[j], y.kv[j])
  BY <1>2, <1>9 DEF SameObjects
<1>12. Puts(p, y, i, k, v)
  BY <1>9, <1>10, <1>11 DEF Puts
<1>13. WithEntry(p, y, k, v)
  BY <1>2, <1>4, <1>12, MapPuts
<1>14. QED
  BY <1>4, <1>13 DEF y, With

\* A table that grew has the entries it had.
LEMMA GrownMap ==
  ASSUME Accessed, NEW n \in Nat, NEW m, NEW x, NEW own0, Whole(n, m, x, own0), MapLike(x, live),
         NEW m2, NEW y, NEW own, Ready(n + 1, m2, y, own), FullOf(n + 1, y) = FullOf(n, x),
         \A i \in 1..n : y.kv[i] = x.kv[i]
  PROVE  MapOf(y) = MapOf(x)
<1>1. Full(x) = FullOf(n, x) /\ Full(x) \subseteq 1..n
  BY FullIs
<1>2. Full(y) = FullOf(n + 1, y)
  BY ReadyMap
<1>3. SameFull(x, y)
  BY <1>1, <1>2 DEF SameFull, SameObjects
<1>4. QED
  BY <1>3, MapStays

\* puthash puts the value into the map, whether it grows the table, finds the key or makes an entry.
LEMMA PutHashUses ==
  ASSUME IInv, AsAlive, Accessed, NEW k \in live, NEW v \in live \union {Imm}, PutHash(k, v)
  PROVE  Map!Use /\ AsAlive'
<1> DEFINE p == IF t.free = 0 THEN Rehash(t) ELSE Prepare(t)
           i == Lookup(p, k)
<1>1. /\ Operation /\ gc.pc = "lisp"
      /\ t' = IF i # 0 THEN [p EXCEPT !.kv[i].value = Word(v), !.subtype = "valid"] ELSE Insert(p, k, v)
  BY DEF PutHash, Operation
<1>2. PICK n \in Nat \ {0}, m \in Nat \ {0} : \E own : Agrees(n, m, t, {}, own, {}, gc.to, place, live)
  BY <1>1, LispFinds
<1>3. PICK own0 : Agrees(n, m, t, {}, own0, {}, gc.to, place, live)
  BY <1>2
<1>4. place \in [Object -> Addresses] /\ live \subseteq Object /\ n \in Nat /\ n + 1 \in Nat \ {0} /\ m + 1 \in Nat \ {0}
  BY <1>1, LispFinds
<1> DEFINE to == gc.to
<1> HIDE DEF to
<1>5. Agrees(n, m, t, {}, own0, {}, to, place, live) /\ Whole(n, m, t, own0) /\ MapLike(t, live)
  BY <1>3, MapLikeNow DEF to, Agrees
<1>6. \E n2 \in Nat \ {0}, m2 \in Nat \ {0} : p.free # 0 /\ MapOf(p) = MapOf(t) /\ \E own : Ready(n2, m2, p, own)
  <2>1. CASE t.free = 0
    <3>1. p = Rehash(t)
      BY <2>1
    <3> HIDE DEF p
    <3>2. /\ p.free # 0 /\ \E own : Ready(n + 1, m + 1, p, own)
          /\ FullOf(n + 1, p) = FullOf(n, t) /\ \A j \in 1..n : p.kv[j] = t.kv[j]
      BY <1>4, <1>5, <3>1, GrownIs
    <3>3. PICK own : Ready(n + 1, m + 1, p, own)
      BY <3>2
    <3>4. MapOf(p) = MapOf(t)
      BY <1>4, <1>5, <3>2, <3>3, GrownMap
    <3>5. QED
      BY <1>4, <3>2, <3>4
  <2>2. CASE t.free # 0
    <3>1. p = Prepare(t)
      BY <2>2
    <3> HIDE DEF p
    <3>2. p.kv = t.kv /\ \E own : Ready(n, m, p, own)
      BY <1>4, <1>5, <3>1, PrepareIs
    <3>3. PICK own : Ready(n, m, p, own)
      BY <3>2
    <3>4. Whole(n, m, p, own)
      BY <3>3 DEF Ready
    <3>5. p.free # 0
      BY <1>5, <2>2, <3>2, <3>4, StillFree
    <3>6. SameFull(t, p)
      BY <3>2 DEF SameFull, Full, Slots, SameObjects
    <3>7. MapOf(p) = MapOf(t)
      BY <1>5, <3>6, MapStays
    <3>8. QED
      BY <3>2, <3>5, <3>7
  <2>3. QED
    BY <2>1, <2>2
<1> HIDE DEF p
<1>7. PICK n2 \in Nat \ {0}, m2 \in Nat \ {0} : p.free # 0 /\ MapOf(p) = MapOf(t) /\ \E own : Ready(n2, m2, p, own)
  BY <1>6
<1>8. PICK own : Ready(n2, m2, p, own)
  BY <1>7
<1>9. Owned(n2, m2, p, own) /\ n2 \in Nat
  BY <1>8, WholeIs DEF Ready
<1>10. /\ i = 0 => \A j \in 1..n2 : own[j] = Bucket(p, k) => p.kv[j].key.o # k
       /\ i # 0 => i \in 1..n2 /\ p.kv[i].key.o = k
  BY <1>4, <1>9, LookupIs
<1> HIDE DEF i
<1>11. With(p, t', k, v)
  <2>1. CASE i = 0
    <3>1. \A j \in 1..n2 : own[j] = Bucket(p, k) => p.kv[j].key.o # k
      BY <1>10, <2>1
    <3>2. With(p, Insert(p, k, v), k, v)
      BY <1>4, <1>7, <1>8, <1>9, <3>1, PutNewMap
    <3>3. QED
      BY <1>1, <2>1, <3>2
  <2>2. CASE i # 0
    <3>1. i \in 1..n2 /\ p.kv[i].key.o = k
      BY <1>10, <2>2
    <3>2. With(p, [p EXCEPT !.kv[i].value = Word(v), !.subtype = "valid"], k, v)
      BY <1>4, <1>8, <1>9, <3>1, PutOverMap
    <3>3. QED
      BY <1>1, <2>2, <3>2
  <2>3. QED
    BY <2>1, <2>2
<1>12. /\ t'.subtype # "must-rehash"
       /\ MapOf(t') = [z \in DOMAIN MapOf(t) \union {k} |-> IF z = k THEN v ELSE MapOf(t)[z]]
  BY <1>7, <1>11 DEF With, WithEntry
<1>13. QED
  BY <1>1, <1>12, IsUse

\* What the collector's steps before the end leave alone, as WeakMap sees it.
LEMMA StartBegins ==
  ASSUME IInv, AsAlive, NEW S \in SUBSET live, NEW to \in [S -> Addresses], StartCollection(S, to)
  PROVE  Map!Begin /\ AsAlive'
<1>1. /\ gc.pc = "lisp"
      /\ gc' = [gc EXCEPT !.pc = "roots", !.from = S, !.to = to, !.count = @ + 1]
      /\ t' = t /\ weak' = weak /\ live' = live
  BY DEF StartCollection
<1>2. gc \in GcRecord /\ gc.moved = {} /\ gc.from = {} /\ gc.reached = {}
  BY <1>1 DEF IInv, Sound, AsAlive
<1>3. gc'.pc = "roots" /\ gc'.from = S /\ gc'.moved = {} /\ gc'.reached = {}
  BY <1>1, <1>2 DEF GcRecord
<1>4. AsAlive'
  BY <1>3 DEF AsAlive
<1>5. HeldNow = live /\ HeldNow' = live \ S
  BY <1>1, <1>2, <1>3 DEF HeldNow
<1>6. MapOf(t)' = MapOf(t) /\ (t.subtype = "must-rehash")' = (t.subtype = "must-rehash")
  BY <1>1 DEF MapOf, Full, Slots, IsFree
<1>7. Map!Begin
  BY <1>1, <1>5, <1>6 DEF Map!Begin
<1>8. QED
  BY <1>4, <1>7

\* An object that is reached is held from then on.
LEMMA ReachHolds ==
  ASSUME IInv, AsAlive, NEW o, Reach(o)
  PROVE  Map!Hold /\ AsAlive'
<1>1. /\ gc.pc \in {"roots", "copied"} /\ o \in gc.from \ gc.reached
      /\ gc' = [gc EXCEPT !.pc = "roots", !.moved = @ \union {o}, !.reached = @ \union {o}]
      /\ t' = t /\ weak' = weak /\ live' = live
  BY DEF Reach
<1>2. gc \in GcRecord /\ gc.from \subseteq live
  BY DEF IInv, Sound
<1>3. gc'.pc = "roots" /\ gc'.from = gc.from /\ gc'.moved = gc.moved \union {o} /\ gc'.reached = gc.reached \union {o}
  BY <1>1, <1>2 DEF GcRecord
<1>4. AsAlive'
  <2>1. gc'.reached \subseteq gc'.moved /\ gc'.pc # "lisp" /\ gc'.pc \notin {"copied", "settled"}
    BY <1>3 DEF AsAlive
  <2>2. ASSUME NEW A \in SUBSET Values, Kept(live, gc.from, gc.reached \union {o}) \subseteq A, Closed(t, weak, A)
        PROVE  Kept(live, gc.from, gc.moved \union {o}) \subseteq A
    <3>1. Kept(live, gc.from, gc.reached) \subseteq A /\ o \in A
      BY <2>2 DEF Kept
    <3>2. Kept(live, gc.from, gc.moved) \subseteq A
      BY <2>2, <3>1 DEF AsAlive
    <3>3. QED
      BY <3>1, <3>2 DEF Kept
  <2>3. \A A \in SUBSET Values : Kept(live', gc'.from, gc'.reached) \subseteq A /\ Closed(t', weak', A)
                                   => Kept(live', gc'.from, gc'.moved) \subseteq A
    BY <1>1, <1>3, <2>2
  <2>4. QED
    BY <2>1, <2>3 DEF AsAlive
<1>5. HeldNow' = HeldNow \union {o} /\ o \in live \ HeldNow
  BY <1>1, <1>2, <1>3 DEF HeldNow
<1>6. MapOf(t)' = MapOf(t) /\ (t.subtype = "must-rehash")' = (t.subtype = "must-rehash")
  BY <1>1 DEF MapOf, Full, Slots, IsFree
<1>7. Map!Hold
  BY <1>1, <1>5, <1>6 DEF Map!Hold
<1>8. QED
  BY <1>4, <1>7

\* A pass over the table leaves the map as it is, and keeps alive what must be.
LEMMA ScavKeepsMap ==
  ASSUME IInv, AsAlive, Accessed, ScavWeakTables
  PROVE  UNCHANGED Map!vars /\ AsAlive'
<1> DEFINE c == Here
           d == IF t.subtype = "valid" THEN scav_weak_tables(Here) ELSE ScavengeVector(Here)
<1>1. /\ gc.pc \in {"roots", "copied"} /\ t' = d.t /\ weak' = weak /\ live' = live
      /\ gc' = [gc EXCEPT !.moved = d.moved, !.pc = IF d.moved = gc.moved THEN "settled" ELSE "copied"]
  BY DEF ScavWeakTables
<1>2. gc \in GcRecord /\ gc.from \subseteq live /\ live \subseteq Object
  BY DEF IInv, Sound
<1>3. Collecting /\ \E n \in Nat \ {0}, m \in Nat \ {0} : \E own : GcOK(n, m, c, own)
  BY GcFinds
<1>4. c.t = t /\ c.moved = gc.moved
  BY DEF Here
<1> HIDE DEF c
<1>5. PICK n \in Nat \ {0}, m \in Nat \ {0} : \E own : GcOK(n, m, c, own)
  BY <1>3
<1>6. n \in Nat /\ Good(n, m, t.subtype, c)
  BY <1>4, <1>5 DEF Good, GcOK
<1>7. Good(n, m, t.subtype, d) /\ Follows(n, c, d) /\ Closed(d.t, weak, KeptBy(d))
  <2>1. CASE t.subtype = "valid"
    <3>1. d = scav_weak_tables(c)
      BY <2>1 DEF c
    <3> HIDE DEF d
    <3>2. Good(n, m, "valid", c)
      BY <1>6, <2>1
    <3>3. Good(n, m, "valid", d) /\ Follows(n, c, d) /\ Closed(d.t, weak, KeptBy(d))
      BY <1>3, <1>6, <3>1, <3>2, RoundCloses
    <3>4. QED
      BY <2>1, <3>3
  <2>2. CASE t.subtype # "valid"
    <3>1. d = ScavengeVector(c)
      BY <2>2 DEF c
    <3> DEFINE st == t.subtype
    <3>2. st # "valid" /\ Good(n, m, st, c)
      BY <1>6, <2>2
    <3> HIDE DEF d, st
    <3>3. Good(n, m, st, d) /\ Follows(n, c, d) /\ Closed(d.t, weak, KeptBy(d))
      BY <1>3, <1>6, <3>1, <3>2, VectorCloses
    <3>4. QED
      BY <3>3 DEF st
  <2>3. QED
    BY <2>1, <2>2
<1> HIDE DEF d
<1>8. c \in Colls(n, m) /\ d \in Colls(n, m) /\ d.t.subtype = t.subtype /\ c.moved \subseteq d.moved
      /\ SameAll(n, c.t, d.t) /\ d.t \in Tables(n, m) /\ c.t \in Tables(n, m) /\ d.moved \subseteq gc.from
  BY <1>6, <1>7 DEF Good, Follows, Colls
<1>9. gc'.from = gc.from /\ gc'.moved = d.moved /\ gc'.reached = gc.reached /\ gc'.pc \in {"settled", "copied"}
  BY <1>1, <1>2 DEF GcRecord
<1>10. AsAlive'
  <2>1. gc.reached \subseteq d.moved
    BY <1>4, <1>8 DEF AsAlive
  <2>2. ASSUME NEW A \in SUBSET Values, Kept(live, gc.from, gc.reached) \subseteq A, Closed(d.t, weak, A)
        PROVE  Kept(live, gc.from, d.moved) \subseteq A
    <3>1. Closed(t, weak, A)
      BY <1>4, <1>8, <2>2, SameClosed
    <3>2. KeptBy(c) \subseteq A
      BY <1>4, <2>2, <3>1 DEF AsAlive, KeptBy
    <3>3. KeptBy(d) \subseteq A
      BY <1>4, <1>7, <3>1, <3>2 DEF Follows
    <3>4. QED
      BY <3>3 DEF KeptBy
  <2>3. Closed(d.t, weak, Kept(live, gc.from, d.moved))
    BY <1>7 DEF KeptBy
  <2>4. \A A \in SUBSET Values : Kept(live', gc'.from, gc'.reached) \subseteq A /\ Closed(t', weak', A)
                                   => Kept(live', gc'.from, gc'.moved) \subseteq A
    BY <1>1, <1>9, <2>2
  <2>5. Closed(t', weak', Kept(live', gc'.from, gc'.moved))
    BY <1>1, <1>9, <2>3
  <2>6. QED
    BY <1>9, <2>1, <2>4, <2>5 DEF AsAlive
<1>11. MapOf(d.t) = MapOf(t)
  <2>1. Full(d.t) = Full(c.t) /\ Full(c.t) \subseteq 1..n
    <3>1. Full(d.t) = Full(c.t) /\ (Closed(d.t, weak, {}) <=> Closed(c.t, weak, {}))
      BY <1>8, SameClosed
    <3>2. DOMAIN c.t.kv = 1..n
      BY <1>8 DEF Tables
    <3>3. Full(c.t) \subseteq 1..n
      BY <3>2 DEF Full, Slots
    <3>4. QED
      BY <3>1, <3>3
  <2>2. SameFull(t, d.t)
    BY <1>4, <1>8, <2>1 DEF SameFull, SameAll
  <2>3. QED
    BY <2>2, MapLikeNow, MapStays
<1>12. MapOf(t)' = MapOf(t')
  BY DEF MapOf, Full, Slots, IsFree
<1>13. (t.subtype = "must-rehash")' = (t.subtype = "must-rehash") /\ HeldNow' = HeldNow
  BY <1>1, <1>8, <1>9 DEF HeldNow
<1>14. UNCHANGED Map!vars
  BY <1>1, <1>11, <1>12, <1>13 DEF Map!vars
<1>15. QED
  BY <1>10, <1>14

\* The words that hold no old pointer are settled to the same objects.
LEMMA SettledSame ==
  ASSUME Collecting, NEW n \in Nat, NEW m \in Nat \ {0}, NEW c, NEW own, GcOK(n, m, c, own),
         \A i \in 1..n : Clean(c, i), NEW y, Settled(c, y)
  PROVE  Full(y) = Full(c.t) /\ y.subtype = c.t.subtype /\ \A i \in Full(c.t) : SameObjects(c.t.kv[i], y.kv[i])
<1> DEFINE kv == SettledKv(c)
<1>1. c.t \in Tables(n, m) /\ DOMAIN c.t.kv = 1..n
  BY GcIs DEF Tables
<1>2. /\ kv \in [1..n -> Entry]
      /\ \A i \in 1..n : /\ kv[i].key = Settle(c, c.t.kv[i].key) /\ kv[i].value = Settle(c, c.t.kv[i].value)
                         /\ (IsFree(kv[i]) <=> IsFree(c.t.kv[i]))
                         /\ c.t.kv[i].key \in Words /\ c.t.kv[i].value \in Words
  BY SettledKvIs
<1>3. y.kv = kv /\ y.subtype = c.t.subtype
  BY <1>1 DEF Settled, Tables
<1> HIDE DEF kv
<1>4. Full(y) = Full(c.t) /\ Full(c.t) \subseteq 1..n
  BY <1>1, <1>2, <1>3 DEF Full, Slots
<1>5. ASSUME NEW i \in 1..n
      PROVE  SameObjects(c.t.kv[i], y.kv[i])
  <2>1. ~InFrom(c, c.t.kv[i].key) /\ ~InFrom(c, c.t.kv[i].value)
    BY DEF Clean
  <2>2. QED
    BY <1>2, <1>3, <2>1, SettleIs DEF SameObjects
<1>6. QED
  BY <1>3, <1>4, <1>5

\* The end of a collection: the entries of c that nothing asked for are gone, and the rest is settled.
Ends(n, m, c) ==
  /\ c \in Colls(n, m) /\ c.moved = gc.moved /\ c.t.subtype = t.subtype
  /\ (\E own : GcOK(n, m, c, own)) /\ \A i \in 1..n : Clean(c, i)
  /\ Full(c.t) = Full(t) \ {i \in Full(t) : Unwanted(Here, i)}
  /\ \A i \in Full(c.t) : SameObjects(t.kv[i], c.t.kv[i])

\* The last pass of scan_weak_tables removes the entries nothing asks for, and no others.
LEMMA EndsIs ==
  ASSUME IInv, AsAlive, Accessed, EndCollection
  PROVE  LET c == IF t.subtype = "valid" THEN scav_hash_entries(Here, TRUE) ELSE Here
         IN  \E n \in Nat \ {0}, m \in Nat \ {0} : Ends(n, m, c)
<1> DEFINE h == Here
           c == IF t.subtype = "valid" THEN scav_hash_entries(Here, TRUE) ELSE Here
<1>1. gc.pc \in {"copied", "settled"}
  BY DEF EndCollection
<1>2. Collecting /\ \E n \in Nat \ {0}, m \in Nat \ {0} : \E own : GcOK(n, m, h, own)
  BY GcFinds
<1>3. h.t = t /\ h.moved = gc.moved
  BY DEF Here
<1>4. t.subtype = "valid" => c = scav_hash_entries(h, TRUE)
  OBVIOUS
<1>5. t.subtype # "valid" => c = h
  OBVIOUS
<1>6. Closed(t, weak, KeptBy(h))
  BY <1>1, <1>3 DEF AsAlive, KeptBy
<1>7. \A i : Unwanted(h, i) <=> Unwanted(Here, i)
  OBVIOUS
<1> HIDE DEF h, c
<1>8. PICK n \in Nat \ {0}, m \in Nat \ {0} : \E own : GcOK(n, m, h, own)
  BY <1>2
<1>9. h \in Colls(n, m) /\ n \in Nat /\ DOMAIN t.kv = 1..n /\ Full(t) \subseteq 1..n
  BY <1>3, <1>8 DEF GcOK, Colls, Tables, Full, Slots
<1>10. Ends(n, m, c)
  <2>1. CASE t.subtype = "valid"
    <3>1. Good(n, m, "valid", h)
      BY <1>3, <1>8, <1>9, <2>1 DEF Good
    <3>2. c = scav_hash_entries(h, TRUE)
      BY <1>4, <2>1
    <3>3. Good(n, m, "valid", c) /\ Left(n, h, c, TRUE, 1..n)
      BY <1>2, <1>3, <1>6, <1>9, <3>1, <3>2, HashEntriesLeave
    <3>4. \A i \in 1..n : Clean(c, i)
      <4>1. h \in Scavenged(n, m, "valid", Accessed /\ TRUE, {})
        BY <3>1 DEF Good, Scavenged
      <4>2. c \in Scavenged(n, m, "valid", Accessed /\ TRUE, 1..n)
        BY <1>2, <1>9, <3>2, <4>1, HashEntriesAre
      <4>3. QED
        BY <4>2, Zenon DEF Scavenged
    <3>5. c \in Colls(n, m) /\ c.t.subtype = "valid" /\ (\E own : GcOK(n, m, c, own)) /\ c.moved = gc.moved
      BY <1>3, <3>3 DEF Good, Left
    <3>6. DOMAIN c.t.kv = 1..n /\ Full(c.t) \subseteq 1..n
      BY <3>5 DEF Colls, Tables, Full, Slots
    <3>7. \A i \in 1..n : IF Unwanted(h, i) THEN c.t.kv[i] = EmptySlot ELSE SameObjects(t.kv[i], c.t.kv[i])
      BY <1>3, <3>3 DEF Left
    <3>8. \A i \in 1..n : i \in Full(c.t) <=> i \in Full(t) /\ ~Unwanted(h, i)
      BY <1>9, <3>6, <3>7, WordsAre DEF Full, Slots, IsFree, SameObjects
    <3>9. Full(c.t) = Full(t) \ {i \in Full(t) : Unwanted(Here, i)}
      BY <1>7, <1>9, <3>6, <3>8
    <3>10. \A i \in Full(c.t) : SameObjects(t.kv[i], c.t.kv[i])
      BY <3>6, <3>7, <3>8
    <3>11. QED
      BY <2>1, <3>4, <3>5, <3>9, <3>10 DEF Ends
  <2>2. CASE t.subtype # "valid"
    <3>1. c = h
      BY <1>5, <2>2
    <3>2. NoneOld(t, gc.from)
      BY <1>1, <2>2 DEF IInv, Sound
    <3>3. \A i \in 1..n : Clean(c, i)
      BY <1>3, <1>9, <3>1, <3>2 DEF NoneOld, Clean, InFrom, Old
    <3>4. \A i \in Full(t) : ~Unwanted(h, i)
      <4>1. PICK own : GcOK(n, m, h, own)
        BY <1>8
      <4>2. t.subtype \in {"normal", "must-rehash"} /\ (t.subtype = "normal" => FullOf(n, t) = {})
        BY <1>3, <1>9, <2>2, <4>1 DEF GcOK, Agrees, Colls, Tables, Subtypes
      <4>3. Full(t) = FullOf(n, t)
        BY <1>3, <4>1, FullIs DEF GcOK, Agrees
      <4>4. QED
        BY <1>3, <4>2, <4>3 DEF Unwanted, Wanted
    <3>5. Full(c.t) = Full(t) \ {i \in Full(t) : Unwanted(Here, i)}
      BY <1>3, <1>7, <3>1, <3>4
    <3>6. \A i \in Full(c.t) : SameObjects(t.kv[i], c.t.kv[i])
      BY <1>3, <3>1 DEF SameObjects
    <3>7. QED
      BY <1>3, <1>8, <1>9, <3>1, <3>3, <3>5, <3>6 DEF Ends
  <2>3. QED
    BY <2>1, <2>2
<1>11. QED
  BY <1>10 DEF c

\* A collection removes the entries that are not retained, and keeps alive what is.
LEMMA EndCollects ==
  ASSUME IInv, AsAlive, Accessed, EndCollection
  PROVE  Map!Collect /\ AsAlive'
<1> DEFINE c == IF t.subtype = "valid" THEN scav_hash_entries(Here, TRUE) ELSE Here
           lv == Kept(live, gc.from, gc.moved)
<1>1. /\ gc.pc \in {"copied", "settled"}
      /\ t' = [c.t EXCEPT !.kv = [i \in DOMAIN @ |-> [key |-> Settle(c, @[i].key), value |-> Settle(c, @[i].value)]]]
      /\ live' = live \ (gc.from \ c.moved)
      /\ gc' = [Idle EXCEPT !.ops = gc.ops, !.count = gc.count] /\ weak' = weak
  BY DEF EndCollection
<1>2. \E n \in Nat \ {0}, m \in Nat \ {0} : Ends(n, m, c)
  BY EndsIs
<1>3. Settled(c, t')
  BY <1>1, Zenon DEF Settled, SettledKv
<1>4. Collecting /\ live \subseteq Object /\ gc.from \subseteq live
  BY GcFinds DEF Collecting
<1>5. Here.t = t /\ Here.moved = gc.moved /\ KeptBy(Here) = lv
  BY DEF Here, KeptBy
<1> HIDE DEF c
<1>6. PICK n \in Nat \ {0}, m \in Nat \ {0} : Ends(n, m, c)
  BY <1>2
<1>7. /\ c \in Colls(n, m) /\ c.moved = gc.moved /\ c.t.subtype = t.subtype
      /\ (\E own : GcOK(n, m, c, own)) /\ (\A i \in 1..n : Clean(c, i))
      /\ Full(c.t) = Full(t) \ {i \in Full(t) : Unwanted(Here, i)}
      /\ \A i \in Full(c.t) : SameObjects(t.kv[i], c.t.kv[i])
  BY <1>6 DEF Ends
<1>8. Full(t') = Full(c.t) /\ t'.subtype = c.t.subtype /\ \A i \in Full(c.t) : SameObjects(c.t.kv[i], t'.kv[i])
  <2> DEFINE y == t'
  <2> HIDE DEF y
  <2>1. PICK own : GcOK(n, m, c, own)
    BY <1>7
  <2>2. Settled(c, y) /\ n \in Nat
    BY <1>3 DEF y
  <2>3. Full(y) = Full(c.t) /\ y.subtype = c.t.subtype /\ \A i \in Full(c.t) : SameObjects(c.t.kv[i], y.kv[i])
    BY <1>4, <1>7, <2>1, <2>2, SettledSame
  <2>4. QED
    BY <2>3 DEF y
<1>9. gc'.pc = "lisp" /\ gc'.from = {} /\ gc'.moved = {} /\ gc'.reached = {}
  BY <1>1 DEF Idle
<1>10. AsAlive'
  BY <1>9 DEF AsAlive
<1>11. gc.reached \subseteq gc.moved /\ gc.moved \subseteq gc.from
  BY <1>7 DEF AsAlive, Colls
<1>12. MapLike(t, live)
  BY MapLikeNow
<1>13. Map!Alive(HeldNow) = lv
  <2>1. Closed(t, weak, Kept(live, gc.from, gc.moved))
    BY <1>1 DEF AsAlive
  <2>2. \A A \in SUBSET Values : Kept(live, gc.from, gc.reached) \subseteq A /\ Closed(t, weak, A)
                                 => Kept(live, gc.from, gc.moved) \subseteq A
    BY DEF AsAlive
  <2> DEFINE from == gc.from
             reached == gc.reached
             moved == gc.moved
  <2>3. Map!Alive((live \ from) \union reached) = Kept(live, from, moved)
    <3>1. /\ Closed(t, weak, Kept(live, from, moved)) /\ reached \subseteq moved /\ moved \subseteq from /\ from \subseteq live
          /\ \A A \in SUBSET Values : Kept(live, from, reached) \subseteq A /\ Closed(t, weak, A) => Kept(live, from, moved) \subseteq A
      BY <1>4, <1>11, <2>1, <2>2
    <3> HIDE DEF from, reached, moved
    <3>2. QED
      BY <1>4, <1>12, <3>1, KeptIsAlive
  <2>4. QED
    BY <2>3 DEF HeldNow
<1>14. Imm \notin Object /\ live' = lv \ {Imm} /\ live' \union {Imm} = lv /\ HeldNow' = live'
  <2>1. Imm \notin Object
    BY TableAssumption
  <2>2. live' = lv \ {Imm}
    BY <1>1, <1>4, <1>7, <1>11, <2>1 DEF Kept
  <2>3. live' \union {Imm} = lv
    BY <2>2 DEF Kept
  <2>4. HeldNow' = live'
    BY <1>9 DEF HeldNow
  <2>5. QED
    BY <2>1, <2>2, <2>3, <2>4
<1> DEFINE S == {k \in DOMAIN MapOf(t) : Map!Retained(k, MapOf(t)[k], lv)}
           gone == {i \in Full(t) : Unwanted(Here, i)}
<1>15. \A j \in Full(t) : t.kv[j].key.o \in S <=> j \notin gone
  <2>0. DOMAIN MapOf(t) = {t.kv[j].key.o : j \in Full(t)}
    BY <1>12, MapIs
  <2>1. \A j \in Full(t) : t.kv[j].key.o \in DOMAIN MapOf(t)
    BY <2>0
  <2>2. ASSUME NEW j \in Full(t)
        PROVE  Map!Retained(t.kv[j].key.o, MapOf(t)[t.kv[j].key.o], lv) <=> Wanted(t, weak, j, lv)
    <3> HIDE DEF lv
    <3>1. QED
      BY <1>12, RetainedIs
  <2>3. \A j \in Full(t) : Unwanted(Here, j) <=> ~Wanted(t, weak, j, lv)
    BY <1>5 DEF Unwanted
  <2>4. QED
    BY <2>1, <2>2, <2>3
<1>16. S \subseteq DOMAIN MapOf(t)
  OBVIOUS
<1>17. Drops(t, t', gone)
  <2>1. Full(t') = Full(t) \ gone
    BY <1>7, <1>8
  <2>2. \A j \in Full(t') : SameObjects(t.kv[j], t'.kv[j])
    BY <1>7, <1>8 DEF SameObjects
  <2>3. QED
    BY <2>1, <2>2, Zenon DEF Drops
<1>18. MapOf(t') = [k \in S |-> MapOf(t)[k]]
  <2> DEFINE y == t'
  <2>1. Drops(t, y, gone)
    BY <1>17
  <2> HIDE DEF y, S, gone
  <2>2. MapOf(y) = [k \in S |-> MapOf(t)[k]]
    BY <1>12, <1>15, <1>16, <2>1, MapDrops
  <2>3. QED
    BY <2>2 DEF y
<1>19. MapOf(t)' = [k \in {x \in DOMAIN MapOf(t) : Map!Retained(x, MapOf(t)[x], live' \union {Imm})} |-> MapOf(t)[k]]
  <2>1. MapOf(t)' = MapOf(t')
    BY DEF MapOf, Full, Slots, IsFree
  <2>2. S = {x \in DOMAIN MapOf(t) : Map!Retained(x, MapOf(t)[x], live' \union {Imm})}
    BY <1>14
  <2>3. QED
    BY <1>18, <2>1, <2>2
<1>20. (t.subtype = "must-rehash")' = (t.subtype = "must-rehash")
  BY <1>7, <1>8
<1>21. live' = Map!Alive(HeldNow) \ {Imm}
  BY <1>13, <1>14
<1>22. Map!Collect
  BY <1>1, <1>14, <1>19, <1>20, <1>21, Zenon DEF Map!Collect
<1>23. QED
  BY <1>10, <1>22

\* The new table is the empty map.
LEMMA InitMaps ==
  ASSUME Init
  PROVE  Map!Init /\ AsAlive
<1>1. t = MakeTable(Size, Length) /\ weak \in Weakness /\ live = Object /\ gc = Idle
  BY DEF Init
<1>2. gc.pc = "lisp" /\ gc.reached = {} /\ gc.moved = {} /\ gc.from = {}
  BY <1>1 DEF Idle
<1>3. t.kv = [i \in 1..Size |-> EmptySlot] /\ t.subtype = "normal"
  BY <1>1 DEF MakeTable
<1>4. Full(t) = {}
  <2>1. \A i \in Slots(t) : IsFree(t.kv[i])
    BY <1>3, WordsAre DEF Slots
  <2>2. QED
    BY <2>1 DEF Full
<1>5. MapOf(t) = << >>
  <2>1. {t.kv[i].key.o : i \in Full(t)} = {}
    BY <1>4
  <2>2. MapOf(t) = [k \in {} |-> t.kv[CHOOSE i \in Full(t) : t.kv[i].key.o = k].value.o]
    BY <2>1 DEF MapOf
  <2>3. QED
    BY <2>2
<1>6. HeldNow = Object
  BY <1>1, <1>2 DEF HeldNow
<1>7. Map!Init
  BY <1>1, <1>3, <1>5, <1>6 DEF Map!Init, Weakness, Map!Weakness
<1>8. QED
  BY <1>2, <1>7, LispAsAlive

\* Each step of the table and its collector is one of WeakMap, or changes nothing that WeakMap sees.
LEMMA NextMaps ==
  ASSUME IInv, AsAlive, Accessed, [Next]_vars
  PROVE  [Map!Next]_(Map!vars) /\ AsAlive'
<1>1. CASE Gethash
  BY <1>1, GethashUses DEF Map!Next
<1>2. CASE ClrHash
  BY <1>2, ClrHashUses DEF Map!Next
<1>3. CASE Purify
  BY <1>3, PurifyIsPurify DEF Map!Next
<1>4. CASE \E k \in live, v \in live \union {Imm} : PutHash(k, v)
  BY <1>4, PutHashUses DEF Map!Next
<1>5. CASE \E k \in live : RemHash(k)
  BY <1>5, RemHashUses DEF Map!Next
<1>6. CASE \E S \in (SUBSET live) \ {{}} : \E to \in [S -> Addresses] : StartCollection(S, to)
  <2>1. PICK S \in SUBSET live : \E to \in [S -> Addresses] : StartCollection(S, to)
    BY <1>6
  <2>2. PICK to \in [S -> Addresses] : StartCollection(S, to)
    BY <2>1
  <2>3. QED
    BY <2>2, StartBegins DEF Map!Next
<1>7. CASE \E o \in Object : Reach(o)
  BY <1>7, ReachHolds DEF Map!Next
<1>8. CASE ScavWeakTables
  BY <1>8, ScavKeepsMap
<1>9. CASE EndCollection
  BY <1>9, EndCollects DEF Map!Next
<1>10. CASE UNCHANGED vars
  <2>1. t' = t /\ weak' = weak /\ live' = live /\ gc' = gc
    BY <1>10 DEF vars
  <2>2. MapOf(t)' = MapOf(t) /\ HeldNow' = HeldNow /\ (t.subtype = "must-rehash")' = (t.subtype = "must-rehash")
    BY <2>1 DEF MapOf, Full, Slots, IsFree, HeldNow
  <2>3. AsAlive'
    BY <2>1 DEF AsAlive
  <2>4. UNCHANGED Map!vars
    BY <2>1, <2>2 DEF Map!vars
  <2>5. QED
    BY <2>3, <2>4
<1>11. QED
  BY <1>1, <1>2, <1>3, <1>4, <1>5, <1>6, <1>7, <1>8, <1>9, <1>10 DEF Next

(* gencgc.c, scav_weak_tables and scav_hash_entries; hash-new.lisp: a weak table
   of the program is the map that WeakMap describes.  A collection removes an
   entry exactly when what its weakness asks for is not alive, the table keeps
   nothing else alive, and whatever is moved, rehashed or grown, gethash,
   puthash and remhash see that map.  Accessed: Lisp uses the table between two
   collections, so no collection starts with entries waiting to be rehashed. *)
THEOREM TableIsMap ==
  ASSUME Accessed
  PROVE  Spec => MapKept
<1>1. Init => IInv /\ AsAlive /\ Map!Init
  BY InitIs, InitMaps
<1>2. IInv /\ AsAlive /\ [Next]_vars => IInv' /\ AsAlive' /\ [Map!Next]_(Map!vars)
  BY NextKeeps, NextMaps
<1>3. QED
  BY <1>1, <1>2, PTL DEF Spec, MapKept, Map!Spec
=============================================================================
