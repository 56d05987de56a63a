-------------------------- MODULE GencgcHeapProofs --------------------------
(* The heap of the generational collector and the parts that its allocator   *)
(* is made of, for every size of the heap.                                   *)
(*                                                                           *)
(* HeapOK is what is true of each heap that a C function of gencgc.c is      *)
(* called with or returns: regions with zeroes behind free pages, pages      *)
(* linked by their offsets, large pages with one vector, objects with all    *)
(* their cells, and in the counters the sums of the sizes of the pages.      *)
(*                                                                           *)
(* The model computes the next heap by functions of heaps, so the proof goes *)
(* function by function, from the smallest up: a store, the object in its    *)
(* cells, opening and closing a region, areas and the place of a large       *)
(* object.  What was allocated before stays as it was (Grows), and the new   *)
(* cells are zero (Vacant).                                                  *)
EXTENDS Gencgc, FiniteSetTheorems, SequenceTheorems, WellFoundedInduction, TLAPS

-----------------------------------------------------------------------------
(* The constants; induction; loops over sequences and over numbers.          *)
LEMMA Constants ==
  /\ NPages \in Nat \ {0} /\ PageSize \in Nat \ {0} /\ NumGenerations \in Nat \ {0}
  /\ Threshold \in 0..PageSize-1 /\ OldestGenToGc \in 0..NumGenerations-1
  /\ LargeSize \in Nat /\ LargeLimit \in Nat /\ NumNewAreas \in Nat /\ Consed \in Nat /\ MaxObjects \in Nat
<1>1. {LargeSize, LargeLimit, NumNewAreas, Consed, MaxObjects} \union LastGens \subseteq Nat
  BY SizesAssumption
<1>2. QED
  BY <1>1, SizesAssumption

LEMMA Sizes ==
  ASSUME NEW k \in Kind
  PROVE  Size[k] \in Nat /\ Size[k] >= 1 /\ (Size[k] >= LargeSize => k \in vector)
<1>1. Size[k] \in Nat \ {0} /\ (Size[k] >= LargeSize => k \in vector)
  BY SizesAssumption
<1>2. QED
  BY <1>1

LEMMA Slots == IsFiniteSet(Slot) /\ LastGens \subseteq Nat
<1>1. {LargeSize, LargeLimit, NumNewAreas, Consed, MaxObjects} \union LastGens \subseteq Nat
  BY SizesAssumption
<1>2. QED
  BY <1>1, SizesAssumption

LEMMA Least ==
  ASSUME NEW T \in SUBSET Nat, T # {}
  PROVE  LeastOf(T) \in T /\ \A n \in T : LeastOf(T) <= n
<1>1. PICK m \in T : \A n \in T : ~ <<n, m>> \in OpToRel(<, Nat)
  BY NatLessThanWellFounded, WFMin
<1>2. \A n \in T : ~ (n < m)
  BY <1>1 DEF OpToRel
<1>3. \A n \in T : m <= n
  BY <1>2, SMT
<1>4. QED
  BY <1>3, Zenon DEF LeastOf

\* What holds of 0 and of each successor holds of all numbers.
LEMMA Induction ==
  ASSUME NEW S, 0 \in S, \A n \in Nat : n \in S => n + 1 \in S
  PROVE  Nat \subseteq S
<1> SUFFICES ASSUME Nat \ S # {} PROVE FALSE
  OBVIOUS
<1>1. PICK m \in Nat \ S : \A n \in Nat \ S : m <= n
  BY Least
<1>2. m # 0 /\ m - 1 \in Nat
  BY <1>1
<1>3. m - 1 \in S
  BY <1>1, <1>2
<1>4. QED
  BY <1>1, <1>2, <1>3

\* The last place of a set, the one that the folds take first.
LEMMA MaxIs ==
  ASSUME NEW n \in Nat, NEW s \in SUBSET (1..n), s # {}
  PROVE  Max(s) \in s /\ \A i \in s : i <= Max(s)
<1> DEFINE T == {m \in Nat : \E i \in s : m = n - i}
<1>1. T \in SUBSET Nat /\ T # {}
  <2>1. PICK e \in s : TRUE
    OBVIOUS
  <2>2. n - e \in T
    BY <2>1
  <2>3. QED
    BY <2>2
<1>2. PICK m \in T : \A k \in T : m <= k
  BY <1>1, Least
<1>3. PICK i \in s : m = n - i
  BY <1>2
<1>4. \A j \in s : i >= j
  <2>1. TAKE j \in s
  <2>2. n - j \in T
    OBVIOUS
  <2>3. QED
    BY <2>2, <1>2, <1>3
<1>5. QED
  BY <1>4, Zenon, SMT DEF Max

\* Taking the last place away leaves the places before it.
LEMMA MaxIsLast ==
  ASSUME NEW m \in Nat, NEW s \in SUBSET (1..m + 1), m + 1 \in s
  PROVE  Max(s) = m + 1
<1>1. m + 1 \in Nat
  OBVIOUS
<1>2. Max(s) \in s /\ \A i \in s : i <= Max(s)
  BY <1>1, MaxIs
<1>3. Max(s) \in 1..m + 1 /\ m + 1 <= Max(s)
  BY <1>2
<1>4. QED
  BY <1>3

\* A loop over the places of a sequence of length n: step[s][x] is what the step for the
\* last place of s makes of x, and r[s] what the steps for all its places make of c.
Places(n) == (SUBSET (1..n)) \ {{}}
Folded(n, c, step, S, r) ==
  /\ r[{}] = c
  /\ \A s \in Places(n) : r[s] = step[s][r[s \ {Max(s)}]]
  /\ \A s \in SUBSET (1..n) : r[s] \in S

\* Such a loop has a result, in any set that the steps do not leave.
LEMMA FoldExists ==
  ASSUME NEW n \in Nat, NEW step, NEW S, NEW c \in S, \A s \in Places(n) : \A x \in S : step[s][x] \in S
  PROVE  \E r : Folded(n, c, step, S, r)
<1> USE DEF Places
<1> DEFINE Run(r, m) ==
             /\ r = [s \in SUBSET (1..m) |-> IF s = {} THEN c ELSE step[s][r[s \ {Max(s)}]]]
             /\ \A s \in SUBSET (1..m) : r[s] \in S
           T == {m \in Nat : m <= n => \E r : Run(r, m)}
<1>1. 0 \in T
  <2> DEFINE r == [s \in SUBSET (1..0) |-> c]
  <2>1. SUBSET (1..0) = {{}}
    OBVIOUS
  <2>2. r = [s \in SUBSET (1..0) |-> IF s = {} THEN c ELSE step[s][r[s \ {Max(s)}]]]
    BY <2>1
  <2>3. Run(r, 0)
    BY <2>1, <2>2
  <2>4. QED
    BY <2>3
<1>2. ASSUME NEW m \in Nat, m \in T PROVE m + 1 \in T
  <2> HIDE DEF Run
  <2> SUFFICES ASSUME m + 1 <= n PROVE \E r : Run(r, m + 1)
    BY DEF T
  <2>0. \E r : Run(r, m)
    BY <1>2
  <2>1. PICK r : Run(r, m)
    BY <2>0
  <2> USE DEF Run
  <2> DEFINE old(s) == s \ {m + 1}
             q == [s \in SUBSET (1..m + 1) |-> IF m + 1 \in s THEN step[s][r[old(s)]] ELSE r[s]]
  <2>2. ASSUME NEW s \in SUBSET (1..m + 1)
        PROVE  /\ old(s) \in SUBSET (1..m) /\ m + 1 \notin old(s) /\ old(s) \in SUBSET (1..m + 1)
               /\ m + 1 \in s => Max(s) = m + 1
               /\ m + 1 \notin s => s \in SUBSET (1..m)
               /\ m + 1 \notin s /\ s # {} => s \ {Max(s)} \in SUBSET (1..m) /\ m + 1 \notin s \ {Max(s)}
               /\ m + 1 \in s => s \in (SUBSET (1..n)) \ {{}}
               /\ q[s] = IF m + 1 \in s THEN step[s][r[old(s)]] ELSE r[s]
    <3>1. m + 1 \in s => Max(s) = m + 1
      BY MaxIsLast
    <3>2. old(s) \in SUBSET (1..m) /\ m + 1 \notin old(s) /\ old(s) \in SUBSET (1..m + 1)
      OBVIOUS
    <3>3. m + 1 \notin s => s \in SUBSET (1..m)
      OBVIOUS
    <3>4. s \ {Max(s)} \subseteq s
      OBVIOUS
    <3>5. m + 1 \in s => s \in (SUBSET (1..n)) \ {{}}
      OBVIOUS
    <3>6. q[s] = IF m + 1 \in s THEN step[s][r[old(s)]] ELSE r[s]
      OBVIOUS
    <3> HIDE DEF q, Run
    <3>7. QED
      BY <3>1, <3>2, <3>3, <3>4, <3>5, <3>6
  <2>3. ASSUME NEW s \in SUBSET (1..m + 1)
        PROVE  q[s] = (IF s = {} THEN c ELSE step[s][q[s \ {Max(s)}]]) /\ q[s] \in S
    <3>1. CASE m + 1 \in s
      <4>1. q[s] = step[s][r[old(s)]] /\ Max(s) = m + 1 /\ q[old(s)] = r[old(s)] /\ s # {}
        BY <2>2, <3>1
      <4>2. r[old(s)] \in S
        BY <2>1, <2>2
      <4>3. step[s][r[old(s)]] \in S
        BY <4>1, <4>2, <2>2, <3>1
      <4>4. QED
        BY <4>1, <4>3
    <3>2. CASE m + 1 \notin s
      <4>1. q[s] = r[s] /\ s \in SUBSET (1..m)
        BY <2>2, <3>2
      <4>2. s # {} => q[s \ {Max(s)}] = r[s \ {Max(s)}]
        BY <2>2, <3>2
      <4>3. r[s] = (IF s = {} THEN c ELSE step[s][r[s \ {Max(s)}]]) /\ r[s] \in S
        BY <2>1, <4>1
      <4>4. QED
        BY <4>1, <4>2, <4>3
    <3>3. QED
      BY <3>1, <3>2
  <2>4. q = [s \in SUBSET (1..m + 1) |-> q[s]]
    OBVIOUS
  <2> HIDE DEF q
  <2>5. q = [s \in SUBSET (1..m + 1) |-> IF s = {} THEN c ELSE step[s][q[s \ {Max(s)}]]]
    BY <2>3, <2>4
  <2>6. QED
    BY <2>3, <2>5
<1>3. n \in T
  <2> HIDE DEF T
  <2>1. QED
    BY <1>1, <1>2, Induction
<1>4. \E r : Run(r, n)
  <2> HIDE DEF Run
  <2>1. QED
    BY <1>3
<1>5. PICK r : Run(r, n)
  BY <1>4
<1>6. r[{}] = c /\ \A s \in (SUBSET (1..n)) \ {{}} : r[s] = step[s][r[s \ {Max(s)}]]
  BY <1>5
<1>7. QED
  BY <1>5, <1>6 DEF Folded

\* A loop that counts from 1 to n.
Looped(n, c, step, S, r) ==
  r[0] = c /\ (\A i \in 1..n : r[i] = step[i][r[i - 1]]) /\ \A i \in 0..n : r[i] \in S

\* It has a result after each step.
LEMMA LoopExists ==
  ASSUME NEW n \in Nat, NEW step, NEW S, NEW c \in S, \A i \in 1..n : \A x \in S : step[i][x] \in S
  PROVE  \E r : r = [i \in 0..n |-> IF i = 0 THEN c ELSE step[i][r[i - 1]]] /\ Looped(n, c, step, S, r)
<1> DEFINE Run(r, m) ==
             /\ r = [i \in 0..m |-> IF i = 0 THEN c ELSE step[i][r[i - 1]]]
             /\ \A i \in 0..m : r[i] \in S
           T == {m \in Nat : m <= n => \E r : Run(r, m)}
<1>1. 0 \in T
  <2> DEFINE r == [i \in 0..0 |-> c]
  <2>1. r = [i \in 0..0 |-> IF i = 0 THEN c ELSE step[i][r[i - 1]]]
    OBVIOUS
  <2>2. Run(r, 0)
    BY <2>1
  <2>3. QED
    BY <2>2
<1>2. ASSUME NEW m \in Nat, m \in T PROVE m + 1 \in T
  <2> HIDE DEF Run
  <2> SUFFICES ASSUME m + 1 <= n PROVE \E r : Run(r, m + 1)
    BY DEF T
  <2>0. \E r : Run(r, m)
    BY <1>2
  <2>1. PICK r : Run(r, m)
    BY <2>0
  <2> DEFINE q == [i \in 0..m + 1 |-> IF i = m + 1 THEN step[m + 1][r[m]] ELSE r[i]]
  <2>2. ASSUME NEW i \in 0..m + 1
        PROVE  q[i] = (IF i = 0 THEN c ELSE step[i][q[i - 1]]) /\ q[i] \in S
    <3>1. CASE i = m + 1
      <4>1. i # 0 /\ i \in 1..n /\ i - 1 = m /\ m \in 0..m /\ m \in 0..m + 1 /\ m # m + 1
        BY <3>1
      <4>2. q[i] = step[i][r[m]] /\ q[i - 1] = r[m]
        BY <3>1, <4>1
      <4>3. r[m] \in S
        BY <2>1, <4>1 DEF Run
      <4> HIDE DEF q
      <4>4. QED
        BY <4>1, <4>2, <4>3
    <3>2. CASE i # m + 1
      <4>1. i \in 0..m /\ (i # 0 => i - 1 \in 0..m + 1 /\ i - 1 # m + 1)
        BY <3>2
      <4>2. q[i] = r[i] /\ (i # 0 => q[i - 1] = r[i - 1])
        BY <3>2, <4>1
      <4>3. r[i] = (IF i = 0 THEN c ELSE step[i][r[i - 1]]) /\ r[i] \in S
        BY <2>1, <4>1 DEF Run
      <4> HIDE DEF q
      <4>4. QED
        BY <4>2, <4>3
    <3>3. QED
      BY <3>1, <3>2
  <2>3. q = [i \in 0..m + 1 |-> q[i]]
    OBVIOUS
  <2> HIDE DEF q
  <2>4. q = [i \in 0..m + 1 |-> IF i = 0 THEN c ELSE step[i][q[i - 1]]]
    BY <2>2, <2>3
  <2>5. Run(q, m + 1)
    BY <2>2, <2>4 DEF Run
  <2>6. QED
    BY <2>5
<1>3. n \in T
  <2> HIDE DEF T
  <2>1. QED
    BY <1>1, <1>2, Induction
<1>4. \E r : Run(r, n)
  <2> HIDE DEF Run
  <2>1. QED
    BY <1>3
<1>5. PICK r : Run(r, n)
  BY <1>4
<1>6. r[0] = c /\ \A i \in 1..n : r[i] = step[i][r[i - 1]]
  BY <1>5
<1>7. QED
  BY <1>5, <1>6 DEF Looped

\* What the steps of a loop keep holds at its end.
LEMMA FoldEnds ==
  ASSUME NEW n \in Nat, NEW r, NEW S, r[{}] \in S, \A s \in Places(n) : r[s \ {Max(s)}] \in S => r[s] \in S
  PROVE  r[1..n] \in S
<1> USE DEF Places
<1> DEFINE T == {m \in Nat : m <= n => r[1..m] \in S}
<1>1. 0 \in T
  <2>1. 1..0 = {}
    OBVIOUS
  <2>2. QED
    BY <2>1
<1>2. ASSUME NEW m \in Nat, m \in T PROVE m + 1 \in T
  <2> SUFFICES ASSUME m + 1 <= n PROVE r[1..m + 1] \in S
    OBVIOUS
  <2>1. 1..m + 1 \in (SUBSET (1..n)) \ {{}} /\ m + 1 \in 1..m + 1 /\ 1..m + 1 \in SUBSET (1..m + 1)
    OBVIOUS
  <2>2. Max(1..m + 1) = m + 1
    BY <2>1, MaxIsLast
  <2>3. (1..m + 1) \ {m + 1} = 1..m
    OBVIOUS
  <2>4. r[1..m] \in S
    BY <1>2
  <2>5. QED
    BY <2>1, <2>2, <2>3, <2>4
<1>3. n \in T
  <2> HIDE DEF T
  <2>1. QED
    BY <1>1, <1>2, Induction
<1>4. QED
  BY <1>3

\* scavenge goes from cell to cell.
LEMMA ScavengeFold ==
  ASSUME NEW n \in Nat, NEW S, NEW c \in S, NEW a \in Int,
         \A i \in 1..n : \A x \in S : ScavengeObject(x, a + i - 1) \in S
  PROVE  scavenge(c, a, n) \in S
<1> DEFINE seq == Cells(a, n)
<1>0. DOMAIN seq = 1..n /\ \A i \in 1..n : seq[i] = a + i - 1
  BY DEF Cells
<1> DEFINE step == [s \in Places(n) |-> [x \in S |-> ScavengeObject(x, seq[Max(s)])]]
<1>1. ASSUME NEW s \in Places(n)
      PROVE  Max(s) \in 1..n /\ s \in SUBSET (1..n) /\ s \ {Max(s)} \in SUBSET (1..n) /\ s # {}
  BY MaxIs DEF Places
<1>2. ASSUME NEW s \in Places(n), NEW x \in S
      PROVE  step[s][x] = ScavengeObject(x, seq[Max(s)]) /\ step[s][x] \in S
  BY <1>1, <1>0
<1> HIDE DEF step, seq
<1>3. PICK r : Folded(n, c, step, S, r)
  BY <1>2, FoldExists
<1> DEFINE R == [s \in SUBSET DOMAIN seq |-> r[s]]
<1>4. ASSUME NEW s \in SUBSET DOMAIN seq
      PROVE  R[s] = IF s = {} THEN c ELSE ScavengeObject(R[s \ {Max(s)}], seq[Max(s)])
  <2>1. CASE s = {}
    BY <1>3, <2>1 DEF Folded
  <2>2. CASE s # {}
    <3>1. s \in Places(n)
      BY <2>2, <1>0 DEF Places
    <3>2. r[s \ {Max(s)}] \in S /\ r[s] = step[s][r[s \ {Max(s)}]]
      BY <1>1, <1>3, <3>1 DEF Folded
    <3>3. R[s] = r[s] /\ R[s \ {Max(s)}] = r[s \ {Max(s)}]
      BY <1>1, <3>1, <1>0
    <3> HIDE DEF R
    <3>4. QED
      BY <1>2, <2>2, <3>1, <3>2, <3>3
  <2>3. QED
    BY <2>1, <2>2
<1>5. R = [s \in SUBSET DOMAIN seq |-> R[s]]
  OBVIOUS
<1> HIDE DEF R
<1>6. R = [s \in SUBSET DOMAIN seq |-> IF s = {} THEN c ELSE LET k == Max(s) IN ScavengeObject(R[s \ {k}], seq[k])]
  BY <1>4, <1>5
<1> DEFINE iter[s \in SUBSET DOMAIN seq] ==
             IF s = {} THEN c ELSE LET k == Max(s) IN ScavengeObject(iter[s \ {k}], seq[k])
<1>7. scavenge(c, a, n) = iter[DOMAIN seq]
  BY Zenon DEF FoldLeft, MapThenFoldSet, scavenge, Cells, seq
<1>8. iter = [s \in SUBSET DOMAIN seq |-> IF s = {} THEN c ELSE LET k == Max(s) IN ScavengeObject(iter[s \ {k}], seq[k])]
  <2>1. \E q : q = [s \in SUBSET DOMAIN seq |-> IF s = {} THEN c ELSE LET k == Max(s) IN ScavengeObject(q[s \ {k}], seq[k])]
    BY <1>6, Zenon
  <2>2. QED
    BY <2>1, Zenon
<1> HIDE DEF iter
<1>9. iter[{}] \in S
  BY <1>8
<1>10. ASSUME NEW s \in Places(n), iter[s \ {Max(s)}] \in S
       PROVE  iter[s] \in S
  <2>1. s \in SUBSET DOMAIN seq /\ s # {} /\ Max(s) \in 1..n
    BY <1>1, <1>0
  <2>2. iter[s] = ScavengeObject(iter[s \ {Max(s)}], seq[Max(s)])
    BY <1>8, <2>1
  <2>3. QED
    BY <1>10, <2>1, <2>2, <1>0
<1>11. iter[1..n] \in S
  BY <1>9, <1>10, FoldEnds
<1>12. QED
  BY <1>7, <1>11, <1>0

\* scavenge_newspace_generation goes from area to area.
LEMMA AreasFold ==
  ASSUME NEW seq, NEW n \in Nat, NEW S, NEW c \in S, DOMAIN seq = 1..n,
         \A i \in 1..n : \A x \in S : scavenge(x, seq[i].start, seq[i].size) \in S
  PROVE  scavenge_areas(c, seq) \in S
<1> DEFINE step == [s \in Places(n) |-> [x \in S |-> scavenge(x, seq[Max(s)].start, seq[Max(s)].size)]]
<1>1. ASSUME NEW s \in Places(n)
      PROVE  Max(s) \in 1..n /\ s \in SUBSET (1..n) /\ s \ {Max(s)} \in SUBSET (1..n) /\ s # {}
  BY MaxIs DEF Places
<1>2. ASSUME NEW s \in Places(n), NEW x \in S
      PROVE  step[s][x] = scavenge(x, seq[Max(s)].start, seq[Max(s)].size) /\ step[s][x] \in S
  BY <1>1
<1> HIDE DEF step
<1>3. PICK r : Folded(n, c, step, S, r)
  BY <1>2, FoldExists
<1> DEFINE R == [s \in SUBSET DOMAIN seq |-> r[s]]
<1>4. ASSUME NEW s \in SUBSET DOMAIN seq
      PROVE  R[s] = IF s = {} THEN c ELSE scavenge(R[s \ {Max(s)}], seq[Max(s)].start, seq[Max(s)].size)
  <2>1. CASE s = {}
    BY <1>3, <2>1 DEF Folded
  <2>2. CASE s # {}
    <3>1. s \in Places(n)
      BY <2>2 DEF Places
    <3>2. r[s \ {Max(s)}] \in S /\ r[s] = step[s][r[s \ {Max(s)}]]
      BY <1>1, <1>3, <3>1 DEF Folded
    <3>3. R[s] = r[s] /\ R[s \ {Max(s)}] = r[s \ {Max(s)}]
      BY <1>1, <3>1
    <3> HIDE DEF R
    <3>4. QED
      BY <1>2, <2>2, <3>1, <3>2, <3>3
  <2>3. QED
    BY <2>1, <2>2
<1>5. R = [s \in SUBSET DOMAIN seq |-> R[s]]
  OBVIOUS
<1> HIDE DEF R
<1>6. R = [s \in SUBSET DOMAIN seq |-> IF s = {} THEN c ELSE LET k == Max(s) IN scavenge(R[s \ {k}], seq[k].start, seq[k].size)]
  BY <1>4, <1>5
<1> DEFINE iter[s \in SUBSET DOMAIN seq] ==
             IF s = {} THEN c ELSE LET k == Max(s) IN scavenge(iter[s \ {k}], seq[k].start, seq[k].size)
<1>7. scavenge_areas(c, seq) = iter[DOMAIN seq]
  BY Zenon DEF FoldLeft, MapThenFoldSet, scavenge_areas
<1>8. iter = [s \in SUBSET DOMAIN seq |-> IF s = {} THEN c ELSE LET k == Max(s) IN scavenge(iter[s \ {k}], seq[k].start, seq[k].size)]
  <2>1. \E q : q = [s \in SUBSET DOMAIN seq |-> IF s = {} THEN c ELSE LET k == Max(s) IN scavenge(q[s \ {k}], seq[k].start, seq[k].size)]
    BY <1>6, Zenon
  <2>2. QED
    BY <2>1, Zenon
<1> HIDE DEF iter
<1>9. iter[{}] \in S
  BY <1>8
<1>10. ASSUME NEW s \in Places(n), iter[s \ {Max(s)}] \in S
       PROVE  iter[s] \in S
  <2>1. s \in SUBSET DOMAIN seq /\ s # {} /\ Max(s) \in 1..n
    BY <1>1
  <2>2. iter[s] = scavenge(iter[s \ {Max(s)}], seq[Max(s)].start, seq[Max(s)].size)
    BY <1>8, <2>1
  <2>3. QED
    BY <1>10, <2>1, <2>2
<1>11. iter[1..n] \in S
  BY <1>9, <1>10, FoldEnds
<1>12. QED
  BY <1>7, <1>11

\* scavenge_generation protects the pages of a block one by one.
LEMMA ProtectFold ==
  ASSUME NEW n \in Nat, NEW S, NEW c \in S, NEW p \in Int, NEW l \in Int, p <= l, n = l - p + 1,
         \A i \in 1..n : \A x \in S : update_page_write_prot(x, p + i - 1) \in S
  PROVE  ProtectPages(c, p, l) \in S
<1> DEFINE seq == PageSeq(p, l)
<1>0. DOMAIN seq = 1..n /\ \A i \in 1..n : seq[i] = p + i - 1
  BY DEF PageSeq
<1> DEFINE step == [s \in Places(n) |-> [x \in S |-> update_page_write_prot(x, seq[Max(s)])]]
<1>1. ASSUME NEW s \in Places(n)
      PROVE  Max(s) \in 1..n /\ s \in SUBSET (1..n) /\ s \ {Max(s)} \in SUBSET (1..n) /\ s # {}
  BY MaxIs DEF Places
<1>2. ASSUME NEW s \in Places(n), NEW x \in S
      PROVE  step[s][x] = update_page_write_prot(x, seq[Max(s)]) /\ step[s][x] \in S
  BY <1>1, <1>0
<1> HIDE DEF step, seq
<1>3. PICK r : Folded(n, c, step, S, r)
  BY <1>2, FoldExists
<1> DEFINE R == [s \in SUBSET DOMAIN seq |-> r[s]]
<1>4. ASSUME NEW s \in SUBSET DOMAIN seq
      PROVE  R[s] = IF s = {} THEN c ELSE update_page_write_prot(R[s \ {Max(s)}], seq[Max(s)])
  <2>1. CASE s = {}
    BY <1>3, <2>1 DEF Folded
  <2>2. CASE s # {}
    <3>1. s \in Places(n)
      BY <2>2, <1>0 DEF Places
    <3>2. r[s \ {Max(s)}] \in S /\ r[s] = step[s][r[s \ {Max(s)}]]
      BY <1>1, <1>3, <3>1 DEF Folded
    <3>3. R[s] = r[s] /\ R[s \ {Max(s)}] = r[s \ {Max(s)}]
      BY <1>1, <3>1, <1>0
    <3> HIDE DEF R
    <3>4. QED
      BY <1>2, <2>2, <3>1, <3>2, <3>3
  <2>3. QED
    BY <2>1, <2>2
<1>5. R = [s \in SUBSET DOMAIN seq |-> R[s]]
  OBVIOUS
<1> HIDE DEF R
<1>6. R = [s \in SUBSET DOMAIN seq |-> IF s = {} THEN c ELSE LET k == Max(s) IN update_page_write_prot(R[s \ {k}], seq[k])]
  BY <1>4, <1>5
<1> DEFINE iter[s \in SUBSET DOMAIN seq] ==
             IF s = {} THEN c ELSE LET k == Max(s) IN update_page_write_prot(iter[s \ {k}], seq[k])
<1>7. ProtectPages(c, p, l) = iter[DOMAIN seq]
  BY Zenon DEF FoldLeft, MapThenFoldSet, ProtectPages, PageSeq, seq
<1>8. iter = [s \in SUBSET DOMAIN seq |-> IF s = {} THEN c ELSE LET k == Max(s) IN update_page_write_prot(iter[s \ {k}], seq[k])]
  <2>1. \E q : q = [s \in SUBSET DOMAIN seq |-> IF s = {} THEN c ELSE LET k == Max(s) IN update_page_write_prot(q[s \ {k}], seq[k])]
    BY <1>6, Zenon
  <2>2. QED
    BY <2>1, Zenon
<1> HIDE DEF iter
<1>9. iter[{}] \in S
  BY <1>8
<1>10. ASSUME NEW s \in Places(n), iter[s \ {Max(s)}] \in S
       PROVE  iter[s] \in S
  <2>1. s \in SUBSET DOMAIN seq /\ s # {} /\ Max(s) \in 1..n
    BY <1>1, <1>0
  <2>2. iter[s] = update_page_write_prot(iter[s \ {Max(s)}], seq[Max(s)])
    BY <1>8, <2>1
  <2>3. QED
    BY <1>10, <2>1, <2>2, <1>0
<1>11. iter[1..n] \in S
  BY <1>9, <1>10, FoldEnds
<1>12. QED
  BY <1>7, <1>11, <1>0

\* A pass of scav_weak_tables goes from table to table.
LEMMA WeakEntriesFold ==
  ASSUME NEW seq, NEW n \in Nat, NEW S, NEW c \in S, DOMAIN seq = 1..n,
         \A i \in 1..n : \A x \in S : ScavWeakEntry(x, seq[i]) \in S
  PROVE  ScavWeakEntries(c, seq) \in S
<1> DEFINE step == [s \in Places(n) |-> [x \in S |-> ScavWeakEntry(x, seq[Max(s)])]]
<1>1. ASSUME NEW s \in Places(n)
      PROVE  Max(s) \in 1..n /\ s \in SUBSET (1..n) /\ s \ {Max(s)} \in SUBSET (1..n) /\ s # {}
  BY MaxIs DEF Places
<1>2. ASSUME NEW s \in Places(n), NEW x \in S
      PROVE  step[s][x] = ScavWeakEntry(x, seq[Max(s)]) /\ step[s][x] \in S
  BY <1>1
<1> HIDE DEF step
<1>3. PICK r : Folded(n, c, step, S, r)
  BY <1>2, FoldExists
<1> DEFINE R == [s \in SUBSET DOMAIN seq |-> r[s]]
<1>4. ASSUME NEW s \in SUBSET DOMAIN seq
      PROVE  R[s] = IF s = {} THEN c ELSE ScavWeakEntry(R[s \ {Max(s)}], seq[Max(s)])
  <2>1. CASE s = {}
    BY <1>3, <2>1 DEF Folded
  <2>2. CASE s # {}
    <3>1. s \in Places(n)
      BY <2>2 DEF Places
    <3>2. r[s \ {Max(s)}] \in S /\ r[s] = step[s][r[s \ {Max(s)}]]
      BY <1>1, <1>3, <3>1 DEF Folded
    <3>3. R[s] = r[s] /\ R[s \ {Max(s)}] = r[s \ {Max(s)}]
      BY <1>1, <3>1
    <3> HIDE DEF R
    <3>4. QED
      BY <1>2, <2>2, <3>1, <3>2, <3>3
  <2>3. QED
    BY <2>1, <2>2
<1>5. R = [s \in SUBSET DOMAIN seq |-> R[s]]
  OBVIOUS
<1> HIDE DEF R
<1>6. R = [s \in SUBSET DOMAIN seq |-> IF s = {} THEN c ELSE LET k == Max(s) IN ScavWeakEntry(R[s \ {k}], seq[k])]
  BY <1>4, <1>5
<1> DEFINE iter[s \in SUBSET DOMAIN seq] ==
             IF s = {} THEN c ELSE LET k == Max(s) IN ScavWeakEntry(iter[s \ {k}], seq[k])
<1>7. ScavWeakEntries(c, seq) = iter[DOMAIN seq]
  BY Zenon DEF FoldLeft, MapThenFoldSet, ScavWeakEntries
<1>8. iter = [s \in SUBSET DOMAIN seq |-> IF s = {} THEN c ELSE LET k == Max(s) IN ScavWeakEntry(iter[s \ {k}], seq[k])]
  <2>1. \E q : q = [s \in SUBSET DOMAIN seq |-> IF s = {} THEN c ELSE LET k == Max(s) IN ScavWeakEntry(q[s \ {k}], seq[k])]
    BY <1>6, Zenon
  <2>2. QED
    BY <2>1, Zenon
<1> HIDE DEF iter
<1>9. iter[{}] \in S
  BY <1>8
<1>10. ASSUME NEW s \in Places(n), iter[s \ {Max(s)}] \in S
       PROVE  iter[s] \in S
  <2>1. s \in SUBSET DOMAIN seq /\ s # {} /\ Max(s) \in 1..n
    BY <1>1
  <2>2. iter[s] = ScavWeakEntry(iter[s \ {Max(s)}], seq[Max(s)])
    BY <1>8, <2>1
  <2>3. QED
    BY <1>10, <2>1, <2>2
<1>11. iter[1..n] \in S
  BY <1>9, <1>10, FoldEnds
<1>12. QED
  BY <1>7, <1>11

\* So do the passes that scavenge and remove entries.
LEMMA TablesFold ==
  ASSUME NEW seq, NEW n \in Nat, NEW S, NEW c \in S, NEW removep, seq = c.weak_hash_tables, DOMAIN seq = 1..n,
         \A i \in 1..n : \A x \in S : scav_hash_entries(x, seq[i], removep) \in S
  PROVE  scav_tables(c, removep) \in S
<1> DEFINE step == [s \in Places(n) |-> [x \in S |-> scav_hash_entries(x, seq[Max(s)], removep)]]
<1>1. ASSUME NEW s \in Places(n)
      PROVE  Max(s) \in 1..n /\ s \in SUBSET (1..n) /\ s \ {Max(s)} \in SUBSET (1..n) /\ s # {}
  BY MaxIs DEF Places
<1>2. ASSUME NEW s \in Places(n), NEW x \in S
      PROVE  step[s][x] = scav_hash_entries(x, seq[Max(s)], removep) /\ step[s][x] \in S
  BY <1>1
<1> HIDE DEF step
<1>3. PICK r : Folded(n, c, step, S, r)
  BY <1>2, FoldExists
<1> DEFINE R == [s \in SUBSET DOMAIN seq |-> r[s]]
<1>4. ASSUME NEW s \in SUBSET DOMAIN seq
      PROVE  R[s] = IF s = {} THEN c ELSE scav_hash_entries(R[s \ {Max(s)}], seq[Max(s)], removep)
  <2>1. CASE s = {}
    BY <1>3, <2>1 DEF Folded
  <2>2. CASE s # {}
    <3>1. s \in Places(n)
      BY <2>2 DEF Places
    <3>2. r[s \ {Max(s)}] \in S /\ r[s] = step[s][r[s \ {Max(s)}]]
      BY <1>1, <1>3, <3>1 DEF Folded
    <3>3. R[s] = r[s] /\ R[s \ {Max(s)}] = r[s \ {Max(s)}]
      BY <1>1, <3>1
    <3> HIDE DEF R
    <3>4. QED
      BY <1>2, <2>2, <3>1, <3>2, <3>3
  <2>3. QED
    BY <2>1, <2>2
<1>5. R = [s \in SUBSET DOMAIN seq |-> R[s]]
  OBVIOUS
<1> HIDE DEF R
<1>6. R = [s \in SUBSET DOMAIN seq |-> IF s = {} THEN c ELSE LET k == Max(s) IN scav_hash_entries(R[s \ {k}], seq[k], removep)]
  BY <1>4, <1>5
<1> DEFINE iter[s \in SUBSET DOMAIN seq] ==
             IF s = {} THEN c ELSE LET k == Max(s) IN scav_hash_entries(iter[s \ {k}], seq[k], removep)
<1>7. scav_tables(c, removep) = iter[DOMAIN seq]
  BY Zenon DEF FoldLeft, MapThenFoldSet, scav_tables
<1>8. iter = [s \in SUBSET DOMAIN seq |-> IF s = {} THEN c ELSE LET k == Max(s) IN scav_hash_entries(iter[s \ {k}], seq[k], removep)]
  <2>1. \E q : q = [s \in SUBSET DOMAIN seq |-> IF s = {} THEN c ELSE LET k == Max(s) IN scav_hash_entries(q[s \ {k}], seq[k], removep)]
    BY <1>6, Zenon
  <2>2. QED
    BY <2>1, Zenon
<1> HIDE DEF iter
<1>9. iter[{}] \in S
  BY <1>8
<1>10. ASSUME NEW s \in Places(n), iter[s \ {Max(s)}] \in S
       PROVE  iter[s] \in S
  <2>1. s \in SUBSET DOMAIN seq /\ s # {} /\ Max(s) \in 1..n
    BY <1>1
  <2>2. iter[s] = scav_hash_entries(iter[s \ {Max(s)}], seq[Max(s)], removep)
    BY <1>8, <2>1
  <2>3. QED
    BY <1>10, <2>1, <2>2
<1>11. iter[1..n] \in S
  BY <1>9, <1>10, FoldEnds
<1>12. QED
  BY <1>7, <1>11

\* The sequence of a finite set has its elements.
LEMMA SetToSeqIs ==
  ASSUME NEW W, IsFiniteSet(W)
  PROVE  \E n \in Nat : SetToSeq(W) \in [1..n -> W]
<1>1. PICK n \in Nat : ExistsBijection(1..n, W)
  BY FS_NatBijection
<1>2. n = Cardinality(W)
  BY <1>1, FS_CountingElements
<1>3. PICK f \in Bijection(1..n, W) : TRUE
  BY <1>1 DEF ExistsBijection
<1>4. f \in [1..n -> W] /\ IsInjective(f)
  BY <1>3 DEF Bijection, Injection
<1>5. SetToSeq(W) \in [1..n -> W]
  BY <1>2, <1>4, Zenon DEF SetToSeq
<1>6. QED
  BY <1>5

\* scan_weak_pointers goes over a set.
LEMMA PointersFold ==
  ASSUME NEW n \in Nat, NEW S, NEW c \in S, NEW W, IsFiniteSet(W), SetToSeq(W) \in [1..n -> W],
         \A e \in W : \A x \in S : ScanWeakPointer(x, e) \in S
  PROVE  ScanWeakPointers(c, W) \in S
<1> DEFINE seq == SetToSeq(W)
<1>0. DOMAIN seq = 1..n /\ \A i \in 1..n : seq[i] \in W
  OBVIOUS
<1> DEFINE step == [s \in Places(n) |-> [x \in S |-> ScanWeakPointer(x, seq[Max(s)])]]
<1>1. ASSUME NEW s \in Places(n)
      PROVE  Max(s) \in 1..n /\ s \in SUBSET (1..n) /\ s \ {Max(s)} \in SUBSET (1..n) /\ s # {}
  BY MaxIs DEF Places
<1>2. ASSUME NEW s \in Places(n), NEW x \in S
      PROVE  step[s][x] = ScanWeakPointer(x, seq[Max(s)]) /\ step[s][x] \in S
  BY <1>1, <1>0
<1> HIDE DEF step, seq
<1>3. PICK r : Folded(n, c, step, S, r)
  BY <1>2, FoldExists
<1> DEFINE R == [s \in SUBSET DOMAIN seq |-> r[s]]
<1>4. ASSUME NEW s \in SUBSET DOMAIN seq
      PROVE  R[s] = IF s = {} THEN c ELSE ScanWeakPointer(R[s \ {Max(s)}], seq[Max(s)])
  <2>1. CASE s = {}
    BY <1>3, <2>1 DEF Folded
  <2>2. CASE s # {}
    <3>1. s \in Places(n)
      BY <2>2, <1>0 DEF Places
    <3>2. r[s \ {Max(s)}] \in S /\ r[s] = step[s][r[s \ {Max(s)}]]
      BY <1>1, <1>3, <3>1 DEF Folded
    <3>3. R[s] = r[s] /\ R[s \ {Max(s)}] = r[s \ {Max(s)}]
      BY <1>1, <3>1, <1>0
    <3> HIDE DEF R
    <3>4. QED
      BY <1>2, <2>2, <3>1, <3>2, <3>3
  <2>3. QED
    BY <2>1, <2>2
<1>5. R = [s \in SUBSET DOMAIN seq |-> R[s]]
  OBVIOUS
<1> HIDE DEF R
<1>6. R = [s \in SUBSET DOMAIN seq |-> IF s = {} THEN c ELSE LET k == Max(s) IN ScanWeakPointer(R[s \ {k}], seq[k])]
  BY <1>4, <1>5
<1> DEFINE iter[s \in SUBSET DOMAIN seq] ==
             IF s = {} THEN c ELSE LET k == Max(s) IN ScanWeakPointer(iter[s \ {k}], seq[k])
<1>7. ScanWeakPointers(c, W) = iter[DOMAIN seq]
  BY Zenon DEF FoldLeft, MapThenFoldSet, ScanWeakPointers, seq
<1>8. iter = [s \in SUBSET DOMAIN seq |-> IF s = {} THEN c ELSE LET k == Max(s) IN ScanWeakPointer(iter[s \ {k}], seq[k])]
  <2>1. \E q : q = [s \in SUBSET DOMAIN seq |-> IF s = {} THEN c ELSE LET k == Max(s) IN ScanWeakPointer(q[s \ {k}], seq[k])]
    BY <1>6, Zenon
  <2>2. QED
    BY <2>1, Zenon
<1> HIDE DEF iter
<1>9. iter[{}] \in S
  BY <1>8
<1>10. ASSUME NEW s \in Places(n), iter[s \ {Max(s)}] \in S
       PROVE  iter[s] \in S
  <2>1. s \in SUBSET DOMAIN seq /\ s # {} /\ Max(s) \in 1..n
    BY <1>1, <1>0
  <2>2. iter[s] = ScanWeakPointer(iter[s \ {Max(s)}], seq[Max(s)])
    BY <1>8, <2>1
  <2>3. QED
    BY <1>10, <2>1, <2>2, <1>0
<1>11. iter[1..n] \in S
  BY <1>9, <1>10, FoldEnds
<1>12. QED
  BY <1>7, <1>11, <1>0

\* The words of the stack are taken one by one.
LEMMA StackFold ==
  ASSUME NEW n \in Nat, NEW S, NEW c \in S, NEW W, IsFiniteSet(W), SetToSeq(W) \in [1..n -> W], W = Stack,
         \A e \in W : \A x \in S : preserve_pointer(x, root[e].at) \in S
  PROVE  PreserveStack(c) \in S
<1> DEFINE seq == SetToSeq(W)
<1>0. DOMAIN seq = 1..n /\ \A i \in 1..n : seq[i] \in W
  OBVIOUS
<1> DEFINE step == [s \in Places(n) |-> [x \in S |-> preserve_pointer(x, root[seq[Max(s)]].at)]]
<1>1. ASSUME NEW s \in Places(n)
      PROVE  Max(s) \in 1..n /\ s \in SUBSET (1..n) /\ s \ {Max(s)} \in SUBSET (1..n) /\ s # {}
  BY MaxIs DEF Places
<1>2. ASSUME NEW s \in Places(n), NEW x \in S
      PROVE  step[s][x] = preserve_pointer(x, root[seq[Max(s)]].at) /\ step[s][x] \in S
  BY <1>1, <1>0
<1> HIDE DEF step, seq
<1>3. PICK r : Folded(n, c, step, S, r)
  BY <1>2, FoldExists
<1> DEFINE R == [s \in SUBSET DOMAIN seq |-> r[s]]
<1>4. ASSUME NEW s \in SUBSET DOMAIN seq
      PROVE  R[s] = IF s = {} THEN c ELSE preserve_pointer(R[s \ {Max(s)}], root[seq[Max(s)]].at)
  <2>1. CASE s = {}
    BY <1>3, <2>1 DEF Folded
  <2>2. CASE s # {}
    <3>1. s \in Places(n)
      BY <2>2, <1>0 DEF Places
    <3>2. r[s \ {Max(s)}] \in S /\ r[s] = step[s][r[s \ {Max(s)}]]
      BY <1>1, <1>3, <3>1 DEF Folded
    <3>3. R[s] = r[s] /\ R[s \ {Max(s)}] = r[s \ {Max(s)}]
      BY <1>1, <3>1, <1>0
    <3> HIDE DEF R
    <3>4. QED
      BY <1>2, <2>2, <3>1, <3>2, <3>3
  <2>3. QED
    BY <2>1, <2>2
<1>5. R = [s \in SUBSET DOMAIN seq |-> R[s]]
  OBVIOUS
<1> HIDE DEF R
<1>6. R = [s \in SUBSET DOMAIN seq |-> IF s = {} THEN c ELSE LET k == Max(s) IN preserve_pointer(R[s \ {k}], root[seq[k]].at)]
  BY <1>4, <1>5
<1> DEFINE iter[s \in SUBSET DOMAIN seq] ==
             IF s = {} THEN c ELSE LET k == Max(s) IN preserve_pointer(iter[s \ {k}], root[seq[k]].at)
<1>7. PreserveStack(c) = iter[DOMAIN seq]
  BY Zenon DEF FoldLeft, MapThenFoldSet, PreserveStack, seq
<1>8. iter = [s \in SUBSET DOMAIN seq |-> IF s = {} THEN c ELSE LET k == Max(s) IN preserve_pointer(iter[s \ {k}], root[seq[k]].at)]
  <2>1. \E q : q = [s \in SUBSET DOMAIN seq |-> IF s = {} THEN c ELSE LET k == Max(s) IN preserve_pointer(q[s \ {k}], root[seq[k]].at)]
    BY <1>6, Zenon
  <2>2. QED
    BY <2>1, Zenon
<1> HIDE DEF iter
<1>9. iter[{}] \in S
  BY <1>8
<1>10. ASSUME NEW s \in Places(n), iter[s \ {Max(s)}] \in S
       PROVE  iter[s] \in S
  <2>1. s \in SUBSET DOMAIN seq /\ s # {} /\ Max(s) \in 1..n
    BY <1>1, <1>0
  <2>2. iter[s] = preserve_pointer(iter[s \ {Max(s)}], root[seq[Max(s)]].at)
    BY <1>8, <2>1
  <2>3. QED
    BY <1>10, <2>1, <2>2, <1>0
<1>11. iter[1..n] \in S
  BY <1>9, <1>10, FoldEnds
<1>12. QED
  BY <1>7, <1>11, <1>0

\* So are the static roots.
LEMMA RootsFold ==
  ASSUME NEW n \in Nat, NEW S, NEW c \in S, NEW W, IsFiniteSet(W), SetToSeq(W) \in [1..n -> W], W = Static,
         \A e \in W : \A x \in S : ScavengeRoot(x, e) \in S
  PROVE  ScavengeRoots(c) \in S
<1> DEFINE seq == SetToSeq(W)
<1>0. DOMAIN seq = 1..n /\ \A i \in 1..n : seq[i] \in W
  OBVIOUS
<1> DEFINE step == [s \in Places(n) |-> [x \in S |-> ScavengeRoot(x, seq[Max(s)])]]
<1>1. ASSUME NEW s \in Places(n)
      PROVE  Max(s) \in 1..n /\ s \in SUBSET (1..n) /\ s \ {Max(s)} \in SUBSET (1..n) /\ s # {}
  BY MaxIs DEF Places
<1>2. ASSUME NEW s \in Places(n), NEW x \in S
      PROVE  step[s][x] = ScavengeRoot(x, seq[Max(s)]) /\ step[s][x] \in S
  BY <1>1, <1>0
<1> HIDE DEF step, seq
<1>3. PICK r : Folded(n, c, step, S, r)
  BY <1>2, FoldExists
<1> DEFINE R == [s \in SUBSET DOMAIN seq |-> r[s]]
<1>4. ASSUME NEW s \in SUBSET DOMAIN seq
      PROVE  R[s] = IF s = {} THEN c ELSE ScavengeRoot(R[s \ {Max(s)}], seq[Max(s)])
  <2>1. CASE s = {}
    BY <1>3, <2>1 DEF Folded
  <2>2. CASE s # {}
    <3>1. s \in Places(n)
      BY <2>2, <1>0 DEF Places
    <3>2. r[s \ {Max(s)}] \in S /\ r[s] = step[s][r[s \ {Max(s)}]]
      BY <1>1, <1>3, <3>1 DEF Folded
    <3>3. R[s] = r[s] /\ R[s \ {Max(s)}] = r[s \ {Max(s)}]
      BY <1>1, <3>1, <1>0
    <3> HIDE DEF R
    <3>4. QED
      BY <1>2, <2>2, <3>1, <3>2, <3>3
  <2>3. QED
    BY <2>1, <2>2
<1>5. R = [s \in SUBSET DOMAIN seq |-> R[s]]
  OBVIOUS
<1> HIDE DEF R
<1>6. R = [s \in SUBSET DOMAIN seq |-> IF s = {} THEN c ELSE LET k == Max(s) IN ScavengeRoot(R[s \ {k}], seq[k])]
  BY <1>4, <1>5
<1> DEFINE iter[s \in SUBSET DOMAIN seq] ==
             IF s = {} THEN c ELSE LET k == Max(s) IN ScavengeRoot(iter[s \ {k}], seq[k])
<1>7. ScavengeRoots(c) = iter[DOMAIN seq]
  BY Zenon DEF FoldLeft, MapThenFoldSet, ScavengeRoots, seq
<1>8. iter = [s \in SUBSET DOMAIN seq |-> IF s = {} THEN c ELSE LET k == Max(s) IN ScavengeRoot(iter[s \ {k}], seq[k])]
  <2>1. \E q : q = [s \in SUBSET DOMAIN seq |-> IF s = {} THEN c ELSE LET k == Max(s) IN ScavengeRoot(q[s \ {k}], seq[k])]
    BY <1>6, Zenon
  <2>2. QED
    BY <2>1, Zenon
<1> HIDE DEF iter
<1>9. iter[{}] \in S
  BY <1>8
<1>10. ASSUME NEW s \in Places(n), iter[s \ {Max(s)}] \in S
       PROVE  iter[s] \in S
  <2>1. s \in SUBSET DOMAIN seq /\ s # {} /\ Max(s) \in 1..n
    BY <1>1, <1>0
  <2>2. iter[s] = ScavengeRoot(iter[s \ {Max(s)}], seq[Max(s)])
    BY <1>8, <2>1
  <2>3. QED
    BY <1>10, <2>1, <2>2, <1>0
<1>11. iter[1..n] \in S
  BY <1>9, <1>10, FoldEnds
<1>12. QED
  BY <1>7, <1>11, <1>0

-----------------------------------------------------------------------------
(* Pages and addresses.                                                      *)

LEMMA Divided ==
  ASSUME NEW a \in Int, NEW n \in Nat \ {0}
  PROVE  a \div n \in Int /\ (a \div n) * n <= a /\ a < (a \div n) * n + n
  OBVIOUS

LEMMA Multiples ==
  ASSUME NEW p \in Int, NEW q \in Int, NEW n \in Nat \ {0}, p < q
  PROVE  p * n + n <= q * n
<1>1. (q - p - 1) * n >= 0
  <2>1. q - p - 1 \in Nat
    OBVIOUS
  <2> DEFINE d == q - p - 1
  <2> HIDE DEF d
  <2>2. d * n >= 0
    BY <2>1 DEF d
  <2>3. QED
    BY <2>2 DEF d
<1>2. (q - p - 1) * n = q * n - p * n - n
  OBVIOUS
<1>3. QED
  BY <1>1, <1>2

\* A page has PageSize cells, and an address is on one page.
LEMMA Paging ==
  /\ PageSize \in Nat /\ PageSize >= 1 /\ NPages \in Nat /\ NPages >= 1
  /\ \A p \in Int : page_address(p) \in Int
  /\ \A p, q \in Int : p < q => page_address(p) + PageSize <= page_address(q)
  /\ page_address(0) = 0
<1>1. PageSize \in Nat \ {0} /\ NPages \in Nat \ {0}
  BY Constants
<1>2. \A p \in Int : page_address(p) \in Int
  BY <1>1 DEF page_address
<1>3. \A p, q \in Int : p < q => page_address(p) + PageSize <= page_address(q)
  BY <1>1, Multiples DEF page_address
<1>4. page_address(0) = 0
  BY <1>1 DEF page_address
<1>5. QED
  BY <1>1, <1>2, <1>3, <1>4

LEMMA PageBounds ==
  ASSUME NEW a \in Int
  PROVE  PageOf(a) \in Int /\ page_address(PageOf(a)) <= a /\ a < page_address(PageOf(a)) + PageSize
  BY Constants, Divided DEF page_address, PageOf

LEMMA AddrIs == \A a : a \in Addr <=> a \in Int /\ 0 <= a /\ a < page_address(NPages)
  BY Constants DEF Addr, page_address

LEMMA NextPage ==
  ASSUME NEW p \in Int
  PROVE  /\ page_address(p) \in Int
         /\ page_address(p + 1) = page_address(p) + PageSize
         /\ page_address(p - 1) = page_address(p) - PageSize
  BY Constants DEF page_address

LEMMA OnPage ==
  ASSUME NEW a \in Int, NEW p \in Int, page_address(p) <= a, a < page_address(p) + PageSize
  PROVE  PageOf(a) = p
<1>1. PageOf(a) \in Int /\ page_address(PageOf(a)) <= a /\ a < page_address(PageOf(a)) + PageSize
  BY PageBounds
<1>2. ~(PageOf(a) < p) /\ ~(p < PageOf(a))
  BY <1>1, Paging
<1>3. QED
  BY <1>1, <1>2

LEMMA PageIsIn ==
  ASSUME NEW a \in Addr
  PROVE  PageOf(a) \in Pages /\ a \in Int /\ a >= 0
<1>1. a \in Int /\ 0 <= a /\ a < page_address(NPages)
  BY AddrIs
<1>2. PageOf(a) \in Int /\ page_address(PageOf(a)) <= a /\ a < page_address(PageOf(a)) + PageSize
  BY <1>1, PageBounds
<1>3. ~(PageOf(a) < 0)
  BY <1>1, <1>2, Paging
<1>4. ~(NPages <= PageOf(a))
  BY <1>1, <1>2, Paging
<1>5. QED
  BY <1>1, <1>2, <1>3, <1>4, Paging DEF Pages

LEMMA CellIsIn ==
  ASSUME NEW p \in Pages, NEW a \in Int, page_address(p) <= a, a < page_address(p) + PageSize
  PROVE  a \in Addr /\ PageOf(a) = p
<1>1. p \in Int /\ 0 <= p /\ p < NPages
  BY Paging DEF Pages
<1>2. page_address(p) >= 0 /\ page_address(p) + PageSize <= page_address(NPages)
  BY <1>1, Paging
<1>3. PageOf(a) = p
  BY <1>1, OnPage
<1>4. QED
  BY <1>1, <1>2, <1>3, Paging, AddrIs

\* Pages follow one another as their addresses do.
LEMMA PageOrder ==
  ASSUME NEW a \in Int, NEW b \in Int, a <= b
  PROVE  PageOf(a) <= PageOf(b) /\ PageOf(a) \in Int /\ PageOf(b) \in Int
<1>1. PageOf(a) \in Int /\ page_address(PageOf(a)) <= a /\ a < page_address(PageOf(a)) + PageSize
  BY PageBounds
<1>2. PageOf(b) \in Int /\ page_address(PageOf(b)) <= b /\ b < page_address(PageOf(b)) + PageSize
  BY PageBounds
<1>3. ~(PageOf(b) < PageOf(a))
  BY <1>1, <1>2, Paging
<1>4. QED
  BY <1>1, <1>2, <1>3

-----------------------------------------------------------------------------
(* Sums over pages.                                                          *)

\* What page p adds to UsedOn(m, S), and the sums over the pages below each page.
On(m, S, p) == IF p \in S THEN m.page[p].used ELSE 0
SumsOf(m, S, r) ==
  r[0] = 0 /\ (\A p \in Pages : r[p + 1] = r[p] + On(m, S, p)) /\ \A p \in 0..NPages : r[p] \in Int
UsedAreNumbers(m) == \A p \in Pages : m.page[p].used \in 0..PageSize

LEMMA UsedOnIs ==
  ASSUME NEW m, UsedAreNumbers(m), NEW S
  PROVE  \E r : SumsOf(m, S, r) /\ UsedOn(m, S) = r[NPages]
<1> DEFINE step == [p \in 1..NPages |-> [x \in Int |-> x + (IF p - 1 \in S THEN m.page[p - 1].used ELSE 0)]]
           Run(r) == r = [p \in 0..NPages |-> IF p = 0 THEN 0 ELSE r[p - 1] + (IF p - 1 \in S THEN m.page[p - 1].used ELSE 0)]
<1>1. ASSUME NEW p \in 1..NPages, NEW x \in Int
      PROVE  step[p][x] = x + (IF p - 1 \in S THEN m.page[p - 1].used ELSE 0) /\ step[p][x] \in Int
  <2>1. p - 1 \in Pages
    BY Paging DEF Pages
  <2>2. m.page[p - 1].used \in Int
    BY <2>1, Paging DEF UsedAreNumbers
  <2>3. QED
    BY <2>2
<1> HIDE DEF step
<1>2. NPages \in Nat /\ 0 \in Int
  BY Paging
<1>3. PICK r : r = [p \in 0..NPages |-> IF p = 0 THEN 0 ELSE step[p][r[p - 1]]] /\ Looped(NPages, 0, step, Int, r)
  BY <1>1, <1>2, LoopExists
<1>4. Run(r)
  <2>1. ASSUME NEW p \in 0..NPages, p # 0
        PROVE  step[p][r[p - 1]] = r[p - 1] + (IF p - 1 \in S THEN m.page[p - 1].used ELSE 0)
    <3>1. p \in 1..NPages /\ p - 1 \in 0..NPages
      BY <1>2, <2>1
    <3>2. r[p - 1] \in Int
      BY <1>3, <3>1 DEF Looped
    <3>3. QED
      BY <1>1, <3>1, <3>2
  <2>2. QED
    BY <1>3, <2>1
<1> DEFINE below[p \in 0..NPages] ==
             IF p = 0 THEN 0 ELSE below[p - 1] + (IF p - 1 \in S THEN m.page[p - 1].used ELSE 0)
<1>5. UsedOn(m, S) = below[NPages]
  BY Zenon DEF UsedOn
<1>6. below = [p \in 0..NPages |-> IF p = 0 THEN 0 ELSE below[p - 1] + (IF p - 1 \in S THEN m.page[p - 1].used ELSE 0)]
  BY <1>4, Zenon
<1> HIDE DEF below, Run
<1>7. \A p \in Pages : p \in 0..NPages /\ p + 1 \in 0..NPages /\ p + 1 # 0 /\ (p + 1) - 1 = p /\ m.page[p].used \in Int
  BY Paging DEF Pages, UsedAreNumbers
<1>8. ASSUME NEW p \in Pages PROVE below[p + 1] = below[p] + On(m, S, p)
  BY <1>6, <1>7 DEF On
<1> DEFINE T == {n \in Nat : n <= NPages => below[n] \in Int}
<1>9. below[0] = 0
  BY <1>2, <1>6
<1>10. 0 \in T
  BY <1>9
<1>11. ASSUME NEW n \in Nat, n \in T PROVE n + 1 \in T
  <2> SUFFICES ASSUME n + 1 <= NPages PROVE below[n + 1] \in Int
    OBVIOUS
  <2>1. n \in Pages /\ below[n] \in Int
    BY <1>2, <1>11 DEF Pages
  <2>2. below[n + 1] = below[n] + On(m, S, n) /\ m.page[n].used \in Int
    BY <1>7, <1>8, <2>1
  <2>3. QED
    BY <2>1, <2>2 DEF On
<1>12. \A p \in 0..NPages : below[p] \in Int
  <2> HIDE DEF T
  <2>1. Nat \subseteq T
    BY <1>10, <1>11, Induction
  <2>2. QED
    BY <1>2, <2>1 DEF T
<1>13. SumsOf(m, S, below)
  BY <1>8, <1>9, <1>12 DEF SumsOf
<1>14. QED
  BY <1>5, <1>13

\* The cells below a are those of the pages below it.
Clipped(a, p) == IF a <= page_address(p) THEN a ELSE page_address(p)

LEMMA UsedBelowIs ==
  ASSUME NEW a \in Int, NEW p \in Int
  PROVE  UsedBelow(a, p) = Clipped(a, p + 1) - Clipped(a, p) /\ UsedBelow(a, p) \in 0..PageSize
<1>1. page_address(p) \in Int /\ page_address(p + 1) = page_address(p) + PageSize
  BY NextPage
<1>2. PageSize \in Nat /\ PageSize >= 1
  BY Paging
<1>3. QED
  BY <1>1, <1>2 DEF UsedBelow, Clipped

\* What pages of T hold in x is what those of S hold in m, and of Q in y, and the cells from b to e.
Adds(m, S, x, T, y, Q, b, e) ==
  \A p \in Pages : On(x, T, p) = On(m, S, p) + On(y, Q, p) + UsedBelow(e, p) - UsedBelow(b, p)

\* Pages that grow by the cells from b to e make the sum grow by e - b.
LEMMA SumsAdd ==
  ASSUME NEW m, UsedAreNumbers(m), NEW S, NEW x, UsedAreNumbers(x), NEW T, NEW y, UsedAreNumbers(y), NEW Q,
         NEW b \in 0..page_address(NPages), NEW e \in 0..page_address(NPages),
         Adds(m, S, x, T, y, Q, b, e)
  PROVE  UsedOn(x, T) = UsedOn(m, S) + UsedOn(y, Q) + e - b /\ UsedOn(m, S) \in Int /\ UsedOn(y, Q) \in Int
<1>1. PICK f : SumsOf(m, S, f) /\ UsedOn(m, S) = f[NPages]
  BY UsedOnIs
<1>2. PICK g : SumsOf(x, T, g) /\ UsedOn(x, T) = g[NPages]
  BY UsedOnIs
<1>3. PICK k : SumsOf(y, Q, k) /\ UsedOn(y, Q) = k[NPages]
  BY UsedOnIs
<1>4. e \in Int /\ b \in Int /\ 0 <= e /\ 0 <= b /\ e <= page_address(NPages) /\ b <= page_address(NPages) /\ NPages \in Nat
  BY Paging
<1> DEFINE Z == {n \in Nat : n <= NPages => g[n] = f[n] + k[n] + Clipped(e, n) - Clipped(b, n)}
<1>5. 0 \in Z
  <2>1. Clipped(e, 0) = 0 /\ Clipped(b, 0) = 0
    BY <1>4, Paging DEF Clipped
  <2>2. QED
    BY <1>1, <1>2, <1>3, <2>1 DEF SumsOf
<1>6. ASSUME NEW n \in Nat, n \in Z PROVE n + 1 \in Z
  <2> SUFFICES ASSUME n + 1 <= NPages PROVE g[n + 1] = f[n + 1] + k[n + 1] + Clipped(e, n + 1) - Clipped(b, n + 1)
    OBVIOUS
  <2>1. n \in Pages /\ n \in 0..NPages /\ n \in Int /\ n + 1 \in Int
    BY <1>4 DEF Pages
  <2>2. g[n] = f[n] + k[n] + Clipped(e, n) - Clipped(b, n)
    BY <1>4, <1>6
  <2>3. g[n + 1] = g[n] + On(x, T, n) /\ f[n + 1] = f[n] + On(m, S, n) /\ k[n + 1] = k[n] + On(y, Q, n)
    BY <1>1, <1>2, <1>3, <2>1 DEF SumsOf
  <2>4. UsedBelow(e, n) = Clipped(e, n + 1) - Clipped(e, n) /\ UsedBelow(b, n) = Clipped(b, n + 1) - Clipped(b, n)
    BY <1>4, <2>1, UsedBelowIs
  <2>5. On(x, T, n) = On(m, S, n) + On(y, Q, n) + UsedBelow(e, n) - UsedBelow(b, n)
    BY <2>1 DEF Adds
  <2>6. On(x, T, n) \in Int /\ On(m, S, n) \in Int /\ On(y, Q, n) \in Int
    BY <2>1, Paging DEF On, UsedAreNumbers
  <2>7. f[n] \in Int /\ k[n] \in Int /\ g[n] \in Int
    BY <1>1, <1>2, <1>3, <2>1 DEF SumsOf
  <2>8. Clipped(e, n) \in Int /\ Clipped(e, n + 1) \in Int /\ Clipped(b, n) \in Int /\ Clipped(b, n + 1) \in Int
    BY <1>4, <2>1, Paging DEF Clipped
  <2>9. QED
    BY <2>2, <2>3, <2>4, <2>5, <2>6, <2>7, <2>8
<1>7. g[NPages] = f[NPages] + k[NPages] + Clipped(e, NPages) - Clipped(b, NPages)
  <2> HIDE DEF Z
  <2>1. Nat \subseteq Z
    BY <1>5, <1>6, Induction
  <2>2. QED
    BY <1>4, <2>1 DEF Z
<1>8. Clipped(e, NPages) = e /\ Clipped(b, NPages) = b
  BY <1>4 DEF Clipped
<1>9. f[NPages] \in Int /\ k[NPages] \in Int
  BY <1>1, <1>3, <1>4 DEF SumsOf
<1>10. QED
  BY <1>1, <1>2, <1>3, <1>7, <1>8, <1>9

-----------------------------------------------------------------------------
(* The heaps.                                                                *)

\* A cell, where an object has the references of its kind and at most its cells.
Objs == {c \in [t : {"obj"}, id : 1..MaxObjects, kind : Kind, size : Nat, refs : Seq(Addr \union {NIL})] :
            c.size \in 1..Size[c.kind] /\ Len(c.refs) = Arity(c.kind)}
HeapCell == [t : {"zero", "dirty", "body"}] \union [t : {"fwd"}, to : Addr] \union Objs
Region == [first : Nat, last : Int, start : Nat, free : Nat, end : Nat]
Stats == [consecutive : Nat, saved : Region]
Generation == [start : [Regions -> Nat], large_start : [Regions -> Nat], bytes_allocated : Int,
               gc_trigger : Int, num_gc : Nat, cum_sum : Int]
Area == [start : Addr, size : Nat]
Heaps == [page : [Pages -> Page], mem : [Addr -> HeapCell], region : [Regions -> Region],
          stats : [Regions -> Stats], generations : [Gen -> Generation],
          gc_alloc_generation : Gen, last_free_page : 0..NPages,
          from_space : Gen \union {-1}, new_space : Gen \union {-1},
          record_new_objects : 0..2, new_areas_ignore_page : Nat, new_areas : Seq(Area),
          weak_pointers : SUBSET Addr, weak_hash_tables : Seq(Addr), overflow : BOOLEAN]

\* A region with free pages behind a page that has room; they are of the new space.
Opened(m, k) ==
    LET r == m.region[k]
    IN /\ r.first \in Pages /\ r.last \in Pages /\ r.first <= r.last
       /\ m.page[r.first].used < PageSize
       /\ m.page[r.first].used = 0 => m.page[r.first].offset = 0
       /\ r.start = page_address(r.first) + m.page[r.first].used
       /\ r.start <= r.free /\ r.free <= r.end /\ r.end = page_address(r.last + 1)
       /\ \A p \in r.first..r.last :
            /\ m.page[p].alloc /\ m.page[p].gen = m.gc_alloc_generation
            /\ m.page[p].unboxed = (k = "unboxed")
            /\ ~m.page[p].wp /\ ~m.page[p].large /\ ~m.page[p].pinned
       /\ \A p \in r.first+1..r.last : m.page[p].used = 0 /\ m.page[p].offset = page_address(p) - r.start
RegionsOK(m) == \A k \in Regions : m.region[k] = ResetRegion \/ Opened(m, k)

\* What was allocated, on a page or in a region; the rest of an allocated page is zero.
Held(m, a) == \/ a - page_address(PageOf(a)) < m.page[PageOf(a)].used
              \/ \E k \in Regions : m.region[k].start <= a /\ a < m.region[k].free
RestIsZero(m) == \A a \in Addr : m.page[PageOf(a)].alloc /\ ~Held(m, a) => m.mem[a] = zero

\* A free page is all zero when its first cell is, and has no objects in any case.
FreePages(m) ==
    /\ \A p \in Pages : ~m.page[p].alloc => m.page[p].used = 0 /\ ~m.page[p].wp /\ ~m.page[p].pinned
    /\ \A a \in Addr : ~m.page[PageOf(a)].alloc =>
          m.mem[a] \in {zero, dirty} /\ (m.mem[page_address(PageOf(a))] = zero => m.mem[a] = zero)
EmptyInRegion(m) == \A p \in Pages : m.page[p].alloc /\ m.page[p].used = 0 =>
    \E k \in Regions : p \in m.region[k].first..m.region[k].last
AllBelow(m) == \A p \in Pages : m.page[p].alloc => p < m.last_free_page

\* A page with an offset continues the page before it.
LinkedTo(m, q) ==
    /\ q # 0 /\ m.page[q-1].alloc /\ m.page[q-1].used = PageSize
    /\ m.page[q-1].gen = m.page[q].gen /\ m.page[q-1].unboxed = m.page[q].unboxed
    /\ m.page[q-1].large = m.page[q].large
    /\ m.page[q].offset > PageSize => m.page[q-1].offset = m.page[q].offset - PageSize
Links(m) == \A q \in Pages : m.page[q].alloc /\ m.page[q].used # 0 /\ m.page[q].offset # 0 => LinkedTo(m, q)

\* A large page has cells of one vector only, which starts at the beginning of a page.
StartOf(m, q) == page_address(q) - m.page[q].offset
LargeAlone(m, q) ==
    LET s == StartOf(m, q)
    IN /\ s \in Addr /\ s = page_address(PageOf(s)) /\ m.page[PageOf(s)].offset = 0
       /\ \/ m.mem[s] = zero /\ \A a \in Addr : PageOf(a) = q => m.mem[a] = zero
          \/ /\ m.mem[s].t = "obj" /\ m.mem[s].kind \in vector
             /\ m.mem[s].kind = "vec" => ~m.page[q].unboxed
             /\ \A a \in Addr : PageOf(a) = q /\ a >= s + m.mem[s].size => m.mem[a] = zero
LargeOK(m) == \A q \in Pages : m.page[q].alloc /\ m.page[q].large => LargeAlone(m, q)

\* An object has its cells to itself, and the pages it goes on to are linked to its first.
Whole(m, a) ==
    /\ \A b \in a+1..a+m.mem[a].size-1 : b \in Addr /\ m.mem[b] = body
    /\ \A x \in PageOf(a)+1..PageOf(a+m.mem[a].size-1) : m.page[x].offset >= page_address(x) - a
Bodies(m) == \A a \in Addr : m.mem[a].t = "obj" => Whole(m, a)

Counters(m) == \A g \in Gen : m.generations[g].bytes_allocated = UsedOn(m, {p \in Pages : InGen(m, p, g)})
NoAreas(m) == m.record_new_objects = 0 => m.new_areas = << >>

PagesOK(m) == /\ RegionsOK(m) /\ RestIsZero(m) /\ FreePages(m) /\ EmptyInRegion(m) /\ AllBelow(m)
              /\ Links(m) /\ LargeOK(m) /\ Bodies(m)
HeapOK(m) == m \in Heaps /\ PagesOK(m) /\ Counters(m) /\ NoAreas(m)

-----------------------------------------------------------------------------
(* What they are made of.                                                    *)

LEMMA CellsAre ==
  /\ zero \in HeapCell /\ dirty \in HeapCell /\ body \in HeapCell
  /\ zero.t = "zero" /\ dirty.t = "dirty" /\ body.t = "body"
<1>1. zero \in HeapCell /\ zero.t = "zero"
  BY DEF HeapCell, zero
<1>2. dirty \in HeapCell /\ dirty.t = "dirty"
  BY DEF HeapCell, dirty
<1>3. body \in HeapCell /\ body.t = "body"
  BY DEF HeapCell, body
<1>4. QED
  BY <1>1, <1>2, <1>3

LEMMA ObjectIs ==
  ASSUME NEW c \in HeapCell, c.t = "obj"
  PROVE  /\ c \in Objs /\ c.kind \in Kind /\ c.size \in Nat /\ c.size >= 1 /\ c.size <= Size[c.kind]
         /\ c.id \in 1..MaxObjects /\ c.refs \in Seq(Addr \union {NIL}) /\ Len(c.refs) = Arity(c.kind)
<1>1. c \in Objs
  BY DEF HeapCell
<1>2. c.size \in 1..Size[c.kind] /\ c.kind \in Kind
  BY <1>1 DEF Objs
<1>3. Size[c.kind] \in Nat
  BY <1>2, Sizes
<1>4. QED
  BY <1>1, <1>2, <1>3 DEF Objs

LEMMA ResetIs ==
  /\ ResetRegion \in Region /\ ResetRegion.first = 0 /\ ResetRegion.last = -1
  /\ ResetRegion.start = 0 /\ ResetRegion.free = 0 /\ ResetRegion.end = 0
<1>1. ResetRegion \in Region
  BY DEF ResetRegion, Region
<1>2. QED
  BY <1>1 DEF ResetRegion

LEMMA SamePage ==
  ASSUME NEW u \in Page, NEW v \in Page, u.alloc = v.alloc, u.unboxed = v.unboxed, u.large = v.large,
         u.pinned = v.pinned, u.wp = v.wp, u.gen = v.gen, u.used = v.used, u.offset = v.offset
  PROVE  u = v
BY DEF Page

LEMMA PageIs ==
  ASSUME NEW m \in Heaps, NEW p \in Pages
  PROVE  /\ m.page[p] \in Page
         /\ m.page[p].alloc \in BOOLEAN /\ m.page[p].unboxed \in BOOLEAN /\ m.page[p].large \in BOOLEAN
         /\ m.page[p].pinned \in BOOLEAN /\ m.page[p].wp \in BOOLEAN
         /\ m.page[p].gen \in Gen /\ m.page[p].gen \in Int
         /\ m.page[p].used \in Nat /\ m.page[p].used <= PageSize /\ m.page[p].offset \in Nat
<1>1. m.page[p] \in Page
  BY DEF Heaps
<1>2. m.page[p].used \in Nat /\ m.page[p].used <= PageSize /\ m.page[p].offset \in Nat
  <2>1. m.page[p].used \in 0..PageSize /\ m.page[p].offset \in 0..NPages*PageSize
    BY <1>1 DEF Page
  <2>2. QED
    BY <2>1, Paging
<1>3. m.page[p].gen \in Gen
  BY <1>1 DEF Page
<1>4. m.page[p].gen \in Int
  BY <1>3, Constants DEF Gen
<1>5. QED
  BY <1>1, <1>2, <1>3, <1>4 DEF Page

LEMMA RegionIs ==
  ASSUME NEW m \in Heaps, NEW k \in Regions
  PROVE  /\ m.region[k] \in Region /\ m.region[k].first \in Nat /\ m.region[k].last \in Int
         /\ m.region[k].start \in Nat /\ m.region[k].free \in Nat /\ m.region[k].end \in Nat
<1>1. m.region[k] \in Region
  BY DEF Heaps
<1>2. QED
  BY <1>1 DEF Region

-----------------------------------------------------------------------------
(* Linked pages and the objects on them.                                     *)

\* Pages before q, as long as all behind them have an offset.
LEMMA Descend ==
  ASSUME NEW m \in Heaps, Links(m), NEW q \in Pages, m.page[q].alloc, m.page[q].used # 0,
         NEW x \in Pages, x <= q, \A y \in Pages : x < y /\ y <= q => m.page[y].offset # 0
  PROVE  /\ m.page[x].alloc /\ m.page[x].used # 0
         /\ m.page[x].gen = m.page[q].gen /\ m.page[x].unboxed = m.page[q].unboxed
         /\ m.page[x].large = m.page[q].large
         /\ x < q => m.page[x].used = PageSize
<1> DEFINE P(z) == /\ m.page[z].alloc /\ m.page[z].used # 0
                   /\ m.page[z].gen = m.page[q].gen /\ m.page[z].unboxed = m.page[q].unboxed
                   /\ m.page[z].large = m.page[q].large
                   /\ z < q => m.page[z].used = PageSize
           T == {n \in Nat : n <= q - x => P(q - n)}
<1>0. q \in Nat /\ x \in Nat /\ q < NPages /\ NPages \in Nat /\ PageSize >= 1
  BY Paging DEF Pages
<1>1. 0 \in T
  BY <1>0
<1>2. ASSUME NEW n \in Nat, n \in T PROVE n + 1 \in T
  <2> SUFFICES ASSUME n + 1 <= q - x PROVE P(q - (n + 1))
    OBVIOUS
  <2> DEFINE y == q - n
  <2>1. y \in Pages /\ x < y /\ y <= q /\ q - (n + 1) = y - 1 /\ y - 1 < q /\ y \in Int
    BY <1>0 DEF Pages
  <2>2. P(y)
    BY <1>2, <1>0
  <2> HIDE DEF y
  <2>3. LinkedTo(m, y)
    BY <2>1, <2>2 DEF Links
  <2>4. P(y - 1)
    BY <1>0, <2>1, <2>2, <2>3, Paging DEF LinkedTo
  <2>5. QED
    BY <2>1, <2>4
<1>3. P(x)
  <2> HIDE DEF T
  <2>1. Nat \subseteq T
    BY <1>1, <1>2, Induction
  <2>2. q - x \in T /\ q - (q - x) = x
    BY <1>0, <2>1
  <2>3. QED
    BY <1>0, <2>2 DEF T
<1>4. QED
  BY <1>3

\* The pages from the start of the region or object that page q continues.
InChain(m, q, x) ==
  /\ m.page[x].alloc /\ m.page[x].used # 0
  /\ m.page[x].gen = m.page[q].gen /\ m.page[x].unboxed = m.page[q].unboxed
  /\ m.page[x].large = m.page[q].large
  /\ x < q => m.page[x].used = PageSize
  /\ StartOf(m, q) < page_address(x) => m.page[x].offset = page_address(x) - StartOf(m, q)

LEMMA ChainStep ==
  ASSUME NEW m \in Heaps, Links(m), NEW q \in Pages, NEW x \in Pages, NEW s \in Int,
         m.page[x].alloc, m.page[x].used # 0, s < page_address(x), m.page[x].offset = page_address(x) - s
  PROVE  /\ x - 1 \in Pages /\ m.page[x-1].alloc /\ m.page[x-1].used = PageSize
         /\ m.page[x-1].gen = m.page[x].gen /\ m.page[x-1].unboxed = m.page[x].unboxed
         /\ m.page[x-1].large = m.page[x].large
         /\ s < page_address(x - 1) => m.page[x-1].offset = page_address(x - 1) - s
<1>1. x \in Int /\ 0 <= x /\ x < NPages /\ NPages \in Nat /\ PageSize \in Nat
  BY Paging DEF Pages
<1>2. page_address(x) \in Int /\ page_address(x - 1) = page_address(x) - PageSize
  BY <1>1, NextPage
<1>3. m.page[x].offset # 0
  BY <1>2
<1>4. LinkedTo(m, x)
  BY <1>3 DEF Links
<1>5. x - 1 \in Pages
  BY <1>1, <1>4 DEF LinkedTo, Pages
<1>6. s < page_address(x - 1) => m.page[x].offset > PageSize
  BY <1>1, <1>2
<1>7. m.page[x].offset - PageSize = page_address(x - 1) - s
  BY <1>1, <1>2
<1>8. QED
  BY <1>4, <1>5, <1>6, <1>7 DEF LinkedTo

LEMMA ChainIs ==
  ASSUME NEW m \in Heaps, Links(m), NEW q \in Pages, m.page[q].alloc, m.page[q].used # 0
  PROVE  /\ StartOf(m, q) \in Addr /\ StartOf(m, q) <= page_address(q)
         /\ \A x \in Pages : x <= q /\ StartOf(m, q) < page_address(x) + PageSize => InChain(m, q, x)
<1> DEFINE s == StartOf(m, q)
           T == {n \in Nat : n <= q /\ s < page_address(q - n) + PageSize => InChain(m, q, q - n)}
<1>0. q \in Nat /\ q < NPages /\ NPages \in Nat /\ PageSize \in Nat /\ PageSize >= 1
  BY Paging DEF Pages
<1>1. page_address(q) \in Int /\ m.page[q].offset \in Nat
  BY <1>0, Paging, PageIs
<1>2. s \in Int /\ s <= page_address(q) /\ m.page[q].offset = page_address(q) - s
  BY <1>1 DEF StartOf
<1>3. 0 \in T
  BY <1>0, <1>2 DEF InChain
<1>4. ASSUME NEW n \in Nat, n \in T PROVE n + 1 \in T
  <2> SUFFICES ASSUME n + 1 <= q, s < page_address(q - (n + 1)) + PageSize PROVE InChain(m, q, q - (n + 1))
    OBVIOUS
  <2> DEFINE y == q - n
  <2>1. y \in Pages /\ y <= q /\ q - (n + 1) = y - 1 /\ y - 1 < q /\ y \in Int
    BY <1>0 DEF Pages
  <2>2. page_address(y - 1) = page_address(y) - PageSize /\ page_address(y) \in Int
    BY <2>1, NextPage
  <2> HIDE DEF s
  <2>3. s < page_address(y)
    BY <1>0, <1>2, <2>1, <2>2
  <2>4. InChain(m, q, y)
    BY <1>0, <1>2, <1>4, <2>2, <2>3
  <2> HIDE DEF y
  <2>5. m.page[y].alloc /\ m.page[y].used # 0 /\ m.page[y].offset = page_address(y) - s
    BY <2>3, <2>4 DEF InChain, s
  <2>6. /\ y - 1 \in Pages /\ m.page[y-1].alloc /\ m.page[y-1].used = PageSize
        /\ m.page[y-1].gen = m.page[y].gen /\ m.page[y-1].unboxed = m.page[y].unboxed
        /\ m.page[y-1].large = m.page[y].large
        /\ s < page_address(y - 1) => m.page[y-1].offset = page_address(y - 1) - s
    BY <1>2, <2>1, <2>3, <2>5, ChainStep
  <2>7. InChain(m, q, y - 1)
    BY <1>0, <2>4, <2>6 DEF InChain, s
  <2>8. QED
    BY <2>1, <2>7
<1>5. \A n \in Nat : n <= q /\ s < page_address(q - n) + PageSize => InChain(m, q, q - n)
  <2> HIDE DEF T
  <2>1. Nat \subseteq T
    BY <1>3, <1>4, Induction
  <2>2. QED
    BY <2>1 DEF T
<1> HIDE DEF T
<1>6. ASSUME NEW x \in Pages, x <= q, s < page_address(x) + PageSize PROVE InChain(m, q, x)
  <2>1. q - x \in Nat /\ q - (q - x) = x /\ q - x <= q
    BY <1>0, <1>6 DEF Pages
  <2>2. q - x <= q /\ s < page_address(q - (q - x)) + PageSize => InChain(m, q, q - (q - x))
    BY <1>5, <2>1
  <2>3. QED
    BY <1>6, <2>1, <2>2
<1>7. 0 <= s
  <2> SUFFICES ASSUME s < 0 PROVE FALSE
    BY <1>2
  <2>1. 0 \in Pages /\ page_address(0) = 0
    BY <1>0, Paging DEF Pages
  <2>2. InChain(m, q, 0)
    BY <1>0, <1>2, <1>6, <2>1
  <2> HIDE DEF s
  <2>3. m.page[0].alloc /\ m.page[0].used # 0 /\ m.page[0].offset = page_address(0) - s /\ s < page_address(0)
    BY <2>1, <2>2 DEF InChain, s
  <2>4. 0 - 1 \in Pages
    BY <1>2, <2>1, <2>3, ChainStep
  <2>5. QED
    BY <2>4 DEF Pages
<1>8. s \in Addr
  BY <1>0, <1>2, <1>7, Paging, AddrIs
<1>9. QED
  BY <1>2, <1>6, <1>8

\* A page is in a region's part, or it is not empty.
LEMMA UsedOrInRegion ==
  ASSUME NEW m \in Heaps, PagesOK(m), NEW p \in Pages, m.page[p].alloc, m.page[p].used = 0
  PROVE  \E k \in Regions : Opened(m, k) /\ p \in m.region[k].first..m.region[k].last
<1>1. PICK k \in Regions : p \in m.region[k].first..m.region[k].last
  BY DEF PagesOK, EmptyInRegion
<1>2. m.region[k] # ResetRegion
  BY <1>1, ResetIs
<1>3. QED
  BY <1>1, <1>2 DEF PagesOK, RegionsOK

LEMMA LargeIsUsed ==
  ASSUME NEW m \in Heaps, PagesOK(m), NEW p \in Pages, m.page[p].alloc, m.page[p].large
  PROVE  m.page[p].used # 0
<1> SUFFICES ASSUME m.page[p].used = 0 PROVE FALSE
  OBVIOUS
<1>1. PICK k \in Regions : Opened(m, k) /\ p \in m.region[k].first..m.region[k].last
  BY UsedOrInRegion
<1>2. QED
  BY <1>1 DEF Opened

\* What is not zero lies on an allocated page, in its used part or in a region's.
LEMMA NotZeroHeld ==
  ASSUME NEW m \in Heaps, PagesOK(m), NEW a \in Addr, m.mem[a] # zero, m.mem[a] # dirty
  PROVE  m.page[PageOf(a)].alloc /\ Held(m, a)
  BY DEF PagesOK, RestIsZero, FreePages

LEMMA ObjectHeld ==
  ASSUME NEW m \in Heaps, PagesOK(m), NEW a \in Addr, m.mem[a].t = "obj"
  PROVE  m.page[PageOf(a)].alloc /\ Held(m, a)
<1>1. m.mem[a] # zero /\ m.mem[a] # dirty
  BY CellsAre
<1>2. QED
  BY <1>1, NotZeroHeld

\* The pages of an object are alike.
LEMMA ObjectPages ==
  ASSUME NEW m \in Heaps, PagesOK(m), NEW a \in Addr, m.mem[a].t = "obj",
         NEW x \in Pages, PageOf(a) <= x, x <= PageOf(a + m.mem[a].size - 1)
  PROVE  /\ m.page[x].alloc /\ m.page[x].gen = m.page[PageOf(a)].gen
         /\ m.page[x].unboxed = m.page[PageOf(a)].unboxed /\ m.page[x].large = m.page[PageOf(a)].large
<1> DEFINE p == PageOf(a)
           n == m.mem[a].size
<1>1. p \in Pages /\ a \in Int /\ m.page[p].alloc
  BY PageIsIn, ObjectHeld
<1>2. n \in Nat /\ n >= 1
  <2>1. m.mem[a] \in HeapCell
    BY DEF Heaps
  <2>2. QED
    BY <2>1, ObjectIs
<1>3. CASE x = p
  BY <1>1, <1>3
<1>4. CASE x # p
  <2>0. p < x /\ x \in Int /\ p \in Int
    BY <1>1, <1>4 DEF Pages
  <2> HIDE DEF p
  <2>1. page_address(p) <= a /\ a < page_address(p) + PageSize /\ page_address(p) \in Int /\ PageSize \in Nat
    BY <1>1, <2>0, PageBounds, Paging DEF p
  <2>2. page_address(p) + PageSize <= page_address(x) /\ page_address(x) \in Int
    BY <2>0, Paging
  <2>3. page_address(x) <= a + n - 1
    <3> SUFFICES ASSUME a + n - 1 < page_address(x) PROVE FALSE
      BY <1>1, <1>2, <2>2
    <3> DEFINE b == a + n - 1
    <3>1. b \in Int
      BY <1>1, <1>2
    <3> HIDE DEF b
    <3>2. PageOf(b) \in Int /\ page_address(PageOf(b)) <= b
      BY <3>1, PageBounds
    <3>3. ~(x <= PageOf(b))
      <4>1. x < PageOf(b) => page_address(x) + PageSize <= page_address(PageOf(b))
        BY <2>0, <3>2, Paging
      <4>2. b < page_address(x) /\ PageSize \in Nat /\ page_address(PageOf(b)) \in Int
        BY <3>2, Paging DEF b
      <4>3. QED
        BY <2>0, <2>2, <3>1, <3>2, <4>1, <4>2
    <3>4. QED
      BY <3>3 DEF b
  <2> DEFINE c == page_address(x)
  <2>4. c \in a+1..a+n-1
    BY <1>1, <1>2, <2>1, <2>2, <2>3
  <2>5. c \in Addr /\ m.mem[c] = body /\ m.page[x].offset >= c - a
    <3>1. Whole(m, a)
      BY DEF PagesOK, Bodies
    <3>2. c \in Addr /\ m.mem[c] = body
      BY <2>4, <3>1 DEF Whole
    <3>3. x \in PageOf(a)+1..PageOf(a+n-1)
      <4>1. PageOf(a + n - 1) \in Int
        BY <1>1, <1>2, PageBounds
      <4>2. QED
        BY <2>0, <4>1 DEF p
    <3>4. QED
      BY <3>1, <3>2, <3>3 DEF Whole
  <2>6. PageOf(c) = x
    <3>1. x \in Int /\ c \in Int /\ page_address(x) <= c /\ c < page_address(x) + PageSize
      BY <2>0, <2>2, Paging
    <3> HIDE DEF c
    <3>2. QED
      BY <3>1, OnPage
  <2>7. m.page[x].alloc
    <3>1. m.mem[c] # zero /\ m.mem[c] # dirty
      BY <2>5, CellsAre
    <3>2. QED
      BY <2>5, <2>6, <3>1, NotZeroHeld
  <2>8. CASE m.page[x].used # 0
    <3>1. Links(m)
      BY DEF PagesOK
    <3>2. \A y \in Pages : y <= x /\ StartOf(m, x) < page_address(y) + PageSize => InChain(m, x, y)
      BY <2>7, <2>8, <3>1, ChainIs
    <3>3. StartOf(m, x) <= a
      BY <1>1, <2>2, <2>5, PageIs DEF StartOf
    <3>4. StartOf(m, x) \in Int
      BY <2>2, PageIs DEF StartOf
    <3>5. StartOf(m, x) < page_address(p) + PageSize
      BY <1>1, <2>1, <3>3, <3>4, Paging
    <3>6. InChain(m, x, p)
      BY <1>1, <2>0, <3>2, <3>5
    <3>7. QED
      BY <2>7, <3>6 DEF InChain, p
  <2>9. CASE m.page[x].used = 0
    <3>1. PICK k \in Regions : Opened(m, k) /\ x \in m.region[k].first..m.region[k].last
      BY <2>7, <2>9, UsedOrInRegion
    <3> DEFINE r == m.region[k]
    <3>2. r.first \in Pages /\ r.last \in Pages /\ r.start \in Int /\ r.first \in Int /\ r.last \in Int
      BY <3>1, RegionIs DEF Opened, Pages
    <3>3. x # r.first
      <4> SUFFICES ASSUME x = r.first PROVE FALSE
        OBVIOUS
      <4>1. m.page[x].offset = 0
        BY <2>9, <3>1 DEF Opened
      <4>2. c - a > 0
        BY <1>1, <2>1, <2>2
      <4>3. QED
        BY <1>1, <2>2, <2>5, <4>1, <4>2
    <3>4. m.page[x].offset = page_address(x) - r.start
      <4>1. x \in r.first+1..r.last
        BY <2>0, <3>1, <3>2, <3>3
      <4>2. QED
        BY <3>1, <4>1 DEF Opened
    <3>5. r.start <= a
      BY <1>1, <2>2, <2>5, <3>2, <3>4
    <3>6. page_address(r.first) <= a
      <4>1. page_address(r.first) \in Int /\ r.start = page_address(r.first) + m.page[r.first].used /\ m.page[r.first].used \in Nat
        BY <3>1, <3>2, Paging, PageIs DEF Opened
      <4>2. QED
        BY <1>1, <3>5, <4>1
    <3>7. r.first <= p
      <4>1. p < r.first => page_address(p) + PageSize <= page_address(r.first)
        BY <2>0, <3>2, Paging
      <4>2. page_address(r.first) \in Int
        BY <3>2, Paging
      <4>3. QED
        BY <1>1, <2>0, <2>1, <3>2, <3>6, <4>1, <4>2, Paging
    <3>8. p \in r.first..r.last
      BY <2>0, <3>1, <3>2, <3>7
    <3>9. /\ m.page[p].gen = m.gc_alloc_generation /\ m.page[p].unboxed = (k = "unboxed") /\ ~m.page[p].large
          /\ m.page[x].gen = m.gc_alloc_generation /\ m.page[x].unboxed = (k = "unboxed") /\ ~m.page[x].large
      BY <3>1, <3>8 DEF Opened
    <3>10. m.page[p].large = m.page[x].large
      BY <1>1, <3>9, PageIs DEF p
    <3>11. QED
      BY <2>7, <3>9, <3>10 DEF p
  <2>10. QED
    BY <2>8, <2>9
<1>5. QED
  BY <1>3, <1>4

\* An object ends in the memory.
LEMMA ObjectEnd ==
  ASSUME NEW m \in Heaps, PagesOK(m), NEW a \in Addr, m.mem[a].t = "obj"
  PROVE  /\ m.mem[a].size \in Nat /\ m.mem[a].size >= 1 /\ a \in Int
         /\ a + m.mem[a].size - 1 \in Addr /\ PageOf(a + m.mem[a].size - 1) \in Pages
         /\ PageOf(a) \in Pages /\ PageOf(a) <= PageOf(a + m.mem[a].size - 1)
<1> DEFINE n == m.mem[a].size
<1>1. n \in Nat /\ n >= 1 /\ a \in Int
  <2>1. m.mem[a] \in HeapCell
    BY DEF Heaps
  <2>2. QED
    BY <2>1, ObjectIs, PageIsIn
<1>2. Whole(m, a)
  BY DEF PagesOK, Bodies
<1>3. a + n - 1 \in Addr
  <2>1. CASE n = 1
    BY <1>1, <2>1
  <2>2. CASE n # 1
    <3>1. a + n - 1 \in a+1..a+n-1
      BY <1>1, <2>2
    <3>2. QED
      BY <1>2, <3>1 DEF Whole
  <2>3. QED
    BY <2>1, <2>2
<1>4. PageOf(a) <= PageOf(a + n - 1)
  BY <1>1, PageOrder
<1>5. QED
  BY <1>1, <1>3, <1>4, PageIsIn

\* The object on a large page is a vector at the start of the page.
LEMMA LargeObject ==
  ASSUME NEW m \in Heaps, PagesOK(m), NEW a \in Addr, m.mem[a].t = "obj", m.page[PageOf(a)].large
  PROVE  /\ m.page[PageOf(a)].alloc /\ m.page[PageOf(a)].offset = 0
         /\ a = page_address(PageOf(a)) /\ m.mem[a].kind \in vector
         /\ m.mem[a].kind = "vec" => ~m.page[PageOf(a)].unboxed
<1> DEFINE p == PageOf(a)
           s == StartOf(m, p)
<1>1. p \in Pages /\ a \in Int /\ p \in Int /\ m.page[p].alloc
  BY PageIsIn, ObjectHeld DEF Pages
<1>2. m.page[p].used # 0 /\ LargeAlone(m, p)
  BY <1>1, LargeIsUsed DEF PagesOK, LargeOK
<1>3. m.mem[a] # zero /\ m.mem[a] # body
  BY CellsAre
<1>4. m.mem[s].t = "obj"
  BY <1>2, <1>3 DEF LargeAlone
<1>5. s \in Addr /\ s = page_address(PageOf(s)) /\ m.page[PageOf(s)].offset = 0 /\ s <= page_address(p)
  <2>1. s <= page_address(p)
    BY <1>1, <1>2, ChainIs DEF PagesOK
  <2>2. QED
    BY <1>2, <2>1 DEF LargeAlone
<1>6. s \in Int /\ page_address(p) <= a
  BY <1>1, <1>5, PageIsIn, PageBounds
<1>7. a = s
  <2>1. page_address(p) \in Int
    BY <1>1, Paging
  <2>2. s <= a
    BY <1>1, <1>5, <1>6, <2>1
  <2>3. m.mem[s].size \in Nat
    BY <1>4, <1>5, ObjectEnd
  <2> HIDE DEF s, p
  <2>4. ~(a >= s + m.mem[s].size)
    <3>1. m.mem[s] # zero
      BY <1>4, CellsAre
    <3>2. \A b \in Addr : PageOf(b) = p /\ b >= s + m.mem[s].size => m.mem[b] = zero
      BY <1>2, <1>3, <3>1 DEF LargeAlone, s
    <3>3. QED
      BY <1>3, <3>2 DEF p
  <2>5. a # s => a \in s+1..s+m.mem[s].size-1
    BY <1>1, <1>6, <2>2, <2>3, <2>4
  <2>6. Whole(m, s)
    BY <1>4, <1>5 DEF PagesOK, Bodies
  <2>7. QED
    BY <1>3, <2>5, <2>6 DEF Whole
<1>8. m.page[p].offset = 0
  BY <1>5, <1>7
<1>9. a = page_address(p)
  BY <1>5, <1>7
<1>10. m.mem[a].kind \in vector /\ (m.mem[a].kind = "vec" => ~m.page[p].unboxed)
  <2>1. m.mem[s] # zero
    BY <1>3, <1>7
  <2> HIDE DEF s
  <2>2. QED
    BY <1>2, <1>7, <2>1 DEF LargeAlone, s
<1>11. QED
  BY <1>1, <1>8, <1>9, <1>10

\* The pages of a large object are full but the last, and their offsets lead to it.
LEMMA LargeObjectPages ==
  ASSUME NEW m \in Heaps, PagesOK(m), NEW a \in Addr, m.mem[a].t = "obj", m.page[PageOf(a)].large,
         NEW x \in Pages, PageOf(a) <= x, x <= PageOf(a + m.mem[a].size - 1)
  PROVE  /\ m.page[x].alloc /\ m.page[x].used # 0 /\ m.page[x].large
         /\ m.page[x].gen = m.page[PageOf(a)].gen /\ m.page[x].unboxed = m.page[PageOf(a)].unboxed
         /\ m.page[x].offset = page_address(x) - a
<1> DEFINE p == PageOf(a)
<1>1. p \in Pages /\ a \in Int /\ p \in Int /\ x \in Int /\ PageSize \in Nat
  BY PageIsIn, Paging DEF Pages
<1>2. m.page[p].alloc /\ m.page[p].offset = 0 /\ a = page_address(p)
  BY LargeObject
<1>3. /\ m.page[x].alloc /\ m.page[x].gen = m.page[p].gen
      /\ m.page[x].unboxed = m.page[p].unboxed /\ m.page[x].large = m.page[p].large
  BY ObjectPages
<1>4. m.page[x].used # 0
  BY <1>3, LargeIsUsed
<1>5. CASE x = p
  BY <1>1, <1>2, <1>3, <1>4, <1>5
<1>6. CASE x # p
  <2> DEFINE s == StartOf(m, x)
  <2>1. p < x /\ page_address(p) + PageSize <= page_address(x) /\ page_address(x) \in Int /\ page_address(p) \in Int
    BY <1>1, <1>6, Paging
  <2>2. m.page[x].offset >= page_address(x) - a /\ m.page[x].offset \in Nat
    <3>1. Whole(m, a)
      BY DEF PagesOK, Bodies
    <3>2. PageOf(a + m.mem[a].size - 1) \in Int
      BY ObjectEnd DEF Pages
    <3>3. x \in PageOf(a)+1..PageOf(a+m.mem[a].size-1)
      BY <1>1, <1>6, <3>2
    <3>4. QED
      BY <3>1, <3>3, PageIs DEF Whole
  <2>3. s \in Int /\ s <= a /\ m.page[x].offset = page_address(x) - s
    BY <1>1, <2>1, <2>2 DEF StartOf
  <2>4. \A y \in Pages : y <= x /\ s < page_address(y) + PageSize => InChain(m, x, y)
    BY <1>3, <1>4, ChainIs DEF PagesOK
  <2>5. InChain(m, x, p)
    <3>1. PageSize >= 1
      BY Paging
    <3> HIDE DEF s, p
    <3>2. s < page_address(p) + PageSize
      BY <1>1, <1>2, <2>1, <2>3, <3>1
    <3>3. QED
      BY <1>1, <2>1, <2>4, <3>2
  <2>6. ~(s < page_address(p))
    <3> SUFFICES ASSUME s < page_address(p) PROVE FALSE
      OBVIOUS
    <3> HIDE DEF s, p
    <3>1. m.page[p].offset = page_address(p) - s
      BY <2>5 DEF InChain, s
    <3>2. QED
      BY <1>2, <2>1, <2>3, <3>1
  <2>7. s = a
    <3> HIDE DEF s, p
    <3>1. QED
      BY <1>1, <1>2, <2>3, <2>6
  <2>8. QED
    BY <1>3, <1>4, <2>3, <2>7
<1>7. QED
  BY <1>5, <1>6

\* The last page of a large object is the page of its last cell.
LEMMA LastOfLargeIs ==
  ASSUME NEW m \in Heaps, PagesOK(m), NEW a \in Addr, m.mem[a].t = "obj", m.page[PageOf(a)].large
  PROVE  LastOfLarge(PageOf(a), m.mem[a].size) = PageOf(a + m.mem[a].size - 1)
<1> DEFINE p == PageOf(a)
           n == m.mem[a].size
<1>1. a = page_address(p)
  BY LargeObject
<1>2. n \in Nat /\ n >= 1 /\ p \in Pages
  BY ObjectEnd
<1>3. p \in Int /\ PageSize \in Nat \ {0}
  BY <1>2, Constants DEF Pages
<1> HIDE DEF p, n
<1>4. (n - 1) \div PageSize \in Int /\ ((n - 1) \div PageSize) * PageSize <= n - 1
      /\ n - 1 < ((n - 1) \div PageSize) * PageSize + PageSize
  BY <1>2, <1>3, Divided
<1> DEFINE d == (n - 1) \div PageSize
<1>5. d \in Int /\ d * PageSize <= n - 1 /\ n - 1 < d * PageSize + PageSize
  BY <1>4
<1> HIDE DEF d
<1>6. page_address(p + d) = a + d * PageSize /\ d * PageSize \in Int /\ a \in Int
  BY <1>1, <1>3, <1>5 DEF page_address
<1>7. PageOf(a + n - 1) = p + d
  BY <1>2, <1>3, <1>5, <1>6, OnPage
<1>8. QED
  BY <1>7 DEF LastOfLarge, p, n, d

\* The block of a page starts on a page without an offset, and its pages are alike.
LEMMA FirstOfBlockIs ==
  ASSUME NEW m \in Heaps, Links(m), NEW p \in Pages, m.page[p].alloc, m.page[p].used # 0
  PROVE  /\ FirstOfBlock(m, p) \in Pages /\ FirstOfBlock(m, p) <= p /\ m.page[FirstOfBlock(m, p)].offset = 0
         /\ \A x \in Pages : FirstOfBlock(m, p) <= x /\ x <= p =>
               /\ m.page[x].alloc /\ m.page[x].used # 0
               /\ m.page[x].gen = m.page[p].gen /\ m.page[x].unboxed = m.page[p].unboxed
               /\ m.page[x].large = m.page[p].large
               /\ x < p => m.page[x].used = PageSize
<1> DEFINE Z == {q \in 0..p : m.page[q].offset = 0}
           T == {n \in Nat : p - n \in Z}
<1>0. p \in Nat /\ p < NPages /\ NPages \in Nat
  BY Paging DEF Pages
<1>1. Z # {}
  <2> SUFFICES ASSUME \A q \in 0..p : m.page[q].offset # 0 PROVE FALSE
    OBVIOUS
  <2>1. 0 \in Pages /\ 0 <= p
    BY <1>0 DEF Pages
  <2>2. \A y \in Pages : 0 < y /\ y <= p => m.page[y].offset # 0
    BY <1>0 DEF Pages
  <2>3. m.page[0].alloc /\ m.page[0].used # 0
    BY <2>1, <2>2, Descend
  <2>4. m.page[0].offset # 0
    BY <1>0
  <2>5. LinkedTo(m, 0)
    BY <2>1, <2>3, <2>4 DEF Links
  <2>6. QED
    BY <2>5 DEF LinkedTo
<1>2. T \in SUBSET Nat /\ T # {}
  <2>1. PICK q \in 0..p : q \in Z
    BY <1>1
  <2>2. p - q \in Nat /\ p - (p - q) = q
    BY <1>0
  <2>3. QED
    BY <2>1, <2>2
<1>3. PICK n \in T : \A k \in T : n <= k
  BY <1>2, Least
<1>4. p - n \in Z /\ \A x \in Z : x <= p - n
  <2>1. ASSUME NEW x \in Z PROVE x <= p - n
    <3>1. p - x \in Nat /\ p - (p - x) = x /\ x \in Int
      BY <1>0
    <3>2. p - x \in T
      BY <3>1
    <3> HIDE DEF T, Z
    <3>3. n <= p - x /\ n \in Nat
      BY <1>2, <1>3, <3>2
    <3>4. QED
      BY <1>0, <3>1, <3>3
  <2>2. QED
    BY <1>3, <2>1
<1> DEFINE f == FirstOfBlock(m, p)
<1> HIDE DEF T
<1>5. f \in Z /\ \A x \in Z : x <= f
  <2>1. f = CHOOSE q \in Z : \A x \in Z : x <= q
    BY Zenon DEF FirstOfBlock
  <2> HIDE DEF Z, f
  <2>2. QED
    BY <1>4, <2>1, Zenon
<1>6. f \in Pages /\ f <= p /\ m.page[f].offset = 0 /\ f \in Int
  BY <1>0, <1>5 DEF Pages
<1>7. \A y \in Pages : f < y /\ y <= p => m.page[y].offset # 0
  <2> SUFFICES ASSUME NEW y \in Pages, f < y, y <= p, m.page[y].offset = 0 PROVE FALSE
    OBVIOUS
  <2>1. y \in Z
    BY <1>0 DEF Pages
  <2>2. y \in Int
    BY DEF Pages
  <2> HIDE DEF Z, f
  <2>3. y <= f
    BY <1>5, <2>1
  <2>4. QED
    BY <1>6, <2>2, <2>3
<1> HIDE DEF f
<1>8. ASSUME NEW x \in Pages, f <= x, x <= p
      PROVE  \A y \in Pages : x < y /\ y <= p => m.page[y].offset # 0
  BY <1>6, <1>7, <1>8 DEF Pages
<1>9. ASSUME NEW x \in Pages, f <= x, x <= p
      PROVE  /\ m.page[x].alloc /\ m.page[x].used # 0
             /\ m.page[x].gen = m.page[p].gen /\ m.page[x].unboxed = m.page[p].unboxed
             /\ m.page[x].large = m.page[p].large
             /\ x < p => m.page[x].used = PageSize
  BY <1>8, <1>9, Descend
<1>10. QED
  BY <1>6, <1>9 DEF f

-----------------------------------------------------------------------------
(* Heaps that differ in the labels of their pages only.                      *)

SameShape(m, x, p) ==
  /\ x.page[p].alloc = m.page[p].alloc /\ x.page[p].unboxed = m.page[p].unboxed
  /\ x.page[p].large = m.page[p].large /\ x.page[p].used = m.page[p].used
  /\ x.page[p].offset = m.page[p].offset
SameCells(m, x) == x.mem = m.mem /\ x.region = m.region

\* Pages that continue others keep their generation with them, those of a region are of
\* the generation that is allocated in, and free pages have no marks.
Labelled(x) ==
  /\ \A p \in Pages : ~x.page[p].alloc => ~x.page[p].wp /\ ~x.page[p].pinned
  /\ \A q \in Pages : x.page[q].alloc /\ x.page[q].used # 0 /\ x.page[q].offset # 0 => x.page[q-1].gen = x.page[q].gen
  /\ \A k \in Regions : \A p \in x.region[k].first..x.region[k].last :
        x.page[p].gen = x.gc_alloc_generation /\ ~x.page[p].wp /\ ~x.page[p].pinned

LEMMA LabelsAre ==
  ASSUME NEW m \in Heaps, PagesOK(m)
  PROVE  Labelled(m)
<1>1. ASSUME NEW k \in Regions, NEW p \in m.region[k].first..m.region[k].last
      PROVE  m.page[p].gen = m.gc_alloc_generation /\ ~m.page[p].wp /\ ~m.page[p].pinned
  <2>1. m.region[k] # ResetRegion
    BY <1>1, ResetIs
  <2>2. Opened(m, k)
    BY <2>1 DEF PagesOK, RegionsOK
  <2>3. QED
    BY <1>1, <2>2 DEF Opened
<1>2. QED
  BY <1>1 DEF PagesOK, FreePages, Links, LinkedTo, Labelled

LEMMA Relabelled ==
  ASSUME NEW m \in Heaps, PagesOK(m), NEW x \in Heaps, SameCells(m, x), \A p \in Pages : SameShape(m, x, p),
         Labelled(x), AllBelow(x)
  PROVE  PagesOK(x)
<1>1. RegionsOK(x)
  <2>1. ASSUME NEW k \in Regions, Opened(m, k) PROVE Opened(x, k)
    <3> DEFINE r == m.region[k]
    <3>1. x.region[k] = r /\ r.first \in Pages /\ r.last \in Pages
      BY <2>1 DEF SameCells, Opened
    <3>2. \A p \in r.first..r.last : p \in Pages
      BY <3>1, Paging DEF Pages
    <3>3. \A p \in r.first+1..r.last : p \in Pages
      BY <3>1, Paging DEF Pages
    <3>4. r.first \in r.first..r.last
      BY <2>1, <3>1 DEF Opened, Pages
    <3>5. \A p \in r.first..r.last :
            /\ x.page[p].alloc /\ x.page[p].gen = x.gc_alloc_generation
            /\ x.page[p].unboxed = (k = "unboxed")
            /\ ~x.page[p].wp /\ ~x.page[p].large /\ ~x.page[p].pinned
      BY <2>1, <3>1, <3>2 DEF Opened, Labelled, SameShape
    <3>6. \A p \in r.first+1..r.last : x.page[p].used = 0 /\ x.page[p].offset = page_address(p) - r.start
      BY <2>1, <3>3 DEF Opened, SameShape
    <3>7. QED
      BY <2>1, <3>1, <3>5, <3>6 DEF Opened, SameShape
  <2>2. QED
    BY <2>1 DEF PagesOK, RegionsOK, SameCells
<1>2. RestIsZero(x)
  <2>1. ASSUME NEW a \in Addr PROVE PageOf(a) \in Pages /\ (Held(x, a) = Held(m, a))
    BY PageIsIn DEF Held, SameShape, SameCells
  <2>2. QED
    BY <2>1 DEF PagesOK, RestIsZero, SameShape, SameCells
<1>3. FreePages(x)
  <2>1. \A a \in Addr : PageOf(a) \in Pages
    BY PageIsIn
  <2>2. \A p \in Pages : ~x.page[p].alloc => x.page[p].used = 0 /\ ~x.page[p].wp /\ ~x.page[p].pinned
    BY DEF PagesOK, FreePages, SameShape, Labelled
  <2>3. QED
    BY <2>1, <2>2 DEF PagesOK, FreePages, SameShape, SameCells
<1>4. EmptyInRegion(x)
  BY DEF PagesOK, EmptyInRegion, SameShape, SameCells
<1>5. Links(x)
  <2>1. ASSUME NEW q \in Pages, x.page[q].alloc, x.page[q].used # 0, x.page[q].offset # 0 PROVE LinkedTo(x, q)
    <3>1. LinkedTo(m, q)
      BY <2>1 DEF PagesOK, Links, SameShape
    <3>2. q - 1 \in Pages
      BY <3>1, Paging DEF LinkedTo, Pages
    <3>3. x.page[q-1].gen = x.page[q].gen
      BY <2>1 DEF Labelled
    <3>4. QED
      BY <3>1, <3>2, <3>3 DEF LinkedTo, SameShape
  <2>2. QED
    BY <2>1 DEF Links
<1>6. LargeOK(x)
  <2>1. ASSUME NEW q \in Pages, x.page[q].alloc, x.page[q].large PROVE LargeAlone(x, q)
    <3>1. LargeAlone(m, q)
      BY <2>1 DEF PagesOK, LargeOK, SameShape
    <3>2. StartOf(x, q) = StartOf(m, q)
      BY DEF StartOf, SameShape
    <3>3. PageOf(StartOf(m, q)) \in Pages
      BY <3>1, PageIsIn DEF LargeAlone
    <3>4. QED
      BY <3>1, <3>2, <3>3 DEF LargeAlone, SameShape, SameCells
  <2>2. QED
    BY <2>1 DEF LargeOK
<1>7. Bodies(x)
  <2>1. ASSUME NEW a \in Addr, x.mem[a].t = "obj" PROVE Whole(x, a)
    <3>1. Whole(m, a) /\ x.mem[a] = m.mem[a]
      BY <2>1 DEF PagesOK, Bodies, SameCells
    <3>2. ASSUME NEW p \in PageOf(a)+1..PageOf(a+m.mem[a].size-1) PROVE p \in Pages
      <4>1. PageOf(a) \in Pages /\ PageOf(a+m.mem[a].size-1) \in Pages
        BY <2>1, <3>1, ObjectEnd
      <4>2. QED
        BY <4>1, Paging DEF Pages
    <3>3. QED
      BY <3>1, <3>2 DEF Whole, SameShape, SameCells
  <2>2. QED
    BY <2>1 DEF Bodies
<1>8. QED
  BY <1>1, <1>2, <1>3, <1>4, <1>5, <1>6, <1>7 DEF PagesOK

\* Heaps with the same pages, memory, regions and counters.
SameHeap(m, x) ==
  /\ x.page = m.page /\ x.mem = m.mem /\ x.region = m.region
  /\ x.gc_alloc_generation = m.gc_alloc_generation /\ x.last_free_page = m.last_free_page
  /\ \A g \in Gen : x.generations[g].bytes_allocated = m.generations[g].bytes_allocated

LEMMA Carried ==
  ASSUME NEW m \in Heaps, HeapOK(m), NEW x \in Heaps, SameHeap(m, x), NoAreas(x)
  PROVE  HeapOK(x)
<1>1. PagesOK(m) /\ Counters(m)
  BY DEF HeapOK
<1>2. Labelled(x) /\ AllBelow(x) /\ SameCells(m, x) /\ \A p \in Pages : SameShape(m, x, p)
  <2>1. Labelled(m) /\ AllBelow(m)
    BY <1>1, LabelsAre DEF PagesOK
  <2>2. Labelled(x)
    BY <2>1 DEF SameHeap, Labelled
  <2>3. AllBelow(x)
    BY <2>1 DEF SameHeap, AllBelow
  <2>4. QED
    BY <2>2, <2>3 DEF SameHeap, SameCells, SameShape
<1>3. PagesOK(x)
  BY <1>1, <1>2, Relabelled
<1>4. Counters(x)
  <2>1. ASSUME NEW g \in Gen PROVE x.generations[g].bytes_allocated = UsedOn(x, {p \in Pages : InGen(x, p, g)})
    <3>1. {p \in Pages : InGen(x, p, g)} = {p \in Pages : InGen(m, p, g)}
      BY DEF SameHeap, InGen
    <3>2. UsedOn(x, {p \in Pages : InGen(m, p, g)}) = UsedOn(m, {p \in Pages : InGen(m, p, g)})
      BY DEF SameHeap, UsedOn
    <3>3. QED
      BY <1>1, <3>1, <3>2 DEF SameHeap, Counters
  <2>2. QED
    BY <2>1 DEF Counters
<1>5. QED
  BY <1>3, <1>4 DEF HeapOK

-----------------------------------------------------------------------------
(* Sums that stay the same, and those of a part of the pages.                *)
LEMMA ZeroIsIn == 0 \in 0..page_address(NPages) /\ page_address(NPages) \in Nat
<1>1. NPages \in Int /\ PageSize \in Nat /\ NPages >= 1
  BY Paging
<1>2. 0 < NPages => page_address(0) + PageSize <= page_address(NPages)
  BY <1>1, Paging
<1>3. page_address(0) = 0 /\ page_address(NPages) \in Int
  BY <1>1, Paging
<1>4. QED
  BY <1>1, <1>2, <1>3

LEMMA EmptySum ==
  ASSUME NEW m, UsedAreNumbers(m)
  PROVE  UsedOn(m, {}) = 0
<1> DEFINE E == {}
<1>0. ASSUME NEW p \in Pages
      PROVE  On(m, E, p) = 0 /\ UsedBelow(0, p) \in Int
  <2>1. On(m, E, p) = 0
    BY DEF On
  <2>2. p \in Int /\ 0 \in Int
    BY DEF Pages
  <2>3. UsedBelow(0, p) \in 0..PageSize
    BY <2>2, UsedBelowIs
  <2>4. QED
    BY <2>1, <2>3, Paging
<1> HIDE DEF E
<1>1. Adds(m, E, m, E, m, E, 0, 0)
  BY <1>0 DEF Adds
<1>2. UsedOn(m, E) = UsedOn(m, E) + UsedOn(m, E) + 0 - 0 /\ UsedOn(m, E) \in Int
  BY <1>1, ZeroIsIn, SumsAdd
<1> DEFINE c == UsedOn(m, E)
<1>3. c \in Int /\ c = c + c + 0 - 0
  BY <1>2
<1> HIDE DEF c
<1>4. c = 0
  BY <1>3
<1>5. QED
  BY <1>4 DEF c, E

LEMMA SumsSame ==
  ASSUME NEW m, UsedAreNumbers(m), NEW S, NEW x, UsedAreNumbers(x), NEW T,
         \A p \in Pages : On(x, T, p) = On(m, S, p)
  PROVE  UsedOn(x, T) = UsedOn(m, S) /\ UsedOn(x, T) \in Int
<1> DEFINE E == {}
<1>0. ASSUME NEW p \in Pages
      PROVE  On(m, E, p) = 0 /\ On(m, S, p) \in Int /\ UsedBelow(0, p) \in Int
  <2>1. On(m, E, p) = 0 /\ On(m, S, p) \in Int
    BY Paging DEF On, UsedAreNumbers
  <2>2. p \in Int /\ 0 \in Int
    BY DEF Pages
  <2>3. UsedBelow(0, p) \in 0..PageSize
    BY <2>2, UsedBelowIs
  <2>4. QED
    BY <2>1, <2>3, Paging
<1> HIDE DEF E
<1>1. Adds(m, S, x, T, m, E, 0, 0)
  BY <1>0 DEF Adds
<1>2. UsedOn(x, T) = UsedOn(m, S) + UsedOn(m, E) + 0 - 0 /\ UsedOn(m, S) \in Int
  BY <1>1, ZeroIsIn, SumsAdd
<1>3. UsedOn(m, E) = 0
  BY EmptySum DEF E
<1> DEFINE a == UsedOn(x, T)
           b == UsedOn(m, S)
<1>4. a = b + 0 + 0 - 0 /\ b \in Int
  BY <1>2, <1>3
<1> HIDE DEF a, b
<1>5. a = b /\ a \in Int
  BY <1>4
<1>6. QED
  BY <1>5 DEF a, b

LEMMA UsedNumbers ==
  ASSUME NEW m \in Heaps
  PROVE  UsedAreNumbers(m)
<1>1. \A p \in Pages : m.page[p].used \in 0..PageSize
  BY PageIs, Paging
<1>2. QED
  BY <1>1 DEF UsedAreNumbers

-----------------------------------------------------------------------------
(* Heaps that differ in cells that were allocated.                           *)

SamePages(m, x) ==
  /\ x.page = m.page /\ x.region = m.region
  /\ x.gc_alloc_generation = m.gc_alloc_generation /\ x.last_free_page = m.last_free_page
  /\ \A g \in Gen : x.generations[g].bytes_allocated = m.generations[g].bytes_allocated

LEMMA CountersCarry ==
  ASSUME NEW m \in Heaps, Counters(m), NEW x \in Heaps,
         \A p \in Pages : x.page[p].used = m.page[p].used /\ x.page[p].alloc = m.page[p].alloc /\ x.page[p].gen = m.page[p].gen,
         \A g \in Gen : x.generations[g].bytes_allocated = m.generations[g].bytes_allocated
  PROVE  Counters(x)
<1>1. ASSUME NEW g \in Gen PROVE x.generations[g].bytes_allocated = UsedOn(x, {p \in Pages : InGen(x, p, g)})
  <2> DEFINE T == {p \in Pages : InGen(x, p, g)}
             S == {p \in Pages : InGen(m, p, g)}
  <2>1. ASSUME NEW p \in Pages PROVE On(x, T, p) = On(m, S, p)
    BY DEF On, InGen
  <2> HIDE DEF T, S
  <2>2. UsedOn(x, T) = UsedOn(m, S)
    BY <2>1, UsedNumbers, SumsSame
  <2>3. QED
    BY <2>2 DEF T, S, Counters
<1>2. QED
  BY <1>1 DEF Counters

LEMMA CellsChanged ==
  ASSUME NEW m \in Heaps, HeapOK(m), NEW x \in Heaps, SamePages(m, x), NoAreas(x), Bodies(x), LargeOK(x),
         \A a \in Addr : x.mem[a] # m.mem[a] => m.page[PageOf(a)].alloc /\ Held(m, a)
  PROVE  HeapOK(x)
<1>1. \A a \in Addr : Held(x, a) = Held(m, a)
  BY DEF Held, SamePages
<1>2. RestIsZero(x)
  BY <1>1 DEF HeapOK, PagesOK, RestIsZero, SamePages
<1>3. FreePages(x)
  <2>1. ASSUME NEW a \in Addr, ~m.page[PageOf(a)].alloc
        PROVE  x.mem[a] = m.mem[a] /\ x.mem[page_address(PageOf(a))] = m.mem[page_address(PageOf(a))]
    <3> DEFINE p == PageOf(a)
    <3>1. p \in Pages
      BY PageIsIn
    <3>2. page_address(p) \in Addr /\ PageOf(page_address(p)) = p
      <4>1. p \in Int /\ page_address(p) \in Int /\ PageSize >= 1 /\ PageSize \in Nat
        BY <3>1, Paging DEF Pages
      <4> HIDE DEF p
      <4>2. QED
        BY <3>1, <4>1, CellIsIn
    <3>3. QED
      BY <2>1, <3>2
  <2>2. QED
    BY <2>1 DEF HeapOK, PagesOK, FreePages, SamePages
<1>4. RegionsOK(x)
  BY DEF HeapOK, PagesOK, RegionsOK, Opened, SamePages
<1>5. EmptyInRegion(x) /\ AllBelow(x) /\ Links(x)
  BY DEF HeapOK, PagesOK, EmptyInRegion, AllBelow, Links, LinkedTo, SamePages
<1>6. Counters(x)
  BY CountersCarry DEF HeapOK, SamePages
<1>7. QED
  BY <1>2, <1>3, <1>4, <1>5, <1>6 DEF HeapOK, PagesOK

\* The cells of an object.
LEMMA ObjectCells ==
  ASSUME NEW m \in Heaps, PagesOK(m), NEW a \in Addr, m.mem[a].t = "obj", NEW b \in a..a+m.mem[a].size-1
  PROVE  b \in Addr /\ m.page[PageOf(b)].alloc /\ Held(m, b) /\ (b # a => m.mem[b] = body)
<1>1. m.mem[a].size \in Nat /\ a \in Int
  BY ObjectEnd
<1>2. b # a => b \in a+1..a+m.mem[a].size-1
  BY <1>1
<1>3. Whole(m, a)
  BY DEF PagesOK, Bodies
<1>4. b \in Addr /\ (b # a => m.mem[b] = body)
  BY <1>2, <1>3 DEF Whole
<1>5. m.mem[b] # zero /\ m.mem[b] # dirty
  BY <1>4, CellsAre
<1>6. QED
  BY <1>4, <1>5, NotZeroHeld

\* A cell of an object is of no other.
LEMMA ObjectsApart ==
  ASSUME NEW m \in Heaps, PagesOK(m), NEW a \in Addr, m.mem[a].t = "obj", NEW b \in Addr, m.mem[b].t = "obj",
         a # b
  PROVE  b \notin a..a+m.mem[a].size-1
<1> SUFFICES ASSUME b \in a..a+m.mem[a].size-1 PROVE FALSE
  OBVIOUS
<1>1. m.mem[b] = body
  BY ObjectCells
<1>2. QED
  BY <1>1, CellsAre

\* Heaps that differ in the protection of pages only.
LEMMA ProtectionChanged ==
  ASSUME NEW m \in Heaps, HeapOK(m), NEW x \in Heaps, SameCells(m, x), NoAreas(x),
         x.gc_alloc_generation = m.gc_alloc_generation, x.last_free_page = m.last_free_page,
         \A g \in Gen : x.generations[g].bytes_allocated = m.generations[g].bytes_allocated,
         \A q \in Pages : SameShape(m, x, q) /\ x.page[q].gen = m.page[q].gen /\ x.page[q].pinned = m.page[q].pinned,
         \A q \in Pages : x.page[q].wp =>
            m.page[q].wp \/ (m.page[q].alloc /\ \A k \in Regions : q \notin m.region[k].first..m.region[k].last)
  PROVE  HeapOK(x)
<1>1. Labelled(m)
  BY LabelsAre DEF HeapOK
<1>2. Labelled(x)
  <2>1. \A q \in Pages : ~x.page[q].alloc => ~x.page[q].wp /\ ~x.page[q].pinned
    BY <1>1 DEF Labelled, SameShape
  <2>2. ASSUME NEW q \in Pages, x.page[q].alloc, x.page[q].used # 0, x.page[q].offset # 0
        PROVE  x.page[q-1].gen = x.page[q].gen
    <3>1. m.page[q].alloc /\ m.page[q].used # 0 /\ m.page[q].offset # 0
      BY <2>2 DEF SameShape
    <3>2. LinkedTo(m, q)
      BY <3>1 DEF HeapOK, PagesOK, Links
    <3>3. q - 1 \in Pages
      BY <3>2, Paging DEF LinkedTo, Pages
    <3>4. QED
      BY <3>2, <3>3 DEF LinkedTo
  <2>3. ASSUME NEW k \in Regions, NEW q \in x.region[k].first..x.region[k].last
        PROVE x.page[q].gen = x.gc_alloc_generation /\ ~x.page[q].wp /\ ~x.page[q].pinned
    <3>1. q \in Pages /\ q \in m.region[k].first..m.region[k].last
      <4>1. m.region[k] # ResetRegion /\ q \in m.region[k].first..m.region[k].last
        BY <2>3, ResetIs DEF SameCells
      <4>2. m.region[k].first \in Pages /\ m.region[k].last \in Pages
        BY <4>1 DEF HeapOK, PagesOK, RegionsOK, Opened
      <4>3. QED
        BY <4>1, <4>2, Paging DEF Pages
    <3>2. m.page[q].gen = m.gc_alloc_generation /\ ~m.page[q].wp /\ ~m.page[q].pinned
      BY <1>1, <3>1 DEF Labelled
    <3>3. QED
      BY <3>1, <3>2
  <2>4. QED
    BY <2>1, <2>2, <2>3 DEF Labelled
<1>3. AllBelow(x)
  BY DEF HeapOK, PagesOK, AllBelow, SameShape
<1>4. PagesOK(x)
  BY <1>2, <1>3, Relabelled DEF HeapOK
<1>5. Counters(x)
  <2>1. \A q \in Pages : x.page[q].used = m.page[q].used /\ x.page[q].alloc = m.page[q].alloc /\ x.page[q].gen = m.page[q].gen
    BY DEF SameShape
  <2>2. QED
    BY <2>1, CountersCarry DEF HeapOK
<1>6. QED
  BY <1>4, <1>5 DEF HeapOK

\* One page gets or loses its protection.
OnePage(m, p, w) == [m EXCEPT !.page[p].wp = w]

LEMMA OnePageOK ==
  ASSUME NEW m \in Heaps, HeapOK(m), NEW p \in Pages, NEW w \in BOOLEAN,
         w => m.page[p].alloc /\ \A k \in Regions : p \notin m.region[k].first..m.region[k].last
  PROVE  /\ OnePage(m, p, w) \in Heaps /\ HeapOK(OnePage(m, p, w))
         /\ OnePage(m, p, w).mem = m.mem
<1> DEFINE x == OnePage(m, p, w)
<1>2. x = [m EXCEPT !.page[p].wp = w]
  BY DEF OnePage
<1>3. /\ x.mem = m.mem /\ x.region = m.region /\ x.generations = m.generations
      /\ x.gc_alloc_generation = m.gc_alloc_generation /\ x.last_free_page = m.last_free_page
      /\ x.new_areas = m.new_areas /\ x.record_new_objects = m.record_new_objects
  BY <1>2 DEF Heaps
<1>4. x.page = [m.page EXCEPT ![p].wp = w]
  BY <1>2 DEF Heaps
<1>5. ASSUME NEW q \in Pages
      PROVE  /\ SameShape(m, x, q) /\ x.page[q].gen = m.page[q].gen /\ x.page[q].pinned = m.page[q].pinned
             /\ x.page[q].wp => m.page[q].wp \/ (q = p /\ w)
  <2>1. m.page \in [Pages -> Page] /\ m.page[q] \in Page
    BY DEF Heaps
  <2>2. q = p => x.page[q] = [m.page[q] EXCEPT !.wp = w]
    BY <1>4, <2>1
  <2>3. q # p => x.page[q] = m.page[q]
    BY <1>4, <2>1
  <2> HIDE DEF x
  <2>4. QED
    BY <2>1, <2>2, <2>3 DEF SameShape, Page
<1>6. x \in Heaps
  <2>1. [m.page EXCEPT ![p].wp = w] \in [Pages -> Page]
    <3>1. m.page \in [Pages -> Page] /\ m.page[p] \in Page
      BY DEF Heaps
    <3>2. [m.page[p] EXCEPT !.wp = w] \in Page
      BY <3>1 DEF Page
    <3>3. QED
      BY <3>1, <3>2
  <2>2. x = [m EXCEPT !.page = [m.page EXCEPT ![p].wp = w]]
    BY <1>2 DEF Heaps
  <2>3. QED
    BY <2>1, <2>2 DEF Heaps
<1> HIDE DEF x
<1>7. NoAreas(x) /\ SameCells(m, x)
  BY <1>3 DEF HeapOK, NoAreas, SameCells
<1>8. HeapOK(x)
  BY <1>3, <1>5, <1>6, <1>7, ProtectionChanged
<1>9. QED
  BY <1>3, <1>6, <1>8 DEF x

\* The write barrier.
LEMMA BarrierIs ==
  ASSUME NEW m \in Heaps, NEW a
  PROVE  \/ gc_write_barrier(m, a) = m
         \/ PageOf(a) \in Pages /\ gc_write_barrier(m, a) = OnePage(m, PageOf(a), FALSE)
<1>1. CASE find_page_index(a) = -1
  BY <1>1 DEF gc_write_barrier
<1>2. CASE find_page_index(a) # -1
  <2>1. PageOf(a) \in Pages
    BY <1>2, PageIsIn DEF find_page_index
  <2>2. QED
    BY <1>2, <2>1 DEF gc_write_barrier, OnePage
<1>3. QED
  BY <1>1, <1>2

LEMMA BarrierOK ==
  ASSUME NEW m \in Heaps, HeapOK(m), NEW a
  PROVE  /\ gc_write_barrier(m, a) \in Heaps /\ HeapOK(gc_write_barrier(m, a))
         /\ gc_write_barrier(m, a).mem = m.mem
<1>1. CASE gc_write_barrier(m, a) = m
  BY <1>1
<1>2. CASE PageOf(a) \in Pages /\ gc_write_barrier(m, a) = OnePage(m, PageOf(a), FALSE)
  <2>1. /\ OnePage(m, PageOf(a), FALSE) \in Heaps /\ HeapOK(OnePage(m, PageOf(a), FALSE))
        /\ OnePage(m, PageOf(a), FALSE).mem = m.mem
    BY <1>2, OnePageOK
  <2>2. QED
    BY <1>2, <2>1
<1>3. QED
  BY <1>1, <1>2, BarrierIs

-----------------------------------------------------------------------------
(* Stores.                                                                   *)

\* The rest of a heap, which stores and page operations leave alone.
SameWork(m, x) ==
  /\ x.from_space = m.from_space /\ x.new_space = m.new_space
  /\ x.gc_alloc_generation = m.gc_alloc_generation
  /\ x.record_new_objects = m.record_new_objects
  /\ x.weak_pointers = m.weak_pointers /\ x.weak_hash_tables = m.weak_hash_tables

Put(m, a, c) == [m EXCEPT !.mem[a] = c]

LEMMA PutIs ==
  ASSUME NEW m \in Heaps, NEW a \in Addr, NEW c \in HeapCell
  PROVE  /\ Put(m, a, c) \in Heaps /\ SamePages(m, Put(m, a, c)) /\ SameWork(m, Put(m, a, c))
         /\ Put(m, a, c).generations = m.generations /\ Put(m, a, c).overflow = m.overflow
         /\ Put(m, a, c).new_areas = m.new_areas
         /\ Put(m, a, c).mem[a] = c /\ \A b \in Addr : b # a => Put(m, a, c).mem[b] = m.mem[b]
<1> DEFINE x == Put(m, a, c)
<1>1. x = [m EXCEPT !.mem[a] = c]
  BY DEF Put
<1>2. x.mem = [m.mem EXCEPT ![a] = c]
  BY <1>1 DEF Heaps
<1>3. m.mem \in [Addr -> HeapCell]
  BY DEF Heaps
<1>4. x \in Heaps
  <2>1. [m.mem EXCEPT ![a] = c] \in [Addr -> HeapCell]
    BY <1>3
  <2>2. x = [m EXCEPT !.mem = [m.mem EXCEPT ![a] = c]]
    BY <1>1 DEF Heaps
  <2>3. QED
    BY <2>1, <2>2 DEF Heaps
<1>5. SamePages(m, x) /\ SameWork(m, x)
  BY <1>1 DEF Heaps, SamePages, SameWork
<1>6. x.generations = m.generations /\ x.overflow = m.overflow /\ x.new_areas = m.new_areas
  BY <1>1 DEF Heaps
<1>7. QED
  BY <1>2, <1>3, <1>4, <1>5, <1>6

\* Cells keep their shape: what is an object, how large it is, and what is zero.
CellKept(m, x, b) ==
  \/ x.mem[b] = m.mem[b]
  \/ /\ m.mem[b].t = "obj" /\ x.mem[b].t = "obj"
     /\ x.mem[b].kind = m.mem[b].kind /\ x.mem[b].size = m.mem[b].size

LEMMA CellsKept ==
  ASSUME NEW m \in Heaps, HeapOK(m), NEW x \in Heaps, SamePages(m, x), NoAreas(x),
         \A b \in Addr : CellKept(m, x, b)
  PROVE  HeapOK(x)
<1>1. ASSUME NEW a \in Addr, x.mem[a] # m.mem[a] PROVE m.page[PageOf(a)].alloc /\ Held(m, a)
  <2>1. m.mem[a].t = "obj"
    BY <1>1 DEF CellKept
  <2>2. QED
    BY <2>1, ObjectHeld DEF HeapOK
<1>2. Bodies(x)
  <2>1. ASSUME NEW a \in Addr, x.mem[a].t = "obj" PROVE Whole(x, a)
    <3>1. m.mem[a].t = "obj" /\ x.mem[a].size = m.mem[a].size
      BY <2>1 DEF CellKept
    <3>2. Whole(m, a)
      BY <3>1 DEF HeapOK, PagesOK, Bodies
    <3>3. ASSUME NEW b \in a+1..a+m.mem[a].size-1 PROVE b \in Addr /\ x.mem[b] = body
      <4>1. b \in Addr /\ m.mem[b] = body
        BY <3>2, <3>3 DEF Whole
      <4>2. QED
        BY <4>1, CellsAre DEF CellKept
    <3>4. QED
      BY <3>1, <3>2, <3>3 DEF Whole, SamePages
  <2>2. QED
    BY <2>1 DEF Bodies
<1>3. LargeOK(x)
  <2>1. ASSUME NEW q \in Pages, m.page[q].alloc, m.page[q].large PROVE LargeAlone(x, q)
    <3> DEFINE s == StartOf(m, q)
    <3>1. LargeAlone(m, q) /\ s \in Addr
      BY <2>1 DEF HeapOK, PagesOK, LargeOK, LargeAlone
    <3>2. StartOf(x, q) = s
      BY DEF StartOf, SamePages
    <3>3. \A a \in Addr : m.mem[a] = zero => x.mem[a] = zero
      BY CellsAre DEF CellKept
    <3> HIDE DEF s
    <3>4. m.mem[s].t = "obj" => x.mem[s].t = "obj" /\ x.mem[s].kind = m.mem[s].kind /\ x.mem[s].size = m.mem[s].size
      BY <3>1 DEF CellKept
    <3>5. s = page_address(PageOf(s)) /\ x.page[PageOf(s)].offset = 0 /\ x.page[q].unboxed = m.page[q].unboxed
      BY <3>1 DEF LargeAlone, SamePages, s
    <3>6. CASE m.mem[s] = zero /\ \A a \in Addr : PageOf(a) = q => m.mem[a] = zero
      BY <3>1, <3>2, <3>3, <3>5, <3>6 DEF LargeAlone
    <3>7. CASE /\ m.mem[s].t = "obj" /\ m.mem[s].kind \in vector
               /\ m.mem[s].kind = "vec" => ~m.page[q].unboxed
               /\ \A a \in Addr : PageOf(a) = q /\ a >= s + m.mem[s].size => m.mem[a] = zero
      BY <3>1, <3>2, <3>3, <3>4, <3>5, <3>7 DEF LargeAlone
    <3>8. QED
      BY <3>1, <3>6, <3>7 DEF LargeAlone, s
  <2>2. QED
    BY <2>1 DEF LargeOK, SamePages
<1>4. QED
  BY <1>1, <1>2, <1>3, CellsChanged

\* A store into an object.
LEMMA WriteOK ==
  ASSUME NEW m \in Heaps, HeapOK(m), NEW a \in Addr, m.mem[a].t = "obj",
         NEW c \in Objs, c.kind = m.mem[a].kind, c.size = m.mem[a].size
  PROVE  HeapOK(Write(m, a, c)) /\ Write(m, a, c) \in Heaps
<1> DEFINE y == gc_write_barrier(m, a)
           x == Put(y, a, c)
<1>1. y \in Heaps /\ HeapOK(y) /\ y.mem = m.mem
  BY BarrierOK
<1>2. c \in HeapCell /\ c.t = "obj"
  BY DEF HeapCell, Objs
<1> HIDE DEF y
<1>3. /\ x \in Heaps /\ SamePages(y, x) /\ SameWork(y, x) /\ x.new_areas = y.new_areas
      /\ x.mem[a] = c /\ \A b \in Addr : b # a => x.mem[b] = y.mem[b]
  BY <1>1, <1>2, PutIs
<1> HIDE DEF x
<1>4. \A b \in Addr : CellKept(y, x, b)
  BY <1>1, <1>2, <1>3 DEF CellKept
<1>5. NoAreas(x)
  BY <1>1, <1>3 DEF HeapOK, NoAreas, SameWork
<1>6. HeapOK(x)
  BY <1>1, <1>3, <1>4, <1>5, CellsKept
<1>7. Write(m, a, c) = x
  BY DEF Write, x, y, Put
<1>8. QED
  BY <1>3, <1>6, <1>7

\* An object with another reference.
SetRef(o, i, v) == [o EXCEPT !.refs[i] = v]
LEMMA SetRefIs ==
  ASSUME NEW o \in Objs, NEW i \in DOMAIN o.refs, NEW v \in Addr \union {NIL}
  PROVE  /\ SetRef(o, i, v) \in Objs /\ SetRef(o, i, v).kind = o.kind /\ SetRef(o, i, v).size = o.size
<1> DEFINE c == SetRef(o, i, v)
           f == [o.refs EXCEPT ![i] = v]
<1>1. o.refs \in Seq(Addr \union {NIL})
  BY DEF Objs
<1>2. f \in Seq(Addr \union {NIL}) /\ Len(f) = Len(o.refs)
  BY <1>1
<1>3. c = [o EXCEPT !.refs = f]
  BY DEF SetRef, Objs
<1> HIDE DEF c, f
<1>4. c.kind = o.kind /\ c.size = o.size /\ c.refs = f
  BY <1>3 DEF Objs
<1>5. c \in [t : {"obj"}, id : 1..MaxObjects, kind : Kind, size : Nat, refs : Seq(Addr \union {NIL})]
  BY <1>2, <1>3 DEF Objs
<1>6. c \in Objs
  BY <1>2, <1>4, <1>5 DEF Objs
<1>7. QED
  BY <1>4, <1>6 DEF c

\* A forwarding pointer takes the place of an object on a page that is not large.
LEMMA ForwardOK ==
  ASSUME NEW m \in Heaps, HeapOK(m), NEW a \in Addr, m.mem[a].t = "obj", ~m.page[PageOf(a)].large,
         NEW new \in Addr
  PROVE  HeapOK(Forward(m, a, new)) /\ Forward(m, a, new) \in Heaps
<1> DEFINE c == [t |-> "fwd", to |-> new]
           x == Put(m, a, c)
<1>1. c \in HeapCell /\ c.t = "fwd"
  BY DEF HeapCell
<1> HIDE DEF c
<1>2. /\ x \in Heaps /\ SamePages(m, x) /\ SameWork(m, x) /\ x.new_areas = m.new_areas
      /\ x.mem[a] = c /\ \A b \in Addr : b # a => x.mem[b] = m.mem[b]
  BY <1>1, PutIs
<1> HIDE DEF x
<1>3. NoAreas(x)
  BY <1>2 DEF HeapOK, NoAreas, SameWork
<1>4. Bodies(x)
  <2>1. ASSUME NEW b \in Addr, x.mem[b].t = "obj" PROVE Whole(x, b)
    <3>1. b # a /\ x.mem[b] = m.mem[b]
      BY <1>1, <1>2, <2>1
    <3>2. Whole(m, b)
      BY <2>1, <3>1 DEF HeapOK, PagesOK, Bodies
    <3>3. \A e \in b+1..b+m.mem[b].size-1 : e \in Addr /\ x.mem[e] = body
      BY <1>2, <3>2, CellsAre DEF Whole
    <3>4. QED
      BY <1>2, <3>1, <3>2, <3>3 DEF Whole, SamePages
  <2>2. QED
    BY <2>1 DEF Bodies
<1>5. LargeOK(x)
  <2>1. ASSUME NEW q \in Pages, m.page[q].alloc, m.page[q].large PROVE LargeAlone(x, q)
    <3> DEFINE s == StartOf(m, q)
    <3>1. LargeAlone(m, q) /\ s \in Addr /\ StartOf(x, q) = s
      BY <1>2, <2>1 DEF HeapOK, PagesOK, LargeOK, LargeAlone, StartOf, SamePages
    <3>2. m.mem[a] # zero
      BY CellsAre
    <3>3. s # a
      <4>1. m.page[q].used # 0
        BY <2>1, LargeIsUsed DEF HeapOK
      <4>2. q \in Int /\ PageSize \in Nat /\ PageSize >= 1
        BY Paging DEF Pages
      <4>3. s <= page_address(q) /\ \A z \in Pages : z <= q /\ s < page_address(z) + PageSize => InChain(m, q, z)
        BY <2>1, <4>1, ChainIs DEF HeapOK, PagesOK
      <4>4. PageOf(s) \in Pages /\ s \in Int
        BY <3>1, PageIsIn
      <4>5. PageOf(s) <= q /\ s < page_address(PageOf(s)) + PageSize
        <5>1. PageOf(page_address(q)) = q
          BY <4>2, Paging, OnPage
        <5>2. page_address(q) \in Int
          BY <4>2, Paging
        <5>3. PageOf(s) <= PageOf(page_address(q))
          BY <4>3, <4>4, <5>2, PageOrder
        <5>4. QED
          BY <4>4, <5>1, <5>3, PageBounds
      <4>6. m.page[PageOf(s)].large = m.page[q].large
        BY <4>3, <4>4, <4>5 DEF InChain
      <4>7. QED
        BY <2>1, <4>6
    <3> HIDE DEF s
    <3>4. x.mem[s] = m.mem[s] /\ \A b \in Addr : m.mem[b] = zero => x.mem[b] = zero
      BY <1>2, <3>1, <3>2, <3>3
    <3>5. x.page = m.page
      BY <1>2 DEF SamePages
    <3>6. CASE m.mem[s] = zero /\ \A b \in Addr : PageOf(b) = q => m.mem[b] = zero
      BY <3>1, <3>4, <3>5, <3>6 DEF LargeAlone, s
    <3>7. CASE /\ m.mem[s].t = "obj" /\ m.mem[s].kind \in vector
               /\ m.mem[s].kind = "vec" => ~m.page[q].unboxed
               /\ \A b \in Addr : PageOf(b) = q /\ b >= s + m.mem[s].size => m.mem[b] = zero
      BY <3>1, <3>4, <3>5, <3>7 DEF LargeAlone, s
    <3>8. QED
      BY <3>1, <3>6, <3>7 DEF LargeAlone, s
  <2>2. QED
    BY <1>2, <2>1 DEF LargeOK, SamePages
<1>6. \A b \in Addr : x.mem[b] # m.mem[b] => m.page[PageOf(b)].alloc /\ Held(m, b)
  <2>1. m.page[PageOf(a)].alloc /\ Held(m, a)
    BY ObjectHeld DEF HeapOK
  <2>2. QED
    BY <1>2, <2>1
<1>7. HeapOK(x)
  BY <1>2, <1>3, <1>4, <1>5, <1>6, CellsChanged
<1>8. Forward(m, a, new) = x
  BY DEF Forward, x, c, Put
<1>9. QED
  BY <1>2, <1>7, <1>8

\* A large page has one vector as long as memory and page stay as they are.
LEMMA LargeAloneKept ==
  ASSUME NEW m, NEW x, NEW q, LargeAlone(m, q), x.mem = m.mem, StartOf(x, q) = StartOf(m, q),
         x.page[q].unboxed = m.page[q].unboxed,
         x.page[PageOf(StartOf(m, q))].offset = m.page[PageOf(StartOf(m, q))].offset
  PROVE  LargeAlone(x, q)
BY DEF LargeAlone

\* The page that a large page's vector starts on is a large page of the same kind.
LEMMA LargeStart ==
  ASSUME NEW m \in Heaps, PagesOK(m), NEW q \in Pages, m.page[q].alloc, m.page[q].large
  PROVE  /\ LargeAlone(m, q) /\ StartOf(m, q) \in Addr /\ PageOf(StartOf(m, q)) \in Pages
         /\ PageOf(StartOf(m, q)) <= q /\ InChain(m, q, PageOf(StartOf(m, q)))
<1> DEFINE s == StartOf(m, q)
<1>1. LargeAlone(m, q)
  BY DEF PagesOK, LargeOK
<1>2. m.page[q].used # 0
  BY LargeIsUsed
<1>3. q \in Int /\ PageSize \in Nat /\ PageSize >= 1
  BY Paging DEF Pages
<1>4. s \in Addr /\ s <= page_address(q) /\ \A z \in Pages : z <= q /\ s < page_address(z) + PageSize => InChain(m, q, z)
  BY <1>2, ChainIs DEF PagesOK
<1> HIDE DEF s
<1>5. PageOf(s) \in Pages /\ s \in Int
  BY <1>4, PageIsIn
<1>6. PageOf(s) <= q /\ s < page_address(PageOf(s)) + PageSize
  <2>1. PageOf(page_address(q)) = q
    BY <1>3, Paging, OnPage
  <2>2. page_address(q) \in Int
    BY <1>3, Paging
  <2>3. PageOf(s) <= PageOf(page_address(q))
    BY <1>4, <1>5, <2>2, PageOrder
  <2>4. QED
    BY <1>5, <2>1, <2>3, PageBounds
<1>7. InChain(m, q, PageOf(s))
  BY <1>4, <1>5, <1>6
<1>8. QED
  BY <1>1, <1>4, <1>5, <1>6, <1>7 DEF s

\* Room for n cells of an object at address at, which was allocated in a region of kind k.
Vacant(m, at, n, k) ==
  /\ at \in Addr
  /\ \A b \in at..at+n-1 : b \in Addr /\ m.mem[b] = zero /\ m.page[PageOf(b)].alloc /\ Held(m, b)
  /\ \A x \in PageOf(at)+1..PageOf(at+n-1) : m.page[x].offset >= page_address(x) - at
  /\ \A x \in PageOf(at)..PageOf(at+n-1) : m.page[x].large =>
        StartOf(m, x) = at /\ n >= LargeSize /\ m.page[x].unboxed = (k = "unboxed")

LEMMA FillIs ==
  ASSUME NEW m \in Heaps, NEW at \in Addr, NEW o \in Objs
  PROVE  /\ Fill(m, at, o) \in Heaps /\ SamePages(m, Fill(m, at, o)) /\ SameWork(m, Fill(m, at, o))
         /\ Fill(m, at, o).new_areas = m.new_areas /\ Fill(m, at, o).overflow = m.overflow
         /\ Fill(m, at, o).mem[at] = o
         /\ \A b \in Addr : Fill(m, at, o).mem[b] =
               IF b = at THEN o ELSE IF b \in at+1..at+o.size-1 THEN body ELSE m.mem[b]
<1> DEFINE x == Fill(m, at, o)
           f == [b \in Addr |-> IF b = at THEN o ELSE IF b \in at+1..at+o.size-1 THEN body ELSE m.mem[b]]
<1>1. x = [m EXCEPT !.mem = f]
  BY DEF Fill, Heaps
<1>2. o \in HeapCell /\ body \in HeapCell /\ m.mem \in [Addr -> HeapCell]
  BY CellsAre DEF HeapCell, Heaps
<1>3. f \in [Addr -> HeapCell]
  BY <1>2
<1>4. x.mem = f
  BY <1>1 DEF Heaps
<1>5. \A b \in Addr : f[b] = IF b = at THEN o ELSE IF b \in at+1..at+o.size-1 THEN body ELSE m.mem[b]
  OBVIOUS
<1> HIDE DEF f
<1>6. x \in Heaps
  BY <1>1, <1>3 DEF Heaps
<1>7. SamePages(m, x) /\ SameWork(m, x) /\ x.new_areas = m.new_areas /\ x.overflow = m.overflow
  BY <1>1 DEF Heaps, SamePages, SameWork
<1> HIDE DEF x
<1>8. QED
  BY <1>4, <1>5, <1>6, <1>7 DEF x

LEMMA FillOK ==
  ASSUME NEW m \in Heaps, HeapOK(m), NEW at, NEW n \in Nat, NEW k \in Regions, Vacant(m, at, n, k),
         NEW o \in Objs, o.size = n, o.kind = "vec" => k = "boxed"
  PROVE  HeapOK(Fill(m, at, o)) /\ Fill(m, at, o) \in Heaps
<1> DEFINE x == Fill(m, at, o)
<1>1. at \in Addr /\ at \in Int /\ PageOf(at) \in Pages /\ PageOf(at) \in Int
  BY PageIsIn DEF Vacant, Pages
<1>2. n >= 1 /\ o.t = "obj" /\ o.kind \in Kind /\ n <= Size[o.kind]
  <2>1. o.size \in 1..Size[o.kind] /\ o.kind \in Kind
    BY DEF Objs
  <2>2. Size[o.kind] \in Nat
    BY <2>1, Sizes
  <2>3. QED
    BY <2>1, <2>2 DEF Objs
<1>3. /\ x \in Heaps /\ SamePages(m, x) /\ SameWork(m, x) /\ x.new_areas = m.new_areas
      /\ x.mem[at] = o
      /\ \A b \in Addr : x.mem[b] = IF b = at THEN o ELSE IF b \in at+1..at+n-1 THEN body ELSE m.mem[b]
  BY <1>1, FillIs
<1> HIDE DEF x
<1>4. \A b \in Addr : b \notin at..at+n-1 => x.mem[b] = m.mem[b]
  BY <1>1, <1>2, <1>3
<1>5. NoAreas(x)
  BY <1>3 DEF HeapOK, NoAreas, SameWork
<1>6. \A b \in Addr : x.mem[b] # m.mem[b] => m.page[PageOf(b)].alloc /\ Held(m, b)
  BY <1>4 DEF Vacant
<1>7. Bodies(x)
  <2>1. ASSUME NEW b \in Addr, x.mem[b].t = "obj" PROVE Whole(x, b)
    <3>1. CASE b = at
      <4>1. x.mem[b].size = n
        BY <1>3, <3>1
      <4>2. \A e \in at+1..at+n-1 : e \in Addr /\ x.mem[e] = body
        <5>1. ASSUME NEW e \in at+1..at+n-1 PROVE e \in at..at+n-1 /\ e # at
          BY <1>1
        <5>2. QED
          BY <1>3, <5>1 DEF Vacant
      <4>3. QED
        BY <1>3, <3>1, <4>1, <4>2 DEF Whole, Vacant, SamePages
    <3>2. CASE b # at
      <4>1. x.mem[b] = m.mem[b] /\ b \notin at+1..at+n-1
        <5>1. x.mem[b] # body
          BY <2>1, CellsAre
        <5>2. QED
          BY <1>3, <3>2, <5>1
      <4>2. Whole(m, b)
        BY <2>1, <4>1 DEF HeapOK, PagesOK, Bodies
      <4>3. ASSUME NEW e \in b+1..b+m.mem[b].size-1 PROVE e \in Addr /\ x.mem[e] = body
        <5>1. e \in Addr /\ m.mem[e] = body
          BY <4>2, <4>3 DEF Whole
        <5>2. e \notin at..at+n-1
          BY <5>1, CellsAre DEF Vacant
        <5>3. QED
          BY <1>4, <5>1, <5>2
      <4>4. QED
        BY <1>3, <4>1, <4>2, <4>3 DEF Whole, SamePages
    <3>3. QED
      BY <3>1, <3>2
  <2>2. QED
    BY <2>1 DEF Bodies
<1>8. LargeOK(x)
  <2>1. ASSUME NEW q \in Pages, m.page[q].alloc, m.page[q].large PROVE LargeAlone(x, q)
    <3> DEFINE s == StartOf(m, q)
               p == PageOf(s)
    <3>1. LargeAlone(m, q) /\ s \in Addr /\ p \in Pages /\ p <= q /\ InChain(m, q, p)
      BY <2>1, LargeStart DEF HeapOK
    <3>2. StartOf(x, q) = s /\ x.page = m.page
      BY <1>3 DEF StartOf, SamePages
    <3>3. s = page_address(p) /\ m.page[p].offset = 0 /\ s \in Int /\ p \in Int
      BY <3>1, PageIsIn DEF LargeAlone, Pages
    <3> HIDE DEF s, p
    <3>4. CASE s = at
      <4>1. m.page[p].large /\ m.page[p].unboxed = m.page[q].unboxed
        BY <2>1, <3>1 DEF InChain
      <4>2. PageOf(at + n - 1) \in Int /\ p <= PageOf(at + n - 1) /\ p = PageOf(at)
        BY <1>1, <1>2, <3>4, PageOrder DEF p
      <4>3. n >= LargeSize /\ m.page[p].unboxed = (k = "unboxed")
        <5>1. p \in PageOf(at)..PageOf(at+n-1)
          BY <3>3, <4>2
        <5>2. QED
          BY <4>1, <5>1 DEF Vacant
      <4>4. o.kind \in vector
        <5>1. Size[o.kind] >= LargeSize
          <6>1. Size[o.kind] \in Nat /\ LargeSize \in Nat
            BY <1>2, Sizes, Constants
          <6>2. QED
            BY <1>2, <4>3, <6>1
        <5>2. QED
          BY <1>2, <5>1, Sizes
      <4>5. o.kind = "vec" => ~m.page[q].unboxed
        BY <4>1, <4>3
      <4>6. m.mem[s] = zero /\ \A a \in Addr : PageOf(a) = q => m.mem[a] = zero
        <5>1. at \in at..at+n-1
          BY <1>1, <1>2
        <5>2. m.mem[s] = zero
          BY <3>4, <5>1 DEF Vacant
        <5>3. QED
          BY <3>1, <5>2, CellsAre DEF LargeAlone, s
      <4>7. \A a \in Addr : PageOf(a) = q /\ a >= s + n => x.mem[a] = zero
        <5>1. ASSUME NEW a \in Addr, PageOf(a) = q, a >= s + n PROVE x.mem[a] = zero
          <6>1. a \in Int
            BY PageIsIn
          <6>2. a \notin at..at+n-1
            BY <1>1, <3>4, <5>1, <6>1
          <6>3. QED
            BY <1>4, <4>6, <5>1, <6>2
        <5>2. QED
          BY <5>1
      <4>8. x.mem[s] = o /\ o.size = n
        BY <1>3, <3>4
      <4>9. QED
        BY <1>2, <3>1, <3>2, <3>3, <4>4, <4>5, <4>7, <4>8 DEF LargeAlone, p
    <3>5. CASE s # at
      <4>1. s \notin at..at+n-1
        <5> SUFFICES ASSUME s \in at..at+n-1 PROVE FALSE
          OBVIOUS
        <5>1. s > at /\ s <= at + n - 1
          BY <1>1, <3>3, <3>5
        <5>2. PageOf(at) <= p /\ p <= PageOf(at + n - 1) /\ PageOf(at + n - 1) \in Int
          BY <1>1, <3>3, <5>1, PageOrder DEF p
        <5>3. PageOf(at) # p
          <6>1. page_address(PageOf(at)) <= at
            BY <1>1, PageBounds
          <6>2. QED
            BY <1>1, <3>3, <5>1, <6>1
        <5>4. p \in PageOf(at)+1..PageOf(at+n-1)
          BY <1>1, <3>3, <5>2, <5>3
        <5>5. m.page[p].offset >= s - at
          BY <3>3, <5>4 DEF Vacant
        <5>6. QED
          BY <1>1, <3>3, <5>1, <5>5
      <4>2. x.mem[s] = m.mem[s]
        BY <1>4, <3>1, <4>1
      <4>3. ASSUME NEW a \in Addr, PageOf(a) = q PROVE x.mem[a] = m.mem[a]
        <5> SUFFICES ASSUME a \in at..at+n-1 PROVE FALSE
          BY <1>4
        <5>1. PageOf(at) <= q /\ q <= PageOf(at + n - 1) /\ PageOf(at + n - 1) \in Int
          BY <1>1, <1>2, <4>3, PageOrder, PageIsIn
        <5>2. q \in PageOf(at)..PageOf(at+n-1)
          BY <1>1, <5>1 DEF Pages
        <5>3. StartOf(m, q) = at
          BY <2>1, <5>2 DEF Vacant
        <5>4. QED
          BY <3>5, <5>3 DEF s
      <4>4. CASE m.mem[s] = zero /\ \A a \in Addr : PageOf(a) = q => m.mem[a] = zero
        BY <3>1, <3>2, <3>3, <4>2, <4>3, <4>4 DEF LargeAlone, p
      <4>5. CASE /\ m.mem[s].t = "obj" /\ m.mem[s].kind \in vector
                 /\ m.mem[s].kind = "vec" => ~m.page[q].unboxed
                 /\ \A a \in Addr : PageOf(a) = q /\ a >= s + m.mem[s].size => m.mem[a] = zero
        BY <3>1, <3>2, <3>3, <4>2, <4>3, <4>5 DEF LargeAlone, p
      <4>6. QED
        BY <3>1, <4>4, <4>5 DEF LargeAlone, s
    <3>6. QED
      BY <3>4, <3>5
  <2>2. QED
    BY <1>3, <2>1 DEF LargeOK, SamePages
<1>9. HeapOK(x)
  BY <1>3, <1>5, <1>6, <1>7, <1>8, CellsChanged
<1>10. QED
  BY <1>3, <1>9 DEF x

\* shrink-vector: the vector at a gets one cell less, which becomes zero.
Shrunk(m, a) == [m EXCEPT !.mem[a].size = m.mem[a].size - 1, !.mem[a + m.mem[a].size - 1] = zero]

LEMMA ShrunkOK ==
  ASSUME NEW m \in Heaps, HeapOK(m), NEW a \in Addr, m.mem[a].t = "obj", m.mem[a].kind \in vector,
         m.mem[a].size > 1
  PROVE  HeapOK(Shrunk(m, a)) /\ Shrunk(m, a) \in Heaps
<1> DEFINE x == Shrunk(m, a)
           n == m.mem[a].size
           e == a + n - 1
           o == [m.mem[a] EXCEPT !.size = n - 1]
<1>0. n \in Nat /\ n >= 1 /\ a \in Int /\ e \in Addr
  BY ObjectEnd DEF HeapOK
<1>1. e # a /\ e \in Int /\ e > a /\ n > 1
  BY <1>0
<1>2. m.mem[a] \in Objs /\ n <= Size[m.mem[a].kind] /\ Size[m.mem[a].kind] \in Nat
  <2>1. m.mem[a] \in HeapCell
    BY DEF Heaps
  <2>2. QED
    BY <2>1, ObjectIs, Sizes
<1>3. o \in Objs /\ o.t = "obj" /\ o.kind = m.mem[a].kind /\ o.size = n - 1
  <2>1. o.t = "obj" /\ o.kind = m.mem[a].kind /\ o.size = n - 1 /\ o.refs = m.mem[a].refs
    BY <1>2 DEF Objs
  <2>2. n - 1 \in 1..Size[m.mem[a].kind]
    BY <1>0, <1>1, <1>2
  <2>3. o \in [t : {"obj"}, id : 1..MaxObjects, kind : Kind, size : Nat, refs : Seq(Addr \union {NIL})]
    BY <1>2, <2>2 DEF Objs
  <2>4. QED
    BY <1>2, <2>1, <2>2, <2>3 DEF Objs
<1> HIDE DEF o
<1>4. m.mem \in [Addr -> HeapCell] /\ o \in HeapCell /\ zero \in HeapCell
  BY <1>3, CellsAre DEF Heaps, HeapCell
<1> DEFINE y == Put(m, a, o)
<1>5. /\ y \in Heaps /\ SamePages(m, y) /\ SameWork(m, y) /\ y.new_areas = m.new_areas
      /\ y.mem[a] = o /\ \A b \in Addr : b # a => y.mem[b] = m.mem[b]
  BY <1>4, PutIs
<1>6. x = Put(y, e, zero)
  <2>1. y = [m EXCEPT !.mem[a].size = n - 1]
    BY DEF Put, o
  <2>2. QED
    BY <2>1 DEF Shrunk, Put
<1> HIDE DEF y, x, e
<1>7. /\ x \in Heaps /\ SamePages(y, x) /\ SameWork(y, x) /\ x.new_areas = y.new_areas
      /\ x.mem[e] = zero /\ \A b \in Addr : b # e => x.mem[b] = y.mem[b]
  <2>1. e \in Addr
    BY <1>0 DEF e
  <2>2. /\ Put(y, e, zero) \in Heaps /\ SamePages(y, Put(y, e, zero)) /\ SameWork(y, Put(y, e, zero))
        /\ Put(y, e, zero).new_areas = y.new_areas
        /\ Put(y, e, zero).mem[e] = zero /\ \A b \in Addr : b # e => Put(y, e, zero).mem[b] = y.mem[b]
    BY <1>4, <1>5, <2>1, PutIs
  <2>3. QED
    BY <1>6, <2>2
<1>8. SamePages(m, x) /\ SameWork(m, x) /\ x.new_areas = m.new_areas /\ x.mem[e] = zero /\ x.mem[a] = o
      /\ \A b \in Addr : b # a /\ b # e => x.mem[b] = m.mem[b]
  BY <1>1, <1>5, <1>7 DEF SamePages, SameWork
<1>9. NoAreas(x)
  BY <1>8 DEF HeapOK, NoAreas, SameWork
<1>10. m.mem[e] = body
  <2>1. e \in a..a+m.mem[a].size-1
    BY <1>0, <1>1 DEF e
  <2>2. QED
    BY <1>1, <2>1, ObjectCells DEF HeapOK
<1>11. \A b \in Addr : x.mem[b] # m.mem[b] => m.page[PageOf(b)].alloc /\ Held(m, b)
  <2>1. m.page[PageOf(a)].alloc /\ Held(m, a)
    BY ObjectHeld DEF HeapOK
  <2>2. m.page[PageOf(e)].alloc /\ Held(m, e)
    BY <1>0, <1>10, CellsAre, NotZeroHeld DEF HeapOK
  <2>3. QED
    BY <1>8, <2>1, <2>2
<1>12. Bodies(x)
  <2>1. ASSUME NEW b \in Addr, x.mem[b].t = "obj" PROVE Whole(x, b)
    <3>1. b # e
      BY <1>8, <2>1, CellsAre
    <3>2. CASE b = a
      <4>1. Whole(m, a)
        BY DEF HeapOK, PagesOK, Bodies
      <4>2. x.mem[b].size = n - 1
        BY <1>3, <1>8, <3>2
      <4>3. ASSUME NEW d \in b+1..b+(n-1)-1 PROVE d \in Addr /\ x.mem[d] = body
        <5>1. d \in a+1..a+n-1 /\ d # a /\ d # e
          BY <1>0, <1>1, <3>2 DEF e
        <5>2. QED
          BY <1>8, <4>1, <5>1 DEF Whole
      <4>4. PageOf(b+(n-1)-1) <= PageOf(a+n-1) /\ PageOf(a+n-1) \in Int /\ PageOf(b+(n-1)-1) \in Int /\ PageOf(b) \in Int
        BY <1>0, <3>2, PageOrder, PageBounds
      <4>5. ASSUME NEW z \in PageOf(b)+1..PageOf(b+(n-1)-1) PROVE x.page[z].offset >= page_address(z) - b
        <5>1. z \in PageOf(a)+1..PageOf(a+n-1)
          BY <3>2, <4>4
        <5>2. QED
          BY <1>8, <3>2, <4>1, <5>1 DEF Whole, SamePages
      <4>6. QED
        BY <4>2, <4>3, <4>5 DEF Whole
    <3>3. CASE b # a
      <4>1. x.mem[b] = m.mem[b]
        BY <1>8, <3>1, <3>3
      <4>2. Whole(m, b) /\ m.mem[b].t = "obj"
        BY <2>1, <4>1 DEF HeapOK, PagesOK, Bodies
      <4>3. m.mem[b].size \in Nat /\ m.mem[b].size >= 1 /\ b \in Int
        BY <4>2, ObjectEnd DEF HeapOK
      <4>4. b \notin a..a+n-1
        BY <3>3, <4>2, ObjectsApart DEF HeapOK
      <4>5. a \notin b..b+m.mem[b].size-1
        BY <3>3, <4>2, ObjectsApart DEF HeapOK
      <4>6. ASSUME NEW d \in b+1..b+m.mem[b].size-1 PROVE d \in Addr /\ x.mem[d] = body
        <5>1. d # e /\ d # a
          BY <1>0, <1>1, <4>3, <4>4, <4>5 DEF e
        <5>2. QED
          BY <1>8, <4>2, <5>1 DEF Whole
      <4>7. QED
        BY <1>8, <4>1, <4>2, <4>6 DEF Whole, SamePages
    <3>4. QED
      BY <3>2, <3>3
  <2>2. QED
    BY <2>1 DEF Bodies
<1>13. LargeOK(x)
  <2>1. ASSUME NEW q \in Pages, m.page[q].alloc, m.page[q].large PROVE LargeAlone(x, q)
    <3> DEFINE s == StartOf(m, q)
    <3>1. LargeAlone(m, q) /\ s \in Addr
      BY <2>1, LargeStart DEF HeapOK
    <3>2. StartOf(x, q) = s /\ x.page = m.page
      BY <1>8 DEF StartOf, SamePages
    <3>3. s = page_address(PageOf(s)) /\ m.page[PageOf(s)].offset = 0 /\ s \in Int
      BY <3>1, PageIsIn DEF LargeAlone
    <3>4. \A b \in Addr : m.mem[b] = zero => x.mem[b] = zero
      BY <1>8, CellsAre
    <3> HIDE DEF s
    <3>5. CASE m.mem[s] = zero /\ \A b \in Addr : PageOf(b) = q => m.mem[b] = zero
      BY <3>1, <3>2, <3>3, <3>4, <3>5 DEF LargeAlone
    <3>6. CASE /\ m.mem[s].t = "obj" /\ m.mem[s].kind \in vector
               /\ m.mem[s].kind = "vec" => ~m.page[q].unboxed
               /\ \A b \in Addr : PageOf(b) = q /\ b >= s + m.mem[s].size => m.mem[b] = zero
      <4>1. s # e
        BY <1>10, <3>6, CellsAre
      <4>2. CASE s = a
        <5>1. x.mem[s].t = "obj" /\ x.mem[s].kind = m.mem[s].kind /\ x.mem[s].size = n - 1
          BY <1>3, <1>8, <4>2
        <5>2. ASSUME NEW b \in Addr, PageOf(b) = q, b >= s + (n - 1) PROVE x.mem[b] = zero
          <6>1. b = e \/ b >= s + n
            BY <1>0, <4>2, <5>2, PageIsIn DEF e
          <6>2. QED
            BY <1>8, <3>4, <3>6, <4>2, <5>2, <6>1
        <5>3. QED
          BY <3>1, <3>2, <3>3, <3>6, <5>1, <5>2 DEF LargeAlone
      <4>3. CASE s # a
        <5>1. x.mem[s] = m.mem[s]
          BY <1>8, <3>1, <4>1, <4>3
        <5>2. QED
          BY <3>1, <3>2, <3>3, <3>4, <3>6, <5>1 DEF LargeAlone
      <4>4. QED
        BY <4>2, <4>3
    <3>7. QED
      BY <3>1, <3>5, <3>6 DEF LargeAlone, s
  <2>2. QED
    BY <1>8, <2>1 DEF LargeOK, SamePages
<1>14. HeapOK(x)
  BY <1>7, <1>8, <1>9, <1>11, <1>12, <1>13, CellsChanged
<1>15. QED
  BY <1>7, <1>14 DEF x

-----------------------------------------------------------------------------
(* Opening a region.                                                         *)
SameLists(m, x) ==
  /\ x.generations = m.generations /\ x.stats = m.stats /\ x.overflow = m.overflow
  /\ x.new_areas = m.new_areas /\ x.new_areas_ignore_page = m.new_areas_ignore_page

\* Free pages that are used again are filled with zeroes.
LEMMA MadviseIs ==
  ASSUME NEW m \in Heaps, HeapOK(m), NEW ps, NEW x, x = handle_madvise_pages(m, ps)
  PROVE  /\ x \in Heaps /\ SamePages(m, x) /\ SameWork(m, x) /\ SameLists(m, x)
         /\ \A a \in Addr : m.page[PageOf(a)].alloc => x.mem[a] = m.mem[a]
         /\ \A a \in Addr : x.mem[a] = m.mem[a] \/ x.mem[a] = zero
         /\ \A a \in Addr : ~m.page[PageOf(a)].alloc =>
               \/ \A b \in Addr : PageOf(b) = PageOf(a) => x.mem[b] = m.mem[b]
               \/ \A b \in Addr : PageOf(b) = PageOf(a) => x.mem[b] = zero
         /\ \A a \in Addr : PageOf(a) \in ps /\ ~m.page[PageOf(a)].alloc => x.mem[a] = zero
<1> DEFINE dirtied == {p \in ps : ~m.page[p].alloc /\ m.mem[page_address(p)] # zero}
           f == [a \in Addr |-> IF PageOf(a) \in dirtied THEN zero ELSE m.mem[a]]
<1>1. x = [m EXCEPT !.mem = f]
  BY DEF handle_madvise_pages, Heaps
<1>2. f \in [Addr -> HeapCell] /\ \A a \in Addr : f[a] = IF PageOf(a) \in dirtied THEN zero ELSE m.mem[a]
  BY CellsAre DEF Heaps
<1> HIDE DEF f
<1>3. x \in Heaps
  BY <1>1, <1>2 DEF Heaps
<1>4. SamePages(m, x) /\ SameWork(m, x) /\ SameLists(m, x) /\ x.mem = f
  BY <1>1 DEF Heaps, SamePages, SameWork, SameLists
<1>5. \A a \in Addr : PageOf(a) \in ps /\ ~m.page[PageOf(a)].alloc => x.mem[a] = zero
  <2>1. ASSUME NEW a \in Addr, PageOf(a) \in ps, ~m.page[PageOf(a)].alloc, PageOf(a) \notin dirtied
        PROVE m.mem[a] = zero
    <3>1. m.mem[page_address(PageOf(a))] = zero
      BY <2>1
    <3>2. QED
      BY <2>1, <3>1 DEF HeapOK, PagesOK, FreePages
  <2>2. QED
    BY <1>2, <1>4, <2>1
<1>6. \A a \in Addr : x.mem[a] = IF PageOf(a) \in dirtied THEN zero ELSE m.mem[a]
  BY <1>2, <1>4
<1>7. \A a \in Addr : m.page[PageOf(a)].alloc => PageOf(a) \notin dirtied
  OBVIOUS
<1> HIDE DEF dirtied
<1>8. QED
  BY <1>3, <1>4, <1>5, <1>6, <1>7

LEMMA MadviseOK ==
  ASSUME NEW m \in Heaps, HeapOK(m), NEW ps, NEW x, x = handle_madvise_pages(m, ps)
  PROVE  HeapOK(x)
<1>1. /\ x \in Heaps /\ SamePages(m, x) /\ SameWork(m, x) /\ SameLists(m, x)
      /\ \A a \in Addr : m.page[PageOf(a)].alloc => x.mem[a] = m.mem[a]
      /\ \A a \in Addr : x.mem[a] = m.mem[a] \/ x.mem[a] = zero
      /\ \A a \in Addr : ~m.page[PageOf(a)].alloc =>
            \/ \A b \in Addr : PageOf(b) = PageOf(a) => x.mem[b] = m.mem[b]
            \/ \A b \in Addr : PageOf(b) = PageOf(a) => x.mem[b] = zero
  BY MadviseIs
<1>2. \A a \in Addr : Held(x, a) = Held(m, a)
  BY <1>1 DEF Held, SamePages
<1>3. RestIsZero(x)
  BY <1>1, <1>2 DEF HeapOK, PagesOK, RestIsZero, SamePages
<1>4. FreePages(x)
  <2>1. ASSUME NEW a \in Addr, ~m.page[PageOf(a)].alloc
        PROVE  x.mem[a] \in {zero, dirty} /\ (x.mem[page_address(PageOf(a))] = zero => x.mem[a] = zero)
    <3> DEFINE p == PageOf(a)
    <3>1. p \in Pages
      BY PageIsIn
    <3>2. page_address(p) \in Addr /\ PageOf(page_address(p)) = p
      <4>1. p \in Int /\ page_address(p) \in Int /\ PageSize >= 1 /\ PageSize \in Nat
        BY <3>1, Paging DEF Pages
      <4> HIDE DEF p
      <4>2. QED
        BY <3>1, <4>1, CellIsIn
    <3>3. m.mem[a] \in {zero, dirty} /\ (m.mem[page_address(p)] = zero => m.mem[a] = zero)
      BY <2>1 DEF HeapOK, PagesOK, FreePages
    <3>4. \/ x.mem[a] = m.mem[a] /\ x.mem[page_address(p)] = m.mem[page_address(p)]
          \/ x.mem[a] = zero
      BY <1>1, <2>1, <3>2
    <3>5. QED
      BY <3>3, <3>4
  <2>2. QED
    BY <1>1, <2>1 DEF HeapOK, PagesOK, FreePages, SamePages
<1>5. RegionsOK(x)
  BY <1>1 DEF HeapOK, PagesOK, RegionsOK, Opened, SamePages
<1>6. EmptyInRegion(x) /\ AllBelow(x) /\ Links(x)
  BY <1>1 DEF HeapOK, PagesOK, EmptyInRegion, AllBelow, Links, LinkedTo, SamePages
<1>7. Counters(x)
  BY <1>1, CountersCarry DEF HeapOK, SamePages
<1>8. \A a \in Addr : m.mem[a] # dirty => x.mem[a] = m.mem[a]
  BY <1>1, NotZeroHeld DEF HeapOK
<1>9. Bodies(x)
  <2>1. ASSUME NEW a \in Addr, x.mem[a].t = "obj" PROVE Whole(x, a)
    <3>1. x.mem[a] = m.mem[a]
      BY <1>1, <2>1, CellsAre
    <3>2. Whole(m, a)
      BY <2>1, <3>1 DEF HeapOK, PagesOK, Bodies
    <3>3. \A e \in a+1..a+m.mem[a].size-1 : e \in Addr /\ x.mem[e] = body
      BY <1>8, <3>2, CellsAre DEF Whole
    <3>4. QED
      BY <1>1, <3>1, <3>2, <3>3 DEF Whole, SamePages
  <2>2. QED
    BY <2>1 DEF Bodies
<1>10. LargeOK(x)
  <2>1. ASSUME NEW q \in Pages, m.page[q].alloc, m.page[q].large PROVE LargeAlone(x, q)
    <3> DEFINE s == StartOf(m, q)
    <3>1. LargeAlone(m, q) /\ s \in Addr
      BY <2>1, LargeStart DEF HeapOK
    <3>2. StartOf(x, q) = s /\ x.page = m.page
      BY <1>1 DEF StartOf, SamePages
    <3>3. \A b \in Addr : m.mem[b] = zero => x.mem[b] = zero
      BY <1>1
    <3>4. m.mem[s] = zero \/ m.mem[s].t = "obj"
      BY <3>1 DEF LargeAlone
    <3>5. x.mem[s] = m.mem[s]
      BY <1>8, <3>1, <3>4, CellsAre
    <3> HIDE DEF s
    <3>6. QED
      BY <3>1, <3>2, <3>3, <3>5 DEF LargeAlone, s
  <2>2. QED
    BY <1>1, <2>1 DEF LargeOK, SamePages
<1>11. NoAreas(x)
  BY <1>1 DEF HeapOK, NoAreas, SameWork, SameLists
<1>12. QED
  BY <1>1, <1>3, <1>4, <1>5, <1>6, <1>7, <1>9, <1>10, <1>11 DEF HeapOK, PagesOK

\* A region of kind k can be opened on the pages from first to last.
Openable(m, first, last, k) ==
  /\ first \in Pages /\ last \in Pages /\ first <= last /\ m.region[k] = ResetRegion
  /\ m.page[first].alloc =>
        /\ ~m.page[first].wp /\ ~m.page[first].large /\ ~m.page[first].pinned
        /\ m.page[first].unboxed = (k = "unboxed") /\ m.page[first].gen = m.gc_alloc_generation
        /\ m.page[first].used < PageSize /\ m.page[first].used # 0
  /\ \A p \in first+1..last : ~m.page[p].alloc
  /\ \A a \in Addr : PageOf(a) \in first..last /\ ~m.page[PageOf(a)].alloc => m.mem[a] = zero

RegionPage(m, x, p, k) ==
  /\ x.page[p].alloc /\ ~x.page[p].large /\ x.page[p].unboxed = (k = "unboxed")
  /\ x.page[p].gen = m.gc_alloc_generation /\ x.page[p].used = 0 /\ ~x.page[p].wp /\ ~x.page[p].pinned

LEMMA OpenRegionIs ==
  ASSUME NEW m \in Heaps, HeapOK(m), NEW k \in Regions, NEW first, NEW last, Openable(m, first, last, k),
         NEW x, x = OpenRegion(m, first, last, k)
  PROVE  /\ x \in Heaps /\ x.mem = m.mem /\ SameWork(m, x) /\ SameLists(m, x)
         /\ \A j \in Regions : j # k => x.region[j] = m.region[j]
         /\ x.region[k].first = first /\ x.region[k].last = last
         /\ x.region[k].start = page_address(first) + m.page[first].used
         /\ x.region[k].free = x.region[k].start /\ x.region[k].end = page_address(last + 1)
         /\ x.last_free_page >= last + 1 /\ x.last_free_page >= m.last_free_page
         /\ \A p \in Pages : p \notin first..last => x.page[p] = m.page[p]
         /\ m.page[first].used # 0 => x.page[first] = m.page[first]
         /\ m.page[first].used = 0 => RegionPage(m, x, first, k) /\ x.page[first].offset = 0
         /\ \A p \in first+1..last : RegionPage(m, x, p, k) /\ x.page[p].offset = page_address(p) - x.region[k].start
<1> DEFINE start == page_address(first) + m.page[first].used
           open(q) == [q EXCEPT !.alloc = TRUE, !.large = FALSE, !.unboxed = (k = "unboxed"),
                                !.gen = m.gc_alloc_generation]
           r == [first |-> first, last |-> last, start |-> start, free |-> start, end |-> page_address(last + 1)]
           head == [open(m.page[first]) EXCEPT !.wp = FALSE, !.pinned = FALSE, !.offset = 0]
           next(p) == [open(m.page[p]) EXCEPT !.offset = page_address(p) - start]
           f == [p \in Pages |-> IF p = first /\ m.page[p].used = 0 THEN head
                                 ELSE IF p \in first+1..last THEN next(p) ELSE m.page[p]]
<1>0. first \in Int /\ last \in Int /\ 0 <= first /\ first < NPages /\ last < NPages /\ NPages \in Nat /\ PageSize \in Nat
      /\ first <= last
  BY Paging DEF Openable, Pages
<1>1. m.page \in [Pages -> Page] /\ m.gc_alloc_generation \in Gen /\ first \in Pages
  BY DEF Heaps, Openable
<1>2. m.page[first].used \in Nat /\ m.page[first].used <= PageSize
  BY <1>1, PageIs
<1>3. page_address(first) \in Nat /\ page_address(last + 1) \in Nat
  <2>1. page_address(first) \in Int /\ page_address(last + 1) \in Int /\ page_address(0) = 0
    BY <1>0, Paging
  <2>2. 0 < first => page_address(0) + PageSize <= page_address(first)
    BY <1>0, Paging
  <2>3. 0 < last + 1 => page_address(0) + PageSize <= page_address(last + 1)
    BY <1>0, Paging
  <2>4. QED
    BY <1>0, <2>1, <2>2, <2>3
<1>4. start \in Nat
  BY <1>2, <1>3
<1>5. ASSUME NEW p \in first+1..last
      PROVE  p \in Pages /\ page_address(p) - start \in 0..NPages*PageSize
  <2>1. p \in Pages /\ p \in Int /\ first < p /\ p < NPages
    BY <1>0 DEF Pages
  <2>2. page_address(first) + PageSize <= page_address(p) /\ page_address(p) + PageSize <= page_address(NPages)
    BY <1>0, <2>1, Paging
  <2>3. page_address(NPages) = NPages*PageSize /\ page_address(p) \in Int /\ page_address(NPages) \in Int
    BY <1>0, <2>1, Paging DEF page_address
  <2>4. page_address(p) - start >= 0 /\ page_address(p) - start <= page_address(NPages)
    BY <1>0, <1>2, <1>3, <2>2, <2>3
  <2>5. QED
    BY <1>4, <2>1, <2>3, <2>4
<1> HIDE DEF start
<1>6. head \in Page /\ head.alloc /\ ~head.large /\ head.unboxed = (k = "unboxed") /\ head.gen = m.gc_alloc_generation
      /\ head.used = m.page[first].used /\ ~head.wp /\ ~head.pinned /\ head.offset = 0
  <2>1. m.page[first] \in Page
    BY <1>1
  <2>2. 0 \in 0..NPages*PageSize
    BY <1>0
  <2>3. QED
    BY <1>1, <2>1, <2>2 DEF Page
<1>7. ASSUME NEW p \in first+1..last
      PROVE  /\ next(p) \in Page /\ next(p).alloc /\ ~next(p).large /\ next(p).unboxed = (k = "unboxed")
             /\ next(p).gen = m.gc_alloc_generation /\ next(p).used = m.page[p].used
             /\ next(p).wp = m.page[p].wp /\ next(p).pinned = m.page[p].pinned
             /\ next(p).offset = page_address(p) - start
  <2>1. m.page[p] \in Page
    BY <1>1, <1>5
  <2>2. page_address(p) - start \in 0..NPages*PageSize
    BY <1>5
  <2>3. QED
    BY <1>1, <2>1, <2>2 DEF Page
<1> HIDE DEF head, next
<1>8. f \in [Pages -> Page] /\ \A p \in Pages : f[p] = IF p = first /\ m.page[p].used = 0 THEN head
                                 ELSE IF p \in first+1..last THEN next(p) ELSE m.page[p]
  BY <1>1, <1>6, <1>7
<1>9. r \in Region /\ r.first = first /\ r.last = last /\ r.start = start /\ r.free = start /\ r.end = page_address(last + 1)
  BY <1>0, <1>3, <1>4 DEF Region
<1>10. Bump(m, last) \in 0..NPages /\ Bump(m, last) >= last + 1 /\ Bump(m, last) >= m.last_free_page
  <2>1. m.last_free_page \in 0..NPages
    BY DEF Heaps
  <2>2. QED
    BY <1>0, <2>1 DEF Bump
<1>11. x = [m EXCEPT !.region = [m.region EXCEPT ![k] = r], !.page = f, !.last_free_page = Bump(m, last)]
  <2>1. x = [m EXCEPT !.region[k] = r, !.page = f, !.last_free_page = Bump(m, last)]
    BY DEF OpenRegion, r, f, start, head, next
  <2>2. QED
    BY <2>1 DEF Heaps
<1> HIDE DEF f, r
<1>12. [m.region EXCEPT ![k] = r] \in [Regions -> Region] /\ [m.region EXCEPT ![k] = r][k] = r
       /\ \A j \in Regions : j # k => [m.region EXCEPT ![k] = r][j] = m.region[j]
  BY <1>9 DEF Heaps
<1>13. x \in Heaps
  BY <1>8, <1>10, <1>11, <1>12 DEF Heaps
<1>14. /\ x.mem = m.mem /\ x.page = f /\ x.region = [m.region EXCEPT ![k] = r]
       /\ x.last_free_page = Bump(m, last) /\ SameWork(m, x) /\ SameLists(m, x)
  BY <1>11 DEF Heaps, SameWork, SameLists
<1>15. /\ \A j \in Regions : j # k => x.region[j] = m.region[j]
       /\ x.region[k] = r
  BY <1>12, <1>14
<1>16. ASSUME NEW p \in Pages, p \notin first..last PROVE x.page[p] = m.page[p]
  BY <1>0, <1>8, <1>14, <1>16 DEF Pages
<1>17. first \notin first+1..last
  BY <1>0
<1>18. m.page[first].used # 0 => x.page[first] = m.page[first]
  BY <1>1, <1>8, <1>14, <1>17
<1>19. m.page[first].used = 0 => RegionPage(m, x, first, k) /\ x.page[first].offset = 0
  BY <1>1, <1>6, <1>8, <1>14 DEF RegionPage
<1>20. ASSUME NEW p \in first+1..last
       PROVE RegionPage(m, x, p, k) /\ x.page[p].offset = page_address(p) - x.region[k].start
  <2>1. x.page[p] = next(p)
    BY <1>5, <1>8, <1>14, <1>17
  <2>2. ~m.page[p].alloc /\ m.page[p].used = 0 /\ ~m.page[p].wp /\ ~m.page[p].pinned
    BY <1>5 DEF Openable, HeapOK, PagesOK, FreePages
  <2>3. QED
    BY <1>7, <1>9, <1>15, <2>1, <2>2 DEF RegionPage
<1>21. QED
  BY <1>9, <1>10, <1>13, <1>14, <1>15, <1>16, <1>18, <1>19, <1>20 DEF start

\* A region stays open when it and its pages stay as they are.
LEMMA OpenedKept ==
  ASSUME NEW m, NEW x, NEW k, Opened(m, k), x.region[k] = m.region[k],
         x.gc_alloc_generation = m.gc_alloc_generation,
         \A p \in m.region[k].first..m.region[k].last : x.page[p] = m.page[p]
  PROVE  Opened(x, k)
<1> DEFINE r == m.region[k]
<1>1. /\ r.first \in Pages /\ r.last \in Pages /\ r.first <= r.last /\ m.page[r.first].used < PageSize
      /\ m.page[r.first].used = 0 => m.page[r.first].offset = 0
      /\ r.start = page_address(r.first) + m.page[r.first].used
      /\ r.start <= r.free /\ r.free <= r.end /\ r.end = page_address(r.last + 1)
  BY DEF Opened
<1>2. \A p \in r.first..r.last :
        /\ m.page[p].alloc /\ m.page[p].gen = m.gc_alloc_generation
        /\ m.page[p].unboxed = (k = "unboxed")
        /\ ~m.page[p].wp /\ ~m.page[p].large /\ ~m.page[p].pinned
  BY DEF Opened
<1>3. \A p \in r.first+1..r.last : m.page[p].used = 0 /\ m.page[p].offset = page_address(p) - r.start
  BY DEF Opened
<1>4. x.region[k] = r /\ \A p \in r.first..r.last : x.page[p] = m.page[p]
  OBVIOUS
<1> HIDE DEF r
<1>5. r.first \in r.first..r.last /\ \A p \in r.first+1..r.last : p \in r.first..r.last
  BY <1>1, Paging DEF Pages
<1>6. x.page[r.first] = m.page[r.first]
  BY <1>4, <1>5
<1>7. \A p \in r.first..r.last :
        /\ x.page[p].alloc /\ x.page[p].gen = x.gc_alloc_generation
        /\ x.page[p].unboxed = (k = "unboxed")
        /\ ~x.page[p].wp /\ ~x.page[p].large /\ ~x.page[p].pinned
  BY <1>2, <1>4
<1>8. \A p \in r.first+1..r.last : x.page[p].used = 0 /\ x.page[p].offset = page_address(p) - r.start
  BY <1>3, <1>4, <1>5
<1>9. QED
  BY <1>1, <1>4, <1>6, <1>7, <1>8 DEF Opened

LEMMA OpenRegionOK ==
  ASSUME NEW m \in Heaps, HeapOK(m), NEW k \in Regions, NEW first, NEW last, Openable(m, first, last, k),
         NEW x, x = OpenRegion(m, first, last, k)
  PROVE  HeapOK(x) /\ Opened(x, k)
<1>0. first \in Int /\ last \in Int /\ 0 <= first /\ first < NPages /\ last < NPages /\ NPages \in Nat /\ PageSize \in Nat
      /\ first <= last /\ first \in Pages /\ last \in Pages /\ PageSize >= 1
  BY Paging DEF Openable, Pages
<1>1. /\ x \in Heaps /\ x.mem = m.mem /\ SameWork(m, x) /\ SameLists(m, x)
      /\ \A j \in Regions : j # k => x.region[j] = m.region[j]
      /\ x.region[k].first = first /\ x.region[k].last = last
      /\ x.region[k].start = page_address(first) + m.page[first].used
      /\ x.region[k].free = x.region[k].start /\ x.region[k].end = page_address(last + 1)
      /\ x.last_free_page >= last + 1 /\ x.last_free_page >= m.last_free_page
      /\ \A p \in Pages : p \notin first..last => x.page[p] = m.page[p]
      /\ m.page[first].used # 0 => x.page[first] = m.page[first]
      /\ m.page[first].used = 0 => RegionPage(m, x, first, k) /\ x.page[first].offset = 0
      /\ \A p \in first+1..last : RegionPage(m, x, p, k) /\ x.page[p].offset = page_address(p) - x.region[k].start
  BY OpenRegionIs
<1>2. ASSUME NEW p \in Pages
      PROVE  /\ x.page[p] = m.page[p]
                \/ /\ p \in first..last /\ ~m.page[p].alloc /\ RegionPage(m, x, p, k) /\ m.page[p].used = 0
             /\ x.page[p].used = m.page[p].used
             /\ p \notin first..last => x.page[p] = m.page[p]
  <2>1. p \in first..last => p = first \/ p \in first+1..last
    BY <1>0
  <2>2. ~m.page[p].alloc => m.page[p].used = 0
    BY DEF HeapOK, PagesOK, FreePages
  <2>3. m.page[first].used = 0 => ~m.page[first].alloc
    BY DEF Openable
  <2>4. CASE p \notin first..last
    BY <1>1, <2>4
  <2>5. CASE p = first
    <3>1. CASE m.page[first].used = 0
      BY <1>0, <1>1, <2>3, <2>5, <3>1 DEF RegionPage
    <3>2. CASE m.page[first].used # 0
      BY <1>0, <1>1, <2>5, <3>2
    <3>3. QED
      BY <3>1, <3>2
  <2>6. CASE p \in first+1..last
    <3>1. ~m.page[p].alloc /\ p \in first..last
      BY <1>0, <2>6 DEF Openable
    <3>2. RegionPage(m, x, p, k)
      BY <1>1, <2>6
    <3>3. QED
      BY <2>2, <3>1, <3>2 DEF RegionPage
  <2>7. QED
    BY <2>1, <2>4, <2>5, <2>6
<1>3. \A p \in Pages : m.page[p].alloc => x.page[p] = m.page[p]
  BY <1>2
<1>4. \A p \in Pages : x.page[p].used # 0 => x.page[p] = m.page[p]
  BY <1>2 DEF RegionPage
<1>5. Opened(x, k)
  <2>1. m.page[first].used \in Nat /\ m.page[first].used <= PageSize
    BY <1>0, PageIs
  <2>2. x.page[first].used = m.page[first].used /\ x.page[first].used < PageSize
    <3>1. m.page[first].used # 0 => m.page[first].alloc
      BY <1>0 DEF HeapOK, PagesOK, FreePages
    <3>2. QED
      BY <1>0, <1>2, <2>1, <3>1 DEF Openable
  <2>3. x.page[first].used = 0 => x.page[first].offset = 0
    BY <1>1, <2>2
  <2>4. x.region[k].free <= x.region[k].end /\ x.region[k].start <= x.region[k].free
    <3>1. page_address(first) \in Int /\ page_address(last + 1) \in Int
      BY <1>0, Paging
    <3>2. first < last + 1 => page_address(first) + PageSize <= page_address(last + 1)
      BY <1>0, Paging
    <3>3. x.region[k].start <= x.region[k].end
      BY <1>0, <1>1, <2>1, <3>1, <3>2
    <3>4. QED
      BY <1>1, <2>1, <3>1, <3>3
  <2>5. ASSUME NEW p \in first..last
        PROVE  /\ x.page[p].alloc /\ x.page[p].gen = x.gc_alloc_generation
               /\ x.page[p].unboxed = (k = "unboxed")
               /\ ~x.page[p].wp /\ ~x.page[p].large /\ ~x.page[p].pinned
    <3>1. p = first \/ p \in first+1..last
      BY <1>0
    <3>2. m.page[first].used # 0 => m.page[first].alloc
      BY <1>0 DEF HeapOK, PagesOK, FreePages
    <3>3. x.gc_alloc_generation = m.gc_alloc_generation
      BY <1>1 DEF SameWork
    <3>4. CASE p = first /\ m.page[first].used # 0
      BY <1>1, <3>2, <3>3, <3>4 DEF Openable
    <3>5. CASE p = first /\ m.page[first].used = 0
      BY <1>1, <3>3, <3>5 DEF RegionPage
    <3>6. CASE p \in first+1..last
      BY <1>1, <3>3, <3>6 DEF RegionPage
    <3>7. QED
      BY <3>1, <3>4, <3>5, <3>6
  <2>6. \A p \in first+1..last : x.page[p].used = 0 /\ x.page[p].offset = page_address(p) - x.region[k].start
    BY <1>1 DEF RegionPage
  <2>7. QED
    BY <1>0, <1>1, <2>2, <2>3, <2>4, <2>5, <2>6 DEF Opened
<1>6. ASSUME NEW j \in Regions, j # k, Opened(m, j) PROVE Opened(x, j)
  <2> DEFINE r == m.region[j]
  <2>1. x.region[j] = r /\ r.first \in Pages /\ r.last \in Pages
    BY <1>1, <1>6 DEF Opened
  <2>2. \A p \in r.first..r.last : p \in Pages /\ m.page[p].alloc
    BY <1>6, <2>1, Paging DEF Opened, Pages
  <2>4. \A p \in r.first..r.last : x.page[p] = m.page[p]
    BY <1>3, <2>2
  <2>5. x.gc_alloc_generation = m.gc_alloc_generation
    BY <1>1 DEF SameWork
  <2>6. QED
    BY <1>6, <2>1, <2>4, <2>5, OpenedKept
<1>7. RegionsOK(x)
  <2>1. ASSUME NEW j \in Regions PROVE x.region[j] = ResetRegion \/ Opened(x, j)
    BY <1>1, <1>5, <1>6 DEF HeapOK, PagesOK, RegionsOK
  <2>2. QED
    BY <2>1 DEF RegionsOK
<1>8. RestIsZero(x)
  <2>1. ASSUME NEW a \in Addr, x.page[PageOf(a)].alloc, ~Held(x, a) PROVE x.mem[a] = zero
    <3>1. PageOf(a) \in Pages
      BY PageIsIn
    <3>2. CASE m.page[PageOf(a)].alloc
      <4>1. ~Held(m, a)
        <5>1. ASSUME NEW j \in Regions PROVE ~(m.region[j].start <= a /\ a < m.region[j].free)
          <6>1. CASE j = k
            <7>1. m.region[j].start = 0 /\ m.region[j].free = 0
              BY <6>1, ResetIs DEF Openable
            <7>2. QED
              BY <7>1, PageIsIn
          <6>2. CASE j # k
            BY <1>1, <2>1, <6>2 DEF Held
          <6>3. QED
            BY <6>1, <6>2
        <5>2. x.page[PageOf(a)].used = m.page[PageOf(a)].used
          BY <1>2, <3>1
        <5>3. QED
          BY <2>1, <5>1, <5>2 DEF Held
      <4>2. QED
        BY <1>1, <3>2, <4>1 DEF HeapOK, PagesOK, RestIsZero
    <3>3. CASE ~m.page[PageOf(a)].alloc
      <4>1. PageOf(a) \in first..last
        BY <1>2, <2>1, <3>1, <3>3
      <4>2. QED
        BY <1>1, <3>3, <4>1 DEF Openable
    <3>4. QED
      BY <3>2, <3>3
  <2>2. QED
    BY <2>1 DEF RestIsZero
<1>9. FreePages(x)
  <2>1. \A p \in Pages : ~x.page[p].alloc => ~m.page[p].alloc /\ x.page[p] = m.page[p]
    BY <1>2 DEF RegionPage
  <2>2. \A p \in Pages : ~x.page[p].alloc => x.page[p].used = 0 /\ ~x.page[p].wp /\ ~x.page[p].pinned
    BY <2>1 DEF HeapOK, PagesOK, FreePages
  <2>3. \A a \in Addr : ~x.page[PageOf(a)].alloc => ~m.page[PageOf(a)].alloc
    BY <2>1, PageIsIn
  <2>4. QED
    BY <1>1, <2>2, <2>3 DEF HeapOK, PagesOK, FreePages
<1>10. EmptyInRegion(x)
  <2>1. ASSUME NEW p \in Pages, x.page[p].alloc, x.page[p].used = 0
        PROVE  \E j \in Regions : p \in x.region[j].first..x.region[j].last
    <3>1. CASE p \in first..last
      BY <1>1, <3>1
    <3>2. CASE p \notin first..last
      <4>1. x.page[p] = m.page[p]
        BY <1>1, <3>2
      <4>2. PICK j \in Regions : p \in m.region[j].first..m.region[j].last
        BY <2>1, <4>1 DEF HeapOK, PagesOK, EmptyInRegion
      <4>3. j # k
        BY <4>2, ResetIs DEF Openable
      <4>4. QED
        BY <1>1, <4>2, <4>3
    <3>3. QED
      BY <3>1, <3>2
  <2>2. QED
    BY <2>1 DEF EmptyInRegion
<1>11. AllBelow(x)
  <2>1. ASSUME NEW p \in Pages, x.page[p].alloc PROVE p < x.last_free_page
    <3>1. x.last_free_page \in Int /\ m.last_free_page \in Int /\ p \in Int
      BY <1>0, <1>1 DEF Heaps, Pages
    <3>2. CASE p \in first..last
      BY <1>0, <1>1, <3>1, <3>2
    <3>3. CASE p \notin first..last
      <4>1. p < m.last_free_page
        BY <1>1, <2>1, <3>3 DEF HeapOK, PagesOK, AllBelow
      <4>2. QED
        BY <1>1, <3>1, <4>1
    <3>4. QED
      BY <3>2, <3>3
  <2>2. QED
    BY <2>1 DEF AllBelow
<1>12. Links(x)
  <2>1. ASSUME NEW q \in Pages, x.page[q].alloc, x.page[q].used # 0, x.page[q].offset # 0 PROVE LinkedTo(x, q)
    <3>1. x.page[q] = m.page[q]
      BY <1>4, <2>1
    <3>2. LinkedTo(m, q)
      BY <2>1, <3>1 DEF HeapOK, PagesOK, Links
    <3>3. q - 1 \in Pages
      BY <3>2, Paging DEF LinkedTo, Pages
    <3>4. x.page[q-1] = m.page[q-1]
      BY <1>3, <3>2, <3>3 DEF LinkedTo
    <3>5. QED
      BY <3>1, <3>2, <3>4 DEF LinkedTo
  <2>2. QED
    BY <2>1 DEF Links
<1>13. LargeOK(x)
  <2>1. ASSUME NEW q \in Pages, x.page[q].alloc, x.page[q].large PROVE LargeAlone(x, q)
    <3>1. x.page[q] = m.page[q]
      BY <1>2, <2>1 DEF RegionPage
    <3> DEFINE s == StartOf(m, q)
    <3>2. LargeAlone(m, q) /\ s \in Addr /\ PageOf(s) \in Pages /\ InChain(m, q, PageOf(s))
      BY <2>1, <3>1, LargeStart DEF HeapOK
    <3>3. x.page[PageOf(s)] = m.page[PageOf(s)]
      BY <1>3, <3>2 DEF InChain
    <3>4. StartOf(x, q) = s
      BY <3>1 DEF StartOf
    <3> HIDE DEF s
    <3>5. QED
      BY <1>1, <3>1, <3>2, <3>3, <3>4 DEF LargeAlone, s
  <2>2. QED
    BY <2>1 DEF LargeOK
<1>14. Bodies(x)
  <2>1. ASSUME NEW a \in Addr, x.mem[a].t = "obj" PROVE Whole(x, a)
    <3>1. Whole(m, a) /\ m.mem[a].t = "obj" /\ x.mem[a] = m.mem[a]
      BY <1>1, <2>1 DEF HeapOK, PagesOK, Bodies
    <3>2. ASSUME NEW p \in PageOf(a)+1..PageOf(a+m.mem[a].size-1) PROVE x.page[p] = m.page[p]
      <4>1. PageOf(a) \in Int /\ PageOf(a+m.mem[a].size-1) \in Int /\ p \in Pages
        BY <1>0, <3>1, ObjectEnd DEF HeapOK, Pages
      <4>2. PageOf(a) <= p /\ p <= PageOf(a+m.mem[a].size-1)
        BY <4>1
      <4>3. m.page[p].alloc
        BY <3>1, <4>1, <4>2, ObjectPages DEF HeapOK
      <4>4. QED
        BY <1>3, <4>1, <4>3
    <3>3. QED
      BY <1>1, <3>1, <3>2 DEF Whole
  <2>2. QED
    BY <2>1 DEF Bodies
<1>15. Counters(x)
  <2>1. ASSUME NEW g \in Gen PROVE x.generations[g].bytes_allocated = UsedOn(x, {p \in Pages : InGen(x, p, g)})
    <3> DEFINE T == {p \in Pages : InGen(x, p, g)}
               S == {p \in Pages : InGen(m, p, g)}
    <3>1. ASSUME NEW p \in Pages PROVE On(x, T, p) = On(m, S, p)
      <4>1. CASE x.page[p].used = 0
        <5>1. m.page[p].used = 0
          BY <1>2, <4>1
        <5>2. QED
          BY <4>1, <5>1 DEF On
      <4>2. CASE x.page[p].used # 0
        BY <1>4, <4>2 DEF On, InGen
      <4>3. QED
        BY <4>1, <4>2
    <3> HIDE DEF T, S
    <3>2. UsedOn(x, T) = UsedOn(m, S)
      BY <1>1, <3>1, UsedNumbers, SumsSame
    <3>3. QED
      BY <1>1, <3>2 DEF T, S, HeapOK, Counters, SameLists
  <2>2. QED
    BY <2>1 DEF Counters
<1>16. NoAreas(x)
  BY <1>1 DEF HeapOK, NoAreas, SameWork, SameLists
<1>17. QED
  BY <1>1, <1>5, <1>7, <1>8, <1>9, <1>10, <1>11, <1>12, <1>13, <1>14, <1>15, <1>16 DEF HeapOK, PagesOK

-----------------------------------------------------------------------------
(* Closing a region.                                                         *)

LEMMA RegionBounds ==
  ASSUME NEW m \in Heaps, NEW k \in Regions, Opened(m, k)
  PROVE  /\ m.region[k].first \in Pages /\ m.region[k].last \in Pages
         /\ m.region[k].first \in Int /\ m.region[k].last \in Int /\ m.region[k].first <= m.region[k].last
         /\ m.region[k].start \in Nat /\ m.region[k].free \in Nat /\ m.region[k].end \in Nat
         /\ m.region[k].start <= m.region[k].free /\ m.region[k].free <= m.region[k].end
         /\ page_address(m.region[k].first) \in Int /\ page_address(m.region[k].first) <= m.region[k].start
         /\ m.region[k].start < page_address(m.region[k].first) + PageSize
         /\ m.region[k].end = page_address(m.region[k].last + 1) /\ m.region[k].end <= page_address(NPages)
         /\ \A p \in m.region[k].first..m.region[k].last : p \in Pages
         /\ m.region[k] # ResetRegion
<1> DEFINE r == m.region[k]
<1>1. r.first \in Pages /\ r.last \in Pages /\ r.first <= r.last /\ r.start <= r.free /\ r.free <= r.end
      /\ r.start = page_address(r.first) + m.page[r.first].used /\ r.end = page_address(r.last + 1)
      /\ m.page[r.first].used < PageSize
  BY DEF Opened
<1>2. r.start \in Nat /\ r.free \in Nat /\ r.end \in Nat
  BY RegionIs
<1>3. m.page[r.first].used \in Nat
  BY <1>1, PageIs
<1> HIDE DEF r
<1>4. r.first \in Int /\ r.last \in Int /\ r.last < NPages /\ NPages \in Int /\ PageSize \in Nat /\ 0 <= r.first
  BY <1>1, Paging DEF Pages
<1>5. page_address(r.first) \in Int
  BY <1>4, Paging
<1>6. r.end <= page_address(NPages)
  <2>1. r.last + 1 = NPages \/ r.last + 1 < NPages
    BY <1>4
  <2>2. r.last + 1 < NPages => page_address(r.last + 1) + PageSize <= page_address(NPages)
    BY <1>4, Paging
  <2>3. page_address(r.last + 1) \in Int /\ page_address(NPages) \in Int
    BY <1>4, Paging
  <2>4. QED
    BY <1>1, <1>4, <2>1, <2>2, <2>3
<1>7. \A p \in r.first..r.last : p \in Pages
  BY <1>1, <1>4 DEF Pages
<1>8. r # ResetRegion
  BY <1>1, <1>4, ResetIs
<1>9. page_address(r.first) <= r.start /\ r.start < page_address(r.first) + PageSize
  BY <1>1, <1>3, <1>4, <1>5
<1>10. QED
  BY <1>1, <1>2, <1>4, <1>5, <1>6, <1>7, <1>8, <1>9 DEF r

\* The cells of a region are on its pages.
LEMMA RegionCells ==
  ASSUME NEW m \in Heaps, NEW k \in Regions, Opened(m, k),
         NEW a \in Int, m.region[k].start <= a, a < m.region[k].end
  PROVE  /\ PageOf(a) \in m.region[k].first..m.region[k].last /\ a \in Addr /\ PageOf(a) \in Pages
         /\ m.page[PageOf(a)].alloc
<1> DEFINE r == m.region[k]
           p == PageOf(a)
<1>1. r.first \in Int /\ r.last \in Int /\ r.first \in Pages /\ r.last \in Pages
      /\ page_address(r.first) \in Int /\ page_address(r.first) <= r.start
      /\ r.start \in Nat /\ r.end = page_address(r.last + 1) /\ r.end \in Nat /\ r.end <= page_address(NPages)
      /\ \A q \in r.first..r.last : q \in Pages
  BY RegionBounds
<1> HIDE DEF r
<1>2. p \in Int /\ page_address(p) <= a /\ a < page_address(p) + PageSize /\ page_address(p) \in Int /\ PageSize \in Nat
  BY PageBounds, Paging
<1> HIDE DEF p
<1>3. ~(p < r.first)
  <2>1. p < r.first => page_address(p) + PageSize <= page_address(r.first)
    BY <1>1, <1>2, Paging
  <2>2. r.start <= a
    BY DEF r
  <2>3. QED
    BY <1>1, <1>2, <2>1, <2>2
<1>4. ~(r.last + 1 <= p)
  <2>1. r.last + 1 < p => page_address(r.last + 1) + PageSize <= page_address(p)
    BY <1>1, <1>2, Paging
  <2>2. a < r.end
    BY DEF r
  <2>3. QED
    BY <1>1, <1>2, <2>1, <2>2
<1>5. p \in r.first..r.last /\ p \in Pages
  BY <1>1, <1>2, <1>3, <1>4
<1>6. m.page[p].alloc
  BY <1>5 DEF Opened, r
<1>7. a \in Addr
  <2>1. a >= 0 /\ a < page_address(NPages)
    <3>1. r.start <= a /\ a < r.end
      BY DEF r
    <3>2. page_address(NPages) \in Nat
      BY ZeroIsIn
    <3>3. QED
      BY <1>1, <3>1, <3>2
  <2>2. QED
    BY <2>1, AddrIs
<1>8. QED
  BY <1>5, <1>6, <1>7 DEF p, r

LEMMA RegionsApart ==
  ASSUME NEW m \in Heaps, NEW k \in Regions, Opened(m, k), NEW j \in Regions, Opened(m, j),
         NEW p \in m.region[k].first..m.region[k].last, p \in m.region[j].first..m.region[j].last
  PROVE  j = k
<1>1. m.page[p].unboxed = (k = "unboxed") /\ m.page[p].unboxed = (j = "unboxed")
  BY DEF Opened
<1>2. QED
  BY <1>1 DEF Regions

\* A cell of an open region's page that is held only by the region or by the page.
LEMMA RegionRest ==
  ASSUME NEW m \in Heaps, PagesOK(m), NEW k \in Regions, Opened(m, k), NEW a \in Addr,
         PageOf(a) \in m.region[k].first..m.region[k].last, a >= m.region[k].free
  PROVE  m.mem[a] = zero /\ ~Held(m, a)
<1> DEFINE p == PageOf(a)
           r == m.region[k]
<1>0. a \in Int /\ p \in Pages /\ p \in Int /\ page_address(p) \in Int /\ page_address(p) <= a /\ PageSize \in Nat
  BY PageIsIn, PageBounds, Paging DEF Pages
<1>1. m.page[p].alloc
  BY DEF Opened
<1>2. ~(a - page_address(p) < m.page[p].used)
  <2>1. r.first \in Int /\ r.last \in Int /\ r.free \in Nat /\ r.start <= r.free /\ r.start \in Nat
    BY RegionBounds
  <2>2. CASE p = r.first
    <3>1. r.start = page_address(p) + m.page[p].used
      BY <2>2 DEF Opened
    <3>2. m.page[p].used \in Nat
      BY <1>0, PageIs
    <3>3. a >= r.free
      OBVIOUS
    <3> HIDE DEF r, p
    <3>4. QED
      BY <1>0, <2>1, <3>1, <3>2, <3>3
  <2>3. CASE p # r.first
    <3>1. p \in r.first+1..r.last
      BY <1>0, <2>1, <2>3
    <3>2. m.page[p].used = 0
      BY <3>1 DEF Opened
    <3> HIDE DEF r, p
    <3>3. QED
      BY <1>0, <3>2
  <2>4. QED
    BY <2>2, <2>3
<1>3. ASSUME NEW j \in Regions, m.region[j].start <= a, a < m.region[j].free PROVE FALSE
  <2>1. Opened(m, j)
    <3>1. m.region[j] # ResetRegion
      BY <1>0, <1>3, ResetIs
    <3>2. QED
      BY <3>1 DEF PagesOK, RegionsOK
  <2>2. a < m.region[j].end
    BY <1>0, <1>3, <2>1, RegionBounds
  <2>3. p \in m.region[j].first..m.region[j].last
    BY <1>0, <1>3, <2>1, <2>2, RegionCells
  <2>4. j = k
    BY <2>1, <2>3, RegionsApart
  <2>5. QED
    BY <1>0, <1>3, <2>4, RegionBounds
<1>4. ~Held(m, a)
  BY <1>2, <1>3 DEF Held
<1>5. QED
  BY <1>1, <1>4 DEF PagesOK, RestIsZero

\* The page p of a region that is closed gets the size it has up to the free pointer.
ClosedPage(m, x, k, p) ==
  /\ x.page[p].used = m.page[p].used + UsedBelow(m.region[k].free, p) - UsedBelow(m.region[k].start, p)
  /\ x.page[p].used \in 0..PageSize
  /\ x.page[p].alloc = (IF p \in m.region[k].first..m.region[k].last THEN x.page[p].used # 0 ELSE m.page[p].alloc)
  /\ x.page[p].gen = m.page[p].gen /\ x.page[p].unboxed = m.page[p].unboxed /\ x.page[p].large = m.page[p].large
  /\ x.page[p].offset = m.page[p].offset /\ x.page[p].wp = m.page[p].wp /\ x.page[p].pinned = m.page[p].pinned

\* The cells of a region are those on its pages from its start to its free pointer.
LEMMA RegionSizes ==
  ASSUME NEW m \in Heaps, NEW k \in Regions, Opened(m, k), NEW p \in Pages
  PROVE  /\ UsedBelow(m.region[k].free, p) \in Int /\ UsedBelow(m.region[k].start, p) \in Int
         /\ UsedBelow(m.region[k].free, p) - UsedBelow(m.region[k].start, p) >= 0
         /\ p \notin m.region[k].first..m.region[k].last =>
               UsedBelow(m.region[k].free, p) = UsedBelow(m.region[k].start, p)
         /\ p = m.region[k].first => UsedBelow(m.region[k].start, p) = m.page[p].used
         /\ p \in m.region[k].first+1..m.region[k].last => UsedBelow(m.region[k].start, p) = 0
<1> DEFINE r == m.region[k]
<1>1. /\ r.first \in Pages /\ r.last \in Pages /\ r.first \in Int /\ r.last \in Int /\ r.first <= r.last
      /\ r.start \in Nat /\ r.free \in Nat /\ r.end \in Nat /\ r.start <= r.free /\ r.free <= r.end
      /\ page_address(r.first) \in Int /\ page_address(r.first) <= r.start
      /\ r.start < page_address(r.first) + PageSize /\ r.end = page_address(r.last + 1)
  BY RegionBounds
<1>2. p \in Int /\ page_address(p) \in Int /\ page_address(p + 1) = page_address(p) + PageSize
      /\ PageSize \in Nat /\ PageSize >= 1
  <2>1. p \in Int
    BY DEF Pages
  <2>2. QED
    BY <2>1, NextPage, Paging
<1>3. r.start = page_address(r.first) + m.page[r.first].used
  BY DEF Opened
<1> HIDE DEF r
<1>4. UsedBelow(r.free, p) \in Int /\ UsedBelow(r.start, p) \in Int /\ UsedBelow(r.free, p) - UsedBelow(r.start, p) >= 0
  BY <1>1, <1>2 DEF UsedBelow
<1>5. p < r.first => UsedBelow(r.free, p) = UsedBelow(r.start, p)
  <2>1. p < r.first => page_address(p) + PageSize <= page_address(r.first)
    BY <1>1, <1>2, Paging
  <2>2. QED
    BY <1>1, <1>2, <2>1 DEF UsedBelow
<1>6. r.last < p => UsedBelow(r.free, p) = UsedBelow(r.start, p)
  <2>1. r.last < p => page_address(r.last) + PageSize <= page_address(p)
    BY <1>1, <1>2, Paging
  <2>2. page_address(r.last + 1) = page_address(r.last) + PageSize
    BY <1>1, NextPage
  <2>3. QED
    BY <1>1, <1>2, <2>1, <2>2 DEF UsedBelow
<1>7. p = r.first => UsedBelow(r.start, p) = m.page[p].used
  <2>1. m.page[p].used \in Nat
    BY PageIs
  <2>2. QED
    BY <1>1, <1>2, <1>3, <2>1 DEF UsedBelow
<1>8. p \in r.first+1..r.last => UsedBelow(r.start, p) = 0
  <2>1. p \in r.first+1..r.last => r.first < p
    BY <1>1, <1>2
  <2>2. r.first < p => page_address(r.first) + PageSize <= page_address(p)
    BY <1>1, <1>2, Paging
  <2>3. QED
    BY <1>1, <1>2, <2>1, <2>2 DEF UsedBelow
<1>9. QED
  BY <1>1, <1>2, <1>4, <1>5, <1>6, <1>7, <1>8 DEF r

LEMMA CloseRegionIs ==
  ASSUME NEW m \in Heaps, HeapOK(m), NEW k \in Regions, Opened(m, k),
         NEW x, x = CloseRegion(m, k, m.region[k], m.region[k].free - m.region[k].start)
  PROVE  /\ x \in Heaps /\ x.mem = m.mem /\ SameWork(m, x)
         /\ x.stats = m.stats /\ x.overflow = m.overflow /\ x.new_areas = m.new_areas
         /\ x.last_free_page = m.last_free_page
         /\ x.region[k] = ResetRegion /\ \A j \in Regions : j # k => x.region[j] = m.region[j]
         /\ \A g \in Gen : x.generations[g].bytes_allocated =
               m.generations[g].bytes_allocated
                 + (IF g = m.gc_alloc_generation THEN m.region[k].free - m.region[k].start ELSE 0)
         /\ \A p \in Pages : ClosedPage(m, x, k, p)
<1> DEFINE r == m.region[k]
           n == r.free - r.start
           G == m.gc_alloc_generation
           used(p) == IF p = r.first /\ n = 0 THEN m.page[p].used ELSE UsedBelow(r.free, p)
           f == [p \in Pages |-> IF p \in r.first..r.last THEN [m.page[p] EXCEPT !.used = used(p), !.alloc = used(p) # 0]
                                 ELSE m.page[p]]
           hint == IF n = 0 THEN m.generations[G].start[k] ELSE PageOf(r.free - 1)
           gen == [m.generations[G] EXCEPT !.bytes_allocated = @ + n, !.start = [@ EXCEPT ![k] = hint]]
<1>1. /\ r.first \in Pages /\ r.last \in Pages /\ r.first \in Int /\ r.last \in Int /\ r.first <= r.last
      /\ r.start \in Nat /\ r.free \in Nat /\ r.end \in Nat /\ r.start <= r.free /\ r.free <= r.end
      /\ r.end <= page_address(NPages) /\ \A p \in r.first..r.last : p \in Pages
  BY RegionBounds
<1>2. x = [m EXCEPT !.page = f, !.generations[G].bytes_allocated = @ + n, !.generations[G].start[k] = hint,
                    !.region[k] = ResetRegion]
  BY DEF CloseRegion, f, hint
<1>3. ASSUME NEW p \in Pages
      PROVE  ClosedPage(m, [page |-> f], k, p) /\ f[p] \in Page
  <2>1. m.page[p] \in Page /\ m.page[p].used \in Nat /\ m.page[p].used <= PageSize /\ m.page[p].alloc \in BOOLEAN
    BY PageIs
  <2>2. /\ UsedBelow(r.free, p) \in Int /\ UsedBelow(r.start, p) \in Int
        /\ UsedBelow(r.free, p) - UsedBelow(r.start, p) >= 0
        /\ p \notin r.first..r.last => UsedBelow(r.free, p) = UsedBelow(r.start, p)
        /\ p = r.first => UsedBelow(r.start, p) = m.page[p].used
        /\ p \in r.first+1..r.last => UsedBelow(r.start, p) = 0
    BY RegionSizes
  <2>3. UsedBelow(r.free, p) \in 0..PageSize /\ PageSize \in Nat
    <3>1. p \in Int /\ PageSize \in Nat
      BY Paging DEF Pages
    <3> DEFINE b == r.free
    <3>2. b \in Int
      BY <1>1
    <3> HIDE DEF b
    <3>3. UsedBelow(b, p) \in 0..PageSize
      BY <3>1, <3>2, UsedBelowIs
    <3>4. QED
      BY <3>1, <3>3 DEF b
  <2>4. p \in r.first..r.last =>
           used(p) = m.page[p].used + UsedBelow(r.free, p) - UsedBelow(r.start, p) /\ used(p) \in 0..PageSize
    <3>1. CASE p = r.first /\ n = 0
      <4>1. r.free = r.start
        BY <1>1, <3>1
      <4>2. QED
        BY <2>1, <2>2, <2>3, <3>1, <4>1
    <3>2. CASE p = r.first /\ n # 0
      BY <2>1, <2>2, <2>3, <3>2
    <3>3. CASE p \in r.first+1..r.last
      <4>1. m.page[p].used = 0
        BY <3>3 DEF Opened
      <4>0. p # r.first
        BY <1>1, <3>3
      <4>2. QED
        BY <2>1, <2>2, <2>3, <3>3, <4>0, <4>1
    <3>4. QED
      BY <1>1, <3>1, <3>2, <3>3
  <2> DEFINE u == used(p)
             w == [m.page[p] EXCEPT !.used = u, !.alloc = u # 0]
  <2>5. CASE p \in r.first..r.last
    <3>1. f[p] = w
      BY <2>5
    <3> HIDE DEF u, f
    <3>2. u \in 0..PageSize
      BY <2>4, <2>5 DEF u
    <3>3. /\ w \in Page /\ w.used = u /\ w.alloc = (u # 0) /\ w.gen = m.page[p].gen /\ w.unboxed = m.page[p].unboxed
          /\ w.large = m.page[p].large /\ w.offset = m.page[p].offset /\ w.wp = m.page[p].wp /\ w.pinned = m.page[p].pinned
      BY <2>1, <3>2 DEF Page
    <3> HIDE DEF w
    <3>4. u = m.page[p].used + UsedBelow(r.free, p) - UsedBelow(r.start, p)
      BY <2>4, <2>5 DEF u
    <3>5. QED
      BY <2>5, <3>1, <3>2, <3>3, <3>4 DEF ClosedPage
  <2>6. CASE p \notin r.first..r.last
    <3>1. f[p] = m.page[p]
      BY <2>6
    <3> HIDE DEF f
    <3>2. m.page[p].used = m.page[p].used + UsedBelow(r.free, p) - UsedBelow(r.start, p) /\ m.page[p].used \in 0..PageSize
      BY <2>1, <2>2, <2>3, <2>6
    <3>3. QED
      BY <2>1, <2>6, <3>1, <3>2 DEF ClosedPage
  <2>7. QED
    BY <2>5, <2>6
<1>4. f \in [Pages -> Page]
  BY <1>3
<1>5. hint \in Nat
  <2>1. m.generations[G].start[k] \in Nat
    <3>1. m.generations[G] \in Generation
      BY DEF Heaps
    <3>2. QED
      BY <3>1 DEF Generation
  <2>2. n # 0 => PageOf(r.free - 1) \in Nat
    <3>1. n # 0 => r.free - 1 \in Int /\ r.start <= r.free - 1 /\ r.free - 1 < r.end
      BY <1>1
    <3>2. n # 0 => PageOf(r.free - 1) \in Pages
      BY <3>1, RegionCells
    <3>3. QED
      BY <3>2 DEF Pages
  <2>3. QED
    BY <2>1, <2>2
<1>6. m.generations \in [Gen -> Generation] /\ G \in Gen /\ m.generations[G] \in Generation /\ n \in Int
  BY <1>1 DEF Heaps
<1> HIDE DEF f, hint, n, G, r
<1>8. /\ x.mem = m.mem /\ SameWork(m, x) /\ x.stats = m.stats /\ x.overflow = m.overflow /\ x.new_areas = m.new_areas
      /\ x.last_free_page = m.last_free_page
  BY <1>2 DEF Heaps, SameWork
<1>13. x.page = f
  BY <1>2 DEF Heaps
<1>14. x.region = [m.region EXCEPT ![k] = ResetRegion]
  BY <1>2 DEF Heaps
<1> DEFINE y == [m EXCEPT !.page = f, !.generations[G].bytes_allocated = @ + n]
           yg == [m.generations EXCEPT ![G].bytes_allocated = @ + n]
<1>21. x = [y EXCEPT !.generations[G].start[k] = hint, !.region[k] = ResetRegion]
  BY <1>2
<1>22. y.generations = yg
  BY DEF Heaps
<1>23. y = [m EXCEPT !.page = f, !.generations = yg]
  BY DEF Heaps
<1> HIDE DEF y, yg
<1>24. x.generations = [yg EXCEPT ![G].start[k] = hint]
  BY <1>21, <1>22, <1>23 DEF Heaps
<1>25. yg[G] = [m.generations[G] EXCEPT !.bytes_allocated = @ + n] /\ yg \in [Gen -> Generation]
       /\ \A g \in Gen : g # G => yg[g] = m.generations[g]
  BY <1>6 DEF Generation, yg
<1>15. x.generations[G] = [yg[G] EXCEPT !.start[k] = hint] /\ DOMAIN x.generations = Gen
       /\ \A g \in Gen : g # G => x.generations[g] = yg[g]
  BY <1>6, <1>24, <1>25
<1>16. x.generations[G] = [m.generations[G] EXCEPT !.bytes_allocated = @ + n, !.start[k] = hint]
  BY <1>6, <1>15, <1>25
<1>17. \A g \in Gen : g # G => x.generations[g] = m.generations[g]
  BY <1>6, <1>15, <1>25
<1>18. x.generations[G].bytes_allocated = m.generations[G].bytes_allocated + n
  BY <1>6, <1>16 DEF Generation
<1>19. x.generations[G] \in Generation
  <2> DEFINE o == m.generations[G]
             v == x.generations[G]
             t == [o.start EXCEPT ![k] = hint]
  <2>1. t \in [Regions -> Nat]
    BY <1>5, <1>6 DEF Generation
  <2> DEFINE e == o.bytes_allocated + n
  <2>2. o \in Generation /\ v = [o EXCEPT !.bytes_allocated = e, !.start = t]
    BY <1>6, <1>16 DEF Generation
  <2>0. e \in Int
    BY <1>6 DEF Generation
  <2> HIDE DEF t, o, v, e
  <2>3. v \in Generation
    BY <2>0, <2>1, <2>2 DEF Generation
  <2>4. QED
    BY <2>3 DEF v
<1>20. x.generations \in [Gen -> Generation]
  <2>1. x.generations = [g \in Gen |-> x.generations[g]]
    BY <1>6, <1>24, <1>25
  <2>2. \A g \in Gen : x.generations[g] \in Generation
    BY <1>6, <1>17, <1>19
  <2>3. QED
    BY <2>1, <2>2
<1>7. x \in Heaps
  <2>1. x.region \in [Regions -> Region]
    BY <1>14, ResetIs DEF Heaps
  <2>2. x = [m EXCEPT !.page = x.page, !.generations = x.generations, !.region = x.region]
    BY <1>2 DEF Heaps
  <2>3. x.page \in [Pages -> Page]
    BY <1>4, <1>13
  <2> HIDE DEF G
  <2>4. QED
    BY <1>20, <2>1, <2>2, <2>3 DEF Heaps
<1>9. x.region[k] = ResetRegion /\ \A j \in Regions : j # k => x.region[j] = m.region[j]
  BY <1>14 DEF Heaps
<1>10. ASSUME NEW g \in Gen
       PROVE  x.generations[g].bytes_allocated =
               m.generations[g].bytes_allocated + (IF g = m.gc_alloc_generation THEN m.region[k].free - m.region[k].start ELSE 0)
  <2>1. m.generations[g].bytes_allocated \in Int
    BY <1>6 DEF Generation
  <2>2. QED
    BY <1>17, <1>18, <2>1 DEF G, n, r
<1>11. \A p \in Pages : ClosedPage(m, x, k, p)
  BY <1>3, <1>13 DEF ClosedPage
<1>12. QED
  BY <1>7, <1>8, <1>9, <1>10, <1>11

-----------------------------------------------------------------------------
(* Pages outside the region stay as they are, those of the region grow.      *)
LEMMA ClosedPageIs ==
  ASSUME NEW m \in Heaps, HeapOK(m), NEW k \in Regions, Opened(m, k),
         NEW x, x = CloseRegion(m, k, m.region[k], m.region[k].free - m.region[k].start), NEW p \in Pages
  PROVE  /\ p \notin m.region[k].first..m.region[k].last =>
               x.page[p].used = m.page[p].used /\ x.page[p].alloc = m.page[p].alloc
         /\ p \in m.region[k].first..m.region[k].last =>
               /\ x.page[p].alloc = (x.page[p].used # 0) /\ x.page[p].used = UsedBelow(m.region[k].free, p)
               /\ m.page[p].alloc /\ ~m.page[p].large /\ m.page[p].gen = m.gc_alloc_generation
               /\ m.page[p].unboxed = (k = "unboxed") /\ ~m.page[p].wp /\ ~m.page[p].pinned
         /\ x.page[p].used >= m.page[p].used /\ x.page[p].used \in Int /\ m.page[p].used \in Int
         /\ x.page[p].alloc => m.page[p].alloc
         /\ x.page[p].gen = m.page[p].gen /\ x.page[p].unboxed = m.page[p].unboxed
         /\ x.page[p].large = m.page[p].large /\ x.page[p].offset = m.page[p].offset
         /\ x.page[p].wp = m.page[p].wp /\ x.page[p].pinned = m.page[p].pinned
<1> DEFINE r == m.region[k]
<1>0. /\ x \in Heaps /\ x.mem = m.mem /\ SameWork(m, x)
      /\ x.stats = m.stats /\ x.overflow = m.overflow /\ x.new_areas = m.new_areas
      /\ x.last_free_page = m.last_free_page
      /\ x.region[k] = ResetRegion /\ \A j \in Regions : j # k => x.region[j] = m.region[j]
      /\ \A g \in Gen : x.generations[g].bytes_allocated =
            m.generations[g].bytes_allocated + (IF g = m.gc_alloc_generation THEN r.free - r.start ELSE 0)
      /\ \A q \in Pages : ClosedPage(m, x, k, q)
  BY CloseRegionIs
<1>1. /\ r.first \in Pages /\ r.last \in Pages /\ r.first \in Int /\ r.last \in Int /\ r.first <= r.last
      /\ r.start \in Nat /\ r.free \in Nat /\ r.end \in Nat /\ r.start <= r.free /\ r.free <= r.end
      /\ r.end <= page_address(NPages) /\ \A q \in r.first..r.last : q \in Pages
      /\ page_address(r.first) \in Int /\ page_address(r.first) <= r.start
      /\ r.start < page_address(r.first) + PageSize
      /\ r.start = page_address(r.first) + m.page[r.first].used
  BY RegionBounds DEF Opened
<1> HIDE DEF r
\* Pages outside the region are the same; those of the region have grown.
<1>2. ASSUME p \notin r.first..r.last
      PROVE  x.page[p].used = m.page[p].used /\ x.page[p].alloc = m.page[p].alloc
  <2>1. ClosedPage(m, x, k, p)
    BY <1>0
  <2>2. m.page[p].used \in Nat /\ UsedBelow(r.free, p) \in Int /\ UsedBelow(r.free, p) = UsedBelow(r.start, p)
    BY <1>2, PageIs, RegionSizes DEF r
  <2>3. x.page[p].used = m.page[p].used + UsedBelow(r.free, p) - UsedBelow(r.start, p)
    BY <2>1 DEF ClosedPage, r
  <2>4. x.page[p].used = m.page[p].used
    BY <2>2, <2>3
  <2>5. x.page[p].alloc = m.page[p].alloc
    BY <1>2, <2>1 DEF ClosedPage, r
  <2>6. QED
    BY <2>4, <2>5
<1>21. ASSUME p \in r.first..r.last
       PROVE  /\ x.page[p].alloc = (x.page[p].used # 0) /\ x.page[p].used = UsedBelow(r.free, p)
              /\ m.page[p].alloc /\ ~m.page[p].large /\ m.page[p].gen = m.gc_alloc_generation
              /\ m.page[p].unboxed = (k = "unboxed") /\ ~m.page[p].wp /\ ~m.page[p].pinned
  <2>1. ClosedPage(m, x, k, p)
    BY <1>0
  <2>2. m.page[p].used \in Nat /\ UsedBelow(r.free, p) \in Int
        /\ (p = r.first => UsedBelow(r.start, p) = m.page[p].used)
        /\ (p \in r.first+1..r.last => UsedBelow(r.start, p) = 0)
    BY PageIs, RegionSizes DEF r
  <2>3. x.page[p].used = m.page[p].used + UsedBelow(r.free, p) - UsedBelow(r.start, p)
    BY <2>1 DEF ClosedPage, r
  <2>4. x.page[p].used = UsedBelow(r.free, p)
    <3>1. CASE p = r.first
      BY <2>2, <2>3, <3>1
    <3>2. CASE p # r.first
      <4>1. p \in r.first+1..r.last
        BY <1>1, <1>21, <3>2
      <4>2. m.page[p].used = 0
        BY <4>1 DEF Opened, r
      <4>3. QED
        BY <2>2, <2>3, <4>1, <4>2
    <3>3. QED
      BY <3>1, <3>2
  <2>5. x.page[p].alloc = (x.page[p].used # 0)
    BY <1>21, <2>1 DEF ClosedPage, r
  <2>6. /\ m.page[p].alloc /\ ~m.page[p].large /\ m.page[p].gen = m.gc_alloc_generation
        /\ m.page[p].unboxed = (k = "unboxed") /\ ~m.page[p].wp /\ ~m.page[p].pinned
    BY <1>21 DEF Opened, r
  <2>7. QED
    BY <2>4, <2>5, <2>6
<1>22. /\ x.page[p].used >= m.page[p].used /\ x.page[p].used \in Int /\ m.page[p].used \in Int
       /\ x.page[p].alloc => m.page[p].alloc
  <2>1. ClosedPage(m, x, k, p)
    BY <1>0
  <2>2. m.page[p].used \in Nat /\ UsedBelow(r.free, p) \in Int /\ UsedBelow(r.start, p) \in Int
        /\ UsedBelow(r.free, p) - UsedBelow(r.start, p) >= 0
    BY PageIs, RegionSizes DEF r
  <2>3. x.page[p].used = m.page[p].used + UsedBelow(r.free, p) - UsedBelow(r.start, p)
    BY <2>1 DEF ClosedPage, r
  <2>4. x.page[p].used >= m.page[p].used /\ x.page[p].used \in Int /\ m.page[p].used \in Int
    BY <2>2, <2>3
  <2>5. x.page[p].alloc => m.page[p].alloc
    BY <1>2, <1>21
  <2>6. QED
    BY <2>4, <2>5
<1>23. /\ x.page[p].gen = m.page[p].gen /\ x.page[p].unboxed = m.page[p].unboxed
       /\ x.page[p].large = m.page[p].large /\ x.page[p].offset = m.page[p].offset
       /\ x.page[p].wp = m.page[p].wp /\ x.page[p].pinned = m.page[p].pinned
  BY <1>0 DEF ClosedPage
<1>24. QED
  <2>1. p \notin r.first..r.last => x.page[p].used = m.page[p].used /\ x.page[p].alloc = m.page[p].alloc
    BY <1>2
  <2>2. p \in r.first..r.last =>
               /\ x.page[p].alloc = (x.page[p].used # 0) /\ x.page[p].used = UsedBelow(r.free, p)
               /\ m.page[p].alloc /\ ~m.page[p].large /\ m.page[p].gen = m.gc_alloc_generation
               /\ m.page[p].unboxed = (k = "unboxed") /\ ~m.page[p].wp /\ ~m.page[p].pinned
    BY <1>21
  <2>3. QED
    BY <1>22, <1>23, <2>1, <2>2 DEF r

LEMMA CloseRegionOK ==
  ASSUME NEW m \in Heaps, HeapOK(m), NEW k \in Regions, Opened(m, k),
         NEW x, x = CloseRegion(m, k, m.region[k], m.region[k].free - m.region[k].start)
  PROVE  HeapOK(x)
<1> DEFINE r == m.region[k]
<1>0. /\ x \in Heaps /\ x.mem = m.mem /\ SameWork(m, x)
      /\ x.stats = m.stats /\ x.overflow = m.overflow /\ x.new_areas = m.new_areas
      /\ x.last_free_page = m.last_free_page
      /\ x.region[k] = ResetRegion /\ \A j \in Regions : j # k => x.region[j] = m.region[j]
      /\ \A g \in Gen : x.generations[g].bytes_allocated =
            m.generations[g].bytes_allocated + (IF g = m.gc_alloc_generation THEN r.free - r.start ELSE 0)
      /\ \A p \in Pages : ClosedPage(m, x, k, p)
  BY CloseRegionIs
<1>1. /\ r.first \in Pages /\ r.last \in Pages /\ r.first \in Int /\ r.last \in Int /\ r.first <= r.last
      /\ r.start \in Nat /\ r.free \in Nat /\ r.end \in Nat /\ r.start <= r.free /\ r.free <= r.end
      /\ r.end <= page_address(NPages) /\ \A p \in r.first..r.last : p \in Pages
      /\ page_address(r.first) \in Int /\ page_address(r.first) <= r.start
      /\ r.start < page_address(r.first) + PageSize
      /\ r.start = page_address(r.first) + m.page[r.first].used
  BY RegionBounds DEF Opened
<1> HIDE DEF r
\* Pages outside the region are the same; those of the region have grown.
<1>2. ASSUME NEW p \in Pages, p \notin r.first..r.last
      PROVE  x.page[p].used = m.page[p].used /\ x.page[p].alloc = m.page[p].alloc
  BY <1>2, ClosedPageIs DEF r
<1>21. ASSUME NEW p \in Pages, p \in r.first..r.last
       PROVE  /\ x.page[p].alloc = (x.page[p].used # 0) /\ x.page[p].used = UsedBelow(r.free, p)
              /\ m.page[p].alloc /\ ~m.page[p].large /\ m.page[p].gen = m.gc_alloc_generation
              /\ m.page[p].unboxed = (k = "unboxed") /\ ~m.page[p].wp /\ ~m.page[p].pinned
  BY <1>21, ClosedPageIs DEF r
<1>22. ASSUME NEW p \in Pages
       PROVE  /\ x.page[p].used >= m.page[p].used /\ x.page[p].used \in Int /\ m.page[p].used \in Int
              /\ x.page[p].alloc => m.page[p].alloc
  BY ClosedPageIs
<1>23. ASSUME NEW p \in Pages
       PROVE  /\ x.page[p].gen = m.page[p].gen /\ x.page[p].unboxed = m.page[p].unboxed
              /\ x.page[p].large = m.page[p].large /\ x.page[p].offset = m.page[p].offset
              /\ x.page[p].wp = m.page[p].wp /\ x.page[p].pinned = m.page[p].pinned
  BY ClosedPageIs
<1>3. ASSUME NEW j \in Regions, j # k, Opened(m, j)
      PROVE  /\ Opened(x, j) /\ \A p \in m.region[j].first..m.region[j].last : p \notin r.first..r.last
  <2> DEFINE s == m.region[j]
  <2>1. s.first \in Pages /\ s.last \in Pages /\ s.first \in Int /\ s.last \in Int /\ s.first <= s.last
        /\ \A p \in s.first..s.last : p \in Pages
    BY <1>3, RegionBounds
  <2>2. \A p \in s.first..s.last : p \notin r.first..r.last
    BY <1>3, RegionsApart DEF r
  <2>3. x.region[j] = s /\ x.gc_alloc_generation = m.gc_alloc_generation
    BY <1>0, <1>3 DEF SameWork
  <2>4. s.first \in s.first..s.last /\ \A p \in s.first+1..s.last : p \in s.first..s.last
    BY <2>1
  <2>5. \A p \in s.first..s.last : /\ x.page[p].used = m.page[p].used /\ x.page[p].alloc = m.page[p].alloc
                                   /\ x.page[p].gen = m.page[p].gen /\ x.page[p].unboxed = m.page[p].unboxed
                                   /\ x.page[p].large = m.page[p].large /\ x.page[p].offset = m.page[p].offset
                                   /\ x.page[p].wp = m.page[p].wp /\ x.page[p].pinned = m.page[p].pinned
    BY <1>2, <1>21, <1>22, <1>23, <2>1, <2>2
  <2>6. Opened(x, j)
    <3> HIDE DEF s
    <3>1. /\ s.first \in Pages /\ s.last \in Pages /\ s.first <= s.last
          /\ m.page[s.first].used < PageSize
          /\ m.page[s.first].used = 0 => m.page[s.first].offset = 0
          /\ s.start = page_address(s.first) + m.page[s.first].used
          /\ s.start <= s.free /\ s.free <= s.end /\ s.end = page_address(s.last + 1)
          /\ \A p \in s.first..s.last :
               /\ m.page[p].alloc /\ m.page[p].gen = m.gc_alloc_generation
               /\ m.page[p].unboxed = (j = "unboxed")
               /\ ~m.page[p].wp /\ ~m.page[p].large /\ ~m.page[p].pinned
          /\ \A p \in s.first+1..s.last : m.page[p].used = 0 /\ m.page[p].offset = page_address(p) - s.start
      BY <1>3 DEF Opened, s
    <3>2. \A p \in s.first..s.last :
               /\ x.page[p].alloc /\ x.page[p].gen = x.gc_alloc_generation
               /\ x.page[p].unboxed = (j = "unboxed")
               /\ ~x.page[p].wp /\ ~x.page[p].large /\ ~x.page[p].pinned
      <4> TAKE p \in s.first..s.last
      <4>1. /\ m.page[p].alloc /\ m.page[p].gen = m.gc_alloc_generation
            /\ m.page[p].unboxed = (j = "unboxed")
            /\ ~m.page[p].wp /\ ~m.page[p].large /\ ~m.page[p].pinned
        BY <3>1
      <4>2. /\ x.page[p].alloc = m.page[p].alloc
            /\ x.page[p].gen = m.page[p].gen /\ x.page[p].unboxed = m.page[p].unboxed
            /\ x.page[p].large = m.page[p].large
            /\ x.page[p].wp = m.page[p].wp /\ x.page[p].pinned = m.page[p].pinned
        BY <2>5
      <4>3. QED
        BY <2>3, <4>1, <4>2, Zenon
    <3>3. \A p \in s.first+1..s.last : x.page[p].used = 0 /\ x.page[p].offset = page_address(p) - s.start
      <4> TAKE p \in s.first+1..s.last
      <4>1. p \in s.first..s.last
        BY <2>4
      <4>2. m.page[p].used = 0 /\ m.page[p].offset = page_address(p) - s.start
        BY <3>1
      <4>3. QED
        BY <2>5, <4>1, <4>2
    <3>4. x.page[s.first].used = m.page[s.first].used /\ x.page[s.first].offset = m.page[s.first].offset
      BY <2>4, <2>5
    <3>5. QED
      BY <2>3, <3>1, <3>2, <3>3, <3>4 DEF Opened
  <2>7. QED
    BY <2>2, <2>6
<1>4. RegionsOK(x)
  <2>1. ASSUME NEW j \in Regions PROVE x.region[j] = ResetRegion \/ Opened(x, j)
    BY <1>0, <1>3 DEF HeapOK, PagesOK, RegionsOK
  <2>2. QED
    BY <2>1 DEF RegionsOK
<1>5. RestIsZero(x)
  <2>1. ASSUME NEW a \in Addr, x.page[PageOf(a)].alloc, ~Held(x, a) PROVE x.mem[a] = zero
    <3> DEFINE p == PageOf(a)
    <3>1. p \in Pages /\ a \in Int /\ p \in Int /\ page_address(p) \in Int /\ page_address(p) <= a
          /\ page_address(p + 1) = page_address(p) + PageSize /\ PageSize \in Nat /\ a < page_address(p) + PageSize
      <4>1. p \in Pages /\ a \in Int /\ p \in Int
        BY PageIsIn DEF Pages
      <4>2. QED
        BY <4>1, PageBounds, NextPage, Paging
    <3>2. m.page[p].alloc /\ ~(a - page_address(p) < x.page[p].used)
      BY <1>2, <1>21, <1>22, <1>23, <2>1, <3>1 DEF Held
    <3> HIDE DEF p
    <3>3. ~(a - page_address(p) < m.page[p].used)
      <4>1. x.page[p].used >= m.page[p].used /\ x.page[p].used \in Int /\ m.page[p].used \in Int
        BY <1>22, <3>1
      <4>2. QED
        BY <3>1, <3>2, <4>1
    <3>4. ~(r.start <= a /\ a < r.free)
      <4> SUFFICES ASSUME r.start <= a, a < r.free PROVE FALSE
        OBVIOUS
      <4>1. p \in r.first..r.last
        <5>1. a < r.end
          BY <1>1, <3>1
        <5>2. QED
          BY <3>1, <5>1, RegionCells DEF p, r
      <4>2. x.page[p].used = UsedBelow(r.free, p)
        BY <1>2, <1>21, <1>22, <1>23, <3>1, <4>1
      <4>3. a - page_address(p) < UsedBelow(r.free, p)
        BY <1>1, <3>1 DEF UsedBelow
      <4>4. QED
        BY <3>2, <4>2, <4>3
    <3>5. ~Held(m, a)
      <4>1. ASSUME NEW j \in Regions PROVE ~(m.region[j].start <= a /\ a < m.region[j].free)
        <5>1. CASE j = k
          BY <3>4, <5>1 DEF r
        <5>2. CASE j # k
          BY <1>0, <2>1, <5>2 DEF Held
        <5>3. QED
          BY <5>1, <5>2
      <4>2. QED
        BY <3>3, <4>1 DEF Held, p
    <3>6. QED
      BY <1>0, <3>2, <3>5 DEF HeapOK, PagesOK, RestIsZero, p
  <2>2. QED
    BY <2>1 DEF RestIsZero
<1>6. FreePages(x)
  <2>1. ASSUME NEW p \in Pages, ~x.page[p].alloc PROVE x.page[p].used = 0 /\ ~x.page[p].wp /\ ~x.page[p].pinned
    <3>1. CASE p \in r.first..r.last
      BY <1>2, <1>21, <1>22, <1>23, <2>1, <3>1
    <3>2. CASE p \notin r.first..r.last
      <4>1. ~m.page[p].alloc
        BY <1>2, <1>21, <1>22, <1>23, <2>1, <3>2
      <4>2. m.page[p].used = 0 /\ ~m.page[p].wp /\ ~m.page[p].pinned
        BY <4>1 DEF HeapOK, PagesOK, FreePages
      <4>3. QED
        BY <1>2, <1>21, <1>22, <1>23, <3>2, <4>2
    <3>3. QED
      BY <3>1, <3>2
  <2>2. ASSUME NEW a \in Addr, ~x.page[PageOf(a)].alloc
        PROVE  x.mem[a] \in {zero, dirty} /\ (x.mem[page_address(PageOf(a))] = zero => x.mem[a] = zero)
    <3> DEFINE p == PageOf(a)
    <3>1. p \in Pages /\ a \in Int /\ p \in Int /\ page_address(p) \in Int /\ page_address(p) <= a
          /\ page_address(p + 1) = page_address(p) + PageSize /\ PageSize \in Nat /\ PageSize >= 1
      <4>1. p \in Pages /\ a \in Int /\ p \in Int
        BY PageIsIn DEF Pages
      <4>2. QED
        BY <4>1, PageBounds, NextPage, Paging
    <3>2. CASE p \in r.first..r.last
      <4>1. UsedBelow(r.free, p) = 0
        BY <1>2, <1>21, <1>22, <1>23, <2>2, <3>1, <3>2
      <4> HIDE DEF p
      <4>2. r.free <= page_address(p)
        BY <1>1, <3>1, <4>1 DEF UsedBelow
      <4>3. a >= r.free
        BY <1>1, <3>1, <4>2
      <4>4. m.mem[a] = zero
        BY <3>2, <4>3, RegionRest DEF r, p, HeapOK
      <4>5. QED
        BY <1>0, <4>4
    <3>3. CASE p \notin r.first..r.last
      <4>1. ~m.page[p].alloc
        BY <1>2, <1>21, <1>22, <1>23, <2>2, <3>1, <3>3
      <4>2. QED
        BY <1>0, <4>1 DEF HeapOK, PagesOK, FreePages
    <3>4. QED
      BY <3>2, <3>3
  <2>3. QED
    BY <2>1, <2>2 DEF FreePages
<1>7. EmptyInRegion(x)
  <2>1. ASSUME NEW p \in Pages, x.page[p].alloc, x.page[p].used = 0
        PROVE  \E j \in Regions : p \in x.region[j].first..x.region[j].last
    <3>1. p \notin r.first..r.last
      BY <1>2, <1>21, <1>22, <1>23, <2>1
    <3>2. m.page[p].alloc /\ m.page[p].used = 0
      BY <1>2, <1>21, <1>22, <1>23, <2>1, <3>1
    <3>3. PICK j \in Regions : p \in m.region[j].first..m.region[j].last
      BY <3>2 DEF HeapOK, PagesOK, EmptyInRegion
    <3>4. j # k
      BY <3>1, <3>3 DEF r
    <3>5. QED
      BY <1>0, <3>3, <3>4
  <2>2. QED
    BY <2>1 DEF EmptyInRegion
<1>8. AllBelow(x)
  BY <1>0, <1>2, <1>21, <1>22, <1>23 DEF HeapOK, PagesOK, AllBelow
<1>9. Links(x)
  <2>1. ASSUME NEW q \in Pages, x.page[q].alloc, x.page[q].used # 0, x.page[q].offset # 0 PROVE LinkedTo(x, q)
    <3>0. q \in Int /\ NPages \in Nat /\ PageSize \in Nat /\ PageSize >= 1 /\ q < NPages /\ 0 <= q
      BY Paging DEF Pages
    <3>1. CASE q \in r.first+1..r.last
      <4>1. q - 1 \in Pages /\ q - 1 \in r.first..r.last /\ q \in r.first..r.last /\ q # 0
        BY <1>1, <3>0, <3>1 DEF Pages
      <4>2. x.page[q].used = UsedBelow(r.free, q) /\ x.page[q-1].used = UsedBelow(r.free, q - 1)
        BY <1>2, <1>21, <1>22, <1>23, <4>1
      <4>3. page_address(q) \in Int /\ page_address(q - 1) = page_address(q) - PageSize /\ page_address((q - 1) + 1) = page_address(q)
        <5>1. (q - 1) + 1 = q
          BY <3>0
        <5>2. QED
          BY <3>0, <5>1, NextPage
      <4>4. page_address(q) < r.free
        BY <1>1, <2>1, <3>0, <4>2, <4>3 DEF UsedBelow
      <4>5. x.page[q-1].used = PageSize
        BY <1>1, <3>0, <4>2, <4>3, <4>4 DEF UsedBelow
      <4>6. x.page[q-1].alloc
        <5>1. x.page[q-1].alloc = (x.page[q-1].used # 0)
          BY <1>21, <4>1
        <5>2. x.page[q-1].used # 0
          BY <3>0, <4>5
        <5>3. QED
          BY <5>1, <5>2
      <4>7. x.page[q-1].gen = x.page[q].gen /\ x.page[q-1].unboxed = x.page[q].unboxed /\ x.page[q-1].large = x.page[q].large
        <5>1. ~m.page[q-1].large /\ ~m.page[q].large /\ m.page[q-1].large \in BOOLEAN /\ m.page[q].large \in BOOLEAN
          BY <1>21, <4>1, PageIs
        <5>2. m.page[q-1].large = m.page[q].large
          BY <5>1
        <5>3. m.page[q-1].gen = m.page[q].gen /\ m.page[q-1].unboxed = m.page[q].unboxed
          BY <1>21, <4>1
        <5>4. QED
          BY <1>23, <4>1, <5>2, <5>3
      <4>8. x.page[q].offset > PageSize => x.page[q-1].offset = x.page[q].offset - PageSize
        <5>1. x.page[q].offset = page_address(q) - r.start
          <6>1. m.page[q].offset = page_address(q) - r.start
            BY <3>1 DEF Opened, r
          <6>2. QED
            BY <1>2, <1>21, <1>22, <1>23, <6>1
        <5>2. CASE q - 1 = r.first
          <6>1. page_address(q) = page_address(r.first) + PageSize
            BY <3>0, <4>3, <5>2
          <6>2. QED
            BY <1>1, <3>0, <5>1, <6>1
        <5>3. CASE q - 1 # r.first
          <6>1. q - 1 \in r.first+1..r.last
            BY <1>1, <3>0, <4>1, <5>3
          <6>2. m.page[q-1].offset = page_address(q - 1) - r.start
            BY <6>1 DEF Opened, r
          <6>3. x.page[q-1].offset = page_address(q - 1) - r.start
            BY <1>2, <1>21, <1>22, <1>23, <4>1, <6>2
          <6>4. QED
            BY <1>1, <3>0, <4>3, <5>1, <6>3
        <5>4. QED
          BY <5>2, <5>3
      <4>9. QED
        BY <4>1, <4>5, <4>6, <4>7, <4>8 DEF LinkedTo
    <3>2. CASE q \notin r.first+1..r.last
      <4>1. m.page[q].alloc /\ m.page[q].used # 0 /\ m.page[q].offset # 0
        <5>1. CASE q = r.first
          <6>1. m.page[q].used = 0 => m.page[q].offset = 0
            BY <5>1 DEF Opened, r
          <6>2. QED
            BY <1>2, <1>21, <1>22, <1>23, <2>1, <6>1
        <5>2. CASE q # r.first
          <6>1. q \notin r.first..r.last
            BY <1>1, <3>0, <3>2, <5>2
          <6>2. QED
            BY <1>2, <1>21, <1>22, <1>23, <2>1, <6>1
        <5>3. QED
          BY <5>1, <5>2
      <4>2. LinkedTo(m, q)
        BY <4>1 DEF HeapOK, PagesOK, Links
      <4>3. q - 1 \in Pages /\ q # 0
        BY <3>0, <4>2 DEF LinkedTo, Pages
      <4>4. q - 1 \notin r.first..r.last
        <5> SUFFICES ASSUME q - 1 \in r.first..r.last PROVE FALSE
          OBVIOUS
        <5>1. m.page[q-1].used = PageSize
          BY <4>2 DEF LinkedTo
        <5>2. q - 1 = r.first \/ q - 1 \in r.first+1..r.last
          BY <1>1, <3>0
        <5>3. q - 1 # r.first
          <6>1. m.page[r.first].used < PageSize
            BY DEF Opened, r
          <6>2. QED
            BY <3>0, <5>1, <6>1
        <5>4. m.page[q-1].used = 0
          BY <5>2, <5>3 DEF Opened, r
        <5>5. QED
          BY <3>0, <5>1, <5>4
      <4>5. QED
        <5>1. /\ x.page[q-1].alloc = m.page[q-1].alloc /\ x.page[q-1].used = m.page[q-1].used
              /\ x.page[q-1].gen = m.page[q-1].gen /\ x.page[q-1].unboxed = m.page[q-1].unboxed
              /\ x.page[q-1].large = m.page[q-1].large /\ x.page[q-1].offset = m.page[q-1].offset
          BY <1>2, <1>21, <1>22, <1>23, <4>3, <4>4
        <5>2. /\ x.page[q].gen = m.page[q].gen /\ x.page[q].unboxed = m.page[q].unboxed
              /\ x.page[q].large = m.page[q].large /\ x.page[q].offset = m.page[q].offset
          BY <1>2, <1>21, <1>22, <1>23
        <5>3. QED
          BY <4>2, <5>1, <5>2 DEF LinkedTo
    <3>3. QED
      BY <3>1, <3>2
  <2>2. QED
    BY <2>1 DEF Links
<1>10. LargeOK(x)
  <2>1. ASSUME NEW q \in Pages, x.page[q].alloc, x.page[q].large PROVE LargeAlone(x, q)
    <3> DEFINE s == StartOf(m, q)
    <3>1. m.page[q].alloc /\ m.page[q].large /\ x.page[q].unboxed = m.page[q].unboxed
      BY <1>2, <1>21, <1>22, <1>23, <2>1
    <3>2. LargeAlone(m, q) /\ s \in Addr /\ PageOf(s) \in Pages
      BY <3>1, LargeStart DEF HeapOK
    <3>3. StartOf(x, q) = s /\ x.page[PageOf(s)].offset = m.page[PageOf(s)].offset
      BY <1>2, <1>21, <1>22, <1>23, <3>2 DEF StartOf
    <3>4. QED
      BY <1>0, <3>1, <3>2, <3>3, LargeAloneKept
  <2>2. QED
    BY <2>1 DEF LargeOK
<1>11. Bodies(x)
  <2>1. ASSUME NEW a \in Addr, x.mem[a].t = "obj" PROVE Whole(x, a)
    <3>1. Whole(m, a) /\ m.mem[a].t = "obj" /\ x.mem[a] = m.mem[a]
      BY <1>0, <2>1 DEF HeapOK, PagesOK, Bodies
    <3>2. ASSUME NEW p \in PageOf(a)+1..PageOf(a+m.mem[a].size-1) PROVE x.page[p].offset = m.page[p].offset
      <4>1. PageOf(a) \in Pages /\ PageOf(a+m.mem[a].size-1) \in Pages
        BY <3>1, ObjectEnd DEF HeapOK
      <4>2. p \in Pages
        BY <4>1, Paging DEF Pages
      <4>3. QED
        BY <1>2, <1>21, <1>22, <1>23, <4>2
    <3>3. QED
      BY <1>0, <3>1, <3>2 DEF Whole
  <2>2. QED
    BY <2>1 DEF Bodies
<1>12. Counters(x)
  <2>1. ASSUME NEW g \in Gen PROVE x.generations[g].bytes_allocated = UsedOn(x, {p \in Pages : InGen(x, p, g)})
    <3> DEFINE T == {p \in Pages : InGen(x, p, g)}
               S == {p \in Pages : InGen(m, p, g)}
               E == {}
               b == IF g = m.gc_alloc_generation THEN r.start ELSE 0
               e == IF g = m.gc_alloc_generation THEN r.free ELSE 0
    <3>1. ASSUME NEW p \in Pages
          PROVE  On(x, T, p) = On(m, S, p) + On(m, E, p) + UsedBelow(e, p) - UsedBelow(b, p)
      <4>0. On(m, E, p) = 0
        BY DEF On
      <4>1. On(m, S, p) = (IF m.page[p].gen = g THEN m.page[p].used ELSE 0)
        <5>1. ~m.page[p].alloc => m.page[p].used = 0
          BY DEF HeapOK, PagesOK, FreePages
        <5>2. QED
          BY <5>1 DEF On, InGen
      <4>2. On(x, T, p) = (IF x.page[p].gen = g THEN x.page[p].used ELSE 0)
        <5>1. ~x.page[p].alloc => x.page[p].used = 0
          BY <1>6 DEF FreePages
        <5>2. QED
          BY <5>1 DEF On, InGen
      <4>3. x.page[p].used = m.page[p].used + UsedBelow(r.free, p) - UsedBelow(r.start, p)
            /\ x.page[p].gen = m.page[p].gen /\ m.page[p].used \in Int
        BY <1>0, <1>2, <1>21, <1>22, <1>23 DEF ClosedPage, r
      <4>4. UsedBelow(0, p) \in Int /\ UsedBelow(r.free, p) \in Int /\ UsedBelow(r.start, p) \in Int
            /\ (p \notin r.first..r.last => UsedBelow(r.free, p) = UsedBelow(r.start, p))
        <5>1. p \in Int /\ 0 \in Int
          BY DEF Pages
        <5>2. UsedBelow(0, p) \in 0..PageSize
          BY <5>1, UsedBelowIs
        <5>3. QED
          BY <5>2, Paging, RegionSizes DEF r
      <4>5. CASE g = m.gc_alloc_generation
        <5>1. e = r.free /\ b = r.start
          BY <4>5
        <5>2. CASE m.page[p].gen = g
          <6> HIDE DEF b, e, T, S, E
          <6>1. QED
            BY <4>0, <4>1, <4>2, <4>3, <4>4, <5>1, <5>2
        <5>3. CASE m.page[p].gen # g
          <6>1. p \notin r.first..r.last
            BY <1>2, <1>21, <1>22, <1>23, <4>5, <5>3
          <6> HIDE DEF b, e, T, S, E
          <6>2. QED
            BY <4>0, <4>1, <4>2, <4>3, <4>4, <5>1, <5>3, <6>1
        <5>4. QED
          BY <5>2, <5>3
      <4>6. CASE g # m.gc_alloc_generation
        <5>1. e = 0 /\ b = 0
          BY <4>6
        <5>2. m.page[p].gen = g => p \notin r.first..r.last
          BY <1>2, <1>21, <1>22, <1>23, <4>6
        <5> HIDE DEF b, e, T, S, E
        <5>3. QED
          BY <4>0, <4>1, <4>2, <4>3, <4>4, <5>1, <5>2
      <4>7. QED
        BY <4>5, <4>6
    <3>2. b \in 0..page_address(NPages) /\ e \in 0..page_address(NPages) /\ b \in Int /\ e \in Int
          /\ e - b = (IF g = m.gc_alloc_generation THEN r.free - r.start ELSE 0)
      BY <1>1, ZeroIsIn
    <3> HIDE DEF T, S, E, b, e
    <3>3. Adds(m, S, x, T, m, E, b, e)
      BY <3>1 DEF Adds
    <3>4. UsedOn(x, T) = UsedOn(m, S) + UsedOn(m, E) + e - b /\ UsedOn(m, S) \in Int /\ UsedOn(m, E) \in Int
      <4>1. UsedAreNumbers(m) /\ UsedAreNumbers(x)
        BY <1>0, UsedNumbers
      <4>2. QED
        BY <3>2, <3>3, <4>1, SumsAdd
    <3>5. UsedOn(m, E) = 0
      BY UsedNumbers, EmptySum DEF E
    <3>6. x.generations[g].bytes_allocated = UsedOn(m, S) + (IF g = m.gc_alloc_generation THEN r.free - r.start ELSE 0)
      BY <1>0 DEF HeapOK, Counters, S
    <3>7. x.generations[g].bytes_allocated = UsedOn(m, S) + (e - b)
      BY <3>2, <3>6
    <3> DEFINE u == UsedOn(m, S)
               w == UsedOn(x, T)
    <3>8. w = u + e - b /\ u \in Int /\ x.generations[g].bytes_allocated = u + (e - b)
      BY <3>4, <3>5, <3>7
    <3> HIDE DEF u, w
    <3>9. x.generations[g].bytes_allocated = w
      BY <3>2, <3>8
    <3>10. QED
      BY <3>9 DEF w, T
  <2>2. QED
    BY <2>1 DEF Counters
<1>13. NoAreas(x)
  BY <1>0 DEF HeapOK, NoAreas, SameWork
<1>14. QED
  BY <1>0, <1>4, <1>5, <1>6, <1>7, <1>8, <1>9, <1>10, <1>11, <1>12, <1>13 DEF HeapOK, PagesOK

-----------------------------------------------------------------------------
(* Recording areas, and closing a region.                                    *)

\* A cell of a recorded area.
InArea(m, b) == \E i \in DOMAIN m.new_areas :
    m.new_areas[i].start <= b /\ b < m.new_areas[i].start + m.new_areas[i].size
Recording(m, x, start, n) ==
  \A b \in Int : InArea(x, b) => InArea(m, b) \/ (start <= b /\ b < start + n)

LEMMA AddAreaIs ==
  ASSUME NEW m \in Heaps, NEW start \in Addr, NEW n \in Nat, NEW x, x = add_new_area(m, start, n)
  PROVE  /\ x \in Heaps /\ SamePages(m, x) /\ SameWork(m, x) /\ x.mem = m.mem
         /\ x.generations = m.generations /\ x.overflow = m.overflow /\ x.stats = m.stats
         /\ Recording(m, x, start, n) /\ (m.record_new_objects = 0 => x.new_areas = m.new_areas)
<1> DEFINE as == m.new_areas
           prior == {i \in DOMAIN as : as[i].start + as[i].size = start}
<1>0. as \in Seq(Area)
  BY DEF Heaps
<1>1. CASE x = m
  <2>1. SamePages(m, x) /\ SameWork(m, x)
    BY <1>1 DEF SamePages, SameWork
  <2>2. QED
    BY <1>1, <2>1 DEF Recording
<1>2. CASE x # m /\ prior # {}
  <2> DEFINE i == CHOOSE i \in prior : \A j \in prior : j <= i
             bs == [as EXCEPT ![i].size = @ + n]
  <2>1. x = [m EXCEPT !.new_areas[i].size = @ + n] /\ Records(m, start)
    BY <1>2 DEF add_new_area
  <2>2. \E e \in prior : \A j \in prior : j <= e
    <3>1. DOMAIN as = 1..Len(as) /\ Len(as) \in Nat
      BY <1>0
    <3>2. prior \in SUBSET (1..Len(as))
      BY <3>1
    <3> HIDE DEF prior
    <3>3. Max(prior) \in prior /\ \A j \in prior : j <= Max(prior)
      BY <1>2, <3>1, <3>2, MaxIs
    <3>4. QED
      BY <3>3
  <2>3. i \in prior
    BY <2>2
  <2> HIDE DEF i
  <2>4. i \in DOMAIN as /\ as[i].start + as[i].size = start /\ as[i] \in Area
    BY <1>0, <2>3
  <2>5. /\ DOMAIN bs = DOMAIN as /\ bs[i].start = as[i].start /\ bs[i].size = as[i].size + n
        /\ \A j \in DOMAIN as : j # i => bs[j] = as[j]
    BY <1>0, <2>4 DEF Area
  <2>6. bs \in Seq(Area)
    <3>1. [as[i] EXCEPT !.size = @ + n] \in Area
      BY <2>4 DEF Area
    <3>2. bs = [as EXCEPT ![i] = [as[i] EXCEPT !.size = @ + n]]
      BY <2>4
    <3>3. QED
      BY <1>0, <2>4, <3>1, <3>2
  <2>7. x = [m EXCEPT !.new_areas = bs]
    BY <2>1 DEF Heaps
  <2> HIDE DEF bs, prior
  <2>8. x \in Heaps
    BY <2>6, <2>7 DEF Heaps
  <2>9. x.new_areas = bs /\ x.page = m.page /\ x.mem = m.mem /\ x.region = m.region /\ x.stats = m.stats
        /\ x.generations = m.generations /\ x.overflow = m.overflow
        /\ x.gc_alloc_generation = m.gc_alloc_generation /\ x.last_free_page = m.last_free_page
        /\ x.from_space = m.from_space /\ x.new_space = m.new_space /\ x.record_new_objects = m.record_new_objects
        /\ x.weak_pointers = m.weak_pointers /\ x.weak_hash_tables = m.weak_hash_tables
    BY <2>7 DEF Heaps
  <2>10. Recording(m, x, start, n)
    <3> SUFFICES ASSUME NEW b \in Int, InArea(x, b), ~InArea(m, b) PROVE start <= b /\ b < start + n
      BY DEF Recording
    <3>1. PICK j \in DOMAIN bs : bs[j].start <= b /\ b < bs[j].start + bs[j].size
      BY <2>9 DEF InArea
    <3>2. j = i
      BY <2>5, <3>1 DEF InArea
    <3>3. as[i].start \in Int /\ as[i].size \in Int
      BY <2>4, AddrIs DEF Area
    <3>4. ~(as[i].start <= b /\ b < as[i].start + as[i].size)
      BY <2>4 DEF InArea
    <3>5. bs[i].start <= b /\ b < bs[i].start + bs[i].size
      BY <3>1, <3>2
    <3>6. QED
      BY <2>4, <2>5, <3>3, <3>4, <3>5
  <2>11. m.record_new_objects # 0
    BY <2>1 DEF Records
  <2>12. QED
    BY <2>8, <2>9, <2>10, <2>11 DEF SamePages, SameWork
<1>3. CASE x # m /\ prior = {}
  <2> DEFINE c == [start |-> start, size |-> n]
             bs == Append(as, c)
  <2>1. x = [m EXCEPT !.new_areas = bs] /\ Records(m, start)
    BY <1>3 DEF add_new_area
  <2>2. c \in Area
    BY DEF Area
  <2>3. bs \in Seq(Area) /\ DOMAIN bs = 1..Len(as)+1 /\ DOMAIN as = 1..Len(as) /\ Len(as) \in Nat
        /\ bs[Len(as)+1] = c /\ \A j \in DOMAIN as : bs[j] = as[j]
    BY <1>0, <2>2
  <2>4. c.start = start /\ c.size = n
    OBVIOUS
  <2> HIDE DEF bs, prior, c
  <2>8. x \in Heaps
    BY <2>1, <2>3 DEF Heaps
  <2>9. x.new_areas = bs /\ x.page = m.page /\ x.mem = m.mem /\ x.region = m.region /\ x.stats = m.stats
        /\ x.generations = m.generations /\ x.overflow = m.overflow
        /\ x.gc_alloc_generation = m.gc_alloc_generation /\ x.last_free_page = m.last_free_page
        /\ x.from_space = m.from_space /\ x.new_space = m.new_space /\ x.record_new_objects = m.record_new_objects
        /\ x.weak_pointers = m.weak_pointers /\ x.weak_hash_tables = m.weak_hash_tables
    BY <2>1 DEF Heaps
  <2>10. Recording(m, x, start, n)
    <3> SUFFICES ASSUME NEW b \in Int, InArea(x, b), ~InArea(m, b) PROVE start <= b /\ b < start + n
      BY DEF Recording
    <3>1. PICK j \in DOMAIN bs : bs[j].start <= b /\ b < bs[j].start + bs[j].size
      BY <2>9 DEF InArea
    <3>2. j \notin DOMAIN as
      BY <2>3, <3>1 DEF InArea
    <3>3. j = Len(as) + 1
      BY <2>3, <3>2
    <3>4. QED
      BY <2>3, <2>4, <3>1, <3>3
  <2>11. m.record_new_objects # 0
    BY <2>1 DEF Records
  <2>12. QED
    BY <2>8, <2>9, <2>10, <2>11 DEF SamePages, SameWork
<1>4. QED
  BY <1>1, <1>2, <1>3

LEMMA AddAreaOK ==
  ASSUME NEW m \in Heaps, HeapOK(m), NEW start \in Addr, NEW n \in Nat, NEW x, x = add_new_area(m, start, n)
  PROVE  HeapOK(x)
<1>1. /\ x \in Heaps /\ SamePages(m, x) /\ SameWork(m, x) /\ x.mem = m.mem
      /\ (m.record_new_objects = 0 => x.new_areas = m.new_areas)
  BY AddAreaIs
<1>2. SameHeap(m, x)
  BY <1>1 DEF SamePages, SameHeap
<1>3. NoAreas(x)
  BY <1>1 DEF HeapOK, NoAreas, SameWork
<1>4. QED
  BY <1>1, <1>2, <1>3, Carried

-----------------------------------------------------------------------------
(* What an allocation may do: pages become pages of the generation that is   *)
(* allocated in, and what was allocated before keeps its place and contents. *)
KeptCell(m, x, a) ==
  /\ x.page[PageOf(a)].alloc /\ Held(x, a) /\ x.mem[a] = m.mem[a]
  /\ x.page[PageOf(a)].offset = m.page[PageOf(a)].offset /\ x.page[PageOf(a)].large = m.page[PageOf(a)].large
  /\ x.page[PageOf(a)].unboxed = m.page[PageOf(a)].unboxed
GrownPage(m, x, p) ==
  \/ x.page[p] = m.page[p]
  \/ /\ x.page[p].gen = m.gc_alloc_generation /\ ~x.page[p].wp /\ ~x.page[p].pinned
     /\ m.page[p].alloc => m.page[p].gen = m.gc_alloc_generation
NewArea(m, x, b) == InArea(x, b) => InArea(m, b) \/ (b \in Addr /\ x.page[PageOf(b)].gen = m.gc_alloc_generation)
Grows(m, x) ==
  /\ SameWork(m, x)
  /\ \A p \in Pages : GrownPage(m, x, p)
  /\ \A a \in Addr : m.page[PageOf(a)].alloc /\ Held(m, a) => KeptCell(m, x, a)
  /\ \A b \in Int : NewArea(m, x, b)

LEMMA GrowsSelf ==
  ASSUME NEW m
  PROVE  Grows(m, m)
BY DEF Grows, SameWork, GrownPage, KeptCell, NewArea

LEMMA GrowsOn ==
  ASSUME NEW m \in Heaps, NEW x \in Heaps, NEW y \in Heaps, Grows(m, x), Grows(x, y)
  PROVE  Grows(m, y)
<1>1. SameWork(m, y) /\ x.gc_alloc_generation = m.gc_alloc_generation
  BY DEF Grows, SameWork
<1>2. ASSUME NEW p \in Pages PROVE GrownPage(m, y, p)
  <2>1. GrownPage(m, x, p) /\ GrownPage(x, y, p)
    BY DEF Grows
  <2>2. QED
    BY <1>1, <2>1 DEF GrownPage
<1>3. ASSUME NEW a \in Addr, m.page[PageOf(a)].alloc /\ Held(m, a) PROVE KeptCell(m, y, a)
  <2>1. KeptCell(m, x, a)
    BY <1>3 DEF Grows
  <2>2. KeptCell(x, y, a)
    BY <2>1 DEF Grows, KeptCell
  <2>3. QED
    BY <2>1, <2>2 DEF KeptCell
<1>4. ASSUME NEW b \in Int, InArea(y, b), ~InArea(m, b)
      PROVE  b \in Addr /\ y.page[PageOf(b)].gen = m.gc_alloc_generation
  <2>1. NewArea(m, x, b) /\ NewArea(x, y, b)
    BY DEF Grows
  <2>2. CASE ~InArea(x, b)
    BY <1>1, <1>4, <2>1, <2>2 DEF NewArea
  <2>3. CASE InArea(x, b)
    <3>1. b \in Addr /\ x.page[PageOf(b)].gen = m.gc_alloc_generation
      BY <1>4, <2>1, <2>3 DEF NewArea
    <3>2. GrownPage(x, y, PageOf(b))
      BY <3>1, PageIsIn DEF Grows
    <3>3. QED
      BY <1>1, <3>1, <3>2 DEF GrownPage
  <2>4. QED
    BY <2>2, <2>3
<1>5. QED
  BY <1>1, <1>2, <1>3, <1>4 DEF Grows, NewArea

\* Each page of a run of cells is the page of one of them.
LEMMA RunPages ==
  ASSUME NEW at \in Int, NEW n \in Nat, n >= 1, NEW p \in PageOf(at)..PageOf(at+n-1)
  PROVE  \E b \in at..at+n-1 : PageOf(b) = p
<1>1. /\ PageOf(at) \in Int /\ page_address(PageOf(at)) <= at /\ at < page_address(PageOf(at)) + PageSize
      /\ PageOf(at+n-1) \in Int /\ page_address(PageOf(at+n-1)) <= at+n-1
      /\ p \in Int /\ page_address(p) \in Int /\ PageSize \in Int /\ PageSize >= 1
  BY PageBounds, Paging
<1>2. CASE p = PageOf(at)
  BY <1>2
<1>3. CASE p # PageOf(at)
  <2>1. page_address(PageOf(at)) + PageSize <= page_address(p)
    <3>1. PageOf(at) < p
      BY <1>1, <1>3
    <3>2. QED
      BY <1>1, <3>1, Paging
  <2>2. page_address(p) <= at+n-1
    <3> DEFINE l == PageOf(at+n-1)
    <3>1. p <= l /\ l \in Int /\ page_address(l) \in Int /\ page_address(l) <= at+n-1
      BY <1>1, Paging
    <3> HIDE DEF l
    <3>2. CASE p = l
      BY <3>1, <3>2
    <3>3. CASE p < l
      <4>1. page_address(p) + PageSize <= page_address(l)
        BY <1>1, <3>1, <3>3, Paging
      <4>2. QED
        BY <1>1, <3>1, <4>1
    <3>4. QED
      BY <1>1, <3>1, <3>2, <3>3
  <2>21. at <= page_address(p)
    <3> DEFINE f == PageOf(at)
    <3>1. f \in Int /\ page_address(f) \in Int /\ at < page_address(f) + PageSize /\ page_address(f) + PageSize <= page_address(p)
      BY <1>1, <2>1, Paging
    <3> HIDE DEF f
    <3>2. QED
      BY <1>1, <3>1
  <2>3. page_address(p) \in at..at+n-1
    BY <1>1, <2>21, <2>2
  <2>4. PageOf(page_address(p)) = p
    BY <1>1, OnPage
  <2>5. QED
    BY <2>3, <2>4
<1>4. QED
  BY <1>2, <1>3

\* The cells that one allocation has set aside survive the next.
LEMMA GrowsVacant ==
  ASSUME NEW m \in Heaps, NEW x \in Heaps, Grows(m, x), NEW at, NEW n \in Nat, n >= 1, NEW k, Vacant(m, at, n, k)
  PROVE  Vacant(x, at, n, k)
<1>1. at \in Addr /\ at \in Int
  BY PageIsIn DEF Vacant
<1>2. ASSUME NEW b \in at..at+n-1 PROVE b \in Addr /\ x.mem[b] = zero /\ KeptCell(m, x, b)
  <2>1. b \in Addr /\ m.mem[b] = zero /\ m.page[PageOf(b)].alloc /\ Held(m, b)
    BY DEF Vacant
  <2>2. KeptCell(m, x, b)
    BY <2>1 DEF Grows
  <2>3. QED
    BY <2>1, <2>2 DEF KeptCell
<1>3. ASSUME NEW p \in PageOf(at)..PageOf(at+n-1)
      PROVE  x.page[p].offset = m.page[p].offset /\ x.page[p].large = m.page[p].large /\ x.page[p].unboxed = m.page[p].unboxed
  <2>1. PICK b \in at..at+n-1 : PageOf(b) = p
    BY <1>1, RunPages
  <2>2. QED
    BY <1>2, <2>1 DEF KeptCell
<1>4. ASSUME NEW p \in PageOf(at)+1..PageOf(at+n-1) PROVE x.page[p].offset >= page_address(p) - at
  <2>1. PageOf(at) \in Int /\ PageOf(at+n-1) \in Int
    BY <1>1, PageBounds
  <2>2. p \in PageOf(at)..PageOf(at+n-1)
    BY <2>1
  <2>3. m.page[p].offset >= page_address(p) - at
    BY DEF Vacant
  <2>4. QED
    BY <1>3, <2>2, <2>3
<1>5. ASSUME NEW p \in PageOf(at)..PageOf(at+n-1), x.page[p].large
      PROVE  StartOf(x, p) = at /\ n >= LargeSize /\ x.page[p].unboxed = (k = "unboxed")
  <2>1. m.page[p].large /\ m.page[p].offset = x.page[p].offset /\ x.page[p].unboxed = m.page[p].unboxed
    BY <1>3, <1>5
  <2>2. StartOf(m, p) = at /\ n >= LargeSize /\ m.page[p].unboxed = (k = "unboxed")
    BY <2>1 DEF Vacant
  <2>3. QED
    BY <2>1, <2>2 DEF StartOf
<1>6. QED
  BY <1>1, <1>2, <1>4, <1>5 DEF Vacant, KeptCell

LEMMA CloseRegionGrows ==
  ASSUME NEW m \in Heaps, HeapOK(m), NEW k \in Regions, Opened(m, k),
         NEW x, x = CloseRegion(m, k, m.region[k], m.region[k].free - m.region[k].start)
  PROVE  Grows(m, x)
<1> DEFINE r == m.region[k]
<1>0. /\ x \in Heaps /\ x.mem = m.mem /\ SameWork(m, x) /\ x.new_areas = m.new_areas
      /\ x.region[k] = ResetRegion /\ \A j \in Regions : j # k => x.region[j] = m.region[j]
  BY CloseRegionIs
<1>1. /\ r.first \in Int /\ r.last \in Int /\ r.start \in Nat /\ r.free \in Nat /\ r.end \in Nat
      /\ r.free <= r.end /\ \A p \in r.first..r.last : p \in Pages
  BY RegionBounds
<1> HIDE DEF r
<1>2. ASSUME NEW p \in Pages PROVE GrownPage(m, x, p)
  <2>1. /\ p \notin r.first..r.last => x.page[p].used = m.page[p].used /\ x.page[p].alloc = m.page[p].alloc
        /\ x.page[p].gen = m.page[p].gen /\ x.page[p].unboxed = m.page[p].unboxed
        /\ x.page[p].large = m.page[p].large /\ x.page[p].offset = m.page[p].offset
        /\ x.page[p].wp = m.page[p].wp /\ x.page[p].pinned = m.page[p].pinned
    BY ClosedPageIs DEF r
  <2>2. CASE p \in r.first..r.last
    <3>1. m.page[p].gen = m.gc_alloc_generation /\ ~m.page[p].wp /\ ~m.page[p].pinned
      BY <2>2, ClosedPageIs DEF r
    <3>2. QED
      BY <2>1, <3>1 DEF GrownPage
  <2>3. CASE p \notin r.first..r.last
    <3>1. x.page[p] \in Page /\ m.page[p] \in Page
      BY <1>0, PageIs
    <3>2. x.page[p] = m.page[p]
      BY <2>1, <2>3, <3>1, SamePage
    <3>3. QED
      BY <3>2 DEF GrownPage
  <2>4. QED
    BY <2>2, <2>3
<1>3. ASSUME NEW a \in Addr, m.page[PageOf(a)].alloc, Held(m, a) PROVE KeptCell(m, x, a)
  <2> DEFINE p == PageOf(a)
  <2>1. p \in Pages /\ a \in Int /\ p \in Int /\ page_address(p) \in Int /\ page_address(p) <= a
        /\ page_address(p + 1) = page_address(p) + PageSize /\ PageSize \in Nat /\ a < page_address(p) + PageSize
    <3>1. p \in Pages /\ a \in Int /\ p \in Int
      BY PageIsIn DEF Pages
    <3>2. QED
      BY <3>1, PageBounds, NextPage, Paging
  <2> HIDE DEF p
  <2>2. /\ x.page[p].used >= m.page[p].used /\ x.page[p].used \in Int /\ m.page[p].used \in Int
        /\ x.page[p].offset = m.page[p].offset /\ x.page[p].large = m.page[p].large
        /\ x.page[p].unboxed = m.page[p].unboxed
        /\ p \notin r.first..r.last => x.page[p].alloc = m.page[p].alloc
        /\ p \in r.first..r.last => x.page[p].alloc = (x.page[p].used # 0) /\ x.page[p].used = UsedBelow(r.free, p)
    <3>1. p \in Pages
      BY <2>1
    <3>2. QED
      BY <3>1, ClosedPageIs DEF r
  <2>3. CASE a - page_address(p) < m.page[p].used
    <3>1. a - page_address(p) < x.page[p].used /\ x.page[p].used # 0
      <4>1. a \in Int /\ page_address(p) \in Int /\ page_address(p) <= a
        BY <2>1
      <4>2. x.page[p].used >= m.page[p].used /\ x.page[p].used \in Int /\ m.page[p].used \in Int
        BY <2>2
      <4>3. QED
        BY <2>3, <4>1, <4>2
    <3>2. x.page[p].alloc
      BY <1>3, <2>2, <3>1 DEF p
    <3>3. QED
      BY <1>0, <2>2, <3>1, <3>2 DEF KeptCell, Held, p
  <2>4. CASE r.start <= a /\ a < r.free
    <3>1. p \in r.first..r.last
      <4>1. a < r.end
        BY <1>1, <2>1, <2>4
      <4>2. QED
        BY <2>1, <2>4, <4>1, RegionCells DEF p, r
    <3>2. a - page_address(p) < UsedBelow(r.free, p)
      BY <1>1, <2>1, <2>4 DEF UsedBelow
    <3>3. a - page_address(p) < x.page[p].used /\ x.page[p].used # 0
      <4>1. a \in Int /\ page_address(p) \in Int /\ page_address(p) <= a
        BY <2>1
      <4>2. x.page[p].used = UsedBelow(r.free, p) /\ x.page[p].used \in Int
        BY <2>2, <3>1
      <4>3. QED
        BY <3>2, <4>1, <4>2
    <3>4. x.page[p].alloc
      BY <2>2, <3>1, <3>3
    <3>5. QED
      BY <1>0, <2>2, <3>3, <3>4 DEF KeptCell, Held, p
  <2>5. ASSUME NEW j \in Regions, j # k, m.region[j].start <= a, a < m.region[j].free PROVE KeptCell(m, x, a)
    <3>1. Opened(m, j)
      <4>1. m.region[j] # ResetRegion
        BY <2>1, <2>5, ResetIs
      <4>2. QED
        BY <4>1 DEF HeapOK, PagesOK, RegionsOK
    <3>2. m.region[j].start \in Nat /\ m.region[j].free \in Nat /\ m.region[j].end \in Nat /\ m.region[j].free <= m.region[j].end
      BY <3>1, RegionBounds
    <3>3. p \in m.region[j].first..m.region[j].last
      <4>1. a < m.region[j].end
        BY <2>1, <2>5, <3>2
      <4>2. QED
        BY <2>1, <2>5, <3>1, <4>1, RegionCells DEF p
    <3>4. p \notin r.first..r.last
      BY <2>5, <3>1, <3>3, RegionsApart DEF r
    <3>5. x.page[p].alloc
      BY <1>3, <2>2, <3>4 DEF p
    <3>6. Held(x, a)
      <4>1. x.region[j] = m.region[j]
        BY <1>0, <2>5
      <4>2. QED
        BY <2>5, <4>1 DEF Held
    <3>7. QED
      BY <1>0, <2>2, <3>5, <3>6 DEF KeptCell, p
  <2>6. QED
    BY <1>3, <2>3, <2>4, <2>5 DEF Held, p, r
<1>4. \A b \in Int : NewArea(m, x, b)
  BY <1>0 DEF NewArea, InArea
<1>5. QED
  BY <1>0, <1>2, <1>3, <1>4 DEF Grows

\* An area that is recorded lies on pages of the generation that is allocated in.
LEMMA AddAreaGrows ==
  ASSUME NEW m \in Heaps, HeapOK(m), NEW start \in Addr, NEW n \in Nat, NEW x, x = add_new_area(m, start, n),
         \A b \in start..start+n-1 : b \in Addr /\ m.page[PageOf(b)].gen = m.gc_alloc_generation
  PROVE  Grows(m, x)
<1>1. SamePages(m, x) /\ SameWork(m, x) /\ x.mem = m.mem /\ Recording(m, x, start, n)
  BY AddAreaIs
<1>2. \A p \in Pages : GrownPage(m, x, p)
  BY <1>1 DEF GrownPage, SamePages
<1>3. \A a \in Addr : m.page[PageOf(a)].alloc /\ Held(m, a) => KeptCell(m, x, a)
  BY <1>1 DEF KeptCell, Held, SamePages
<1>4. ASSUME NEW b \in Int PROVE NewArea(m, x, b)
  <2>1. InArea(x, b) => InArea(m, b) \/ (start <= b /\ b < start + n)
    BY <1>1 DEF Recording
  <2>2. start <= b /\ b < start + n => b \in start..start+n-1
    BY PageIsIn
  <2>3. x.page = m.page
    BY <1>1 DEF SamePages
  <2>4. QED
    BY <2>1, <2>2, <2>3 DEF NewArea
<1>5. QED
  BY <1>1, <1>2, <1>3, <1>4 DEF Grows

\* The pages of a region are those its cells are on.
LEMMA RegionSpan ==
  ASSUME NEW m \in Heaps, NEW k \in Regions, Opened(m, k), NEW b \in Int, m.region[k].start <= b, b < m.region[k].free
  PROVE  /\ b \in Addr /\ PageOf(b) \in m.region[k].first..m.region[k].last
         /\ m.page[PageOf(b)].gen = m.gc_alloc_generation
<1>1. m.region[k].free <= m.region[k].end /\ m.region[k].free \in Nat /\ m.region[k].end \in Nat
  BY RegionBounds
<1>2. b < m.region[k].end
  BY <1>1
<1>3. PageOf(b) \in m.region[k].first..m.region[k].last /\ b \in Addr
  BY <1>2, RegionCells
<1>4. QED
  BY <1>3 DEF Opened

LEMMA UpdateTablesOK ==
  ASSUME NEW m \in Heaps, HeapOK(m), NEW k \in Regions, NEW x, x = gc_alloc_update_page_tables(m, k)
  PROVE  /\ HeapOK(x) /\ x \in Heaps /\ Grows(m, x) /\ x.region[k] = ResetRegion
         /\ \A j \in Regions : j # k => x.region[j] = m.region[j]
         /\ x.overflow = m.overflow /\ x.stats = m.stats
<1> DEFINE r == m.region[k]
           n == r.free - r.start
           c == CloseRegion(m, k, r, n)
<1>1. CASE r = ResetRegion
  <2>1. x = m
    BY <1>1 DEF gc_alloc_update_page_tables
  <2>2. QED
    BY <1>1, <2>1, GrowsSelf
<1>2. CASE r # ResetRegion
  <2>1. Opened(m, k)
    BY <1>2 DEF HeapOK, PagesOK, RegionsOK
  <2>2. r.start \in Nat /\ r.free \in Nat /\ r.start <= r.free /\ n \in Nat
    BY <2>1, RegionBounds
  <2>3. /\ c \in Heaps /\ c.stats = m.stats /\ c.overflow = m.overflow /\ SameWork(m, c)
        /\ c.region[k] = ResetRegion /\ \A j \in Regions : j # k => c.region[j] = m.region[j]
    BY <2>1, CloseRegionIs
  <2>4. HeapOK(c)
    BY <2>1, CloseRegionOK
  <2>5. Grows(m, c)
    BY <2>1, CloseRegionGrows
  <2>50. \A p \in Pages : c.page[p].gen = m.page[p].gen
    BY <2>1, ClosedPageIs
  <2>6. x = c \/ (n # 0 /\ x = add_new_area(c, r.start, n))
    BY <1>2, <2>2 DEF gc_alloc_update_page_tables
  <2> HIDE DEF c
  <2>7. CASE x = c
    BY <2>3, <2>4, <2>5, <2>7
  <2>8. CASE n # 0 /\ x = add_new_area(c, r.start, n)
    <3>1. \A b \in r.start..r.start+n-1 : b \in Addr /\ c.page[PageOf(b)].gen = c.gc_alloc_generation
      <4> TAKE b \in r.start..r.start+n-1
      <4>1. b \in Int /\ r.start <= b /\ b < r.free
        BY <2>2
      <4>2. b \in Addr /\ m.page[PageOf(b)].gen = m.gc_alloc_generation
        BY <2>1, <4>1, RegionSpan
      <4>3. QED
        BY <2>3, <2>50, <4>2, PageIsIn DEF SameWork
    <3>2. r.start \in Addr
      BY <2>2, <2>8, <3>1
    <3> HIDE DEF n, r
    <3>3. x \in Heaps /\ SamePages(c, x) /\ x.overflow = c.overflow /\ x.stats = c.stats
      BY <2>2, <2>3, <2>8, <3>2, AddAreaIs
    <3>4. HeapOK(x)
      BY <2>2, <2>3, <2>4, <2>8, <3>2, AddAreaOK
    <3>5. Grows(c, x)
      BY <2>2, <2>3, <2>4, <2>8, <3>1, <3>2, AddAreaGrows
    <3>6. Grows(m, x)
      BY <2>3, <2>5, <3>3, <3>5, GrowsOn
    <3>7. QED
      BY <2>3, <3>3, <3>4, <3>6 DEF SamePages
  <2>9. QED
    BY <2>6, <2>7, <2>8
<1>3. QED
  BY <1>1, <1>2

-----------------------------------------------------------------------------
(* A new region.                                                             *)
LEMMA LastPageIs ==
  ASSUME NEW m \in Heaps, NEW p \in Pages, NEW n \in Nat, NEW least \in Nat,
         NEW l, l = LastPage(m, p, n, least)
  PROVE  /\ l \in Pages /\ p <= l /\ \A q \in p+1..l : ~m.page[q].alloc
         /\ l > p => (l - p) * PageSize - m.page[p].used < n \/ l - p < least
<1> DEFINE found(q) == (q - p + 1) * PageSize - m.page[p].used
           stop(q) == \/ found(q) >= n /\ q - p + 1 >= least
                      \/ q = NPages - 1
                      \/ m.page[q+1].alloc
           S == {q \in p..NPages-1 : stop(q)}
<1>1. p \in Nat /\ NPages \in Nat /\ p < NPages
  BY Paging DEF Pages
<1>2. NPages - 1 \in S
  BY <1>1
<1>3. S \in SUBSET Nat /\ S # {}
  BY <1>1, <1>2
<1>4. LastPage(m, p, n, least) = LeastOf(S)
  BY DEF LastPage
<1> HIDE DEF S
<1>5. l \in S /\ \A q \in S : l <= q
  BY <1>3, <1>4, Least
<1>6. l \in p..NPages-1
  BY <1>5 DEF S
<1>7. ASSUME NEW q \in p..NPages-1, q < l PROVE ~stop(q)
  BY <1>1, <1>5, <1>6, <1>7 DEF S
<1>8. ASSUME NEW q \in p+1..l PROVE ~m.page[q].alloc
  <2>1. q - 1 \in p..NPages-1 /\ q - 1 < l /\ (q - 1) + 1 = q
    BY <1>1, <1>6
  <2>2. ~stop(q - 1)
    BY <1>7, <2>1
  <2>3. QED
    BY <2>1, <2>2
<1>9. ASSUME l > p PROVE (l - p) * PageSize - m.page[p].used < n \/ l - p < least
  <2>1. l - 1 \in p..NPages-1 /\ l - 1 < l /\ (l - 1) - p + 1 = l - p
    BY <1>1, <1>6, <1>9
  <2>2. ~stop(l - 1)
    BY <1>7, <2>1
  <2>3. m.page[p].used \in Int /\ PageSize \in Int
    BY PageIs, Paging
  <2>4. found(l - 1) = (l - p) * PageSize - m.page[p].used
    BY <2>1
  <2> DEFINE f == (l - p) * PageSize - m.page[p].used
  <2>5. ~(f >= n /\ l - p >= least)
    BY <2>1, <2>2, <2>4
  <2>6. (l - p) * PageSize \in Int /\ f \in Int
    BY <1>1, <1>6, <2>3
  <2> HIDE DEF f
  <2>7. f < n \/ l - p < least
    BY <1>1, <1>6, <2>5, <2>6
  <2>8. QED
    BY <2>7 DEF f
<1>10. QED
  BY <1>1, <1>6, <1>8, <1>9 DEF Pages

\* A partly used page that an allocation of the kind may go on with is not a page of a region.
LEMMA UsableIs ==
  ASSUME NEW m \in Heaps, PagesOK(m), NEW k \in Regions, NEW p \in Pages, Usable(m, p, k), m.page[p].alloc,
         p \notin m.region[k].first..m.region[k].last
  PROVE  /\ ~m.page[p].wp /\ ~m.page[p].large /\ ~m.page[p].pinned
         /\ m.page[p].unboxed = (k = "unboxed") /\ m.page[p].gen = m.gc_alloc_generation
         /\ m.page[p].used < PageSize /\ m.page[p].used # 0
         /\ \A j \in Regions : p \notin m.region[j].first..m.region[j].last
<1>1. /\ ~m.page[p].wp /\ ~m.page[p].large /\ ~m.page[p].pinned
      /\ m.page[p].unboxed = (k = "unboxed") /\ m.page[p].gen = m.gc_alloc_generation
      /\ m.page[p].used < PageSize - Threshold
  BY DEF Usable
<1>2. m.page[p].used < PageSize
  BY <1>1, PageIs, Constants
<1>3. ASSUME NEW j \in Regions, p \in m.region[j].first..m.region[j].last PROVE FALSE
  <2>1. m.region[j] # ResetRegion
    BY <1>3, ResetIs
  <2>2. Opened(m, j) /\ j # k
    BY <1>3, <2>1 DEF PagesOK, RegionsOK
  <2>3. m.page[p].unboxed = (j = "unboxed")
    BY <1>3, <2>2 DEF Opened
  <2>4. (j = "unboxed") = (k = "unboxed")
    BY <1>1, <2>3
  <2>5. QED
    BY <2>2, <2>4 DEF Regions
<1>4. m.page[p].used # 0
  <2> SUFFICES ASSUME m.page[p].used = 0 PROVE FALSE
    OBVIOUS
  <2>1. PICK j \in Regions : p \in m.region[j].first..m.region[j].last
    BY UsedOrInRegion
  <2>2. QED
    BY <1>3, <2>1
<1>5. QED
  BY <1>1, <1>2, <1>3, <1>4

LEMMA MadviseGrows ==
  ASSUME NEW m \in Heaps, HeapOK(m), NEW ps, NEW x, x = handle_madvise_pages(m, ps)
  PROVE  Grows(m, x)
<1>1. /\ SamePages(m, x) /\ SameWork(m, x) /\ SameLists(m, x)
      /\ \A a \in Addr : m.page[PageOf(a)].alloc => x.mem[a] = m.mem[a]
  BY MadviseIs
<1>2. \A p \in Pages : GrownPage(m, x, p)
  BY <1>1 DEF GrownPage, SamePages
<1>3. \A a \in Addr : m.page[PageOf(a)].alloc /\ Held(m, a) => KeptCell(m, x, a)
  BY <1>1 DEF KeptCell, Held, SamePages
<1>4. \A b \in Int : NewArea(m, x, b)
  BY <1>1 DEF NewArea, InArea, SameLists
<1>5. QED
  BY <1>1, <1>2, <1>3, <1>4 DEF Grows

LEMMA OpenRegionGrows ==
  ASSUME NEW m \in Heaps, HeapOK(m), NEW k \in Regions, NEW first, NEW last, Openable(m, first, last, k),
         NEW x, x = OpenRegion(m, first, last, k)
  PROVE  Grows(m, x)
<1>1. /\ x \in Heaps /\ x.mem = m.mem /\ SameWork(m, x) /\ x.new_areas = m.new_areas
      /\ \A j \in Regions : j # k => x.region[j] = m.region[j]
      /\ \A p \in Pages : p \notin first..last => x.page[p] = m.page[p]
      /\ m.page[first].used # 0 => x.page[first] = m.page[first]
      /\ m.page[first].used = 0 => RegionPage(m, x, first, k)
      /\ \A p \in first+1..last : RegionPage(m, x, p, k)
  BY OpenRegionIs DEF SameLists
<1>2. /\ first \in Int /\ last \in Int /\ first <= last /\ m.region[k] = ResetRegion
      /\ m.page[first].alloc => m.page[first].gen = m.gc_alloc_generation /\ m.page[first].used # 0
      /\ \A p \in first+1..last : ~m.page[p].alloc
  BY Paging DEF Openable, Pages
<1>3. ASSUME NEW p \in Pages PROVE GrownPage(m, x, p)
  <2>1. p \notin first..last \/ p = first \/ p \in first+1..last
    BY <1>2
  <2>2. CASE p \notin first..last
    BY <1>1, <2>2 DEF GrownPage
  <2>3. CASE p = first
    BY <1>1, <1>2, <2>3 DEF GrownPage, RegionPage
  <2>4. CASE p \in first+1..last
    BY <1>1, <1>2, <2>4 DEF GrownPage, RegionPage
  <2>5. QED
    BY <2>1, <2>2, <2>3, <2>4
<1>4. ASSUME NEW a \in Addr, m.page[PageOf(a)].alloc, Held(m, a) PROVE KeptCell(m, x, a)
  <2>1. PageOf(a) \in Pages /\ a >= 0 /\ a \in Int
    BY PageIsIn
  <2>2. PageOf(a) \notin first..last \/ (PageOf(a) = first /\ m.page[first].used # 0)
    <3>1. PageOf(a) \notin first+1..last
      BY <1>2, <1>4
    <3>2. PageOf(a) \notin first..last \/ PageOf(a) = first \/ PageOf(a) \in first+1..last
      BY <1>2
    <3>3. QED
      BY <1>2, <1>4, <3>1, <3>2
  <2>3. x.page[PageOf(a)] = m.page[PageOf(a)]
    BY <1>1, <2>1, <2>2
  <2>4. Held(x, a)
    <3>1. CASE a - page_address(PageOf(a)) < m.page[PageOf(a)].used
      BY <2>3, <3>1 DEF Held
    <3>2. CASE ~(a - page_address(PageOf(a)) < m.page[PageOf(a)].used)
      <4>1. PICK j \in Regions : m.region[j].start <= a /\ a < m.region[j].free
        BY <1>4, <3>2 DEF Held
      <4>2. j # k
        BY <1>2, <2>1, <4>1, ResetIs
      <4>3. x.region[j] = m.region[j]
        BY <1>1, <4>2
      <4>4. QED
        BY <4>1, <4>3 DEF Held
    <3>3. QED
      BY <3>1, <3>2
  <2>5. QED
    BY <1>1, <1>4, <2>3, <2>4 DEF KeptCell
<1>5. \A b \in Int : NewArea(m, x, b)
  BY <1>1 DEF NewArea, InArea
<1>6. QED
  BY <1>1, <1>3, <1>4, <1>5 DEF Grows

LEMMA PageSpan ==
  ASSUME NEW p \in Int, NEW q \in Int
  PROVE  page_address(q + 1) = page_address(p) + (q - p + 1) * PageSize /\ (q - p + 1) * PageSize \in Int
<1>1. PageSize \in Int
  BY Paging
<1>2. (q + 1) * PageSize = p * PageSize + (q - p + 1) * PageSize /\ (q - p + 1) * PageSize \in Int
  BY <1>1
<1>3. QED
  BY <1>2 DEF page_address

LEMMA OverflowIs ==
  ASSUME NEW m \in Heaps, HeapOK(m), NEW x, x = [m EXCEPT !.overflow = TRUE]
  PROVE  /\ x \in Heaps /\ HeapOK(x) /\ Grows(m, x) /\ x.overflow /\ x.stats = m.stats /\ x.region = m.region
<1>1. x \in Heaps
  BY DEF Heaps
<1>2. x.page = m.page /\ x.mem = m.mem /\ x.region = m.region /\ x.stats = m.stats
      /\ x.generations = m.generations /\ x.overflow /\ x.new_areas = m.new_areas
      /\ x.gc_alloc_generation = m.gc_alloc_generation /\ x.last_free_page = m.last_free_page
      /\ x.from_space = m.from_space /\ x.new_space = m.new_space /\ x.record_new_objects = m.record_new_objects
      /\ x.weak_pointers = m.weak_pointers /\ x.weak_hash_tables = m.weak_hash_tables
  BY DEF Heaps
<1>3. HeapOK(x)
  BY <1>1, <1>2, Carried DEF HeapOK, SameHeap, NoAreas
<1>4. Grows(m, x)
  BY <1>2 DEF Grows, SameWork, GrownPage, KeptCell, Held, NewArea, InArea
<1>5. QED
  BY <1>1, <1>2, <1>3, <1>4

\* A region is opened with room for what was asked, or the heap has overflowed.
Roomy(x, k, n) == Opened(x, k) /\ x.region[k].free + n <= x.region[k].end
LEMMA NewRegionOK ==
  ASSUME NEW m \in Heaps, HeapOK(m), NEW k \in Regions, m.region[k] = ResetRegion, NEW n \in Nat,
         NEW x, x = gc_alloc_new_region(m, n, k)
  PROVE  /\ x \in Heaps /\ HeapOK(x) /\ Grows(m, x) /\ x.stats = m.stats
         /\ \A j \in Regions : j # k => x.region[j] = m.region[j]
         /\ x.overflow \/ Roomy(x, k, n)
         /\ x.overflow => m.overflow \/ x.region[k] = ResetRegion
<1> DEFINE hint == m.generations[m.gc_alloc_generation].start[k]
           can == {p \in hint..NPages-1 : Usable(m, p, k) /\ Fits(m, p, n, 2)}
           p == LeastOf(can)
           l == LastPage(m, p, n, 2)
           ps == p..l
           y == handle_madvise_pages(m, ps)
<1>1. hint \in Nat
  <2>1. m.generations[m.gc_alloc_generation] \in Generation
    BY DEF Heaps
  <2>2. QED
    BY <2>1 DEF Generation
<1>2. CASE can = {}
  <2>1. x = [m EXCEPT !.overflow = TRUE]
    BY <1>2 DEF gc_alloc_new_region
  <2>2. QED
    BY <2>1, OverflowIs
<1>3. CASE can # {}
  <2>1. x = OpenRegion(y, p, l, k)
    BY <1>3 DEF gc_alloc_new_region, OpenRegionAt
  <2>2. p \in can
    <3>1. can \in SUBSET Nat
      BY <1>1, Paging
    <3> HIDE DEF can
    <3>2. QED
      BY <1>3, <3>1, Least
  <2>3. p \in Pages /\ Usable(m, p, k) /\ Fits(m, p, n, 2)
    BY <1>1, <2>2, Paging DEF Pages
  <2> HIDE DEF p, can, hint
  <2>4. l \in Pages /\ p <= l /\ \A q \in p+1..l : ~m.page[q].alloc
    BY <2>3, LastPageIs
  <2>5. (l - p + 1) * PageSize - m.page[p].used >= n
    BY <2>3 DEF Fits
  <2>6. p \in Int /\ l \in Int /\ m.page[p].used \in Nat /\ n \in Int
    BY <2>3, <2>4, PageIs, Paging DEF Pages
  <2> HIDE DEF l, ps
  <2>7. /\ y \in Heaps /\ SamePages(m, y) /\ SameWork(m, y) /\ SameLists(m, y)
        /\ \A a \in Addr : PageOf(a) \in ps /\ ~m.page[PageOf(a)].alloc => y.mem[a] = zero
    BY MadviseIs
  <2>8. HeapOK(y)
    BY MadviseOK
  <2>9. Grows(m, y)
    BY MadviseGrows
  <2> HIDE DEF y
  <2>10. m.page[p].alloc => /\ ~m.page[p].wp /\ ~m.page[p].large /\ ~m.page[p].pinned
                            /\ m.page[p].unboxed = (k = "unboxed") /\ m.page[p].gen = m.gc_alloc_generation
                            /\ m.page[p].used < PageSize /\ m.page[p].used # 0
    <3>1. p \notin m.region[k].first..m.region[k].last
      BY ResetIs
    <3>2. QED
      BY <2>3, <3>1, UsableIs DEF HeapOK
  <2>11. Openable(y, p, l, k)
    <3>1. y.page = m.page /\ y.region = m.region /\ y.gc_alloc_generation = m.gc_alloc_generation
      BY <2>7 DEF SamePages
    <3>2. \A a \in Addr : PageOf(a) \in p..l /\ ~m.page[PageOf(a)].alloc => y.mem[a] = zero
      BY <2>7 DEF ps
    <3>3. QED
      BY <2>3, <2>4, <2>10, <3>1, <3>2 DEF Openable
  <2>12. HeapOK(x) /\ Opened(x, k)
    BY <2>1, <2>7, <2>8, <2>11, OpenRegionOK
  <2>13. Grows(y, x)
    BY <2>1, <2>7, <2>8, <2>11, OpenRegionGrows
  <2>14. /\ x \in Heaps /\ SameLists(y, x)
         /\ \A j \in Regions : j # k => x.region[j] = y.region[j]
         /\ x.region[k].start = page_address(p) + y.page[p].used
         /\ x.region[k].free = x.region[k].start /\ x.region[k].end = page_address(l + 1)
    BY <2>1, <2>7, <2>8, <2>11, OpenRegionIs
  <2>15. Grows(m, x)
    BY <2>7, <2>9, <2>13, <2>14, GrowsOn
  <2>16. x.stats = m.stats /\ x.overflow = m.overflow
    BY <2>7, <2>14 DEF SameLists
  <2>17. x.region[k].free + n <= x.region[k].end
    <3>1. page_address(l + 1) = page_address(p) + (l - p + 1) * PageSize /\ (l - p + 1) * PageSize \in Int
      BY <2>6, PageSpan
    <3>2. x.region[k].free = page_address(p) + m.page[p].used
      BY <2>7, <2>14 DEF SamePages
    <3>3. page_address(p) \in Int
      BY <2>6, Paging
    <3> DEFINE s == (l - p + 1) * PageSize
               f == x.region[k].free
               e == x.region[k].end
    <3>4. e = page_address(p) + s /\ s \in Int /\ f = page_address(p) + m.page[p].used /\ s - m.page[p].used >= n
      BY <2>5, <2>14, <3>1, <3>2
    <3> HIDE DEF s, f, e
    <3>5. f + n <= e
      BY <2>6, <3>3, <3>4
    <3>6. QED
      BY <3>5 DEF f, e
  <2>18. \A j \in Regions : j # k => x.region[j] = m.region[j]
    BY <2>7, <2>14 DEF SamePages
  <2>19. QED
    BY <2>12, <2>14, <2>15, <2>16, <2>17, <2>18 DEF Roomy
<1>4. QED
  BY <1>2, <1>3

-----------------------------------------------------------------------------
(* Counters and hints.                                                       *)
Bytes(gs, g, d) == [gs EXCEPT ![g].bytes_allocated = @ + d]
LargeHint(gs, g, k, p) == [gs EXCEPT ![g].large_start[k] = p]

LEMMA BytesIs ==
  ASSUME NEW gs \in [Gen -> Generation], NEW G \in Gen, NEW d \in Int, NEW y, y = Bytes(gs, G, d)
  PROVE  /\ y \in [Gen -> Generation]
         /\ \A g \in Gen : y[g].bytes_allocated = gs[g].bytes_allocated + (IF g = G THEN d ELSE 0)
         /\ \A g \in Gen : y[g].start = gs[g].start /\ y[g].large_start = gs[g].large_start
<1>1. gs[G] \in Generation
  OBVIOUS
<1> DEFINE w == [gs[G] EXCEPT !.bytes_allocated = @ + d]
<1>2. w \in Generation /\ w.bytes_allocated = gs[G].bytes_allocated + d /\ w.start = gs[G].start
      /\ w.large_start = gs[G].large_start
  BY <1>1 DEF Generation
<1>3. y = [gs EXCEPT ![G] = w]
  BY DEF Bytes
<1> HIDE DEF w
<1>4. y \in [Gen -> Generation] /\ y[G] = w /\ \A g \in Gen : g # G => y[g] = gs[g]
  BY <1>2, <1>3
<1>5. \A g \in Gen : gs[g].bytes_allocated \in Int
  BY DEF Generation
<1>6. QED
  BY <1>2, <1>4, <1>5

LEMMA LargeHintIs ==
  ASSUME NEW gs \in [Gen -> Generation], NEW G \in Gen, NEW k \in Regions, NEW p \in Nat,
         NEW y, y = LargeHint(gs, G, k, p)
  PROVE  y \in [Gen -> Generation] /\ \A g \in Gen : y[g].bytes_allocated = gs[g].bytes_allocated
<1>1. gs[G] \in Generation /\ gs[G].large_start \in [Regions -> Nat]
  BY DEF Generation
<1> DEFINE t == [gs[G].large_start EXCEPT ![k] = p]
           w == [gs[G] EXCEPT !.large_start = t]
<1>2. t \in [Regions -> Nat]
  BY <1>1
<1>3. y = [gs EXCEPT ![G] = w]
  BY DEF LargeHint
<1> HIDE DEF t
<1>4. w \in Generation /\ w.bytes_allocated = gs[G].bytes_allocated
  BY <1>1, <1>2 DEF Generation
<1> HIDE DEF w
<1>5. y \in [Gen -> Generation] /\ y[G] = w /\ \A g \in Gen : g # G => y[g] = gs[g]
  BY <1>3, <1>4
<1>6. QED
  BY <1>4, <1>5

-----------------------------------------------------------------------------
(* A place behind the region.                                                *)
Placeable(m, n, k, first, last) ==
  /\ first \in Pages /\ last \in Pages /\ first <= last /\ n \in Nat /\ n >= 1
  /\ m.page[first].alloc =>
        /\ n < LargeSize /\ ~m.page[first].wp /\ ~m.page[first].large /\ ~m.page[first].pinned
        /\ m.page[first].unboxed = (k = "unboxed") /\ m.page[first].gen = m.gc_alloc_generation
        /\ m.page[first].used < PageSize /\ m.page[first].used # 0
        /\ \A j \in Regions : first \notin m.region[j].first..m.region[j].last
  /\ \A p \in first+1..last : ~m.page[p].alloc
  /\ \A a \in Addr : PageOf(a) \in first..last /\ ~m.page[PageOf(a)].alloc => m.mem[a] = zero
  /\ page_address(last) < page_address(first) + m.page[first].used + n
  /\ page_address(first) + m.page[first].used + n <= page_address(last + 1)

Taken(m, x, p, n, k, s) ==
  /\ x.page[p].alloc /\ ~x.page[p].wp /\ ~x.page[p].pinned /\ x.page[p].large = (n >= LargeSize)
  /\ x.page[p].unboxed = (k = "unboxed") /\ x.page[p].gen = m.gc_alloc_generation
  /\ x.page[p].used = UsedBelow(s + n, p) /\ x.page[p].offset = page_address(p) - s
Topped(m, x, p, n, s) ==
  /\ x.page[p].used = UsedBelow(s + n, p) /\ x.page[p].alloc = m.page[p].alloc
  /\ x.page[p].wp = m.page[p].wp /\ x.page[p].pinned = m.page[p].pinned /\ x.page[p].large = m.page[p].large
  /\ x.page[p].unboxed = m.page[p].unboxed /\ x.page[p].gen = m.page[p].gen /\ x.page[p].offset = m.page[p].offset

LEMMA LargeAtIs ==
  ASSUME NEW m \in Heaps, HeapOK(m), NEW k \in Regions, NEW n, NEW first, NEW last, Placeable(m, n, k, first, last),
         NEW s, s = page_address(first) + m.page[first].used,
         NEW x, x = LargeAt(m, n, k, first, last).heap
  PROVE  /\ LargeAt(m, n, k, first, last).at = s /\ s \in Nat
         /\ x \in Heaps /\ x.mem = m.mem /\ x.region = m.region /\ SameWork(m, x)
         /\ x.stats = m.stats /\ x.overflow = m.overflow /\ x.new_areas = m.new_areas
         /\ x.last_free_page >= last + 1 /\ x.last_free_page >= m.last_free_page
         /\ \A g \in Gen : x.generations[g].bytes_allocated =
               m.generations[g].bytes_allocated + (IF g = m.gc_alloc_generation THEN n ELSE 0)
         /\ \A p \in Pages : p \notin first..last => x.page[p] = m.page[p]
         /\ m.page[first].used # 0 => Topped(m, x, first, n, s)
         /\ m.page[first].used = 0 => Taken(m, x, first, n, k, s)
         /\ \A p \in first+1..last : Taken(m, x, p, n, k, s)
<1> DEFINE G == m.gc_alloc_generation
           taken(q) == [q EXCEPT !.alloc = TRUE, !.wp = FALSE, !.large = (n >= LargeSize), !.pinned = FALSE,
                                 !.unboxed = (k = "unboxed"), !.gen = G]
           top == [m.page[first] EXCEPT !.used = UsedBelow(s + n, first)]
           next(p) == [taken(m.page[p]) EXCEPT !.used = UsedBelow(s + n, p),
                                               !.offset = IF p = first THEN 0 ELSE page_address(p) - s]
           f == [p \in Pages |-> IF p = first /\ m.page[p].used # 0 THEN top
                                 ELSE IF p \in first..last THEN next(p) ELSE m.page[p]]
           hs == Bytes(m.generations, G, n)
           gs == LargeHint(hs, G, k, last)
<1>0. first \in Int /\ last \in Int /\ 0 <= first /\ first < NPages /\ last < NPages /\ NPages \in Nat /\ PageSize \in Nat
      /\ first <= last /\ first \in Pages /\ n \in Nat /\ last \in Nat
  BY Paging DEF Placeable, Pages
<1>1. m.page \in [Pages -> Page] /\ G \in Gen /\ m.generations \in [Gen -> Generation]
  BY DEF Heaps
<1>2. m.page[first].used \in Nat /\ m.page[first].used <= PageSize
  BY <1>0, PageIs
<1>3. page_address(first) \in Nat
  <2>1. page_address(first) \in Int /\ page_address(0) = 0
    BY <1>0, Paging
  <2>2. 0 < first => page_address(0) + PageSize <= page_address(first)
    BY <1>0, Paging
  <2>3. QED
    BY <1>0, <2>1, <2>2
<1>4. s \in Nat /\ s + n \in Int
  BY <1>0, <1>2, <1>3
<1>5. ASSUME NEW p \in first..last
      PROVE  /\ p \in Pages /\ UsedBelow(s + n, p) \in 0..PageSize
             /\ (IF p = first THEN 0 ELSE page_address(p) - s) \in 0..NPages*PageSize
  <2>1. p \in Pages /\ p \in Int /\ first <= p /\ p < NPages
    BY <1>0 DEF Pages
  <2>2. (first < p => page_address(first) + PageSize <= page_address(p)) /\ page_address(p) + PageSize <= page_address(NPages)
    BY <1>0, <2>1, Paging
  <2>3. page_address(NPages) = NPages*PageSize /\ page_address(p) \in Int /\ page_address(NPages) \in Int
    BY <1>0, <2>1, Paging DEF page_address
  <2>4. first < p => page_address(p) - s >= 0 /\ page_address(p) - s <= page_address(NPages)
    BY <1>0, <1>2, <1>3, <2>2, <2>3
  <2>5. 0 <= page_address(NPages)
    BY <1>0, ZeroIsIn
  <2> DEFINE e == s + n
  <2>6. e \in Int
    BY <1>4
  <2> HIDE DEF e
  <2>7. UsedBelow(e, p) \in 0..PageSize
    BY <2>1, <2>6, UsedBelowIs
  <2>8. (IF p = first THEN 0 ELSE page_address(p) - s) \in 0..page_address(NPages)
    BY <1>0, <1>4, <2>1, <2>3, <2>4, <2>5
  <2>9. QED
    BY <2>1, <2>3, <2>7, <2>8 DEF e
<1>6. top \in Page /\ top.used = UsedBelow(s + n, first) /\ top.alloc = m.page[first].alloc
      /\ top.wp = m.page[first].wp /\ top.pinned = m.page[first].pinned /\ top.large = m.page[first].large
      /\ top.unboxed = m.page[first].unboxed /\ top.gen = m.page[first].gen /\ top.offset = m.page[first].offset
  <2> DEFINE u == UsedBelow(s + n, first)
  <2>1. m.page[first] \in Page
    BY <1>0, <1>1
  <2>2. u \in 0..PageSize
    BY <1>0, <1>5
  <2> HIDE DEF u
  <2>3. [m.page[first] EXCEPT !.used = u] \in Page
    BY <2>1, <2>2 DEF Page
  <2>4. QED
    BY <2>1, <2>3 DEF Page, u
<1>7. ASSUME NEW p \in first..last
      PROVE  /\ next(p) \in Page /\ next(p).alloc /\ ~next(p).wp /\ ~next(p).pinned
             /\ next(p).large = (n >= LargeSize) /\ next(p).unboxed = (k = "unboxed") /\ next(p).gen = G
             /\ next(p).used = UsedBelow(s + n, p)
             /\ next(p).offset = IF p = first THEN 0 ELSE page_address(p) - s
  <2> DEFINE u == UsedBelow(s + n, p)
             o == IF p = first THEN 0 ELSE page_address(p) - s
             w == taken(m.page[p])
  <2>1. m.page[p] \in Page
    BY <1>1, <1>5
  <2>2. w \in Page /\ w.alloc /\ ~w.wp /\ ~w.pinned /\ w.large = (n >= LargeSize) /\ w.unboxed = (k = "unboxed") /\ w.gen = G
    <3> DEFINE b == n >= LargeSize
    <3>1. b \in BOOLEAN
      OBVIOUS
    <3> HIDE DEF b
    <3>2. [m.page[p] EXCEPT !.alloc = TRUE, !.wp = FALSE, !.large = b, !.pinned = FALSE,
                            !.unboxed = (k = "unboxed"), !.gen = G] \in Page
      BY <1>1, <2>1, <3>1 DEF Page
    <3>3. QED
      BY <2>1, <3>2 DEF b, Page
  <2>3. u \in 0..PageSize /\ o \in 0..NPages*PageSize
    BY <1>5
  <2> HIDE DEF u, o, w
  <2>4. next(p) = [w EXCEPT !.used = u, !.offset = o]
    BY DEF u, o, w
  <2> HIDE DEF next
  <2>5. next(p) \in Page /\ next(p).used = u /\ next(p).offset = o /\ next(p).alloc = w.alloc /\ next(p).wp = w.wp
        /\ next(p).pinned = w.pinned /\ next(p).large = w.large /\ next(p).unboxed = w.unboxed /\ next(p).gen = w.gen
    BY <2>2, <2>3, <2>4 DEF Page
  <2>6. QED
    BY <2>2, <2>5 DEF u, o
<1> HIDE DEF top, next
<1>8. f \in [Pages -> Page] /\ \A p \in Pages : f[p] = IF p = first /\ m.page[p].used # 0 THEN top
                                 ELSE IF p \in first..last THEN next(p) ELSE m.page[p]
  BY <1>1, <1>6, <1>7
<1>9. Bump(m, last) \in 0..NPages /\ Bump(m, last) >= last + 1 /\ Bump(m, last) >= m.last_free_page
  <2>1. m.last_free_page \in 0..NPages
    BY DEF Heaps
  <2>2. QED
    BY <1>0, <2>1 DEF Bump
<1>10. LargeAt(m, n, k, first, last).at = s
  BY DEF LargeAt
<1>11. x = [m EXCEPT !.page = f, !.generations[G].bytes_allocated = @ + n, !.generations[G].large_start[k] = last,
                     !.last_free_page = Bump(m, last)]
  BY DEF LargeAt, f, top, next
<1> HIDE DEF f, G
<1> DEFINE y == [m EXCEPT !.page = f, !.generations[G].bytes_allocated = @ + n]
<1>12. x = [y EXCEPT !.generations[G].large_start[k] = last, !.last_free_page = Bump(m, last)]
  BY <1>11
<1>13. y = [m EXCEPT !.page = f, !.generations = hs]
  BY DEF Bytes, Heaps
<1>14. hs \in [Gen -> Generation]
       /\ \A g \in Gen : hs[g].bytes_allocated = m.generations[g].bytes_allocated + (IF g = G THEN n ELSE 0)
  BY <1>0, <1>1, BytesIs
<1> HIDE DEF y, hs
<1>15. gs \in [Gen -> Generation] /\ \A g \in Gen : gs[g].bytes_allocated = hs[g].bytes_allocated
  BY <1>0, <1>1, <1>14, LargeHintIs
<1>16. x = [m EXCEPT !.page = f, !.generations = gs, !.last_free_page = Bump(m, last)]
  BY <1>12, <1>13 DEF LargeHint, Heaps
<1> HIDE DEF gs
<1>17. x \in Heaps
  BY <1>8, <1>9, <1>15, <1>16 DEF Heaps
<1>18. /\ x.mem = m.mem /\ x.page = f /\ x.region = m.region /\ x.generations = gs
       /\ x.last_free_page = Bump(m, last) /\ SameWork(m, x)
       /\ x.stats = m.stats /\ x.overflow = m.overflow /\ x.new_areas = m.new_areas
  BY <1>16 DEF Heaps, SameWork
<1>19. ASSUME NEW p \in Pages, p \notin first..last PROVE x.page[p] = m.page[p]
  BY <1>0, <1>8, <1>18, <1>19
<1>20. m.page[first].used # 0 => Topped(m, x, first, n, s)
  BY <1>0, <1>6, <1>8, <1>18 DEF Topped
<1>21. m.page[first].used = 0 => Taken(m, x, first, n, k, s)
  <2> SUFFICES ASSUME m.page[first].used = 0 PROVE Taken(m, x, first, n, k, s)
    OBVIOUS
  <2>1. first \in first..last
    BY <1>0
  <2>2. x.page[first] = next(first)
    BY <1>0, <1>8, <1>18, <2>1
  <2>3. page_address(first) - s = 0
    BY <1>3
  <2>4. QED
    BY <1>7, <2>1, <2>2, <2>3 DEF Taken, G
<1>22. ASSUME NEW p \in first+1..last PROVE Taken(m, x, p, n, k, s)
  <2>1. p \in first..last /\ p # first
    BY <1>0
  <2>2. x.page[p] = next(p)
    BY <1>5, <1>8, <1>18, <2>1
  <2>3. QED
    BY <1>7, <2>1, <2>2 DEF Taken, G
<1>23. QED
  BY <1>4, <1>9, <1>10, <1>14, <1>15, <1>17, <1>18, <1>19, <1>20, <1>21, <1>22 DEF G

\* The part of each page that the cells from s to e take.
Spans(first, last, s, e) ==
  /\ first \in Int /\ last \in Int /\ first <= last /\ s \in Int /\ e \in Int
  /\ page_address(first) <= s /\ s < page_address(first) + PageSize /\ s < e
  /\ page_address(last) < e /\ e <= page_address(last + 1)
SpanPart(first, last, s, e, p) ==
  /\ UsedBelow(e, p) \in Int /\ UsedBelow(s, p) \in Int
  /\ p \notin first..last => UsedBelow(e, p) = UsedBelow(s, p)
  /\ p \in first+1..last => UsedBelow(s, p) = 0
  /\ p = first => UsedBelow(s, p) = s - page_address(first) /\ UsedBelow(e, p) > s - page_address(first)
  /\ p \in first..last => UsedBelow(e, p) > 0 /\ UsedBelow(e, p) <= PageSize
  /\ p \in first..last-1 => UsedBelow(e, p) = PageSize
LEMMA SpanSizes ==
  ASSUME NEW first, NEW last, NEW s, NEW e, Spans(first, last, s, e), NEW p \in Int
  PROVE  SpanPart(first, last, s, e, p)
<1>00. /\ first \in Int /\ last \in Int /\ first <= last /\ s \in Int /\ e \in Int
       /\ page_address(first) <= s /\ s < page_address(first) + PageSize /\ s < e
       /\ page_address(last) < e /\ e <= page_address(last + 1)
  BY DEF Spans
<1>0. PageSize \in Int /\ PageSize >= 1 /\ last + 1 \in Int
  BY <1>00, Paging
<1>1. page_address(p) \in Int /\ page_address(p + 1) = page_address(p) + PageSize
      /\ page_address(first) \in Int /\ page_address(first + 1) = page_address(first) + PageSize
      /\ page_address(last) \in Int /\ page_address(last + 1) = page_address(last) + PageSize
  BY <1>00, NextPage
<1>2. /\ p < first => page_address(p) + PageSize <= page_address(first)
      /\ first < p => page_address(first) + PageSize <= page_address(p)
      /\ p < last => page_address(p) + PageSize <= page_address(last)
      /\ last < p => page_address(last) + PageSize <= page_address(p)
  BY <1>00, Paging
<1>3. CASE p < first
  BY <1>00, <1>0, <1>1, <1>2, <1>3 DEF UsedBelow, SpanPart
<1>4. CASE p > last
  BY <1>00, <1>0, <1>1, <1>2, <1>4 DEF UsedBelow, SpanPart
<1>5. CASE p = first /\ first = last
  BY <1>00, <1>0, <1>1, <1>2, <1>5 DEF UsedBelow, SpanPart
<1>6. CASE p = first /\ first < last
  BY <1>00, <1>0, <1>1, <1>2, <1>6 DEF UsedBelow, SpanPart
<1>7. CASE first < p /\ p < last
  BY <1>00, <1>0, <1>1, <1>2, <1>7 DEF UsedBelow, SpanPart
<1>8. CASE first < p /\ p = last
  BY <1>00, <1>0, <1>1, <1>2, <1>8 DEF UsedBelow, SpanPart
<1>9. QED
  BY <1>00, <1>3, <1>4, <1>5, <1>6, <1>7, <1>8

LEMMA CellBelow ==
  ASSUME NEW e \in Int, NEW p \in Int, NEW a \in Int, page_address(p) <= a, a < page_address(p) + PageSize
  PROVE  a < e <=> a - page_address(p) < UsedBelow(e, p)
<1>1. page_address(p) \in Int /\ page_address(p + 1) = page_address(p) + PageSize /\ PageSize \in Int
  BY NextPage, Paging
<1>2. QED
  BY <1>1 DEF UsedBelow

LEMMA LargePageIs ==
  ASSUME NEW m \in Heaps, HeapOK(m), NEW k \in Regions, NEW n, NEW first, NEW last, Placeable(m, n, k, first, last),
         NEW s, s = page_address(first) + m.page[first].used,
         NEW x, x = LargeAt(m, n, k, first, last).heap, NEW p \in Pages
  PROVE  /\ p \notin first..last => x.page[p] = m.page[p]
         /\ p \in first..last =>
               /\ x.page[p].alloc /\ ~x.page[p].wp /\ ~x.page[p].pinned /\ x.page[p].gen = m.gc_alloc_generation
               /\ x.page[p].unboxed = (k = "unboxed") /\ x.page[p].large = (n >= LargeSize)
               /\ x.page[p].used = UsedBelow(s + n, p) /\ x.page[p].used # 0
         /\ p \in first..last /\ ~m.page[p].alloc => x.page[p].offset = page_address(p) - s
         /\ p \in first+1..last => ~m.page[p].alloc
         /\ p \in first..last-1 => x.page[p].used = PageSize
         /\ m.page[p].alloc => /\ x.page[p].alloc /\ x.page[p].offset = m.page[p].offset
                               /\ x.page[p].large = m.page[p].large /\ x.page[p].unboxed = m.page[p].unboxed
                               /\ x.page[p].gen = m.page[p].gen
         /\ x.page[p].used = m.page[p].used + UsedBelow(s + n, p) - UsedBelow(s, p)
         /\ UsedBelow(s + n, p) \in Int /\ UsedBelow(s, p) \in Int /\ x.page[p].used >= m.page[p].used
         /\ ~m.page[p].alloc => m.page[p].used = 0
<1> DEFINE e == s + n
<1>0. /\ first \in Int /\ last \in Int /\ first <= last /\ first \in Pages /\ n \in Nat /\ n >= 1 /\ p \in Int
      /\ m.page[first].used \in Nat /\ m.page[first].used <= PageSize /\ m.page[p].used \in Nat /\ PageSize \in Nat /\ PageSize >= 1
      /\ page_address(first) \in Int
  BY PageIs, Paging DEF Placeable, Pages
<1>1. /\ s \in Nat
      /\ p \notin first..last => x.page[p] = m.page[p]
      /\ m.page[first].used # 0 => Topped(m, x, first, n, s)
      /\ m.page[first].used = 0 => Taken(m, x, first, n, k, s)
      /\ p \in first+1..last => Taken(m, x, p, n, k, s)
  BY LargeAtIs
<1>2. e \in Int /\ page_address(first) <= s /\ s < e /\ page_address(last) < e /\ e <= page_address(last + 1)
  BY <1>0, <1>1 DEF Placeable
<1>3. ~m.page[p].alloc => m.page[p].used = 0
  BY DEF HeapOK, PagesOK, FreePages
<1>4. m.page[first].alloc <=> m.page[first].used # 0
  BY <1>0 DEF HeapOK, PagesOK, FreePages, Placeable
<1>5. s < page_address(first) + PageSize
  <2>1. m.page[first].used < PageSize
    <3>1. m.page[first].alloc => m.page[first].used < PageSize
      BY DEF Placeable
    <3>2. QED
      BY <1>0, <1>4, <3>1
  <2>2. QED
    BY <1>0, <2>1
<1> HIDE DEF e
<1>50. Spans(first, last, s, e)
  BY <1>0, <1>1, <1>2, <1>5 DEF Spans
<1>6. /\ UsedBelow(e, p) \in Int /\ UsedBelow(s, p) \in Int
      /\ p \notin first..last => UsedBelow(e, p) = UsedBelow(s, p)
      /\ p \in first+1..last => UsedBelow(s, p) = 0
      /\ p = first => UsedBelow(s, p) = s - page_address(first) /\ UsedBelow(e, p) > s - page_address(first)
      /\ p \in first..last => UsedBelow(e, p) > 0 /\ UsedBelow(e, p) <= PageSize
      /\ p \in first..last-1 => UsedBelow(e, p) = PageSize
  <2>1. SpanPart(first, last, s, e, p)
    BY <1>0, <1>50, SpanSizes
  <2>2. QED
    BY <2>1 DEF SpanPart
<1>7. p \in first..last => p = first \/ p \in first+1..last
  BY <1>0
<1>8. ASSUME p \in first+1..last PROVE ~m.page[p].alloc /\ Taken(m, x, p, n, k, s) /\ p \in first..last
  BY <1>0, <1>1, <1>8 DEF Placeable
<1>9. CASE p \notin first..last
  <2>1. p \notin first+1..last /\ p \notin first..last-1
    BY <1>0, <1>9
  <2>2. x.page[p] = m.page[p]
    BY <1>1, <1>9
  <2>3. x.page[p].used = m.page[p].used + UsedBelow(e, p) - UsedBelow(s, p) /\ x.page[p].used >= m.page[p].used
    BY <1>0, <1>6, <1>9, <2>2
  <2>4. QED
    BY <1>3, <1>6, <1>9, <2>1, <2>2, <2>3 DEF e
<1>10. CASE p \in first+1..last
  <2>1. ~m.page[p].alloc /\ Taken(m, x, p, n, k, s) /\ p \in first..last
    BY <1>8, <1>10
  <2>2. x.page[p].used = UsedBelow(e, p)
    BY <2>1 DEF Taken, e
  <2>3. x.page[p].used # 0 /\ x.page[p].used = m.page[p].used + UsedBelow(e, p) - UsedBelow(s, p)
        /\ x.page[p].used >= m.page[p].used
    BY <1>0, <1>3, <1>6, <1>10, <2>1, <2>2
  <2>4. p \in first..last-1 => x.page[p].used = PageSize
    BY <1>6, <2>2
  <2>5. QED
    BY <1>3, <1>6, <2>1, <2>2, <2>3, <2>4 DEF Taken, e
<1>11. CASE p = first /\ m.page[first].used = 0
  <2>1. ~m.page[p].alloc /\ Taken(m, x, p, n, k, s) /\ p \in first..last /\ p \notin first+1..last
    BY <1>0, <1>1, <1>4, <1>11
  <2>2. x.page[p].used = UsedBelow(e, p)
    BY <2>1 DEF Taken, e
  <2>3. x.page[p].used # 0 /\ x.page[p].used = m.page[p].used + UsedBelow(e, p) - UsedBelow(s, p)
        /\ x.page[p].used >= m.page[p].used
    BY <1>0, <1>6, <1>11, <2>1, <2>2
  <2>4. p \in first..last-1 => x.page[p].used = PageSize
    BY <1>6, <2>2
  <2>5. QED
    BY <1>3, <1>6, <2>1, <2>2, <2>3, <2>4 DEF Taken, e
<1>12. CASE p = first /\ m.page[first].used # 0
  <2>1. m.page[p].alloc /\ Topped(m, x, p, n, s) /\ p \in first..last /\ p \notin first+1..last
    BY <1>0, <1>1, <1>4, <1>12
  <2>2. x.page[p].used = UsedBelow(e, p)
    BY <2>1 DEF Topped, e
  <2>3. x.page[p].used # 0 /\ x.page[p].used = m.page[p].used + UsedBelow(e, p) - UsedBelow(s, p)
        /\ x.page[p].used >= m.page[p].used
    BY <1>0, <1>6, <1>12, <2>1, <2>2
  <2>4. p \in first..last-1 => x.page[p].used = PageSize
    BY <1>6, <2>2
  <2>5. /\ n < LargeSize /\ ~m.page[p].wp /\ ~m.page[p].large /\ ~m.page[p].pinned
        /\ m.page[p].unboxed = (k = "unboxed") /\ m.page[p].gen = m.gc_alloc_generation
    BY <1>12, <2>1 DEF Placeable
  <2>6. x.page[p].large = (n >= LargeSize)
    <3>1. ~(n >= LargeSize)
      BY <1>0, <2>5, Constants
    <3>2. x.page[p].large = m.page[p].large /\ m.page[p].large \in BOOLEAN
      BY <2>1, PageIs DEF Topped
    <3>3. x.page[p].large = FALSE
      BY <2>5, <3>2
    <3> DEFINE b == n >= LargeSize
    <3>4. b = FALSE
      BY <3>1
    <3> HIDE DEF b
    <3>5. x.page[p].large = b
      BY <3>3, <3>4
    <3>6. QED
      BY <3>5 DEF b
  <2>7. /\ x.page[p].alloc /\ ~x.page[p].wp /\ ~x.page[p].pinned /\ x.page[p].gen = m.gc_alloc_generation
        /\ x.page[p].unboxed = (k = "unboxed")
    BY <2>1, <2>5 DEF Topped
  <2>8. x.page[p].offset = m.page[p].offset /\ x.page[p].large = m.page[p].large /\ x.page[p].unboxed = m.page[p].unboxed
        /\ x.page[p].gen = m.page[p].gen
    BY <2>1 DEF Topped
  <2>9. QED
    BY <1>6, <2>1, <2>2, <2>3, <2>4, <2>6, <2>7, <2>8 DEF e
<1>13. QED
  BY <1>7, <1>9, <1>10, <1>11, <1>12

LEMMA LargeAtOK ==
  ASSUME NEW m \in Heaps, HeapOK(m), NEW k \in Regions, NEW n, NEW first, NEW last, Placeable(m, n, k, first, last),
         NEW s, s = page_address(first) + m.page[first].used,
         NEW x, x = LargeAt(m, n, k, first, last).heap
  PROVE  HeapOK(x)
<1> DEFINE e == s + n
<1>0. /\ first \in Int /\ last \in Int /\ first <= last /\ first \in Pages /\ last \in Pages /\ 0 <= first /\ last < NPages
      /\ n \in Nat /\ n >= 1 /\ NPages \in Nat /\ PageSize \in Nat /\ PageSize >= 1 /\ \A p \in first..last : p \in Pages
  BY Paging DEF Placeable, Pages
<1>1. /\ s \in Nat /\ x \in Heaps /\ x.mem = m.mem /\ x.region = m.region /\ SameWork(m, x)
      /\ x.new_areas = m.new_areas
      /\ x.last_free_page >= last + 1 /\ x.last_free_page >= m.last_free_page
      /\ \A g \in Gen : x.generations[g].bytes_allocated =
            m.generations[g].bytes_allocated + (IF g = m.gc_alloc_generation THEN n ELSE 0)
  BY LargeAtIs
<1>2. e \in Int /\ s < e
  BY <1>0, <1>1
<1>3. ASSUME NEW p \in Pages, p \notin first..last PROVE x.page[p] = m.page[p]
  BY <1>3, LargePageIs
<1>4. ASSUME NEW p \in Pages, p \in first..last
      PROVE  /\ x.page[p].alloc /\ ~x.page[p].wp /\ ~x.page[p].pinned /\ x.page[p].gen = m.gc_alloc_generation
             /\ x.page[p].unboxed = (k = "unboxed") /\ x.page[p].large = (n >= LargeSize)
             /\ x.page[p].used = UsedBelow(e, p) /\ x.page[p].used # 0
             /\ ~m.page[p].alloc => x.page[p].offset = page_address(p) - s
             /\ m.page[p].alloc => p = first
  <2>1. p = first \/ p \in first+1..last
    BY <1>0, <1>4
  <2>2. p \in first+1..last => ~m.page[p].alloc
    BY LargePageIs
  <2>3. QED
    BY <1>4, <2>1, <2>2, LargePageIs
<1>5. ASSUME NEW p \in Pages, m.page[p].alloc
      PROVE  /\ x.page[p].alloc /\ x.page[p].offset = m.page[p].offset
             /\ x.page[p].large = m.page[p].large /\ x.page[p].unboxed = m.page[p].unboxed
             /\ x.page[p].gen = m.page[p].gen
  BY <1>5, LargePageIs
<1>6. ASSUME NEW p \in Pages
      PROVE  /\ x.page[p].used = m.page[p].used + UsedBelow(e, p) - UsedBelow(s, p)
             /\ UsedBelow(e, p) \in Int /\ UsedBelow(s, p) \in Int /\ x.page[p].used >= m.page[p].used
             /\ m.page[p].used \in Int /\ x.page[p].used \in Int
             /\ ~m.page[p].alloc => m.page[p].used = 0
             /\ p \in first..last-1 => x.page[p].used = PageSize
  <2>1. m.page[p].used \in Int /\ x.page[p].used \in Int
    BY <1>1, PageIs
  <2>2. QED
    BY <2>1, LargePageIs
<1> HIDE DEF e
<1>7. ASSUME NEW j \in Regions, Opened(m, j), NEW p \in m.region[j].first..m.region[j].last
      PROVE  p \in Pages /\ x.page[p] = m.page[p]
  <2>1. p \in Pages /\ m.page[p].alloc
    BY <1>7, RegionBounds DEF Opened
  <2>2. p \notin first..last
    <3> SUFFICES ASSUME p \in first..last PROVE FALSE
      OBVIOUS
    <3>1. p = first
      BY <1>4, <2>1
    <3>2. QED
      BY <1>7, <2>1, <3>1 DEF Placeable
  <2>3. QED
    BY <1>3, <2>1, <2>2
<1>8. RegionsOK(x)
  <2>1. ASSUME NEW j \in Regions, Opened(m, j) PROVE Opened(x, j)
    BY <1>1, <1>7, <2>1, OpenedKept DEF SameWork
  <2>2. ASSUME NEW j \in Regions PROVE x.region[j] = ResetRegion \/ Opened(x, j)
    BY <1>1, <2>1 DEF HeapOK, PagesOK, RegionsOK
  <2>3. QED
    BY <2>2 DEF RegionsOK
<1>9. RestIsZero(x)
  <2>1. ASSUME NEW a \in Addr, x.page[PageOf(a)].alloc, ~Held(x, a) PROVE x.mem[a] = zero
    <3> DEFINE p == PageOf(a)
    <3>1. p \in Pages /\ a \in Int /\ p \in Int /\ page_address(p) \in Int
      BY PageIsIn, Paging DEF Pages
    <3>2. ~(a - page_address(p) < x.page[p].used)
      BY <2>1 DEF Held
    <3> HIDE DEF p
    <3>3. CASE m.page[p].alloc
      <4>1. x.page[p].used >= m.page[p].used /\ m.page[p].used \in Int /\ x.page[p].used \in Int
        BY <1>6, <3>1
      <4>2. ~(a - page_address(p) < m.page[p].used)
        BY <3>1, <3>2, <4>1
      <4>3. ~Held(m, a)
        BY <1>1, <2>1, <4>2 DEF Held, p
      <4>4. QED
        BY <1>1, <3>3, <4>3 DEF HeapOK, PagesOK, RestIsZero, p
    <3>4. CASE ~m.page[p].alloc
      <4>1. p \in first..last
        <5> SUFFICES ASSUME p \notin first..last PROVE FALSE
          OBVIOUS
        <5>1. x.page[p] = m.page[p]
          BY <1>3, <3>1
        <5>2. QED
          BY <2>1, <3>4, <5>1 DEF p
      <4>2. QED
        BY <1>1, <3>4, <4>1 DEF Placeable, p
    <3>5. QED
      BY <3>3, <3>4
  <2>2. QED
    BY <2>1 DEF RestIsZero
<1>10. FreePages(x)
  <2>1. ASSUME NEW p \in Pages, ~x.page[p].alloc PROVE ~m.page[p].alloc /\ x.page[p] = m.page[p]
    <3>1. p \notin first..last
      BY <1>4, <2>1
    <3>2. QED
      BY <1>3, <2>1, <3>1
  <2>2. \A p \in Pages : ~x.page[p].alloc => x.page[p].used = 0 /\ ~x.page[p].wp /\ ~x.page[p].pinned
    BY <2>1 DEF HeapOK, PagesOK, FreePages
  <2>3. \A a \in Addr : ~x.page[PageOf(a)].alloc => ~m.page[PageOf(a)].alloc
    BY <2>1, PageIsIn
  <2>4. QED
    BY <1>1, <2>2, <2>3 DEF HeapOK, PagesOK, FreePages
<1>11. EmptyInRegion(x)
  <2>1. ASSUME NEW p \in Pages, x.page[p].alloc, x.page[p].used = 0
        PROVE  \E j \in Regions : p \in x.region[j].first..x.region[j].last
    <3>1. p \notin first..last
      BY <1>4, <2>1
    <3>2. x.page[p] = m.page[p]
      BY <1>3, <3>1
    <3>3. QED
      BY <1>1, <2>1, <3>2 DEF HeapOK, PagesOK, EmptyInRegion
  <2>2. QED
    BY <2>1 DEF EmptyInRegion
<1>12. AllBelow(x)
  <2>1. ASSUME NEW p \in Pages, x.page[p].alloc PROVE p < x.last_free_page
    <3>1. x.last_free_page \in Int /\ m.last_free_page \in Int /\ p \in Int
      BY <1>0, <1>1 DEF Heaps, Pages
    <3>2. CASE p \in first..last
      BY <1>0, <1>1, <3>1, <3>2
    <3>3. CASE p \notin first..last
      <4>1. p < m.last_free_page
        BY <1>3, <2>1, <3>3 DEF HeapOK, PagesOK, AllBelow
      <4>2. QED
        BY <1>1, <3>1, <4>1
    <3>4. QED
      BY <3>2, <3>3
  <2>2. QED
    BY <2>1 DEF AllBelow
<1>13. Links(x)
  <2>1. ASSUME NEW q \in Pages, x.page[q].alloc, x.page[q].used # 0, x.page[q].offset # 0 PROVE LinkedTo(x, q)
    <3>0. q \in Int /\ 0 <= q /\ q < NPages
      BY <1>0 DEF Pages
    <3>1. CASE q \in first+1..last
      <4>1. q \in first..last /\ q - 1 \in first..last-1 /\ q - 1 \in first..last /\ q - 1 \in Pages /\ q # 0 /\ q # first
        BY <1>0, <3>0, <3>1 DEF Pages
      <4>2. x.page[q-1].alloc /\ x.page[q-1].used = PageSize
        BY <1>4, <1>6, <4>1
      <4>3. x.page[q-1].gen = x.page[q].gen /\ x.page[q-1].unboxed = x.page[q].unboxed /\ x.page[q-1].large = x.page[q].large
        <5>1. x.page[q-1].gen = m.gc_alloc_generation /\ x.page[q-1].unboxed = (k = "unboxed") /\ x.page[q-1].large = (n >= LargeSize)
          BY <1>4, <4>1
        <5>2. x.page[q].gen = m.gc_alloc_generation /\ x.page[q].unboxed = (k = "unboxed") /\ x.page[q].large = (n >= LargeSize)
          BY <1>4, <4>1
        <5>3. QED
          BY <5>1, <5>2
      <4>4. ~m.page[q].alloc
        BY <1>4, <4>1
      <4>5. x.page[q].offset = page_address(q) - s
        BY <1>4, <4>1, <4>4
      <4>6. page_address(q) \in Int /\ page_address(q - 1) = page_address(q) - PageSize
        BY <3>0, NextPage
      <4>7. x.page[q].offset > PageSize => x.page[q-1].offset = x.page[q].offset - PageSize
        <5>1. CASE ~m.page[q-1].alloc
          <6>1. x.page[q-1].offset = page_address(q - 1) - s
            BY <1>4, <4>1, <5>1
          <6>2. QED
            BY <1>0, <1>1, <4>5, <4>6, <6>1
        <5>2. CASE m.page[q-1].alloc
          <6>1. q - 1 = first
            BY <1>4, <4>1, <5>2
          <6>2. s = page_address(q - 1) + m.page[q-1].used /\ m.page[q-1].used \in Nat
            BY <4>1, <6>1, PageIs
          <6>3. page_address(q - 1) <= s
            BY <4>6, <6>2, <1>0
          <6>4. QED
            BY <1>0, <1>1, <4>5, <4>6, <6>3
        <5>3. QED
          BY <5>1, <5>2
      <4>8. QED
        BY <4>1, <4>2, <4>3, <4>7 DEF LinkedTo
    <3>2. CASE q \notin first+1..last
      <4>1. m.page[q].alloc /\ m.page[q].used # 0 /\ m.page[q].offset # 0
        <5>1. CASE q = first
          <6>1. m.page[q].alloc
            <7> SUFFICES ASSUME ~m.page[q].alloc PROVE FALSE
              OBVIOUS
            <7>1. q \in first..last
              BY <1>0, <5>1
            <7>2. x.page[q].offset = page_address(q) - s
              BY <1>4, <7>1
            <7>3. m.page[q].used = 0
              BY <1>6
            <7>4. page_address(q) \in Int
              BY <3>0, Paging
            <7>5. QED
              BY <2>1, <5>1, <7>2, <7>3, <7>4
          <6>2. m.page[q].used # 0
            BY <5>1, <6>1 DEF Placeable
          <6>3. QED
            BY <1>5, <2>1, <6>1, <6>2
        <5>2. CASE q # first
          <6>1. q \notin first..last
            BY <1>0, <3>0, <3>2, <5>2
          <6>2. QED
            BY <1>3, <2>1, <6>1
        <5>3. QED
          BY <5>1, <5>2
      <4>2. LinkedTo(m, q)
        BY <4>1 DEF HeapOK, PagesOK, Links
      <4>3. q - 1 \in Pages /\ q # 0 /\ m.page[q-1].alloc /\ m.page[q-1].used = PageSize
        BY <1>0, <3>0, <4>2 DEF LinkedTo, Pages
      <4>4. q - 1 \notin first..last
        <5> SUFFICES ASSUME q - 1 \in first..last PROVE FALSE
          OBVIOUS
        <5>1. q - 1 = first
          BY <1>4, <4>3
        <5>2. m.page[first].used < PageSize
          BY <4>3, <5>1 DEF Placeable
        <5>3. QED
          BY <1>0, <4>3, <5>1, <5>2
      <4>5. x.page[q-1] = m.page[q-1]
        BY <1>3, <4>3, <4>4
      <4>6. /\ x.page[q].gen = m.page[q].gen /\ x.page[q].unboxed = m.page[q].unboxed
            /\ x.page[q].large = m.page[q].large /\ x.page[q].offset = m.page[q].offset
        BY <1>5, <4>1
      <4>7. QED
        BY <4>2, <4>5, <4>6 DEF LinkedTo
    <3>3. QED
      BY <3>1, <3>2
  <2>2. QED
    BY <2>1 DEF Links
<1>14. LargeOK(x)
  <2>1. ASSUME NEW q \in Pages, x.page[q].alloc, x.page[q].large PROVE LargeAlone(x, q)
    <3>1. CASE m.page[q].alloc
      <4> DEFINE z == StartOf(m, q)
      <4>1. m.page[q].large /\ x.page[q].unboxed = m.page[q].unboxed /\ x.page[q].offset = m.page[q].offset
        BY <1>5, <2>1, <3>1
      <4>2. LargeAlone(m, q) /\ z \in Addr /\ PageOf(z) \in Pages /\ InChain(m, q, PageOf(z))
        BY <3>1, <4>1, LargeStart DEF HeapOK
      <4>3. x.page[PageOf(z)].offset = m.page[PageOf(z)].offset
        BY <1>5, <4>2 DEF InChain
      <4>4. StartOf(x, q) = z
        BY <4>1 DEF StartOf
      <4> HIDE DEF z
      <4>5. QED
        BY <1>1, <4>1, <4>2, <4>3, <4>4 DEF LargeAlone, z
    <3>2. CASE ~m.page[q].alloc
      <4>1. q \in first..last
        <5> SUFFICES ASSUME q \notin first..last PROVE FALSE
          OBVIOUS
        <5>1. x.page[q] = m.page[q]
          BY <1>3
        <5>2. QED
          BY <2>1, <3>2, <5>1
      <4>2. n >= LargeSize
        BY <1>4, <2>1, <4>1
      <4>3. ~m.page[first].alloc
        BY <1>0, <4>2, Constants DEF Placeable
      <4>4. m.page[first].used = 0 /\ page_address(first) \in Int /\ page_address(q) \in Int
        BY <1>0, <1>6, <4>3, Paging DEF Pages
      <4>5. s = page_address(first)
        BY <4>4
      <4>6. x.page[q].offset = page_address(q) - s
        BY <1>4, <3>2, <4>1
      <4>7. StartOf(x, q) = s
        BY <1>1, <4>4, <4>6 DEF StartOf
      <4>8. s \in Addr /\ PageOf(s) = first
        BY <1>0, <1>1, <4>5, CellIsIn
      <4>9. x.page[first].offset = 0
        <5>1. first \in first..last
          BY <1>0
        <5>2. x.page[first].offset = page_address(first) - s
          BY <1>0, <1>4, <4>3, <5>1
        <5>3. QED
          BY <4>4, <4>5, <5>2
      <4>10. \A a \in Addr : PageOf(a) \in first..last => m.mem[a] = zero
        <5>1. \A p \in first..last : ~m.page[p].alloc
          BY <1>0, <1>4, <4>3
        <5>2. QED
          BY <5>1 DEF Placeable
      <4>11. x.mem[s] = zero
        <5>1. first \in first..last
          BY <1>0
        <5>2. QED
          BY <1>1, <4>8, <4>10, <5>1
      <4>12. \A a \in Addr : PageOf(a) = q => x.mem[a] = zero
        BY <1>1, <4>1, <4>10
      <4>13. QED
        BY <4>5, <4>7, <4>8, <4>9, <4>11, <4>12 DEF LargeAlone
    <3>3. QED
      BY <3>1, <3>2
  <2>2. QED
    BY <2>1 DEF LargeOK
<1>15. Bodies(x)
  <2>1. ASSUME NEW a \in Addr, x.mem[a].t = "obj" PROVE Whole(x, a)
    <3>1. Whole(m, a) /\ m.mem[a].t = "obj" /\ x.mem[a] = m.mem[a]
      BY <1>1, <2>1 DEF HeapOK, PagesOK, Bodies
    <3>2. ASSUME NEW p \in PageOf(a)+1..PageOf(a+m.mem[a].size-1) PROVE x.page[p].offset = m.page[p].offset
      <4>1. PageOf(a) \in Int /\ PageOf(a+m.mem[a].size-1) \in Int /\ p \in Pages
        BY <1>0, <3>1, ObjectEnd DEF HeapOK, Pages
      <4>2. PageOf(a) <= p /\ p <= PageOf(a+m.mem[a].size-1)
        BY <4>1
      <4>3. m.page[p].alloc
        BY <3>1, <4>1, <4>2, ObjectPages DEF HeapOK
      <4>4. QED
        BY <1>5, <4>1, <4>3
    <3>3. QED
      BY <1>1, <3>1, <3>2 DEF Whole
  <2>2. QED
    BY <2>1 DEF Bodies
<1>16. Counters(x)
  <2>1. ASSUME NEW g \in Gen PROVE x.generations[g].bytes_allocated = UsedOn(x, {p \in Pages : InGen(x, p, g)})
    <3> DEFINE T == {p \in Pages : InGen(x, p, g)}
               S == {p \in Pages : InGen(m, p, g)}
               E == {}
               b == IF g = m.gc_alloc_generation THEN s ELSE 0
               d == IF g = m.gc_alloc_generation THEN e ELSE 0
    <3>0. 0 \in 0..page_address(NPages) /\ s \in 0..page_address(NPages) /\ e \in 0..page_address(NPages)
      <4>1. s + n <= page_address(last + 1)
        BY DEF Placeable
      <4>2. page_address(last + 1) <= page_address(NPages)
        <5>1. last + 1 = NPages \/ last + 1 < NPages
          BY <1>0
        <5>2. last + 1 < NPages => page_address(last + 1) + PageSize <= page_address(NPages)
          BY <1>0, Paging
        <5>3. page_address(last + 1) \in Int /\ page_address(NPages) \in Int
          BY <1>0, Paging
        <5>4. QED
          BY <1>0, <5>1, <5>2, <5>3
      <4>3. page_address(last + 1) \in Int /\ page_address(NPages) \in Int
        BY <1>0, Paging
      <4>4. QED
        BY <1>0, <1>1, <1>2, <4>1, <4>2, <4>3 DEF e
    <3>1. ASSUME NEW p \in Pages
          PROVE  On(x, T, p) = On(m, S, p) + On(m, E, p) + UsedBelow(d, p) - UsedBelow(b, p)
      <4>0. On(m, E, p) = 0
        BY DEF On
      <4>1. On(m, S, p) = (IF m.page[p].gen = g THEN m.page[p].used ELSE 0)
        BY <1>6 DEF On, InGen, HeapOK, PagesOK, FreePages
      <4>2. On(x, T, p) = (IF x.page[p].gen = g THEN x.page[p].used ELSE 0)
        BY <1>10 DEF On, InGen, FreePages
      <4>3. /\ x.page[p].used = m.page[p].used + UsedBelow(e, p) - UsedBelow(s, p)
            /\ UsedBelow(e, p) \in Int /\ UsedBelow(s, p) \in Int /\ m.page[p].used \in Int
        BY <1>6
      <4>4. UsedBelow(0, p) \in Int
        <5>1. p \in Int /\ 0 \in Int
          BY DEF Pages
        <5>2. UsedBelow(0, p) \in 0..PageSize
          BY <5>1, UsedBelowIs
        <5>3. QED
          BY <5>2, <1>0
      <4>5. p \notin first..last => UsedBelow(e, p) = UsedBelow(s, p) /\ x.page[p].gen = m.page[p].gen
        BY <1>0, <1>3, <4>3
      <4>6. p \in first..last => x.page[p].gen = m.gc_alloc_generation /\ (m.page[p].gen = m.gc_alloc_generation \/ m.page[p].used = 0)
        BY <1>4, <1>5, <1>6
      <4>7. CASE g = m.gc_alloc_generation
        <5>1. d = e /\ b = s
          BY <4>7
        <5> HIDE DEF b, d, T, S, E
        <5>2. CASE p \in first..last
          BY <4>0, <4>1, <4>2, <4>3, <4>6, <4>7, <5>1, <5>2
        <5>3. CASE p \notin first..last
          BY <4>0, <4>1, <4>2, <4>3, <4>5, <4>7, <5>1, <5>3
        <5>4. QED
          BY <5>2, <5>3
      <4>8. CASE g # m.gc_alloc_generation
        <5>1. d = 0 /\ b = 0
          BY <4>8
        <5> HIDE DEF b, d, T, S, E
        <5>2. CASE p \in first..last
          BY <4>0, <4>1, <4>2, <4>3, <4>4, <4>6, <4>8, <5>1, <5>2
        <5>3. CASE p \notin first..last
          BY <4>0, <4>1, <4>2, <4>3, <4>4, <4>5, <4>8, <5>1, <5>3
        <5>4. QED
          BY <5>2, <5>3
      <4>9. QED
        BY <4>7, <4>8
    <3>2. b \in 0..page_address(NPages) /\ d \in 0..page_address(NPages) /\ b \in Int /\ d \in Int
          /\ d - b = (IF g = m.gc_alloc_generation THEN n ELSE 0)
      <4>1. s \in Int /\ e = s + n /\ n \in Int
        BY <1>0, <1>1 DEF e
      <4>2. QED
        BY <3>0, <4>1
    <3> HIDE DEF T, S, E, b, d
    <3>3. Adds(m, S, x, T, m, E, b, d)
      BY <3>1 DEF Adds
    <3>4. UsedOn(x, T) = UsedOn(m, S) + UsedOn(m, E) + d - b /\ UsedOn(m, S) \in Int /\ UsedOn(m, E) \in Int
      BY <1>1, <3>2, <3>3, UsedNumbers, SumsAdd
    <3>5. UsedOn(m, E) = 0
      BY UsedNumbers, EmptySum DEF E
    <3>6. x.generations[g].bytes_allocated = UsedOn(m, S) + (IF g = m.gc_alloc_generation THEN n ELSE 0)
      BY <1>1 DEF HeapOK, Counters, S
    <3>7. x.generations[g].bytes_allocated = UsedOn(m, S) + (d - b)
      BY <3>2, <3>6
    <3> DEFINE u == UsedOn(m, S)
               w == UsedOn(x, T)
    <3>8. w = u + d - b /\ u \in Int /\ x.generations[g].bytes_allocated = u + (d - b)
      BY <3>4, <3>5, <3>7
    <3> HIDE DEF u, w
    <3>9. x.generations[g].bytes_allocated = w
      BY <3>2, <3>8
    <3>10. QED
      BY <3>9 DEF w, T
  <2>2. QED
    BY <2>1 DEF Counters
<1>17. NoAreas(x)
  BY <1>1 DEF HeapOK, NoAreas, SameWork
<1>18. QED
  BY <1>1, <1>8, <1>9, <1>10, <1>11, <1>12, <1>13, <1>14, <1>15, <1>16, <1>17 DEF HeapOK, PagesOK

LEMMA PlaceIs ==
  ASSUME NEW m \in Heaps, HeapOK(m), NEW k \in Regions, NEW n, NEW first, NEW last, Placeable(m, n, k, first, last),
         NEW s, s = page_address(first) + m.page[first].used
  PROVE  /\ s \in Int /\ n \in Nat /\ n >= 1 /\ PageOf(s) = first /\ PageOf(s + n - 1) = last
         /\ first \in Int /\ last \in Int /\ first \in Pages /\ \A p \in first..last : p \in Pages
         /\ \A b \in s..s+n-1 : b \in Addr /\ PageOf(b) \in first..last
<1>0. /\ first \in Int /\ last \in Int /\ first <= last /\ first \in Pages /\ last \in Pages /\ last + 1 \in Int
      /\ n \in Nat /\ n >= 1 /\ PageSize \in Nat /\ PageSize >= 1 /\ NPages \in Nat /\ \A p \in first..last : p \in Pages
  BY Paging DEF Placeable, Pages
<1>1. /\ page_address(first) \in Int /\ page_address(last) \in Int /\ page_address(last + 1) = page_address(last) + PageSize
  BY <1>0, NextPage
<1>2. m.page[first].used \in Nat /\ m.page[first].used < PageSize
  <2>1. m.page[first].used \in Nat
    BY <1>0, PageIs
  <2>2. ~m.page[first].alloc => m.page[first].used = 0
    BY <1>0 DEF HeapOK, PagesOK, FreePages
  <2>3. QED
    BY <1>0, <2>1, <2>2 DEF Placeable
<1>3. page_address(first) <= s /\ s < page_address(first) + PageSize /\ s \in Int
      /\ page_address(last) <= s + n - 1 /\ s + n - 1 < page_address(last) + PageSize /\ s + n - 1 \in Int
  BY <1>0, <1>1, <1>2 DEF Placeable
<1>4. PageOf(s) = first /\ PageOf(s + n - 1) = last
  BY <1>0, <1>3, OnPage
<1>5. ASSUME NEW b \in s..s+n-1 PROVE b \in Addr /\ PageOf(b) \in first..last
  <2>1. b \in Int /\ s <= b /\ b <= s + n - 1
    BY <1>3
  <2>2. PageOf(s) <= PageOf(b) /\ PageOf(b) \in Int
    BY <1>3, <2>1, PageOrder
  <2>3. PageOf(b) <= PageOf(s + n - 1)
    BY <1>3, <2>1, PageOrder
  <2>4. PageOf(b) \in first..last
    BY <1>0, <1>4, <2>2, <2>3
  <2>5. PageOf(b) \in Pages
    BY <1>0, <2>4
  <2>6. page_address(PageOf(b)) <= b /\ b < page_address(PageOf(b)) + PageSize
    BY <2>1, PageBounds
  <2>7. b \in Addr
    BY <2>1, <2>5, <2>6, CellIsIn
  <2>8. QED
    BY <2>4, <2>7
<1>6. QED
  BY <1>0, <1>3, <1>4, <1>5

LEMMA LargeAtGrows ==
  ASSUME NEW m \in Heaps, HeapOK(m), NEW k \in Regions, NEW n, NEW first, NEW last, Placeable(m, n, k, first, last),
         NEW s, s = page_address(first) + m.page[first].used,
         NEW x, x = LargeAt(m, n, k, first, last).heap
  PROVE  Grows(m, x)
<1>1. x \in Heaps /\ x.mem = m.mem /\ x.region = m.region /\ SameWork(m, x) /\ x.new_areas = m.new_areas
  BY LargeAtIs
<1>2. ASSUME NEW p \in Pages PROVE GrownPage(m, x, p)
  <2>1. CASE p \notin first..last
    BY <2>1, LargePageIs DEF GrownPage
  <2>2. CASE p \in first..last
    <3>1. ~x.page[p].wp /\ ~x.page[p].pinned /\ x.page[p].gen = m.gc_alloc_generation
      BY <2>2, LargePageIs
    <3>2. m.page[p].alloc => m.page[p].gen = x.page[p].gen
      BY LargePageIs
    <3>3. QED
      BY <3>1, <3>2 DEF GrownPage
  <2>3. QED
    BY <2>1, <2>2
<1>3. ASSUME NEW a \in Addr, m.page[PageOf(a)].alloc, Held(m, a) PROVE KeptCell(m, x, a)
  <2> DEFINE p == PageOf(a)
  <2>1. p \in Pages /\ a \in Int /\ p \in Int /\ page_address(p) \in Int
    BY PageIsIn, Paging DEF Pages
  <2>2. m.page[p].used \in Int /\ x.page[p].used \in Int
    BY <1>1, <2>1, PageIs
  <2>3. x.page[p].alloc /\ x.page[p].offset = m.page[p].offset /\ x.page[p].large = m.page[p].large
        /\ x.page[p].unboxed = m.page[p].unboxed /\ x.page[p].used >= m.page[p].used
    BY <1>3, <2>1, LargePageIs
  <2> HIDE DEF p
  <2>4. a - page_address(p) < m.page[p].used => a - page_address(p) < x.page[p].used
    BY <2>1, <2>2, <2>3
  <2>5. Held(x, a)
    BY <1>1, <1>3, <2>4 DEF Held, p
  <2>6. QED
    BY <1>1, <2>3, <2>5 DEF KeptCell, p
<1>4. \A b \in Int : NewArea(m, x, b)
  BY <1>1 DEF NewArea, InArea
<1>5. QED
  BY <1>1, <1>2, <1>3, <1>4 DEF Grows

LEMMA LargeAtVacant ==
  ASSUME NEW m \in Heaps, HeapOK(m), NEW k \in Regions, NEW n, NEW first, NEW last, Placeable(m, n, k, first, last),
         NEW s, s = page_address(first) + m.page[first].used,
         NEW x, x = LargeAt(m, n, k, first, last).heap
  PROVE  Vacant(x, s, n, k) /\ \A b \in s..s+n-1 : x.page[PageOf(b)].gen = m.gc_alloc_generation
<1>0. /\ s \in Int /\ n \in Nat /\ n >= 1 /\ PageOf(s) = first /\ PageOf(s + n - 1) = last
      /\ first \in Int /\ last \in Int /\ first \in Pages /\ \A p \in first..last : p \in Pages
      /\ \A b \in s..s+n-1 : b \in Addr /\ PageOf(b) \in first..last
  BY PlaceIs
<1>1. x.mem = m.mem
  BY LargeAtIs
<1>2. ASSUME NEW p \in first..last
      PROVE  /\ p \in Pages /\ x.page[p].alloc /\ x.page[p].used = UsedBelow(s + n, p)
             /\ x.page[p].unboxed = (k = "unboxed") /\ x.page[p].large = (n >= LargeSize)
             /\ ~m.page[p].alloc => x.page[p].offset = page_address(p) - s
             /\ m.page[p].alloc => p = first
             /\ x.page[p].gen = m.gc_alloc_generation
  <2>1. p \in Pages
    BY <1>0
  <2>2. p = first \/ p \in first+1..last
    BY <1>0
  <2>3. p \in first+1..last => ~m.page[p].alloc
    BY <2>1, LargePageIs
  <2>4. QED
    BY <1>2, <2>1, <2>2, <2>3, LargePageIs
<1>3. ASSUME NEW b \in s..s+n-1 PROVE b \in Addr /\ x.mem[b] = zero /\ x.page[PageOf(b)].alloc /\ Held(x, b)
  <2> DEFINE p == PageOf(b)
             e == s + n
  <2>1. b \in Addr /\ p \in first..last /\ b \in Int /\ s <= b /\ b < e /\ e \in Int /\ p \in Pages /\ p \in Int
    BY <1>0
  <2>2. page_address(p) <= b /\ b < page_address(p) + PageSize
    BY <2>1, PageBounds
  <2>3. x.page[p].alloc /\ x.page[p].used = UsedBelow(e, p) /\ (m.page[p].alloc => p = first)
    BY <1>2, <2>1
  <2> HIDE DEF p, e
  <2>4. b - page_address(p) < x.page[p].used
    BY <2>1, <2>2, <2>3, CellBelow
  <2>5. m.mem[b] = zero
    <3>1. CASE ~m.page[p].alloc
      BY <2>1, <3>1 DEF Placeable, p
    <3>2. CASE m.page[p].alloc
      <4>1. p = first
        BY <2>3, <3>2
      <4>2. ~(b - page_address(p) < m.page[p].used)
        <5>1. m.page[p].used \in Int /\ page_address(p) \in Int
          BY <2>1, PageIs, Paging
        <5>2. QED
          BY <1>0, <2>1, <4>1, <5>1
      <4>3. ASSUME NEW j \in Regions, m.region[j].start <= b, b < m.region[j].free PROVE FALSE
        <5>1. m.region[j] # ResetRegion
          BY <2>1, <4>3, ResetIs, PageIsIn
        <5>2. Opened(m, j)
          BY <5>1 DEF HeapOK, PagesOK, RegionsOK
        <5>3. p \in m.region[j].first..m.region[j].last
          BY <2>1, <4>3, <5>2, RegionSpan DEF p
        <5>4. QED
          BY <3>2, <4>1, <5>3 DEF Placeable
      <4>4. ~Held(m, b)
        BY <4>2, <4>3 DEF Held, p
      <4>5. QED
        BY <2>1, <3>2, <4>4 DEF HeapOK, PagesOK, RestIsZero, p
    <3>3. QED
      BY <3>1, <3>2
  <2>6. QED
    BY <1>1, <2>1, <2>3, <2>4, <2>5 DEF Held, p
<1>4. ASSUME NEW p \in first+1..last PROVE x.page[p].offset >= page_address(p) - s
  <2>1. p \in first..last /\ p # first /\ p \in Int
    BY <1>0
  <2>2. x.page[p].offset = page_address(p) - s
    BY <1>2, <2>1
  <2>3. page_address(p) \in Int
    BY <2>1, Paging
  <2>4. QED
    BY <1>0, <2>2, <2>3
<1>5. ASSUME NEW p \in first..last, x.page[p].large
      PROVE  StartOf(x, p) = s /\ n >= LargeSize /\ x.page[p].unboxed = (k = "unboxed")
  <2>1. n >= LargeSize /\ x.page[p].unboxed = (k = "unboxed")
    BY <1>2, <1>5
  <2>2. ~m.page[first].alloc
    BY <1>0, <2>1, Constants DEF Placeable
  <2>3. x.page[p].offset = page_address(p) - s
    BY <1>2, <2>2
  <2>4. p \in Int /\ page_address(p) \in Int
    BY Paging
  <2>5. QED
    BY <1>0, <2>1, <2>3, <2>4 DEF StartOf
<1>6. s \in Addr
  BY <1>0
<1>7. QED
  BY <1>0, <1>2, <1>3, <1>4, <1>5, <1>6 DEF Vacant

-----------------------------------------------------------------------------
(* Allocation behind the region.                                             *)

\* What an allocation of n cells for region k returns: a heap that has grown, and a place in it.
Allocates(m, r, n, k) ==
  /\ r.heap \in Heaps /\ HeapOK(r.heap) /\ Grows(m, r.heap)
  /\ r.at = NIL \/ Vacant(r.heap, r.at, n, k)

\* A recorded allocation.
LEMMA RecordedOK ==
  ASSUME NEW m \in Heaps, HeapOK(m), NEW s \in Addr, NEW n \in Nat, NEW k,
         \A b \in s..s+n-1 : b \in Addr /\ m.page[PageOf(b)].gen = m.gc_alloc_generation,
         NEW r, r = Recorded([heap |-> m, at |-> s], n, k)
  PROVE  /\ r.heap \in Heaps /\ HeapOK(r.heap) /\ Grows(m, r.heap) /\ r.at = s
         /\ SamePages(m, r.heap) /\ r.heap.mem = m.mem /\ r.heap.overflow = m.overflow
<1> DEFINE y == r.heap
<1>1. r.at = s /\ (y = m \/ y = add_new_area(m, s, n))
  BY DEF Recorded
<1> HIDE DEF y
<1>2. CASE y = m
  <2>1. y \in Heaps /\ HeapOK(y) /\ y.mem = m.mem /\ y.overflow = m.overflow
    BY <1>2
  <2>2. Grows(m, y)
    BY <1>2, GrowsSelf
  <2>3. SamePages(m, y)
    BY <1>2 DEF SamePages
  <2>4. QED
    BY <1>1, <2>1, <2>2, <2>3 DEF y
<1>3. CASE y = add_new_area(m, s, n)
  <2>1. y \in Heaps /\ SamePages(m, y) /\ y.mem = m.mem /\ y.overflow = m.overflow
    BY <1>3, AddAreaIs
  <2>2. HeapOK(y)
    BY <1>3, AddAreaOK
  <2>3. Grows(m, y)
    BY <1>3, AddAreaGrows
  <2>4. QED
    BY <1>1, <2>1, <2>2, <2>3 DEF y
<1>4. QED
  BY <1>1, <1>2, <1>3

\* The pages gc_alloc_large has found.
Found(m, n, k, first, last) ==
  /\ first \in Pages /\ last \in Pages /\ first <= last /\ n \in Nat /\ n >= 1
  /\ m.page[first].alloc =>
        /\ n < LargeSize /\ ~m.page[first].wp /\ ~m.page[first].large /\ ~m.page[first].pinned
        /\ m.page[first].unboxed = (k = "unboxed") /\ m.page[first].gen = m.gc_alloc_generation
        /\ m.page[first].used < PageSize /\ m.page[first].used # 0
        /\ \A j \in Regions : first \notin m.region[j].first..m.region[j].last
  /\ \A p \in first+1..last : ~m.page[p].alloc
  /\ page_address(last) < page_address(first) + m.page[first].used + n
  /\ page_address(first) + m.page[first].used + n <= page_address(last + 1)

\* An object is placed on them.
LEMMA PlaceLargeOK ==
  ASSUME NEW m \in Heaps, HeapOK(m), NEW k \in Regions, NEW n, NEW first, NEW last, Found(m, n, k, first, last),
         NEW r, r = PlaceLarge(m, n, k, first, last)
  PROVE  Allocates(m, r, n, k)
<1> DEFINE ps == first..last
           y == handle_madvise_pages(m, ps)
           s == page_address(first) + y.page[first].used
           x == LargeAt(y, n, k, first, last).heap
<1>1. r = Recorded(LargeAt(y, n, k, first, last), n, k)
  BY DEF PlaceLarge
<1> HIDE DEF ps
<1>2. /\ y \in Heaps /\ SamePages(m, y)
      /\ \A a \in Addr : PageOf(a) \in ps /\ ~m.page[PageOf(a)].alloc => y.mem[a] = zero
  BY MadviseIs
<1>3. HeapOK(y)
  BY MadviseOK
<1>4. Grows(m, y)
  BY MadviseGrows
<1> HIDE DEF y
<1>5. Placeable(y, n, k, first, last)
  <2>1. y.page = m.page /\ y.region = m.region /\ y.gc_alloc_generation = m.gc_alloc_generation
    BY <1>2 DEF SamePages
  <2>2. \A a \in Addr : PageOf(a) \in first..last /\ ~m.page[PageOf(a)].alloc => y.mem[a] = zero
    BY <1>2 DEF ps
  <2>3. QED
    BY <2>1, <2>2 DEF Placeable, Found
<1> HIDE DEF x, s
<1>6. s = page_address(first) + y.page[first].used /\ x = LargeAt(y, n, k, first, last).heap
  BY DEF x, s
<1>7. x \in Heaps /\ LargeAt(y, n, k, first, last).at = s
  BY <1>2, <1>3, <1>5, <1>6, LargeAtIs
<1>8. HeapOK(x)
  BY <1>2, <1>3, <1>5, <1>6, LargeAtOK
<1>9. Grows(y, x)
  BY <1>2, <1>3, <1>5, <1>6, LargeAtGrows
<1>10. Vacant(x, s, n, k) /\ \A b \in s..s+n-1 : x.page[PageOf(b)].gen = y.gc_alloc_generation
  BY <1>2, <1>3, <1>5, <1>6, LargeAtVacant
<1>11. n \in Nat /\ n >= 1 /\ \A b \in s..s+n-1 : b \in Addr
  BY <1>2, <1>3, <1>5, <1>6, PlaceIs
<1>12. s \in Addr
  BY <1>10 DEF Vacant
<1>13. LargeAt(y, n, k, first, last) = [heap |-> x, at |-> s]
  BY <1>6, <1>7 DEF LargeAt
<1>14. x.gc_alloc_generation = y.gc_alloc_generation
  BY <1>9 DEF Grows, SameWork
<1>15. r = Recorded([heap |-> x, at |-> s], n, k)
  BY <1>1, <1>13
<1>16. \A b \in s..s+n-1 : b \in Addr /\ x.page[PageOf(b)].gen = x.gc_alloc_generation
  BY <1>10, <1>11, <1>14
<1>17. r.heap \in Heaps /\ HeapOK(r.heap) /\ Grows(x, r.heap) /\ r.at = s
  BY <1>7, <1>8, <1>11, <1>12, <1>15, <1>16, RecordedOK
<1>18. Grows(m, x)
  BY <1>2, <1>4, <1>7, <1>9, GrowsOn
<1>19. Grows(m, r.heap)
  BY <1>7, <1>17, <1>18, GrowsOn
<1>20. Vacant(r.heap, s, n, k)
  BY <1>7, <1>10, <1>11, <1>17, GrowsVacant
<1>21. QED
  BY <1>17, <1>19, <1>20 DEF Allocates
=============================================================================
