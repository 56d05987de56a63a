----------------------------- MODULE WeakTables -----------------------------
(* A weak hash table, used by Lisp (hash-new.lisp) and rearranged by the     *)
(* collector (gencgc.c): the key/value vector, the chains through the next   *)
(* vector, the list of free slots and the list of entries to be rehashed     *)
(* because their key has moved.  The test of the table is EQ.                *)
EXTENDS Integers, Sequences, FiniteSets, SequencesExt

CONSTANTS
    Object,             \* heap objects
    Imm,                \* a value that is not a pointer
    Empty,              \* the symbol of an empty slot
    Lost,               \* a pointer to memory that was freed
    Size, Length,       \* slots and chains of a new table
    Addresses,          \* residues of addresses
    Accessed,           \* Lisp uses the table between two collections
    MaxSize, MaxOps, MaxGC

ASSUME TableAssumption ==
    /\ IsFiniteSet(Object) /\ {Imm, Empty, Lost} \cap Object = {}
    /\ Imm # Empty /\ Imm # Lost /\ Empty # Lost
    /\ Size \in Nat \ {0} /\ Length \in Nat \ {0} /\ Addresses \subseteq Nat /\ Accessed \in BOOLEAN

VARIABLES
    t,          \* the table
    weak,       \* its weakness
    place,      \* [Object -> address]
    live,       \* the objects that are not garbage
    gc          \* the collection: from space, objects moved, their new addresses;
                \* reached (a ghost): those that something else than the table refers to

vars == <<t, weak, place, live, gc>>

Weakness == {"key", "value", "key-and-value", "key-or-value"}

(* A word of the key/value vector: up says that it holds the new address of  *)
(* an object the running collection has moved.                               *)
Word(o) == [o |-> o, up |-> FALSE]
EmptySlot == [key |-> Word(Empty), value |-> Word(Empty)]
IsFree(e) == e.key.o = Empty /\ e.value.o = Empty

Slots(x) == DOMAIN x.kv
Buckets(x) == 0..x.length-1

MakeTable(n, l) ==
    [kv |-> [i \in 1..n |-> EmptySlot],
     index |-> [b \in 0..l-1 |-> 0], next |-> [i \in 1..n |-> IF i = n THEN 0 ELSE i + 1],
     length |-> l, free |-> 1, rehash |-> 0, count |-> 0, subtype |-> "normal"]

(* The slots of the list that starts with i.                                 *)
Chain(next, i) ==
    LET walk[n \in 0..Cardinality(DOMAIN next)] ==
            IF n = 0 THEN IF i = 0 THEN << >> ELSE <<i>>
            ELSE LET w == walk[n-1]
                 IN IF w = << >> \/ next[Last(w)] = 0 THEN w ELSE Append(w, next[Last(w)])
    IN walk[Cardinality(DOMAIN next)]

(* pointer-hash, and EQ_HASH in C; 0 stands for the address of a symbol.     *)
Hash(o, at) == IF o \in Object THEN at[o] ELSE 0

-----------------------------------------------------------------------------
(* Lisp.                                                                     *)

Push(x, i, b) == [x EXCEPT !.next[i] = x.index[b], !.index[b] = i]

(* The loop of rehash and rehash-without-growing, last slot to first.        *)
RehashAll(x) ==
    LET n == Cardinality(Slots(x))
        cleared == [x EXCEPT !.free = 0, !.rehash = 0, !.subtype = "normal",
                             !.index = [b \in Buckets(x) |-> 0], !.next = [i \in Slots(x) |-> 0]]
        step(y, i) ==
            IF IsFree(y.kv[i]) THEN [y EXCEPT !.next[i] = y.free, !.free = i]
            ELSE [Push(y, i, Hash(y.kv[i].key.o, place) % y.length) EXCEPT !.subtype = "valid"]
    IN FoldLeft(step, cleared, [k \in 1..n |-> n + 1 - k])

(* rehash: a slot and a chain more.                                          *)
Rehash(x) ==
    LET n == Cardinality(Slots(x)) + 1
    IN RehashAll([x EXCEPT !.kv = Append(@, EmptySlot), !.next = Append(@, 0), !.length = @ + 1,
                           !.index = [b \in 0..x.length |-> 0]])

FlushNeedingRehash(x) ==
    [FoldLeft(LAMBDA y, i : Push(y, i, Hash(y.kv[i].key.o, place) % y.length), x, Chain(x.next, x.rehash))
        EXCEPT !.rehash = 0]

(* What gethash, remhash and puthash do before they look.                    *)
Prepare(x) == IF x.subtype = "must-rehash" THEN RehashAll(x)
              ELSE IF x.rehash # 0 THEN FlushNeedingRehash(x) ELSE x

(* The slot of key o: 0 if there is none.                                    *)
Bucket(x, o) == Hash(o, place) % x.length
Lookup(x, o) ==
    LET chain == Chain(x.next, x.index[Bucket(x, o)])
        hits == {j \in DOMAIN chain : x.kv[chain[j]].key.o = o}
    IN IF hits = {} THEN 0 ELSE chain[Min(hits)]

(* Slot i is taken off the chain of bucket b, if it is there.                *)
OnChain(x, b, i) == \E j \in 1..Len(Chain(x.next, x.index[b])) : Chain(x.next, x.index[b])[j] = i
Unlink(x, b, i) ==
    IF x.index[b] = i THEN [x EXCEPT !.index[b] = x.next[i]]
    ELSE [x EXCEPT !.next[CHOOSE j \in Slots(x) : OnChain(x, b, j) /\ x.next[j] = i] = x.next[i]]
Release_KeepsCount(x, i) == [x EXCEPT !.kv[i] = EmptySlot, !.next[i] = x.free, !.free = i]
Release(x, i) ==
    [x EXCEPT !.kv[i] = EmptySlot, !.next[i] = x.free, !.free = i, !.count = @ - 1]

Insert(x, k, v) ==
    LET i == x.free
        popped == [x EXCEPT !.free = x.next[i], !.count = @ + 1, !.subtype = "valid",
                            !.kv[i] = [key |-> Word(k), value |-> Word(v)]]
    IN Push(popped, i, Bucket(x, k))

Operation == gc.pc = "lisp" /\ gc.ops < MaxOps /\ gc' = [gc EXCEPT !.ops = @ + 1] /\ UNCHANGED <<weak, live>>

Gethash == Operation /\ t' = Prepare(t) /\ t' # t /\ UNCHANGED place

PutHash(k, v) ==
    LET x == IF t.free = 0 THEN Rehash(t) ELSE Prepare(t)
        i == Lookup(x, k)
    IN /\ Operation
       /\ t.free = 0 => Cardinality(Slots(t)) < MaxSize
       /\ t' = IF i # 0 THEN [x EXCEPT !.kv[i].value = Word(v), !.subtype = "valid"]
               ELSE Insert(x, k, v)
       /\ UNCHANGED place

RemHash(k) ==
    LET x == Prepare(t)
        i == Lookup(x, k)
    IN /\ Operation
       /\ t' = IF i = 0 THEN x ELSE Release(Unlink(x, Bucket(x, k), i), i)
       /\ UNCHANGED place

ClrHash == Operation /\ t' = MakeTable(Cardinality(Slots(t)), t.length) /\ UNCHANGED place

(* purify moves everything and leaves rehashing to Lisp.                     *)
Purify == /\ Operation /\ t.subtype = "valid"
          /\ t' = [t EXCEPT !.subtype = "must-rehash"]
          /\ place' \in [Object -> Addresses]

-----------------------------------------------------------------------------
(* The collector.  c is the table with the set of objects moved so far.      *)

InFrom(c, w) == w.o \in gc.from /\ ~w.up
survives_gc(c, w) == InFrom(c, w) => w.o \in c.moved
Address(w) == IF w.up THEN Hash(w.o, gc.to) ELSE Hash(w.o, place)
BucketOf(c, i) == Address(c.t.kv[i].key) % c.t.length

ScavengeKey(c, i) ==
    LET w == c.t.kv[i].key
    IN IF InFrom(c, w) THEN [t |-> [c.t EXCEPT !.kv[i].key.up = TRUE], moved |-> c.moved \union {w.o}] ELSE c
ScavengeValue(c, i) ==
    LET w == c.t.kv[i].value
    IN IF InFrom(c, w) THEN [t |-> [c.t EXCEPT !.kv[i].value.up = TRUE], moved |-> c.moved \union {w.o}] ELSE c

free_hash_entry(x, b, i) == IF OnChain(x, b, i) THEN Release(Unlink(x, b, i), i) ELSE x

record_for_rehashing(x, b, i) ==
    IF OnChain(x, b, i) THEN [Unlink(x, b, i) EXCEPT !.next[i] = x.rehash, !.rehash = i] ELSE x

maybe_record_for_rehashing_Never(c, c2, i) == c2

(* c2 is c after the key of slot i has been scavenged.                       *)
maybe_record_for_rehashing(c, c2, i) ==
    LET b == BucketOf(c, i)
    IN IF b # BucketOf(c2, i) /\ c.t.index[b] # 0 /\ ~IsFree(c.t.kv[i])
       THEN [c2 EXCEPT !.t = record_for_rehashing(c2.t, b, i)]
       ELSE c2

removable_BothHalves(c, i) ==
    LET listed == c.t.index[BucketOf(c, i)] # 0
        key == ~survives_gc(c, c.t.kv[i].key) /\ listed
        value == ~survives_gc(c, c.t.kv[i].value) /\ listed
    IN CASE weak = "key" -> key
         [] weak = "value" -> value
         [] OTHER -> key /\ value

removable(c, i) ==
    LET listed == c.t.index[BucketOf(c, i)] # 0
        key == ~survives_gc(c, c.t.kv[i].key) /\ listed
        value == ~survives_gc(c, c.t.kv[i].value) /\ listed
    IN CASE weak = "key" -> key
         [] weak = "value" -> value
         [] weak = "key-and-value" -> key \/ value
         [] weak = "key-or-value" -> key /\ value

ScavEntry(c, i, removep) ==
    IF removable(c, i)
    THEN IF removep THEN [c EXCEPT !.t = free_hash_entry(c.t, BucketOf(c, i), i)] ELSE c
    ELSE maybe_record_for_rehashing(c, ScavengeValue(ScavengeKey(c, i), i), i)
scav_hash_entries(c, removep) ==
    FoldLeft(LAMBDA x, i : ScavEntry(x, i, removep), c, [i \in Slots(c.t) |-> i])

(* An entry of which one half survives and needs the other.                  *)
ScavWeakEntry(c, i) ==
    LET e == c.t.kv[i]
        key == survives_gc(c, e.key) /\ c.t.index[BucketOf(c, i)] # 0
        value == survives_gc(c, e.value)
    IN IF weak \in {"key", "key-or-value"} /\ key /\ ~value THEN ScavengeValue(c, i)
       ELSE IF weak \in {"value", "key-or-value"} /\ value /\ ~survives_gc(c, e.key)
       THEN maybe_record_for_rehashing(c, ScavengeKey(c, i), i)
       ELSE c
scav_weak_entries(c) == FoldLeft(ScavWeakEntry, c, [i \in Slots(c.t) |-> i])

scav_weak_tables(c) ==
    LET sweep[n \in 0..Cardinality(gc.from)] ==
            IF n = 0 THEN c ELSE scav_weak_entries(sweep[n-1])
    IN scav_hash_entries(sweep[Cardinality(gc.from)], FALSE)

(* A vector without the hashing subtype is scavenged like any other.         *)
ScavengeVector(c) ==
    FoldLeft(LAMBDA x, i : ScavengeValue(ScavengeKey(x, i), i), c, [i \in Slots(c.t) |-> i])

Idle == [pc |-> "lisp", from |-> {}, to |-> [o \in {} |-> 0], moved |-> {}, reached |-> {}, ops |-> 0, count |-> 0]
Here == [t |-> t, moved |-> gc.moved]

Init == /\ t = MakeTable(Size, Length) /\ weak \in Weakness
        /\ place \in [Object -> Addresses] /\ live = Object /\ gc = Idle

StartCollection(S, to) ==
    /\ gc.pc = "lisp" /\ gc.count < MaxGC /\ (Accessed => t.rehash = 0)
    /\ gc' = [gc EXCEPT !.pc = "roots", !.from = S, !.to = to, !.count = @ + 1]
    /\ UNCHANGED <<t, weak, place, live>>

(* Something else than the table refers to o: a root, or an object that was  *)
(* moved.                                                                    *)
Reach(o) ==
    /\ gc.pc \in {"roots", "copied"} /\ o \in gc.from \ gc.reached
    /\ gc' = [gc EXCEPT !.pc = "roots", !.moved = @ \union {o}, !.reached = @ \union {o}]
    /\ UNCHANGED <<t, weak, place, live>>

ScavWeakTables ==
    /\ gc.pc \in {"roots", "copied"}
    /\ \E c \in {IF t.subtype = "valid" THEN scav_weak_tables(Here) ELSE ScavengeVector(Here)} :
         /\ t' = c.t
         /\ gc' = [gc EXCEPT !.moved = c.moved, !.pc = IF c.moved = gc.moved THEN "settled" ELSE "copied"]
    /\ UNCHANGED <<weak, place, live>>

(* scan_weak_tables; then the old space is freed.                            *)
Settle(c, w) == IF w.up THEN Word(w.o) ELSE IF w.o \in gc.from THEN Word(Lost) ELSE w
EndCollection ==
    /\ gc.pc \in {"copied", "settled"}
    /\ \E c \in {IF t.subtype = "valid" THEN scav_hash_entries(Here, TRUE) ELSE Here} :
         /\ t' = [c.t EXCEPT !.kv = [i \in DOMAIN @ |-> [key |-> Settle(c, @[i].key),
                                                         value |-> Settle(c, @[i].value)]]]
         /\ live' = live \ (gc.from \ c.moved)
         /\ place' = [o \in Object |-> IF o \in c.moved THEN gc.to[o] ELSE place[o]]
    /\ gc' = [Idle EXCEPT !.ops = gc.ops, !.count = gc.count]
    /\ UNCHANGED weak

Next ==
    \/ Gethash \/ ClrHash \/ Purify
    \/ \E k \in live, v \in live \union {Imm} : PutHash(k, v)
    \/ \E k \in live : RemHash(k)
    \/ \E S \in (SUBSET live) \ {{}} : \E to \in [S -> Addresses] : StartCollection(S, to)
    \/ \E o \in Object : Reach(o)
    \/ ScavWeakTables \/ EndCollection

Spec == Init /\ [][Next]_vars

-----------------------------------------------------------------------------
(* Properties.                                                               *)

Words == [o : Object \union {Imm, Empty, Lost}, up : BOOLEAN]
TypeOK ==
    /\ t.kv \in Seq([key : Words, value : Words]) /\ t.length \in Nat \ {0}
    /\ t.index \in [Buckets(t) -> Slots(t) \union {0}] /\ t.next \in [Slots(t) -> Slots(t) \union {0}]
    /\ {t.free, t.rehash} \subseteq Slots(t) \union {0} /\ t.count \in 0..Len(t.kv)
    /\ t.subtype \in {"normal", "valid", "must-rehash"}
    /\ weak \in Weakness /\ live \subseteq Object /\ place \in [Object -> Addresses]
    /\ gc.pc \in {"lisp", "roots", "copied", "settled"} /\ gc.moved \subseteq gc.from

(* The next vector "is used to chain together the hash buckets, the free     *)
(* list, and the values needing rehash, a slot will only ever be in one of   *)
(* these lists"; the free list has the empty slots, and the number of        *)
(* entries is that of the others.                                            *)
Lists == <<Chain(t.next, t.free), Chain(t.next, t.rehash)>> \o [b \in 1..t.length |-> Chain(t.next, t.index[b-1])]
SlotsOnce ==
    \A ls \in {Lists} :
        /\ \A i \in Slots(t) : Cardinality({p \in (1..Len(ls)) \X (1..Len(t.kv)) :
                                              p[2] <= Len(ls[p[1]]) /\ ls[p[1]][p[2]] = i}) = 1
        /\ {i \in Slots(t) : IsFree(t.kv[i])} = ToSet(ls[1])
        /\ t.count = Cardinality({i \in Slots(t) : ~IsFree(t.kv[i])})

(* Whatever moved, gethash finds every entry, and finds it once.             *)
LookupFinds ==
    gc.pc = "lisp" => \A x \in {Prepare(t)} :
        \A i \in Slots(x) : ~IsFree(x.kv[i]) => Lookup(x, x.kv[i].key.o) = i

(* hash-new.lisp, gencgc.c: the chains of the table are sound, and lead to   *)
(* its entries.                                                              *)
TableSound == SlotsOnce /\ LookupFinds

(* After a collection the table holds no pointer into the memory it freed:   *)
(* an entry whose key or value died was removed.  It follows from MapKept    *)
(* where that holds, and fails if Lisp does not use the table in between.    *)
NoDangling ==
    gc.pc = "lisp" => \A i \in Slots(t) : {t.kv[i].key.o, t.kv[i].value.o} \subseteq live \union {Imm, Empty}

(* The table is the map that WeakMap describes: a collection removes an      *)
(* entry exactly when what its weakness asks for is not alive, and keeps     *)
(* nothing else alive for it.                                                *)
Full(x) == {i \in Slots(x) : ~IsFree(x.kv[i])}
MapOf(x) == [k \in {x.kv[i].key.o : i \in Full(x)} |->
                x.kv[CHOOSE i \in Full(x) : x.kv[i].key.o = k].value.o]
HeldNow == (live \ gc.from) \union gc.reached
Map == INSTANCE WeakMap WITH map <- MapOf(t), held <- HeldNow, strong <- t.subtype = "must-rehash"
MapKept == Map!Spec
=============================================================================
