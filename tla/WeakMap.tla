------------------------------ MODULE WeakMap -------------------------------
(* What a weak hash table promises (hash-new.lisp): a map.  A collection     *)
(* removes the entries whose weakness asks for something that is not alive,  *)
(* no other entries, and the table keeps nothing alive but the missing half  *)
(* of an entry it retains.  WeakTables implements this module.               *)
EXTENDS Integers, FiniteSets

CONSTANTS Object, Imm       \* heap objects; an immediate value

VARIABLES map,              \* the entries, key -> value
          live,             \* the objects that are not garbage
          held,             \* those that something else than the table keeps
          strong,           \* moved by purify: the table is not weak until it is used
          weak              \* the weakness of the table, fixed when it is made

vars == <<map, live, held, strong, weak>>

Weakness == {"key", "value", "key-and-value", "key-or-value"}

(* "The entry in the table is retained if the key, (respectively, value, key *)
(* and value, key or value) is alive".                                       *)
Retained(k, v, alive) ==
    \/ strong
    \/ weak = "key" /\ k \in alive
    \/ weak = "value" /\ v \in alive
    \/ weak = "key-and-value" /\ k \in alive /\ v \in alive
    \/ weak = "key-or-value" /\ (k \in alive \/ v \in alive)

(* What is alive when S is, by the entries that are retained then.           *)
Alive(S) ==
    LET grow[n \in 0..Cardinality(Object)] ==
            IF n = 0 THEN S \union {Imm}
            ELSE UNION {A \union UNION {{k, map[k]} : k \in {x \in DOMAIN map : Retained(x, map[x], A)}} :
                            A \in {grow[n-1]}}
    IN grow[Cardinality(Object)]

Init == map = << >> /\ live = Object /\ held = Object /\ strong = FALSE /\ weak \in Weakness

Put(k, v) == map' = [x \in DOMAIN map \union {k} |-> IF x = k THEN v ELSE map[x]]
Rem(k) == map' = [x \in DOMAIN map \ {k} |-> map[x]]

Use == /\ \/ \E k \in live, v \in live \union {Imm} : Put(k, v)
          \/ \E k \in live : Rem(k)
          \/ map' = << >>
          \/ map' = map
       /\ held = live /\ strong' = FALSE
       /\ UNCHANGED <<live, held, weak>>

Purify == held = live /\ strong' /\ UNCHANGED <<map, live, held, weak>>

(* The roots of a collection, one after the other.                           *)
Begin == held = live /\ held' \subseteq live /\ UNCHANGED <<map, live, strong, weak>>
Hold == \E o \in live \ held : held' = held \union {o} /\ UNCHANGED <<map, live, strong, weak>>

Collect == /\ live' = Alive(held) \ {Imm}
           /\ map' = [k \in {x \in DOMAIN map : Retained(x, map[x], live' \union {Imm})} |-> map[k]]
           /\ held' = live'
           /\ UNCHANGED <<strong, weak>>

Next == Use \/ Purify \/ Begin \/ Hold \/ Collect
Spec == Init /\ [][Next]_vars
=============================================================================
