------------------------------ MODULE HeapGraph ------------------------------
(* What a collector promises to Lisp: a graph of objects that only Lisp      *)
(* changes.  Objects have identities instead of addresses.  The collector    *)
(* may do one thing: break a weak reference whose referent Lisp could not    *)
(* reach otherwise.  Gencgc and Copying implement this module.               *)
EXTENDS Integers, Sequences, FiniteSets, TLC

CONSTANTS Slot,     \* the places Lisp keeps references in: stack words, static symbols
          Kind,     \* boxed: "box", "pure", "vec", "cons", "code"; unboxed: "bytes"; "weak"; "table"
          NIL       \* no reference

VARIABLES root,     \* [Slot -> identity or NIL]
          node,     \* [identity -> [kind, refs]], every object Lisp might see
          ops       \* counts the operations of Lisp: other steps are the collector's

Arity(k) == CASE k = "bytes" -> 0 [] k \in {"cons", "code", "table"} -> 2 [] OTHER -> 1

AllRefs(o) == {o.refs[i] : i \in DOMAIN o.refs} \ {NIL}

(* The references that keep their referents alive: those of boxed objects,   *)
(* and the value of a weak table whose key is alive.                         *)
StrongRefs(o, alive) ==
    CASE o.kind = "weak" -> {}
      [] o.kind = "table" -> IF o.refs[1] \in alive THEN {o.refs[2]} \ {NIL} ELSE {}
      [] OTHER -> AllRefs(o)

(* The closure of a set of identities under Refs(n[i], set).                 *)
Closure(n, from, Refs(_, _)) ==
    LET step[k \in 0..Cardinality(DOMAIN n)] ==
            IF k = 0 THEN from
            ELSE UNION {s \union UNION {Refs(n[i], s) : i \in s \intersect DOMAIN n} : s \in {step[k-1]}}
    IN step[Cardinality(DOMAIN n)]

Rooted(r) == {r[s] : s \in Slot} \ {NIL}
Alive(r, n) == Closure(n, Rooted(r), StrongRefs)
Visible(r, n) == Closure(n, Rooted(r), LAMBDA o, s : AllRefs(o))
Pruned(r, n) == [i \in Visible(r, n) |-> n[i]]

-----------------------------------------------------------------------------
Init == root = [s \in Slot |-> NIL] /\ node = << >> /\ ops = 0

Becomes(r, n) == root' = r /\ \E m \in {n} : node' = Pruned(r, m)

(* A code object i comes with its function i + 1 and its return address      *)
(* i + 2; whoever refers to one of the three keeps all of them.              *)
NewNodes(i, k, refs) ==
    IF k # "code" THEN i :> [kind |-> k, refs |-> refs]
    ELSE i :> [kind |-> k, refs |-> refs \o <<i + 1, i + 2>>]
         @@ i + 1 :> [kind |-> "part", refs |-> <<i>>]
         @@ i + 2 :> [kind |-> "part", refs |-> <<i>>]

Allocate(i, s, k, refs) ==
    /\ i \notin DOMAIN node
    /\ Becomes([root EXCEPT ![s] = i], node @@ NewNodes(i, k, refs))

Store(i, j, v) == Becomes(root, [node EXCEPT ![i].refs[j] = v])

(* Some slots get other objects Lisp sees.                                   *)
Assign ==
    /\ \A s \in Slot : root'[s] \in DOMAIN node \union {NIL}
    /\ \E r \in {root'} : Becomes(r, node)

(* The collector breaks the weak pointers and the table entries of W, none   *)
(* of whose referents is alive.                                              *)
Break(W) ==
    /\ \A i \in W : /\ node[i].kind \in {"weak", "table"}
                    /\ node[i].refs[1] \notin Alive(root, node) \union {NIL}
    /\ Becomes(root, [i \in DOMAIN node |->
                        IF i \in W THEN [node[i] EXCEPT !.refs = [j \in DOMAIN node[i].refs |-> NIL]]
                        ELSE node[i]])

Lisp ==
    \/ \E i \in Rooted(root') \ DOMAIN node : \E s \in Slot, k \in Kind :
            \E refs \in [1..Arity(k) -> Rooted(root) \union {NIL}] : Allocate(i, s, k, refs)
    \/ Assign
    \/ \E i \in Rooted(root) : \E j \in DOMAIN node[i].refs, v \in Rooted(root) \union {NIL} :
            Store(i, j, v)

Collector == \E W \in SUBSET {i \in DOMAIN node : node[i].kind \in {"weak", "table"}} : W # {} /\ Break(W)

Next == (ops' = ops + 1 /\ Lisp) \/ (ops' = ops /\ Collector)
Spec == Init /\ [][Next]_<<root, node, ops>>
=============================================================================
