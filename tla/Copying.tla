------------------------------ MODULE Copying ------------------------------
(* The copying collector of gc.c and the purification of purify.c, as they   *)
(* are built where the stack is exact (sparc, ppc, mips, ...): two dynamic   *)
(* spaces, forwarding pointers, functions and return addresses inside code   *)
(* objects, interrupt contexts with raw addresses, weak pointers, and the    *)
(* move of everything alive into the static and read-only spaces.            *)
(*                                                                           *)
(* Memory is one array of words: the control stack, the saved registers of   *)
(* an interrupt context, static, read-only and the two dynamic spaces.  The  *)
(* state of the C program is one record h, and each C function an operator   *)
(* from records to records.  h.obj is not in the program: it says which      *)
(* object Lisp built lies at an address, and where it was copied to.         *)
EXTENDS Integers, Sequences, FiniteSets, SequencesExt

CONSTANTS Kind,                 \* the kinds of objects Lisp builds
          NStack, NStatic,      \* words of control stack, symbols in static space
          MaxObjects, MaxOps, MaxGC    \* bounds: objects, operations of Lisp, collections

VARIABLES h,      \* memory and the variables of gc.c and purify.c
          gc      \* where collect_garbage stands, and the counters of the bounds
vars == <<h, gc>>

NIL == -1  Lost == -2

(* Sizes in words; the length, code_size, next, arglist ... words, which no  *)
(* property tells apart, are left out.                                       *)
Size(k) == IF k = "code" THEN 8 ELSE 2
FunAt == 3   LraAt == 6   PcAt == 7     \* function, return pc header, instruction
SpaceSize == MaxObjects * Size("code")  \* each space has room for every object

CodeReg == NStack
BoxedReg == NStack + 1
boxed_registers == {CodeReg, BoxedReg}
static_space == NStack + 2
read_only_space == static_space + NStatic + SpaceSize
dynamic_0_space == read_only_space + SpaceSize
dynamic_1_space == dynamic_0_space + SpaceSize
Addr == 0..dynamic_1_space + SpaceSize - 1

Var == 0..NStack-1 \union static_space..static_space+NStatic-1
Slot == Var \union {CodeReg, BoxedReg}

Ptr(tag, a) == [t |-> "ptr", tag |-> tag, at |-> a]
imm == [t |-> "imm"]
Pointerp(w) == w.t = "ptr"

instances == {"box", "pure", "env"}     \* by the PURE slot of the layout: NIL, T, 0
TagOf(k) == CASE k = "cons" -> "list" [] k \in instances -> "instance"
              [] k = "fun" -> "function" [] OTHER -> "other"

(* The words of a new object at a with references r.                         *)
Words(k, a, r) ==
    CASE k = "cons" -> r
      [] k = "code" -> <<[t |-> "code"], Ptr("function", a + FunAt), r[1],
                         [t |-> "fun", offset |-> FunAt], Ptr("function", a + FunAt), r[2],
                         [t |-> "lra", offset |-> LraAt], imm>>
      [] k = "vec" -> <<[t |-> "vec", valid |-> FALSE, key |-> imm], r[1]>>
      [] OTHER -> <<[t |-> k], r[1]>>

Nobody == [id |-> 0, kind |-> "none", to |-> NIL]
Known(k, a, id) ==
    [b \in a..a+Size(k)-1 |->
        CASE b = a -> [id |-> id, kind |-> k, to |-> NIL]
          [] k = "code" /\ b = a + FunAt -> [id |-> id + 1, kind |-> "fun", to |-> NIL]
          [] k = "code" /\ b = a + LraAt -> [id |-> id + 2, kind |-> "lra", to |-> NIL]
          [] OTHER -> Nobody]

NoContext == [active |-> FALSE, pc |-> NIL, lip |-> NIL, pc_of |-> 0, lip_of |-> 0]

gc_init ==
    [mem |-> [a \in Addr |-> imm], obj |-> [a \in Addr |-> Nobody], context |-> NoContext,
     space |-> dynamic_0_space, free |-> dynamic_0_space,
     from_space |-> 0, from_free |-> 0, new_space |-> 0, new_free |-> 0, weak_pointers |-> {},
     static_free |-> static_space + NStatic, read_only_free |-> read_only_space,
     static_end |-> 0, read_only_end |-> 0, later |-> {}, val |-> imm, lost |-> FALSE]

Put(m, a, w) == [m EXCEPT !.mem[a] = w]
Lose(m) == [m EXCEPT !.lost = TRUE]

-----------------------------------------------------------------------------
(* gc.c: transport and scavenge.                                             *)

from_space_p(m, a) == m.from_space <= a /\ a < m.from_free
new_space_p(m, a) == m.new_space <= a /\ a < m.new_free
Forwarded(m, w) == Pointerp(w) /\ new_space_p(m, w.at)

Move(m, from, to, n) ==
    [m EXCEPT !.mem = [a \in to..to+n-1 |-> m.mem[from + a - to]] @@ @,
              !.obj = [a \in to..to+n-1 |-> m.obj[from + a - to]]
                      @@ [a \in from..from+n-1 |-> [m.obj[a] EXCEPT !.to = to + a - from]] @@ @]

copy_object(m, w, n) == [Move(m, w.at, m.new_free, n) EXCEPT !.new_free = m.new_free + n]

(* Copy the object and put its forwarding pointer in its first word.         *)
Transport(m, w, n) == Put(copy_object(m, w, n), w.at, Ptr(w.tag, m.new_free))

(* The rest of the list is copied too, as far as its conses are in the old   *)
(* space, and the cdrs point to the copies.                                  *)
RECURSIVE trans_cdrs(_, _, _)
trans_cdrs(m, cons, new) ==
    LET cdr == m.mem[cons + 1]
    IN IF /\ Pointerp(cdr) /\ cdr.tag = "list" /\ from_space_p(m, cdr.at)
          /\ ~Forwarded(m, m.mem[cdr.at])
       THEN trans_cdrs(Put(Transport(m, cdr, 2), new + 1, Ptr("list", m.new_free)), cdr.at, m.new_free)
       ELSE m

trans_list(m, w) == trans_cdrs(Transport(m, w, 2), w.at, m.new_free)

(* The code object at a, once: the function inside it gets a forwarding      *)
(* pointer too, and its self pointer and the entry point are corrected.      *)
trans_code(m, a) ==
    LET new == m.new_free
        copied == Transport(m, Ptr("other", a), Size("code"))
        fun == Ptr("function", m.mem[a + 1].at + new - a)
    IN IF Forwarded(m, m.mem[a]) THEN m
       ELSE Put(Put(Put(copied, m.mem[a + 1].at, fun), new + FunAt + 1, fun), new + 1, fun)

(* A function or a return address moves with its code object.                *)
trans_inside(m, w) ==
    LET offset == m.mem[w.at].offset
        moved == trans_code(m, w.at - offset)
    IN Put(moved, w.at, Ptr(w.tag, moved.mem[w.at - offset].at + offset))

trans_weak_pointer(m, w) ==
    [Transport(m, w, 2) EXCEPT !.weak_pointers = @ \union {m.new_free}]

trans_other(m, w) ==
    CASE m.mem[w.at].t = "vec" -> Transport(m, w, 2)
      [] m.mem[w.at].t = "weak" -> trans_weak_pointer(m, w)
      [] m.mem[w.at].t = "code" -> trans_code(m, w.at)
      [] m.mem[w.at].t = "lra" -> trans_inside(m, w)
      [] OTHER -> Lose(m)

Transported(m, w) ==
    CASE w.tag = "list" -> trans_list(m, w)
      [] w.tag = "instance" -> Transport(m, w, 2)
      [] w.tag = "function" -> trans_inside(m, w)
      [] OTHER -> trans_other(m, w)

(* The word at a, when it is a pointer: to an object that moves or has moved.*)
scav_pointer(m, a) ==
    LET w == m.mem[a]
    IN IF ~from_space_p(m, w.at) THEN m
       ELSE IF Forwarded(m, m.mem[w.at]) THEN Put(m, a, m.mem[w.at])
       ELSE LET n == Transported(m, w) IN Put(n, a, n.mem[w.at])

Scav1(m, a) == IF Pointerp(m.mem[a]) THEN scav_pointer(m, a) ELSE m

(* The header says that nothing was moved since the keys were hashed.        *)
scav_vector(m, a) == IF m.mem[a].valid THEN Put(m, a, [m.mem[a] EXCEPT !.valid = FALSE]) ELSE m

scav_code_header(m, a) == Scav1(Scav1(Scav1(m, a + 1), a + 2), m.mem[a + 1].at + 2)

(* scavtab: the new heap, and how many words were scavenged.                 *)
Scavenged(m, a) ==
    CASE Pointerp(m.mem[a]) -> [m |-> scav_pointer(m, a), n |-> 1]
      [] m.mem[a].t \in instances \union {"imm"} -> [m |-> m, n |-> 1]
      [] m.mem[a].t = "vec" -> [m |-> scav_vector(m, a), n |-> 1]
      [] m.mem[a].t = "weak" -> [m |-> m, n |-> 2]
      [] m.mem[a].t = "code" -> [m |-> scav_code_header(m, a), n |-> Size("code")]
      [] OTHER -> [m |-> Lose(m), n |-> 1]

RECURSIVE scavenge(_, _, _)
scavenge(m, start, end) ==
    LET r == Scavenged(m, start) IN IF start >= end THEN m ELSE scavenge(r.m, start + r.n, end)

lip_register_pair_First(m) ==
    LET below == {r \in boxed_registers : Pointerp(m.mem[r]) /\ m.mem[r].at <= m.context.lip}
    IN IF below = {} THEN NIL ELSE CHOOSE r \in below : \A q \in below : r <= q

(* The LIP register holds a raw address inside an object that one of the     *)
(* boxed registers points to: the closest one below.  The PC moves with the  *)
(* code register.                                                            *)
lip_register_pair(m) ==
    LET below == {r \in boxed_registers : Pointerp(m.mem[r]) /\ m.mem[r].at <= m.context.lip}
    IN IF below = {} THEN NIL
       ELSE CHOOSE r \in below : \A q \in below : m.mem[q].at <= m.mem[r].at

scavenge_interrupt_context(m) ==
    LET pair == lip_register_pair(m)
        done == Scav1(Scav1(m, CodeReg), BoxedReg)
    IN IF ~m.context.active THEN m
       ELSE [done EXCEPT
              !.context.lip = IF pair = NIL THEN NIL ELSE done.mem[pair].at + @ - m.mem[pair].at,
              !.context.pc = IF from_space_p(m, @) THEN done.mem[CodeReg].at + @ - m.mem[CodeReg].at
                             ELSE @]

scan_weak_pointers_AnySpace(m) ==
    LET moves == {a \in m.weak_pointers : Pointerp(m.mem[a + 1])}
        moved(w) == IF Forwarded(m, m.mem[w.at]) THEN m.mem[w.at] ELSE imm
    IN [m EXCEPT !.mem = [b \in {a + 1 : a \in moves} |-> moved(m.mem[b])] @@ @, !.weak_pointers = {}]

(* A weak pointer takes the new address of its value, or is broken.          *)
scan_weak_pointers(m) ==
    LET value(a) == m.mem[a + 1]
        moves == {a \in m.weak_pointers : Pointerp(value(a)) /\ from_space_p(m, value(a).at)}
        moved(w) == IF Forwarded(m, m.mem[w.at]) THEN m.mem[w.at] ELSE imm
    IN [m EXCEPT !.mem = [b \in {a + 1 : a \in moves} |-> moved(m.mem[b])] @@ @, !.weak_pointers = {}]

os_zero(m, start) ==
    [m EXCEPT !.mem = [a \in start..start+SpaceSize-1 |-> imm] @@ @,
              !.obj = [a \in start..start+SpaceSize-1 |-> Nobody] @@ @]

-----------------------------------------------------------------------------
(* purify.c: a depth first copy out of the dynamic space, constants into the *)
(* read-only space and what Lisp may change into the static space.           *)

forwarding_pointer_p(m, w) ==
    /\ Pointerp(w)
    /\ \/ m.static_end <= w.at /\ w.at <= m.static_free
       \/ m.read_only_end <= w.at /\ w.at <= m.read_only_free

dynamic_pointer_p(w) == Pointerp(w) /\ w.at >= dynamic_0_space

Reserve(m, n, constant) ==
    IF constant THEN [m EXCEPT !.read_only_free = @ + n] ELSE [m EXCEPT !.static_free = @ + n]
Free(m, constant) == IF constant THEN m.read_only_free ELSE m.static_free

(* Copy n words, leave a forwarding pointer.                                 *)
Purified(m, w, n, constant) ==
    Put(Reserve(Move(m, w.at, Free(m, constant), n), n, constant), w.at, Ptr(w.tag, Free(m, constant)))

RECURSIVE pscav(_, _, _, _)

ptrans_boxed(m, w, constant, inside) ==
    pscav(Purified(m, w, 2, constant), Free(m, constant), 2, inside)

(* Pure structures are constants, the others are not; the environments of    *)
(* the compiler may change, but what they refer to may not.                  *)
ptrans_instance(m, w) ==
    CASE m.mem[w.at].t = "pure" -> ptrans_boxed(m, w, TRUE, TRUE)
      [] m.mem[w.at].t = "box" -> ptrans_boxed(m, w, FALSE, FALSE)
      [] m.mem[w.at].t = "env" -> ptrans_boxed(m, w, FALSE, TRUE)
      [] OTHER -> Lose(m)

RECURSIVE ptrans_cdrs(_, _, _)
ptrans_cdrs(m, new, constant) ==
    LET thing == m.mem[new + 1]
    IN IF /\ Pointerp(thing) /\ thing.tag = "list" /\ dynamic_pointer_p(thing)
          /\ ~forwarding_pointer_p(m, m.mem[thing.at])
       THEN ptrans_cdrs(Purified(m, thing, 2, constant), Free(m, constant), constant)
       ELSE m

ptrans_list(m, w, constant) ==
    LET new == Free(m, constant)
        copied == ptrans_cdrs(Purified(m, w, 2, constant), new, constant)
    IN pscav(copied, new, Free(copied, constant) - new, constant)

ptrans_code_NoLater(m, a) ==
    LET new == m.read_only_free
        copied == Purified(m, Ptr("other", a), Size("code"), TRUE)
        fun == m.mem[a + 1].at
        forwarded == Put(copied, fun, Ptr("function", new + fun - a))
    IN pscav(pscav(pscav(forwarded, new + 2, 1, TRUE), new + 1, 1, TRUE), new + FunAt + 1, 1, TRUE)

(* Code is constant.  What is not needed to run it is left for later.        *)
ptrans_code(m, a) ==
    LET new == m.read_only_free
        copied == Purified(m, Ptr("other", a), Size("code"), TRUE)
        fun == m.mem[a + 1].at
        forwarded == Put(copied, fun, Ptr("function", new + fun - a))
        constants == pscav(forwarded, new + 2, 1, TRUE)
        entry == pscav(constants, new + 1, 1, TRUE)
        self == pscav(entry, new + FunAt + 1, 1, TRUE)
    IN [self EXCEPT !.later = @ \union {new + FunAt + 2}]

(* If its code object has moved, so has the function.                        *)
ptrans_func(m, w) == ptrans_code(m, w.at - m.mem[w.at].offset)

ptrans_returnpc(m, w) ==
    LET code == w.at - m.mem[w.at].offset
    IN IF forwarding_pointer_p(m, m.mem[code]) THEN m ELSE ptrans_code(m, code)

(* The object of w is moved; val is its new address.                         *)
ptrans_other(m, w, constant) ==
    LET h1 == m.mem[w.at]
        at(n, a) == [n EXCEPT !.val = n.mem[a]]
    IN CASE h1.t = "vec" -> at(ptrans_boxed(m, w, constant, constant), w.at)
         [] h1.t = "weak" -> at(ptrans_boxed(m, w, FALSE, FALSE), w.at)
         [] h1.t = "code" -> at(ptrans_code(m, w.at), w.at)
         [] h1.t = "lra" -> LET n == ptrans_returnpc(m, w)
                            IN [n EXCEPT !.val = Ptr("other", n.mem[w.at - h1.offset].at + h1.offset)]
         [] OTHER -> Lose(m)

ptrans(m, w, constant) ==
    LET at(n) == [n EXCEPT !.val = n.mem[w.at]]
    IN CASE w.tag = "function" -> at(ptrans_func(m, w))
         [] w.tag = "list" -> at(ptrans_list(m, w, constant))
         [] w.tag = "instance" -> at(ptrans_instance(m, w))
         [] OTHER -> ptrans_other(m, w, constant)

pscav_pointer(m, a, constant) ==
    LET w == m.mem[a]
    IN IF ~dynamic_pointer_p(w) THEN m
       ELSE IF forwarding_pointer_p(m, m.mem[w.at]) THEN Put(m, a, m.mem[w.at])
       ELSE LET n == ptrans(m, w, constant) IN Put(n, a, n.val)

Pscavenged(m, a, constant) ==
    CASE Pointerp(m.mem[a]) -> [m |-> pscav_pointer(m, a, constant), n |-> 1]
      [] m.mem[a].t = "vec" -> [m |-> scav_vector(m, a), n |-> 1]
      [] m.mem[a].t = "weak" -> [m |-> pscav(m, a + 1, 1, constant), n |-> 2]
      [] m.mem[a].t \in {"code", "fun", "lra"} -> [m |-> Lose(m), n |-> 1]
      [] OTHER -> [m |-> m, n |-> 1]

pscav(m, start, nwords, constant) ==
    LET r == Pscavenged(m, start, constant)
    IN IF nwords <= 0 THEN m ELSE pscav(r.m, start + r.n, nwords - r.n, constant)

(* What was left for later, the first of it first.                           *)
RECURSIVE pscav_laters(_, _)
pscav_laters(m, laters) ==
    LET a == CHOOSE x \in laters : \A y \in laters : x <= y
    IN IF laters = {} THEN m ELSE pscav_laters(pscav(m, a, 1, TRUE), laters \ {a})

(* Static space is scavenged as it grows.                                    *)
RECURSIVE pscav_static(_, _)
pscav_static(m, clean) ==
    LET scavenged == pscav(m, clean, m.static_free - clean, FALSE)
        done == pscav_laters([scavenged EXCEPT !.later = {}], scavenged.later)
    IN IF clean = m.static_free /\ m.later = {} THEN m ELSE pscav_static(done, m.static_free)

(* The arguments static_roots and read_only_roots are values Lisp holds too: *)
(* one of them, the one at a.                                                *)
purify(m, a, constant) ==
    LET start == [m EXCEPT !.read_only_end = m.read_only_free, !.static_end = m.static_free]
        roots == pscav(start, a, 1, constant)
        stack == pscav(roots, 0, NStack, FALSE)
        moved == pscav_static(stack, static_space)
    IN [os_zero(moved, m.space) EXCEPT !.free = m.space, !.val = imm]

-----------------------------------------------------------------------------
(* Lisp.                                                                     *)

Lisp == gc.pc = "lisp" /\ gc.ops < MaxOps /\ gc.runs < MaxGC
Operates == gc' = [gc EXCEPT !.ops = @ + 1]
Values == {h.mem[s] : s \in Var} \union {imm}

(* Weak pointers are made to objects, not to return addresses.               *)
Alloc(s, k, r) ==
    /\ Lisp /\ gc.objects < MaxObjects
    /\ k = "weak" => Pointerp(r[1]) /\ h.obj[r[1].at].kind # "lra"
    /\ LET n == Size(k)
           a == h.free
       IN h' = [h EXCEPT
                 !.mem = s :> Ptr(TagOf(k), a) @@ [b \in a..a+n-1 |-> Words(k, a, r)[b - a + 1]] @@ @,
                 !.obj = Known(k, a, 3 * gc.objects + 1) @@ @,
                 !.free = @ + n]
    /\ gc' = [gc EXCEPT !.ops = @ + 1, !.objects = @ + 1]

KindAt(s) == IF Pointerp(h.mem[s]) THEN h.obj[h.mem[s].at].kind ELSE "none"

(* Constants, and so what purify has put into read-only space, do not        *)
(* change, nor weak pointers that purify has moved: the collector leaves     *)
(* them alone.  An EQ table's key is stored with the address it is hashed by.*)
Store(s, i, v) ==
    /\ Lisp /\ KindAt(s) \in {"cons", "box", "env", "vec", "weak"}
    /\ i = 0 => KindAt(s) = "cons"
    /\ KindAt(s) = "weak" => dynamic_pointer_p(h.mem[s]) /\ Pointerp(v) /\ h.obj[v.at].kind # "lra"
    /\ ~(read_only_space <= h.mem[s].at /\ h.mem[s].at < h.read_only_free)
    /\ \E a \in {h.mem[s].at} :
          h' = [h EXCEPT !.mem =
                  a + i :> v
                  @@ (IF KindAt(s) = "vec" THEN a :> [t |-> "vec", valid |-> TRUE, key |-> v] ELSE << >>)
                  @@ @]
    /\ Operates

Set(s, w) == Lisp /\ h' = Put(h, s, w) /\ Operates

(* What Lisp gets from an object: its fields; the code object of a function  *)
(* (it computes it from its own address) and the return address in it.       *)
Fields(s) ==
    LET a == h.mem[s].at
    IN CASE KindAt(s) = "none" -> {}
         [] KindAt(s) = "cons" -> {h.mem[a], h.mem[a + 1]}
         [] KindAt(s) = "code" -> {h.mem[a + 1], h.mem[a + 2], h.mem[a + FunAt + 2], Ptr("other", a + LraAt)}
         [] KindAt(s) = "fun" -> {Ptr("other", a - FunAt), Ptr("other", a - FunAt + LraAt)}
         [] KindAt(s) = "lra" -> {Ptr("other", a - LraAt)}
         [] OTHER -> {h.mem[a + 1]}

CodeOf(w) == w.at - (CASE w.tag = "function" -> FunAt [] h.obj[w.at].kind = "lra" -> LraAt [] OTHER -> 0)

(* A signal stops compiled code: the code register holds its code object,    *)
(* function or return address, the LIP an address inside the object of a     *)
(* boxed register, or nothing.                                               *)
Interrupt(c, s, lip) ==
    LET code == CodeOf(h.mem[c])
        pair == IF lip = 1 THEN h.mem[c] ELSE h.mem[s]
    IN /\ Lisp /\ ~h.context.active /\ KindAt(c) \in {"code", "fun", "lra"}
       /\ lip = 2 => Pointerp(h.mem[s])
       /\ h' = [h EXCEPT
             !.mem[CodeReg] = h.mem[c], !.mem[BoxedReg] = h.mem[s],
             !.context = [active |-> TRUE, pc |-> code + PcAt, pc_of |-> h.obj[code].id,
                          lip |-> IF lip = 0 THEN NIL ELSE pair.at + 1,
                          lip_of |-> IF lip = 0 THEN 0 ELSE h.obj[pair.at].id]]
       /\ Operates

ReturnFromInterrupt(s) ==
    /\ Lisp /\ h.context.active
    /\ h' = [Put(Put(Put(h, s, h.mem[BoxedReg]), CodeReg, imm), BoxedReg, imm) EXCEPT !.context = NoContext]
    /\ Operates

(* collect_garbage: signals are blocked, the roots are scavenged.            *)
CollectGarbage ==
    LET other == IF h.space = dynamic_0_space THEN dynamic_1_space ELSE dynamic_0_space
        start == [h EXCEPT !.from_space = h.space, !.from_free = h.free, !.new_space = other,
                           !.new_free = other, !.weak_pointers = {}]
    IN /\ gc.pc = "lisp" /\ gc.runs < MaxGC
       /\ h' = scavenge(scavenge(scavenge_interrupt_context(start), 0, NStack), static_space, h.static_free)
       /\ gc' = [gc EXCEPT !.pc = "newspace", !.here = other, !.runs = @ + 1]

ScavengeNewspace ==
    /\ gc.pc = "newspace" /\ gc.here < h.new_free
    /\ h' = scavenge(h, gc.here, h.new_free)
    /\ gc' = [gc EXCEPT !.here = h.new_free]

FlipSpaces ==
    /\ gc.pc = "newspace" /\ gc.here = h.new_free
    /\ h' = [os_zero(scan_weak_pointers(h), h.space) EXCEPT
                !.space = h.new_space, !.free = h.new_free,
                !.from_space = 0, !.from_free = 0, !.new_space = 0, !.new_free = 0]
    /\ gc' = [gc EXCEPT !.pc = "lisp", !.here = 0]

(* "Ack! Can't purify interrupt contexts."                                   *)
Purify(a, constant) ==
    /\ gc.pc = "lisp" /\ gc.runs < MaxGC /\ ~h.context.active
    /\ \E n \in {purify(h, a, constant)} : h' = [n EXCEPT !.static_end = 0, !.read_only_end = 0]
    /\ gc' = [gc EXCEPT !.runs = @ + 1]

Next ==
    \/ \E s \in Var, k \in Kind, v \in Values, w \in Values :
          (k \notin {"cons", "code"} => w = imm) /\ Alloc(s, k, <<v, w>>)
    \/ \E s \in Var, i \in 0..1, v \in Values : Store(s, i, v)
    \/ \E d, s \in Var : \E w \in {h.mem[s]} \union Fields(s) : Set(d, w)
    \/ \E d \in Var : Set(d, imm)
    \/ \E c, s \in Var, lip \in 0..2 : Interrupt(c, s, lip)
    \/ \E s \in Var : ReturnFromInterrupt(s)
    \/ CollectGarbage \/ ScavengeNewspace \/ FlipSpaces
    \/ \E a \in Var, constant \in BOOLEAN : Purify(a, constant)

Init == h = gc_init /\ gc = [pc |-> "lisp", here |-> 0, ops |-> 0, objects |-> 0, runs |-> 0]
Spec == Init /\ [][Next]_vars

-----------------------------------------------------------------------------
(* Properties.                                                               *)

(* What memory means: the object at an address, wherever it was copied.      *)
Resolve(a) == IF from_space_p(h, a) /\ h.obj[a].to # NIL THEN h.obj[a].to ELSE a

IdOf(w) ==
    IF ~Pointerp(w) THEN NIL
    ELSE IF h.obj[w.at].id # 0 /\ TagOf(h.obj[w.at].kind) = w.tag THEN h.obj[w.at].id ELSE Lost

RefsAt(a) ==
    LET k == h.obj[a].kind
    IN CASE k = "cons" -> <<h.mem[a], h.mem[a + 1]>>
         [] k = "code" -> <<h.mem[a + 2], h.mem[a + FunAt + 2], h.mem[a + 1], Ptr("other", a + LraAt)>>
         [] k = "fun" -> <<Ptr("other", a - FunAt)>>
         [] k = "lra" -> <<Ptr("other", a - LraAt)>>
         [] OTHER -> <<h.mem[a + 1]>>

At(S) == {Resolve(w.at) : w \in {x \in S : Pointerp(x)}}
Beyond(S) == S \union At(UNION {ToSet(RefsAt(a)) : a \in {b \in S : h.obj[b].id # 0}})
Reached ==
    LET step[n \in 0..3*MaxObjects] ==
            IF n = 0 THEN At({h.mem[s] : s \in Slot})
            ELSE CHOOSE T \in {Beyond(S) : S \in {step[n - 1]}} : TRUE
    IN step[3 * MaxObjects]

Node(a) == IF h.obj[a].id = 0 THEN [kind |-> "lost", refs |-> << >>]
           ELSE [kind |-> IF h.obj[a].kind \in {"fun", "lra"} THEN "part" ELSE h.obj[a].kind,
                 refs |-> [j \in DOMAIN RefsAt(a) |-> IdOf(RefsAt(a)[j])]]
NodesAt(S) == [i \in {h.obj[a].id : a \in S} |-> Node(CHOOSE a \in S : h.obj[a].id = i)]

Graph == INSTANCE HeapGraph WITH
    ops <- gc.ops,
    root <- [s \in Slot |-> IdOf(h.mem[s])],
    node <- CHOOSE f \in {NodesAt(S) : S \in {Reached}} : TRUE

(* gc.c, purify.c: Lisp sees the graph it built, each object once, whatever  *)
(* was copied, in which order and into which space; only weak pointers to    *)
(* objects that were not reachable otherwise break.                          *)
GraphKept == Graph!Spec

(* The object id lies at a and not in the space to be freed.                 *)
Lies(id, a) == ~from_space_p(h, a) /\ h.obj[a].id = id

(* gc.c scavenge_interrupt_context, trans_code: an interrupted computation   *)
(* goes on in the same code object at the same instruction, its LIP at the   *)
(* same place of the same object; the entry points of a code object and of   *)
(* its function are inside itself.                                           *)
CodeFollows ==
    /\ h.context.active =>
          /\ Lies(h.context.pc_of, h.context.pc - PcAt)
          /\ h.context.lip_of # 0 => Lies(h.context.lip_of, h.context.lip - 1)
    /\ \A a \in Addr : h.obj[a].kind = "code" /\ h.obj[a].to = NIL =>
          h.mem[a + 1] = Ptr("function", a + FunAt) /\ h.mem[a + FunAt + 1] = h.mem[a + 1]

(* gc.c, purify.c: every word met has a case in the dispatch tables.         *)
NothingLost == ~h.lost

(* No object is copied twice.                                                *)
OneCopy == LET live == {a \in Addr : h.obj[a].id # 0 /\ h.obj[a].to = NIL}
           IN Cardinality({h.obj[a].id : a \in live}) = Cardinality(live)

(* purify.c: nothing in read-only space refers to an object that may move:   *)
(* collect_garbage does not look there.                                      *)
ReadOnlyClosed == \A a \in read_only_space..h.read_only_free-1 : ~dynamic_pointer_p(h.mem[a])

(* gc.c scavenge_newspace: what has been scavenged refers to the old space   *)
(* only through weak pointers made of the objects on the list.               *)
Scavenged_p == gc.pc = "newspace" =>
    \A a \in (0..h.static_free-1) \union (h.new_space..gc.here-1) :
        Pointerp(h.mem[a]) /\ from_space_p(h, h.mem[a].at) => a - 1 \in h.weak_pointers

(* gc.c scav_vector, purify.c pscav: a table is marked for rehashing when    *)
(* the key it was hashed with may have moved.                                *)
KeysHashed == gc.pc = "lisp" => \A a \in Addr : h.mem[a].t = "vec" /\ h.mem[a].valid => h.mem[a].key = h.mem[a + 1]

(* gc.c, purify.c: what a collection or a purification leaves in the heap,   *)
(* and what the scavenging has done so far.                                  *)
HeapSound == NothingLost /\ OneCopy /\ ReadOnlyClosed /\ Scavenged_p /\ KeysHashed
=============================================================================
