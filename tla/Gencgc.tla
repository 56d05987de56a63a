------------------------------- MODULE Gencgc -------------------------------
(* The generational conservative collector of gencgc.c: the page table, the  *)
(* allocation regions, the collection of one generation after another, the   *)
(* write barrier, pinned pages, weak pointers and weak key tables.           *)
(*                                                                           *)
(* The unit of memory is a cell; a page has PageSize of them.  An object     *)
(* fills size consecutive cells; its first one holds a record with its kind  *)
(* and references, the others are "body".  The state of the C program is one *)
(* record h, and each C function that changes it an operator from records to *)
(* records; the steps of collect_garbage are the actions.                    *)
EXTENDS Integers, Sequences, FiniteSets, SequencesExt

CONSTANTS
    NPages, PageSize,    \* dynamic_space_pages, GC_PAGE_SIZE
    Threshold,           \* the 32 bytes of region_empty_threshold, in cells
    LargeSize,           \* large_object_size
    LargeLimit,          \* consecutive_large_alloc_limit
    NumNewAreas,         \* NUM_NEW_AREAS
    NumGenerations,      \* NUM_GENERATIONS, also the temporary generation
    OldestGenToGc,       \* gencgc_oldest_gen_to_gc
    Consed,              \* bytes_consed_between_gc
    LastGens,            \* the arguments Lisp calls collect_garbage with
    Size,                \* [Kind -> cells of an object of the kind]
    Stack, Static,       \* ambiguous stack words; exact roots
    MaxObjects, MaxOps, MaxGC    \* bounds: objects and operations of Lisp, calls of collect_garbage

NIL == -1
Kind == DOMAIN Size
Slot == Stack \union Static
Pages == 0..NPages-1
Addr == 0..NPages*PageSize-1
Regions == {"boxed", "unboxed"}
Gen == 0..NumGenerations
vector == {"vec", "bytes"}         \* the kinds that may be large and may shrink

ASSUME SizesAssumption ==
    /\ NPages \in Nat \ {0} /\ PageSize \in Nat \ {0} /\ NumGenerations \in Nat \ {0}
    /\ Threshold \in 0..PageSize-1 /\ OldestGenToGc \in 0..NumGenerations-1
    /\ {LargeSize, LargeLimit, NumNewAreas, Consed, MaxObjects} \union LastGens \subseteq Nat
    /\ \A k \in Kind : Size[k] \in Nat \ {0} /\ (Size[k] >= LargeSize => k \in vector)
    /\ IsFiniteSet(Slot)

VARIABLES
    h,        \* the heap: page table, memory, regions, counters, work lists
    root,     \* [Slot -> [at: Addr or NIL, live: a dead stack word keeps its value]]
    gc        \* where collect_garbage stands

vars == <<h, root, gc>>

zero == [t |-> "zero"]  dirty == [t |-> "dirty"]  body == [t |-> "body"]

PageOf(a) == a \div PageSize
page_address(p) == p * PageSize
find_page_index(a) == IF a \in Addr THEN PageOf(a) ELSE -1
Cells(a, n) == [i \in 1..n |-> a + i - 1]                 \* a, a+1, ... : n cells
PageSeq(p, q) == IF p > q THEN << >> ELSE [i \in 1..q-p+1 |-> p + i - 1]

FreePage == [alloc |-> FALSE, unboxed |-> FALSE, large |-> FALSE, pinned |-> FALSE,
             wp |-> FALSE, gen |-> 0, used |-> 0, offset |-> 0]
ResetRegion == [first |-> 0, last |-> -1, start |-> 0, free |-> 0, end |-> 0]
NoHint == [boxed |-> 0, unboxed |-> 0]
NewGeneration == [start |-> NoHint, large_start |-> NoHint, bytes_allocated |-> 0,
                  gc_trigger |-> Consed, num_gc |-> 0, cum_sum |-> 0]

gc_init ==
    [page |-> [p \in Pages |-> FreePage], mem |-> [a \in Addr |-> zero],
     region |-> [k \in Regions |-> ResetRegion],
     stats |-> [k \in Regions |-> [consecutive |-> 0, saved |-> ResetRegion]],
     generations |-> [g \in Gen |-> NewGeneration],
     gc_alloc_generation |-> 0, last_free_page |-> 0,
     from_space |-> -1, new_space |-> -1,
     record_new_objects |-> 0, new_areas_ignore_page |-> 0, new_areas |-> << >>,
     weak_pointers |-> {}, weak_hash_tables |-> << >>, overflow |-> FALSE]

(* The pages of g whose flags the allocator compares under a mask.           *)
InGen(m, p, g) == m.page[p].alloc /\ m.page[p].used # 0 /\ m.page[p].gen = g
LeastOf(S) == CHOOSE x \in S : \A y \in S : x <= y
Without(k, S) == CHOOSE x \in S : x # k

-----------------------------------------------------------------------------
(* Allocation.                                                               *)

(* A page a region of kind k may start on: free, or a partly used page of    *)
(* the same sort that is neither protected nor pinned nor large.             *)
Usable(m, p, k) ==
    LET q == m.page[p]
    IN \/ ~q.alloc
       \/ /\ ~q.wp /\ ~q.large /\ ~q.pinned /\ q.unboxed = (k = "unboxed")
          /\ q.gen = m.gc_alloc_generation /\ q.used < PageSize - Threshold

(* The last page of a region of n cells that starts on p: free pages are     *)
(* added until there is room and the region has least pages.                 *)
LastPage(m, p, n, least) ==
    LET found(q) == (q - p + 1) * PageSize - m.page[p].used
        stop(q) == \/ found(q) >= n /\ q - p + 1 >= least
                   \/ q = NPages - 1
                   \/ m.page[q+1].alloc
    IN LeastOf({q \in p..NPages-1 : stop(q)})

Fits(m, p, n, least) ==
    (LastPage(m, p, n, least) - p + 1) * PageSize - m.page[p].used >= n

(* MODE_LAZY: free pages are filled with zeroes when they are used again,    *)
(* if their first word is not zero.                                          *)
handle_madvise_pages(m, ps) ==
    LET dirtied == {p \in ps : ~m.page[p].alloc /\ m.mem[page_address(p)] # zero}
    IN [m EXCEPT !.mem = [a \in Addr |-> IF PageOf(a) \in dirtied THEN zero ELSE @[a]]]

Bump(m, p) == IF p + 1 > m.last_free_page THEN p + 1 ELSE m.last_free_page

(* The region of kind k on the pages from first to last of m.                *)
OpenRegion(m, first, last, k) ==
    LET start == page_address(first) + m.page[first].used
        open(q) == [q EXCEPT !.alloc = TRUE, !.large = FALSE, !.unboxed = (k = "unboxed"),
                             !.gen = m.gc_alloc_generation]
    IN [m EXCEPT
         !.region[k] = [first |-> first, last |-> last, start |-> start, free |-> start,
                        end |-> page_address(last + 1)],
         !.page = [p \in Pages |->
            IF p = first /\ @[p].used = 0
            THEN [open(@[p]) EXCEPT !.wp = FALSE, !.pinned = FALSE, !.offset = 0]
            ELSE IF p \in first+1..last
            THEN [open(@[p]) EXCEPT !.offset = page_address(p) - start]
            ELSE @[p]],
         !.last_free_page = Bump(m, last)]

OpenRegionAt(m, first, last, k) == OpenRegion(handle_madvise_pages(m, first..last), first, last, k)
gc_alloc_new_region(m, n, k) ==
    LET can == {p \in m.generations[m.gc_alloc_generation].start[k]..NPages-1 :
                    Usable(m, p, k) /\ Fits(m, p, n, 2)}
    IN IF can = {} THEN [m EXCEPT !.overflow = TRUE]
       ELSE OpenRegionAt(m, LeastOf(can), LastPage(m, LeastOf(can), n, 2), k)

(* Which areas are recorded: all, or those one_scan will not come to.        *)
Records(m, start) ==
    \/ m.record_new_objects = 2
    \/ m.record_new_objects = 1 /\ PageOf(start) <= m.new_areas_ignore_page

(* An area that follows another is added to it; 512 areas are the limit.     *)
add_new_area(m, start, n) ==
    LET a == m.new_areas
        prior == {i \in DOMAIN a : a[i].start + a[i].size = start}
    IN IF Len(a) >= NumNewAreas \/ ~Records(m, start) THEN m
       ELSE IF prior # {}
       THEN [m EXCEPT !.new_areas[CHOOSE i \in prior : \A j \in prior : j <= i].size = @ + n]
       ELSE [m EXCEPT !.new_areas = Append(@, [start |-> start, size |-> n])]

UsedBelow_Uncapped(a, p) == IF a <= page_address(p) THEN 0 ELSE a - page_address(p)

(* The cells of page p below address a, at most a page full.                 *)
UsedBelow(a, p) ==
    IF a <= page_address(p) THEN 0
    ELSE IF a >= page_address(p + 1) THEN PageSize ELSE a - page_address(p)

(* The pages of region r, of which n cells were allocated, get their sizes.  *)
CloseRegion(m, k, r, n) ==
    LET used(p) == IF p = r.first /\ n = 0 THEN m.page[p].used ELSE UsedBelow(r.free, p)
    IN [m EXCEPT
          !.page = [p \in Pages |->
             IF p \in r.first..r.last THEN [@[p] EXCEPT !.used = used(p), !.alloc = used(p) # 0]
             ELSE @[p]],
          !.generations[m.gc_alloc_generation].bytes_allocated = @ + n,
          !.generations[m.gc_alloc_generation].start[k] = IF n = 0 THEN @ ELSE PageOf(r.free - 1),
          !.region[k] = ResetRegion]

gc_alloc_update_page_tables(m, k) ==
    LET r == m.region[k]
        closed == CloseRegion(m, k, r, r.free - r.start)
    IN IF r = ResetRegion THEN m
       ELSE IF k = "unboxed" \/ r.free = r.start THEN closed
       ELSE add_new_area(closed, r.start, r.free - r.start)

(* gc_alloc_large: an object of its own, behind the current region; a large  *)
(* one starts on a free page and the pages are marked.                       *)
LargeAt(m, n, k, first, last) ==
    LET start == page_address(first) + m.page[first].used
        taken(q) == [q EXCEPT !.alloc = TRUE, !.wp = FALSE, !.large = (n >= LargeSize), !.pinned = FALSE,
                              !.unboxed = (k = "unboxed"), !.gen = m.gc_alloc_generation]
    IN [heap |-> [m EXCEPT
          !.page = [p \in Pages |->
             IF p = first /\ @[p].used # 0 THEN [@[p] EXCEPT !.used = UsedBelow(start + n, p)]
             ELSE IF p \in first..last
             THEN [taken(@[p]) EXCEPT !.used = UsedBelow(start + n, p),
                                      !.offset = IF p = first THEN 0 ELSE page_address(p) - start]
             ELSE @[p]],
          !.generations[m.gc_alloc_generation].bytes_allocated = @ + n,
          !.generations[m.gc_alloc_generation].large_start[k] = last,
          !.last_free_page = Bump(m, last)],
        at |-> start]
Recorded(r, n, k) == IF k = "boxed" THEN [r EXCEPT !.heap = add_new_area(r.heap, r.at, n)] ELSE r

PlaceLarge(m, n, k, first, last) ==
    Recorded(LargeAt(handle_madvise_pages(m, first..last), n, k, first, last), n, k)
gc_alloc_large(m, n, k) ==
    LET hint == m.generations[m.gc_alloc_generation].large_start[k]
        from == IF hint <= m.region[k].last THEN m.region[k].last + 1 ELSE hint
        can == {p \in from..NPages-1 :
                    (IF n >= LargeSize THEN ~m.page[p].alloc ELSE Usable(m, p, k)) /\ Fits(m, p, n, 1)}
    IN IF can = {} THEN [heap |-> [m EXCEPT !.overflow = TRUE], at |-> NIL]
       ELSE PlaceLarge(m, n, k, LeastOf(can), LastPage(m, LeastOf(can), n, 1))

HasRoom_OffByOne(m, n, k) == m.region[k].free + n <= m.region[k].end + 1
HasRoom(m, n, k) == m.region[k].free + n <= m.region[k].end
Left(m, k) == m.region[k].end - m.region[k].free

(* Allocation in the current region; one that is almost empty is closed.     *)
Advance(m, n, k) == [m EXCEPT !.region[k].free = @ + n]
SaveRegion(m, k) == [m EXCEPT !.stats[k] = [consecutive |-> 0, saved |-> m.region[k]]]
Replaced(m, k) ==
    IF Left(m, k) > Threshold THEN m
    ELSE gc_alloc_new_region(gc_alloc_update_page_tables(m, k), Threshold, k)
gc_alloc_try_current_region(m, n, k) ==
    [heap |-> SaveRegion(Replaced(Advance(m, n, k), k), k), at |-> m.region[k].free]

InRegionOrNot(m, n, k) ==
    IF m.overflow THEN [heap |-> m, at |-> NIL] ELSE gc_alloc_try_current_region(m, n, k)
CountLarge(m, k) ==
    [m EXCEPT !.stats[k] = [consecutive |-> IF @.saved = m.region[k] THEN @.consecutive + 1 ELSE 0,
                            saved |-> m.region[k]]]
gc_alloc_region(m, n, k) ==
    LET often == Left(m, k) > Threshold /\ m.stats[k].consecutive < LargeLimit
    IN IF ~HasRoom(m, n, k) /\ (n >= LargeSize \/ often)
       THEN gc_alloc_large(IF n >= LargeSize THEN m ELSE CountLarge(m, k), n, k)
       ELSE InRegionOrNot(
              IF HasRoom(m, n, k) THEN m
              ELSE gc_alloc_new_region(
                     gc_alloc_update_page_tables([m EXCEPT !.stats[k].consecutive = 0], k), n, k),
              n, k)

gc_quick_alloc(m, n, k) ==
    IF HasRoom(m, n, k)
    THEN [heap |-> [m EXCEPT !.region[k].free = @ + n], at |-> m.region[k].free]
    ELSE gc_alloc_region(m, n, k)

gc_quick_alloc_large(m, n, k) ==
    IF n >= LargeSize THEN gc_alloc_large(m, n, k) ELSE gc_quick_alloc(m, n, k)

gc_write_barrier_None(m, a) == m

(* A store through the page protection: the fault handler opens the page.    *)
gc_write_barrier(m, a) ==
    IF find_page_index(a) = -1 THEN m ELSE [m EXCEPT !.page[PageOf(a)].wp = FALSE]

Write(m, a, c) == [gc_write_barrier(m, a) EXCEPT !.mem[a] = c]

(* The n cells of an object o at a.                                          *)
Fill(m, a, o) ==
    [m EXCEPT !.mem = [b \in Addr |-> IF b = a THEN o
                                      ELSE IF b \in a+1..a+o.size-1 THEN body ELSE @[b]]]

-----------------------------------------------------------------------------
(* Moving objects.                                                           *)

from_space_p(m, v) == v # NIL /\ m.page[PageOf(v)].gen = m.from_space
Forwarded(m, v) == m.mem[v].t = "fwd"
Forward(m, a, new) == [m EXCEPT !.mem[a] = [t |-> "fwd", to |-> new]]
survives_gc_Unmoved(m, v) == ~from_space_p(m, v)
survives_gc(m, v) == from_space_p(m, v) => Forwarded(m, v)

(* gc_quick_alloc_large stands for gc_quick_alloc too: what is not a vector  *)
(* is never large.  On overflow the object stays.                            *)
MoveTo(r, a, o) ==
    IF r.at = NIL THEN [r EXCEPT !.at = a]
    ELSE [r EXCEPT !.heap = Forward(Fill(r.heap, r.at, o), a, r.at)]
copy_object(m, a) ==
    LET o == m.mem[a]
    IN MoveTo(gc_quick_alloc_large(m, o.size, IF o.kind = "bytes" THEN "unboxed" ELSE "boxed"), a, o)

(* The last page of the large object of n cells on page p, and the pages it  *)
(* has shrunk away from, as far as they are in keep.                         *)
LastOfLarge(p, n) == p + (n - 1) \div PageSize
LargePages(m) == {q \in Pages : m.page[q].alloc /\ m.page[q].large /\ m.page[q].gen = m.from_space}
ShrunkFrom(m, p, n, keep) ==
    LET l == LastOfLarge(p, n)
        ok(q) == /\ m.page[q-1].used = PageSize /\ q \in keep
                 /\ m.page[q].offset = page_address(q - p)
    IN {q \in l+1..NPages-1 : \A x \in l+1..q : ok(x)}

UsedOn(m, S) ==
    LET below[p \in 0..NPages] ==
            IF p = 0 THEN 0 ELSE below[p-1] + (IF p - 1 \in S THEN m.page[p-1].used ELSE 0)
    IN below[NPages]

(* copy_large_object and copy_large_unboxed_object: an object on large pages *)
(* is promoted where it is.  The boxed one takes the protection off its full *)
(* pages, the unboxed one moves them to unboxed.                             *)
Promoted(m, a, n, last, free, ub) ==
    LET first == PageOf(a)
        freed == UsedOn(m, first..last \union free) - n
    IN [m EXCEPT
          !.page = [q \in Pages |->
             IF q \in first..last
             THEN [@[q] EXCEPT !.gen = m.new_space, !.unboxed = m.page[q].unboxed \/ ub,
                               !.alloc = m.page[q].alloc \/ (ub /\ q = last),
                               !.wp = m.page[q].wp /\ (ub \/ q = last), !.used = UsedBelow(a + n, q)]
             ELSE IF q \in free THEN [@[q] EXCEPT !.alloc = FALSE, !.used = 0] ELSE @[q]],
          !.generations[m.from_space].bytes_allocated = @ - n - freed,
          !.generations[m.new_space].bytes_allocated = @ + n]

PromoteLarge(m, a) ==
    LET n == m.mem[a].size
        p == PageOf(a)
        ub == m.mem[a].kind = "bytes"
        free == ShrunkFrom(m, p, n, {q \in LargePages(m) : ub \/ ~m.page[q].unboxed})
    IN Recorded([heap |-> Promoted(m, a, n, LastOfLarge(p, n), free, ub), at |-> a], n,
                IF ub THEN "unboxed" ELSE "boxed")

Transport(m, a) ==
    IF m.mem[a].kind \in vector /\ m.page[PageOf(a)].large THEN PromoteLarge(m, a)
    ELSE copy_object(m, a)

(* What scavenge does with one word.                                         *)
ScavengeWord(m, v) ==
    IF ~from_space_p(m, v) \/ m.overflow THEN [heap |-> m, at |-> v]
    ELSE IF Forwarded(m, v) THEN [heap |-> m, at |-> m.mem[v].to]
    ELSE IF m.mem[v].t # "obj" THEN [heap |-> m, at |-> v]
    ELSE Transport(m, v)

Updated(r, a, i, v) == IF r.at = v THEN r.heap ELSE Write(r.heap, a, [r.heap.mem[a] EXCEPT !.refs[i] = r.at])
ScavengeField(m, a, i) == Updated(ScavengeWord(m, m.mem[a].refs[i]), a, i, m.mem[a].refs[i])

(* scav_weak_pointer and the end of scav_hash_vector: weak objects are put   *)
(* on a list.  A table is taken to be off the list when its next_weak_table  *)
(* is NIL, which is also the link of the last one.  That one, linked again,  *)
(* closes the list to a cycle: it is then the head and again the last of the *)
(* sequence, which stands for a list that goes on as after its first place.  *)
Linked(m, a) == \E i \in DOMAIN m.weak_hash_tables :
                    m.weak_hash_tables[i] = a /\ i # Len(m.weak_hash_tables)
Cyclic(m) == LET t == m.weak_hash_tables IN \E i \in 1..Len(t)-1 : t[i] = t[Len(t)]
scav_weak_pointer(m, a) == [m EXCEPT !.weak_pointers = @ \union {a}]
scav_hash_vector(m, a) ==
    IF Linked(m, a) THEN m ELSE [m EXCEPT !.weak_hash_tables = <<a>> \o @]

ScavengeObject(m, a) ==
    IF m.mem[a].t # "obj" THEN m
    ELSE CASE m.mem[a].kind \in {"box", "vec"} -> ScavengeField(m, a, 1)
           [] m.mem[a].kind = "weak" -> scav_weak_pointer(m, a)
           [] m.mem[a].kind = "table" -> scav_hash_vector(m, a)
           [] OTHER -> m

scavenge(m, a, n) == FoldLeft(ScavengeObject, m, Cells(a, n))
scavenge_areas(m, areas) == FoldLeft(LAMBDA x, r : scavenge(x, r.start, r.size), m, areas)

-----------------------------------------------------------------------------
(* Pages that must stay where they are.                                      *)

search_dynamic_space(m, a) ==
    /\ find_page_index(a) # -1 /\ m.page[PageOf(a)].alloc
    /\ m.mem[a].t \in {"obj", "zero"}

Adjusted(m, a, n, last, free) ==
    LET first == PageOf(a)
        freed == UsedOn(m, first..last \union free) - n
    IN [m EXCEPT
          !.page = [q \in Pages |->
             IF q \in first..last
             THEN [@[q] EXCEPT !.unboxed = (m.mem[a].kind = "bytes"),
                               !.alloc = m.page[q].alloc \/ q = last, !.used = UsedBelow(a + n, q)]
             ELSE IF q \in free THEN [@[q] EXCEPT !.alloc = FALSE, !.used = 0] ELSE @[q]],
          !.generations[m.from_space].bytes_allocated = @ - freed]

maybe_adjust_large_object(m, a) ==
    LET n == m.mem[a].size
        p == PageOf(a)
    IN IF m.mem[a].t # "obj" \/ m.mem[a].kind \notin vector THEN m
       ELSE Adjusted(m, a, n, LastOfLarge(p, n), ShrunkFrom(m, p, n, LargePages(m)))

(* The last page of the block of contiguous pages of generation g that p is  *)
(* in; only pages of same may follow.                                        *)
LastOfBlock(m, p, g, same) ==
    LET ends(q) == \/ m.page[q].used < PageSize
                   \/ q = NPages - 1
                   \/ ~InGen(m, q + 1, g) \/ q + 1 \notin same \/ m.page[q+1].offset = 0
    IN LeastOf({q \in p..NPages-1 : ends(q)})

FirstOfBlock(m, p) == LET zeros == {q \in 0..p : m.page[q].offset = 0}
                      IN CHOOSE q \in zeros : \A x \in zeros : x <= q

Pin(m, first, last) ==
    LET n == UsedOn(m, first..last)
    IN [m EXCEPT
         !.page = [q \in Pages |-> IF q \in first..last
                                   THEN [@[q] EXCEPT !.pinned = TRUE, !.gen = m.new_space] ELSE @[q]],
         !.generations[m.new_space].bytes_allocated = @ + n,
         !.generations[m.from_space].bytes_allocated = @ - n]

(* The block is pinned, unless it has shrunk so far that a is behind it.     *)
PinBlock(m, p, off, first) ==
    IF m.page[first].large /\ (~m.page[p].alloc \/ m.page[p].used = 0 \/ off > m.page[p].used) THEN m
    ELSE Pin(m, first, LastOfBlock(m, first, m.from_space, Pages))

preserve_pointer(m, a) ==
    LET p == PageOf(a)
        off == a - page_address(p)
        first == FirstOfBlock(m, p)
    IN IF \/ find_page_index(a) = -1 \/ ~InGen(m, p, m.from_space) \/ off > m.page[p].used
          \/ m.page[p].pinned \/ ~search_dynamic_space(m, a)
       THEN m
       ELSE PinBlock(IF m.page[first].large THEN maybe_adjust_large_object(m, page_address(first)) ELSE m,
                     p, off, first)

Younger(m, p, v) == /\ m.page[PageOf(v)].alloc /\ m.page[PageOf(v)].used # 0
                    /\ m.page[PageOf(v)].gen < m.page[p].gen
InRegion(m, v) == \E k \in Regions : m.region[k].start <= v /\ v <= m.region[k].free
Suspicious_NoTemporary(m, p, v) == Younger(m, p, v)

(* A pointer to a younger object, to one copied in this collection, or into  *)
(* the current regions.                                                      *)
Suspicious(m, p, v) ==
    \/ Younger(m, p, v)
    \/ InGen(m, PageOf(v), NumGenerations)
    \/ InRegion(m, v)

(* A page without such pointers is write protected.                          *)
update_page_write_prot(m, p) ==
    LET used == page_address(p)..page_address(p)+m.page[p].used-1
        words == UNION {{m.mem[a].refs[i] : i \in DOMAIN m.mem[a].refs} :
                            a \in {b \in used : m.mem[b].t = "obj"}} \ {NIL}
    IN IF m.page[p].wp \/ m.page[p].unboxed \/ \E v \in words : Suspicious(m, p, v) THEN m
       ELSE [m EXCEPT !.page[p].wp = TRUE]
ProtectPages(m, p, l) == FoldLeft(update_page_write_prot, m, PageSeq(p, l))

-----------------------------------------------------------------------------
(* Weak key tables: the value of an entry whose key survives is scavenged;   *)
(* an entry whose key does not is left alone, and removed at the end.        *)

ScavWeakEntry(m, a) ==
    IF survives_gc(m, m.mem[a].refs[1]) THEN ScavengeField(m, a, 2) ELSE m

scav_hash_entries(m, a, removep) ==
    IF survives_gc(m, m.mem[a].refs[1]) THEN ScavengeField(ScavengeField(m, a, 1), a, 2)
    ELSE IF removep THEN Write(m, a, [m.mem[a] EXCEPT !.refs = <<NIL, NIL>>])
    ELSE m

scav_tables(m, removep) ==
    FoldLeft(LAMBDA x, a : scav_hash_entries(x, a, removep), m, m.weak_hash_tables)
ScavWeakEntries(m, tables) == FoldLeft(ScavWeakEntry, m, tables)
Settled(m) ==
    LET round[i \in 0..MaxObjects] ==
            IF i = 0 THEN m ELSE ScavWeakEntries(round[i-1], m.weak_hash_tables)
    IN round[MaxObjects]
scav_weak_tables(m) == scav_tables(Settled(m), FALSE)
scan_weak_tables(m) == [scav_tables(m, TRUE) EXCEPT !.weak_hash_tables = << >>]

ScanWeakPointer(m, a) ==
    LET v == m.mem[a].refs[1]
    IN IF ~from_space_p(m, v) THEN m
       ELSE Write(m, a, [m.mem[a] EXCEPT !.refs[1] = IF Forwarded(m, v) THEN m.mem[v].to ELSE NIL])
ScanWeakPointers(m, S) == FoldLeft(ScanWeakPointer, m, SetToSeq(S))
scan_weak_pointers(m) == [ScanWeakPointers(m, m.weak_pointers) EXCEPT !.weak_pointers = {}]

-----------------------------------------------------------------------------
(* Lisp.  An object is allocated by advancing the free pointer, or by        *)
(* alloc(); its number is a ghost.                                           *)

Idle == [pc |-> "lisp", count |-> 0, objects |-> 0, ops |-> 0, gen |-> 0, last |-> 0, raise |-> FALSE,
         g |-> 0, i |-> 0]

Init ==
    /\ h = gc_init
    /\ root = [s \in Slot |-> [at |-> NIL, live |-> s \in Static]]
    /\ gc = Idle

Live == {s \in Slot : root[s].live}
Values == {root[s].at : s \in Live} \union {NIL}
Lisp == gc.pc = "lisp" /\ ~h.overflow
Operation == Lisp /\ gc.ops < MaxOps
Counted == [gc EXCEPT !.ops = @ + 1]

Arity(k) == CASE k = "bytes" -> 0 [] k = "table" -> 2 [] OTHER -> 1

Alloc(s, k, v, w) ==
    LET o == [t |-> "obj", id |-> gc.objects + 1, kind |-> k, size |-> Size[k],
              refs |-> SubSeq(<<v, w>>, 1, Arity(k))]
        r == gc_quick_alloc(h, Size[k], "boxed")
    IN /\ Operation /\ gc.objects < MaxObjects
       /\ gc' = [Counted EXCEPT !.objects = @ + 1]
       /\ IF r.at = NIL THEN h' = r.heap /\ UNCHANGED root
          ELSE /\ h' = Fill(r.heap, r.at, o)
               /\ root' = [root EXCEPT ![s] = [at |-> r.at, live |-> TRUE]]

(* Lisp reads an object where its references say one is.                     *)
Objects == {s \in Live : root[s].at # NIL}
ObjectAt(s) == h.mem[root[s].at]
Readable == {s \in Objects : ObjectAt(s).t = "obj"}

SetField(s, i, v) ==
    /\ Operation /\ gc' = Counted
    /\ h' = Write(h, root[s].at, [ObjectAt(s) EXCEPT !.refs[i] = v])
    /\ UNCHANGED root

SetSlot(d, v) ==
    /\ Operation /\ v # NIL /\ gc' = Counted
    /\ root' = [root EXCEPT ![d] = [at |-> v, live |-> TRUE]]
    /\ UNCHANGED h

(* A static symbol is cleared; a stack word dies, and keeps what was in it.  *)
Drop(s) ==
    /\ Operation /\ gc' = Counted
    /\ root' = [root EXCEPT ![s] = IF s \in Static THEN [@ EXCEPT !.at = NIL]
                                   ELSE [@ EXCEPT !.live = FALSE]]
    /\ UNCHANGED h

(* shrink-vector zeroes the tail of a vector and sets its length.            *)
ShrinkVector(s) ==
    LET a == root[s].at
        n == h.mem[a].size
    IN /\ Operation /\ h.mem[a].kind \in vector /\ n > 1 /\ gc' = Counted
       /\ h' = [h EXCEPT !.mem[a].size = n - 1, !.mem[a + n - 1] = zero]
       /\ UNCHANGED root

-----------------------------------------------------------------------------
(* collect_garbage, step by step.                                            *)

Flush(m) == gc_alloc_update_page_tables(gc_alloc_update_page_tables(m, "boxed"), "unboxed")
At(pc) == gc.pc = pc /\ ~h.overflow

CollectGarbage(last) ==
    /\ Lisp /\ gc.count < MaxGC
    /\ h' = Flush(h)
    /\ gc' = [gc EXCEPT !.pc = "start", !.count = @ + 1, !.gen = 0, !.last = last]
    /\ UNCHANGED root

(* gen_av_mem_age(g) > 24508 / MEM_AGE_SCALE, about 3/8.                     *)
OldEnough(g) == LET x == h.generations[g]
                IN x.bytes_allocated # 0 /\ 8 * x.cum_sum > 3 * x.bytes_allocated

Raise(g) == /\ g < OldestGenToGc
            /\ g < gc.last \/ h.generations[g].num_gc >= 1        \* trigger_age

Continue == LET g == gc.gen
                x == h.generations[g]
            IN /\ g <= OldestGenToGc
               /\ \/ g < gc.last
                  \/ gc.raise /\ x.bytes_allocated > x.gc_trigger /\ OldEnough(g)

(* garbage_collect_generation up to the roots: choose the new space, forget  *)
(* the pins of the last collection, open the pages of the old space.         *)
SetUpSpaces(g, r) ==
    LET new == IF r THEN g + 1 ELSE NumGenerations
        reset == [h.generations[new] EXCEPT
                    !.start = NoHint, !.large_start = NoHint,
                    !.cum_sum = IF r THEN @ + h.generations[new].bytes_allocated ELSE @]
    IN [h EXCEPT
         !.weak_pointers = {}, !.weak_hash_tables = << >>,
         !.from_space = g, !.new_space = new, !.gc_alloc_generation = new,
         !.generations[new] = reset,
         !.page = [p \in Pages |-> [@[p] EXCEPT !.pinned = FALSE, !.wp = h.page[p].wp /\ ~InGen(h, p, g)]]]

PreserveStack(m) == FoldLeft(LAMBDA x, s : preserve_pointer(x, root[s].at), m, SetToSeq(Stack))

(* The interrupt handlers, the binding stack, the hooks and static space.    *)
SetRoot(r, roots, s) == [m |-> r.heap, root |-> [roots EXCEPT ![s].at = r.at]]
ScavengeRoot(x, s) == SetRoot(ScavengeWord(x.m, x.root[s].at), x.root, s)
ScavengeRoots(x) == FoldLeft(ScavengeRoot, x, SetToSeq(Static))

StartGeneration ==
    LET r == Raise(gc.gen)
        done == ScavengeRoots([m |-> PreserveStack(SetUpSpaces(gc.gen, r)), root |-> root])
    IN /\ At("start") \/ (At("next") /\ Continue)
       /\ h' = done.m /\ root' = done.root
       /\ gc' = [gc EXCEPT !.pc = "older", !.raise = r, !.g = 0, !.i = 0]

Boxed == {p \in Pages : ~h.page[p].unboxed}
BoxedPages(g, from) == {p \in Boxed : from <= p /\ p < h.last_free_page /\ InGen(h, p, g)}
BlockSize(p, l) == h.page[l].used + page_address(l - p)

(* scavenge_generation for each generation but the old and the new space,    *)
(* the next block: its pages are scavenged unless all of them are protected, *)
(* and protected if they can be.                                             *)
OlderLeft(g) == IF g = gc.g THEN BoxedPages(g, gc.i) ELSE BoxedPages(g, 0)
Older == {g \in gc.g..NumGenerations-1 : g \notin {gc.gen, h.new_space} /\ OlderLeft(g) # {}}

ScavengeGeneration ==
    LET g == LeastOf(Older)
        p == LeastOf(OlderLeft(g))
        l == LastOfBlock(h, p, g, Boxed)
    IN /\ At("older") /\ Older # {}
       /\ h' = IF \A q \in p..l : h.page[q].wp THEN h
               ELSE ProtectPages(scavenge(h, page_address(p), BlockSize(p, l)), p, l)
       /\ gc' = [gc EXCEPT !.g = g, !.i = l + 1]
       /\ UNCHANGED root

(* scavenge_newspace_generation: one full scan, then the areas recorded in   *)
(* the meantime until there are none.                                        *)
StartNewspace ==
    /\ At("older") /\ Older = {}
    /\ h' = [Flush(h) EXCEPT !.new_areas = << >>, !.record_new_objects = 1]
    /\ gc' = [gc EXCEPT !.pc = "scan", !.i = 0]
    /\ UNCHANGED root

NewspacePages(from) == {p \in BoxedPages(h.new_space, from) : ~h.page[p].wp \/ h.page[p].pinned}

OneScan ==
    LET p == LeastOf(NewspacePages(gc.i))
        l == LastOfBlock(h, p, h.new_space, Boxed)
        off == h.page[p].offset
    IN /\ At("scan") /\ NewspacePages(gc.i) # {}
       /\ h' = scavenge([h EXCEPT !.new_areas_ignore_page = l],
                        page_address(p) - off, BlockSize(p, l) + off)
       /\ gc' = [gc EXCEPT !.i = l + 1]
       /\ UNCHANGED root

(* scav_weak_tables, and done when it comes back.  On a cycle its first loop *)
(* has no end: it does with the entries what it can, over and over.          *)
WeakTables(m, done) ==
    /\ h' = IF Cyclic(m) THEN Settled(m) ELSE done
    /\ gc' = [gc EXCEPT !.pc = IF Cyclic(m) THEN "looping" ELSE "areas"]
    /\ UNCHANGED root

OneScanEnds_NoFlush ==
    /\ At("scan") /\ NewspacePages(gc.i) = {}
    /\ WeakTables(h, [scav_weak_tables(h) EXCEPT !.record_new_objects = 2])

OneScanEnds ==
    /\ At("scan") /\ NewspacePages(gc.i) = {}
    /\ WeakTables(h, Flush([scav_weak_tables(h) EXCEPT !.record_new_objects = 2]))

Rescan(m) ==
    /\ h' = [m EXCEPT !.record_new_objects = 1]
    /\ gc' = [gc EXCEPT !.pc = "scan", !.i = 0]
    /\ UNCHANGED root
ScavengeAreas(m) ==
    LET x == scavenge_areas(m, h.new_areas) IN WeakTables(x, Flush(scav_weak_tables(x)))

ScavengeNewAreas_Keeps ==
    /\ At("areas") /\ h.new_areas # << >>
    /\ IF Len(h.new_areas) >= NumNewAreas THEN Rescan(h) ELSE ScavengeAreas(h)

ScavengeNewAreas ==
    LET fresh == [h EXCEPT !.new_areas = << >>]
    IN /\ At("areas") /\ h.new_areas # << >>
       /\ IF Len(h.new_areas) >= NumNewAreas THEN Rescan(fresh) ELSE ScavengeAreas(fresh)

ScanWeakObjects ==
    /\ At("areas") /\ h.new_areas = << >>
    /\ h' = Flush(scan_weak_pointers(scan_weak_tables([h EXCEPT !.record_new_objects = 0])))
    /\ gc' = [gc EXCEPT !.pc = "free"]
    /\ UNCHANGED root

(* MODE_LAZY leaves the contents and a marker in the first word.             *)
free_oldspace(m) ==
    LET old == {p \in 0..m.last_free_page-1 : InGen(m, p, m.from_space)}
    IN [m EXCEPT
         !.page = [p \in Pages |-> IF p \in old
                     THEN [@[p] EXCEPT !.alloc = FALSE, !.used = 0, !.wp = FALSE] ELSE @[p]],
         !.mem = [a \in Addr |-> IF PageOf(a) \in old THEN dirty ELSE @[a]],
         !.generations[m.from_space].bytes_allocated = @ - UsedOn(m, old)]

(* A generation that is not raised comes back from the temporary one.        *)
lower(m) ==
    LET g == m.from_space
    IN [m EXCEPT
         !.page = [p \in Pages |-> IF @[p].used # 0 /\ @[p].gen = NumGenerations
                                   THEN [@[p] EXCEPT !.gen = g] ELSE @[p]],
         !.generations[g].bytes_allocated = m.generations[NumGenerations].bytes_allocated,
         !.generations[NumGenerations].bytes_allocated = 0]

FreeOldspace ==
    LET g == gc.gen
        freed == IF gc.raise THEN free_oldspace(h) ELSE lower(free_oldspace(h))
        reset == [freed.generations[g] EXCEPT
                    !.start = NoHint, !.large_start = NoHint, !.cum_sum = 0,
                    !.gc_trigger = freed.generations[g].bytes_allocated + Consed,
                    !.num_gc = IF gc.raise THEN 0 ELSE @ + 1]
    IN /\ At("free")
       /\ h' = [freed EXCEPT !.generations[g] = reset]
       /\ gc' = [gc EXCEPT !.pc = "next", !.gen = g + 1]
       /\ UNCHANGED root

write_protect_generation_pages(m, g) ==
    [m EXCEPT !.page = [p \in Pages |->
        IF p < m.last_free_page /\ InGen(m, p, g) /\ ~@[p].unboxed THEN [@[p] EXCEPT !.wp = TRUE] ELSE @[p]]]

FinishCollection ==
    LET wp == IF gc.raise THEN gc.gen ELSE gc.gen - 1
        m == IF wp > 0 THEN write_protect_generation_pages(h, wp) ELSE h
        used == {p \in Pages : m.page[p].alloc /\ m.page[p].used # 0}
    IN /\ At("next") /\ ~Continue
       /\ h' = [m EXCEPT !.gc_alloc_generation = 0, !.from_space = -1, !.new_space = -1,
                         !.last_free_page = IF used = {} THEN 0
                                            ELSE 1 + CHOOSE p \in used : \A q \in used : q <= p]
       /\ gc' = [gc EXCEPT !.pc = "lisp", !.gen = 0, !.last = 0, !.raise = FALSE, !.g = 0, !.i = 0]
       /\ UNCHANGED root

Mutate ==
    \/ \E s \in Slot, k \in Kind, v \in Values, w \in Values :
            /\ Arity(k) < 2 => w = NIL
            /\ Arity(k) < 1 => v = NIL
            /\ Alloc(s, k, v, w)
    \/ \E s \in Readable, v \in Values : \E i \in DOMAIN ObjectAt(s).refs :
            ObjectAt(s).kind # "weak" /\ SetField(s, i, v)
    \/ \E d \in Slot, s \in Objects : SetSlot(d, root[s].at)
    \/ \E d \in Slot, s \in Readable : \E i \in DOMAIN ObjectAt(s).refs :
            /\ ObjectAt(s).kind = "table" => i = 2 /\ ObjectAt(s).refs[1] \in Values \ {NIL}
            /\ SetSlot(d, ObjectAt(s).refs[i])
    \/ \E s \in Objects : Drop(s)
    \/ \E s \in Readable : ShrinkVector(s)
    \/ \E last \in LastGens : CollectGarbage(last)

Collect ==
    \/ StartGeneration \/ ScavengeGeneration \/ StartNewspace \/ OneScan \/ OneScanEnds
    \/ ScavengeNewAreas \/ ScanWeakObjects \/ FreeOldspace \/ FinishCollection

Next == Mutate \/ Collect
Spec == Init /\ [][Next]_vars

-----------------------------------------------------------------------------
(* Properties.                                                               *)

Cell == [t : {"zero", "dirty", "body"}] \union [t : {"fwd"}, to : Addr]
        \union [t : {"obj"}, id : 1..MaxObjects, kind : Kind, size : 1..NPages*PageSize,
                refs : Seq(Addr \union {NIL})]
Page == [alloc : BOOLEAN, unboxed : BOOLEAN, large : BOOLEAN, pinned : BOOLEAN, wp : BOOLEAN,
         gen : Gen, used : 0..PageSize, offset : 0..NPages*PageSize]

(* The page table, the memory and the roots have the values the C code can   *)
(* store in them.                                                            *)
TypeOK ==
    /\ h.page \in [Pages -> Page] /\ \A a \in Addr : h.mem[a] \in Cell
    /\ root \in [Slot -> [at : Addr \union {NIL}, live : BOOLEAN]]
    /\ h.gc_alloc_generation \in Gen /\ h.last_free_page \in 0..NPages
    /\ gc.gen \in Gen /\ gc.objects \in 0..MaxObjects

(* What the heap means: forwarding pointers are followed.                    *)
Resolve(v) == IF v # NIL /\ h.mem[v].t = "fwd" THEN h.mem[v].to ELSE v
IdOf(v) == IF v = NIL THEN NIL ELSE IF h.mem[Resolve(v)].t = "obj" THEN h.mem[Resolve(v)].id ELSE 0
Holders == {a \in Addr : h.mem[a].t = "obj"}
Targets(S) == {Resolve(v) : v \in (UNION {{h.mem[a].refs[i] : i \in DOMAIN h.mem[a].refs} :
                                             a \in {x \in S : h.mem[x].t = "obj"}}) \ {NIL}}
Reached ==
    LET step[n \in 0..MaxObjects] ==
            IF n = 0 THEN {Resolve(root[s].at) : s \in Objects}
            ELSE UNION {S \union Targets(S) : S \in {step[n-1]}}
    IN step[MaxObjects]

Graph == INSTANCE HeapGraph WITH
    ops <- gc.ops,
    root <- [s \in Slot |-> IF root[s].live THEN IdOf(root[s].at) ELSE NIL],
    node <- [i \in {IdOf(a) : a \in Reached} |->
                IF i = 0 THEN [kind |-> "lost", refs |-> << >>]
                ELSE LET a == CHOOSE x \in Holders : h.mem[x].id = i
                     IN [kind |-> h.mem[a].kind,
                         refs |-> [j \in DOMAIN h.mem[a].refs |-> IdOf(h.mem[a].refs[j])]]]

(* However objects are copied, promoted, pinned or left alone, Lisp sees the *)
(* graph it built: the steps of the collector change nothing but weak        *)
(* references to objects that were not reachable otherwise.                  *)
GraphKept == Graph!Spec

(* No object is copied twice: addresses that Lisp can reach differ in their  *)
(* objects.                                                                  *)
OneCopy == LET seen == Reached IN Cardinality({IdOf(a) : a \in seen}) = Cardinality(seen)

(* print_generation_stats: the counters of a generation and of its pages     *)
(* agree, whatever was copied, promoted, shrunk or freed.                    *)
CountersAgree ==
    \A g \in Gen : h.generations[g].bytes_allocated = UsedOn(h, {p \in Pages : InGen(h, p, g)})

(* Allocation finds zeroes: vops rely on it (alloc).                         *)
RegionIsZero ==
    \A k \in Regions : \A a \in h.region[k].free..h.region[k].end-1 : h.mem[a] = zero

Pointers(p) == UNION {{h.mem[a].refs[i] : i \in DOMAIN h.mem[a].refs} :
                        a \in {x \in Holders : PageOf(x) = p}} \ {NIL}

(* A write protected page need not be scavenged: when a generation is        *)
(* collected no such page of another one points into it.                     *)
ProtectedIsClean ==
    \A p \in Pages : h.page[p].alloc /\ h.page[p].wp =>
        \A v \in Pointers(p) : IF gc.pc \in {"lisp", "next", "start"}
                               THEN ~(h.page[PageOf(v)].gen < h.page[p].gen)
                               ELSE ~from_space_p(h, v)

(* The generations younger than the one that is collected are empty.         *)
YoungerAreEmpty ==
    gc.pc \notin {"lisp", "start", "next"} =>
        \A p \in Pages : h.page[p].alloc => h.page[p].gen >= gc.gen

(* An object, reached or not, lies on allocated pages, in the part the page  *)
(* table accounts for or in a current region, from its first cell to its     *)
(* last: nothing will be allocated over it.                                  *)
Accounted(a) ==
    \/ a - page_address(PageOf(a)) < h.page[PageOf(a)].used
    \/ \E k \in Regions : h.region[k].start <= a /\ a < h.region[k].free
ObjectsAccounted ==
    \A a \in Holders : \A b \in a..a+h.mem[a].size-1 : h.page[PageOf(b)].alloc /\ Accounted(b)

(* The conditions of gc_assert in scavenge_generation and of the region      *)
(* code: a block starts with an object, regions do not overlap and are not   *)
(* protected or pinned.                                                      *)
Asserts ==
    /\ gc.pc = "older" /\ Older # {} =>
          h.page[LeastOf(OlderLeft(LeastOf(Older)))].offset = 0
    /\ \A k \in Regions : \A p \in h.region[k].first..h.region[k].last :
          /\ h.page[p].alloc /\ h.page[p].gen = h.gc_alloc_generation
          /\ h.page[p].unboxed = (k = "unboxed")
          /\ ~h.page[p].wp /\ ~h.page[p].large /\ ~h.page[p].pinned

(* scavenge_newspace_generation repeats "until there are no more objects     *)
(* unscavenged in the newspace generation".                                  *)
NewspaceScavenged ==
    gc.pc = "areas" /\ h.new_areas = << >> =>
        \A a \in Holders : PageOf(a) \in BoxedPages(h.new_space, 0) /\ h.mem[a].kind \in {"box", "vec"}
                            => ~from_space_p(h, h.mem[a].refs[1])

(* copy_object, scavenge_newspace_generation: each object is copied once,    *)
(* and none is left behind.                                                  *)
CopyingComplete == OneCopy /\ NewspaceScavenged

(* The page table: its counters, its free space, its generations and regions *)
(* and the objects on it agree.                                              *)
PagesAgree == CountersAgree /\ RegionIsZero /\ YoungerAreEmpty /\ Asserts /\ ObjectsAccounted

(* scav_hash_vector: "Make sure we only add the table once."  The code fails *)
(* it where the table that was linked first is scavenged twice.              *)
TablesAddedOnce == ~Cyclic(h)

(* The loops of scavenge_newspace_generation: a round that leaves areas to   *)
(* scavenge has moved an object into the new space, a full scan starts with  *)
(* no areas, and scav_weak_tables goes on while entries are scavenged, which *)
(* comes to an end.  So the collection ends, or else stays for ever in       *)
(* scav_weak_tables, which it does where TablesAddedOnce fails.              *)
Moved == {a \in Holders : h.page[PageOf(a)].gen = h.new_space}
RoundsMove ==
    [][gc.pc \in {"scan", "areas"} =>
         \/ gc'.pc = "scan" /\ (gc.pc = "areas" => h'.new_areas = << >>)
         \/ /\ gc'.pc = "areas" /\ ScavWeakEntries(h', h'.weak_hash_tables) = h'
            /\ gc.pc = "areas" /\ h'.new_areas # << >> => Cardinality(Moved') > Cardinality(Moved)
         \/ gc'.pc = "free"
         \/ gc'.pc = "looping" /\ ~TablesAddedOnce']_vars
=============================================================================
