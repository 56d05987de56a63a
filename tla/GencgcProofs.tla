---------------------------- MODULE GencgcProofs ----------------------------
(* What holds of the generational collector for every size of the heap,      *)
(* however Lisp and the steps of collect_garbage follow each other.          *)
(*                                                                           *)
(* IInv says of the heap that it is a good one (HeapOK, GencgcHeapProofs)    *)
(* and of gc what the next step needs (PcOK): while a generation is          *)
(* collected nothing is younger and no page of the old space is protected or *)
(* pinned (Collecting); a block of pages starts with an object (AtStart); no *)
(* region is open when pages are freed (Reset).                              *)
(*                                                                           *)
(* First the allocator, as gc_quick_alloc_large makes it of the parts in     *)
(* GencgcHeapProofs.  Then each function that moves, scavenges, pins or      *)
(* protects keeps HeapOK and Collecting (Collects), and so do the loops made *)
(* of them; then each action keeps IInv.                                     *)
EXTENDS GencgcHeapProofs

LEMMA AllocLargeOK ==
  ASSUME NEW m \in Heaps, HeapOK(m), NEW k \in Regions, NEW n \in Nat, n >= 1, NEW r, r = gc_alloc_large(m, n, k)
  PROVE  Allocates(m, r, n, k)
<1> DEFINE hint == m.generations[m.gc_alloc_generation].large_start[k]
           from == IF hint <= m.region[k].last THEN m.region[k].last + 1 ELSE hint
           can == {p \in from..NPages-1 :
                    (IF n >= LargeSize THEN ~m.page[p].alloc ELSE Usable(m, p, k)) /\ Fits(m, p, n, 1)}
           p == LeastOf(can)
           l == LastPage(m, p, n, 1)
<1>1. hint \in Nat
  <2>1. m.generations[m.gc_alloc_generation] \in Generation
    BY DEF Heaps
  <2>2. QED
    BY <2>1 DEF Generation
<1>2. m.region[k].last \in Int /\ m.region[k].last >= -1
  <2>1. m.region[k] = ResetRegion \/ Opened(m, k)
    BY DEF HeapOK, PagesOK, RegionsOK
  <2>2. QED
    BY <2>1, ResetIs, Paging DEF Opened, Pages
<1>3. r = IF can = {} THEN [heap |-> [m EXCEPT !.overflow = TRUE], at |-> NIL] ELSE PlaceLarge(m, n, k, p, l)
  BY DEF gc_alloc_large
<1>4. from \in Nat /\ from > m.region[k].last
  <2> HIDE DEF hint
  <2>1. QED
    BY <1>1, <1>2
<1> HIDE DEF from
<1>5. CASE can = {}
  <2> DEFINE y == [m EXCEPT !.overflow = TRUE]
  <2> HIDE DEF can
  <2>1. r.heap = y /\ r.at = NIL
    BY <1>3, <1>5
  <2>2. y \in Heaps /\ HeapOK(y) /\ Grows(m, y)
    BY OverflowIs
  <2> HIDE DEF y
  <2>3. QED
    BY <2>1, <2>2 DEF Allocates
<1>6. CASE can # {}
  <2>1. r = PlaceLarge(m, n, k, p, l)
    BY <1>3, <1>6
  <2>2. p \in can
    <3>1. can \in SUBSET Nat
      BY <1>4, Paging
    <3> HIDE DEF can
    <3>2. QED
      BY <1>6, <3>1, Least
  <2>3. /\ p \in Pages /\ p > m.region[k].last
        /\ IF n >= LargeSize THEN ~m.page[p].alloc ELSE Usable(m, p, k)
        /\ Fits(m, p, n, 1)
    BY <1>2, <1>4, <2>2, Paging DEF Pages
  <2> HIDE DEF p, can
  <2>4. /\ l \in Pages /\ p <= l /\ \A q \in p+1..l : ~m.page[q].alloc
        /\ l > p => (l - p) * PageSize - m.page[p].used < n \/ l - p < 1
    BY <2>3, LastPageIs
  <2>5. (l - p + 1) * PageSize - m.page[p].used >= n
    BY <2>3 DEF Fits
  <2> HIDE DEF l
  <2>6. p \in Int /\ l \in Int /\ m.page[p].used \in Nat /\ n \in Int
    BY <2>3, <2>4, PageIs, Paging DEF Pages
  <2>7. m.page[p].alloc =>
           /\ n < LargeSize /\ ~m.page[p].wp /\ ~m.page[p].large /\ ~m.page[p].pinned
           /\ m.page[p].unboxed = (k = "unboxed") /\ m.page[p].gen = m.gc_alloc_generation
           /\ m.page[p].used < PageSize /\ m.page[p].used # 0
           /\ \A j \in Regions : p \notin m.region[j].first..m.region[j].last
    <3> SUFFICES ASSUME m.page[p].alloc
                 PROVE  /\ n < LargeSize /\ ~m.page[p].wp /\ ~m.page[p].large /\ ~m.page[p].pinned
                        /\ m.page[p].unboxed = (k = "unboxed") /\ m.page[p].gen = m.gc_alloc_generation
                        /\ m.page[p].used < PageSize /\ m.page[p].used # 0
                        /\ \A j \in Regions : p \notin m.region[j].first..m.region[j].last
      OBVIOUS
    <3>1. n < LargeSize /\ Usable(m, p, k)
      BY <2>3, Constants
    <3>2. p \notin m.region[k].first..m.region[k].last
      BY <1>2, <2>3, <2>6
    <3>3. QED
      BY <2>3, <3>1, <3>2, UsableIs DEF HeapOK
  <2>8. page_address(l + 1) = page_address(p) + (l - p + 1) * PageSize /\ (l - p + 1) * PageSize \in Int
    BY <2>6, PageSpan
  <2>9. page_address(p) + m.page[p].used + n <= page_address(l + 1)
    <3>1. page_address(p) \in Int
      BY <2>6, Paging
    <3> DEFINE d == (l - p + 1) * PageSize
               e == page_address(l + 1)
    <3>2. e = page_address(p) + d /\ d \in Int /\ d - m.page[p].used >= n
      BY <2>5, <2>8
    <3> HIDE DEF d, e
    <3>3. QED
      <4>1. page_address(p) + m.page[p].used + n <= e
        BY <2>6, <3>1, <3>2
      <4>2. QED
        BY <4>1 DEF e
  <2>10. page_address(l) < page_address(p) + m.page[p].used + n
    <3>1. page_address(p) \in Int
      BY <2>6, Paging
    <3>2. CASE l = p
      BY <2>6, <3>1, <3>2
    <3>3. CASE l > p
      <4>1. (l - p) * PageSize - m.page[p].used < n
        BY <2>4, <2>6, <3>3
      <4>2. page_address(l) = page_address(p) + (l - p) * PageSize /\ (l - p) * PageSize \in Int
        <5>1. l - 1 \in Int /\ (l - 1) + 1 = l /\ (l - 1) - p + 1 = l - p
          BY <2>6
        <5>2. page_address((l - 1) + 1) = page_address(p) + ((l - 1) - p + 1) * PageSize
              /\ ((l - 1) - p + 1) * PageSize \in Int
          BY <2>6, <5>1, PageSpan
        <5>3. QED
          BY <5>1, <5>2
      <4> DEFINE d == (l - p) * PageSize
                 e == page_address(l)
      <4>3. e = page_address(p) + d /\ d \in Int /\ d - m.page[p].used < n
        BY <4>1, <4>2
      <4> HIDE DEF d, e
      <4>4. e < page_address(p) + m.page[p].used + n
        BY <2>6, <3>1, <4>3
      <4>5. QED
        BY <4>4 DEF e
    <3>4. QED
      BY <2>4, <2>6, <3>2, <3>3
  <2>11. Found(m, n, k, p, l)
    BY <2>3, <2>4, <2>7, <2>9, <2>10 DEF Found
  <2>12. QED
    BY <2>1, <2>11, PlaceLargeOK
<1>7. QED
  BY <1>5, <1>6

-----------------------------------------------------------------------------
(* Allocation in the region.                                                 *)
FreeUp(rs, k, n) == [rs EXCEPT ![k].free = @ + n]

LEMMA FreeUpIs ==
  ASSUME NEW rs \in [Regions -> Region], NEW k \in Regions, NEW n \in Nat, NEW y, y = FreeUp(rs, k, n)
  PROVE  /\ y \in [Regions -> Region] /\ \A j \in Regions : j # k => y[j] = rs[j]
         /\ y[k].first = rs[k].first /\ y[k].last = rs[k].last /\ y[k].start = rs[k].start
         /\ y[k].free = rs[k].free + n /\ y[k].end = rs[k].end
<1>1. rs[k] \in Region /\ rs[k].free \in Nat
  BY DEF Region
<1> DEFINE f == rs[k].free + n
           w == [rs[k] EXCEPT !.free = f]
<1>2. f \in Nat
  BY <1>1
<1> HIDE DEF f
<1>3. /\ w \in Region /\ w.first = rs[k].first /\ w.last = rs[k].last /\ w.start = rs[k].start
      /\ w.free = f /\ w.end = rs[k].end
  BY <1>1, <1>2 DEF Region
<1>4. y = [rs EXCEPT ![k] = w]
  BY DEF FreeUp, f
<1> HIDE DEF w
<1>5. y \in [Regions -> Region] /\ y[k] = w /\ \A j \in Regions : j # k => y[j] = rs[j]
  BY <1>3, <1>4
<1>6. QED
  BY <1>3, <1>5 DEF f

LEMMA AdvanceIs ==
  ASSUME NEW m \in Heaps, NEW k \in Regions, NEW n \in Nat, NEW x, x = Advance(m, n, k)
  PROVE  /\ x \in Heaps /\ x.page = m.page /\ x.mem = m.mem /\ SameWork(m, x) /\ SameLists(m, x)
         /\ x.last_free_page = m.last_free_page
         /\ \A j \in Regions : j # k => x.region[j] = m.region[j]
         /\ x.region[k].first = m.region[k].first /\ x.region[k].last = m.region[k].last
         /\ x.region[k].start = m.region[k].start
         /\ x.region[k].free = m.region[k].free + n /\ x.region[k].end = m.region[k].end
<1> DEFINE y == FreeUp(m.region, k, n)
<1>1. m.region \in [Regions -> Region]
  BY DEF Heaps
<1>2. /\ y \in [Regions -> Region] /\ \A j \in Regions : j # k => y[j] = m.region[j]
      /\ y[k].first = m.region[k].first /\ y[k].last = m.region[k].last /\ y[k].start = m.region[k].start
      /\ y[k].free = m.region[k].free + n /\ y[k].end = m.region[k].end
  BY <1>1, FreeUpIs
<1>3. x = [m EXCEPT !.region = y]
  BY DEF Advance, FreeUp, Heaps
<1> HIDE DEF y
<1>4. x \in Heaps
  BY <1>2, <1>3 DEF Heaps
<1>5. x.region = y /\ x.page = m.page /\ x.mem = m.mem /\ x.last_free_page = m.last_free_page
  BY <1>3 DEF Heaps
<1>6. SameWork(m, x)
  BY <1>3 DEF Heaps, SameWork
<1>7. SameLists(m, x)
  BY <1>3 DEF Heaps, SameLists
<1>8. QED
  BY <1>2, <1>4, <1>5, <1>6, <1>7

LEMMA RoomIs ==
  ASSUME NEW m \in Heaps, HeapOK(m), NEW k \in Regions, NEW n \in Nat, n >= 1, HasRoom(m, n, k)
  PROVE  Opened(m, k)
<1>1. m.region[k] = ResetRegion \/ Opened(m, k)
  BY DEF HeapOK, PagesOK, RegionsOK
<1>2. m.region[k] # ResetRegion
  BY ResetIs DEF HasRoom
<1>3. QED
  BY <1>1, <1>2

LEMMA OpenedSame ==
  ASSUME NEW m, NEW x, NEW k, Opened(m, k), x.page = m.page, x.gc_alloc_generation = m.gc_alloc_generation,
         x.region[k].first = m.region[k].first, x.region[k].last = m.region[k].last,
         x.region[k].start = m.region[k].start, x.region[k].end = m.region[k].end,
         m.region[k].start <= x.region[k].free, x.region[k].free <= m.region[k].end
  PROVE  Opened(x, k)
<1>1. /\ m.region[k].first \in Pages /\ m.region[k].last \in Pages /\ m.region[k].first <= m.region[k].last
      /\ m.page[m.region[k].first].used < PageSize
      /\ m.page[m.region[k].first].used = 0 => m.page[m.region[k].first].offset = 0
      /\ m.region[k].start = page_address(m.region[k].first) + m.page[m.region[k].first].used
      /\ m.region[k].end = page_address(m.region[k].last + 1)
  BY DEF Opened
<1>2. \A p \in m.region[k].first..m.region[k].last :
            /\ m.page[p].alloc /\ m.page[p].gen = m.gc_alloc_generation
            /\ m.page[p].unboxed = (k = "unboxed")
            /\ ~m.page[p].wp /\ ~m.page[p].large /\ ~m.page[p].pinned
  BY DEF Opened
<1>3. \A p \in m.region[k].first+1..m.region[k].last :
            m.page[p].used = 0 /\ m.page[p].offset = page_address(p) - m.region[k].start
  BY DEF Opened
<1>4. \A p \in x.region[k].first..x.region[k].last :
            /\ x.page[p].alloc /\ x.page[p].gen = x.gc_alloc_generation
            /\ x.page[p].unboxed = (k = "unboxed")
            /\ ~x.page[p].wp /\ ~x.page[p].large /\ ~x.page[p].pinned
  BY <1>2
<1>5. \A p \in x.region[k].first+1..x.region[k].last :
            x.page[p].used = 0 /\ x.page[p].offset = page_address(p) - x.region[k].start
  BY <1>3
<1> QED
  BY <1>1, <1>4, <1>5 DEF Opened

LEMMA AdvanceOK ==
  ASSUME NEW m \in Heaps, HeapOK(m), NEW k \in Regions, NEW n \in Nat, n >= 1, HasRoom(m, n, k),
         NEW x, x = Advance(m, n, k)
  PROVE  HeapOK(x) /\ Opened(x, k) /\ Grows(m, x)
<1>1. /\ x \in Heaps /\ x.page = m.page /\ x.mem = m.mem /\ SameWork(m, x) /\ SameLists(m, x)
      /\ x.last_free_page = m.last_free_page
      /\ \A j \in Regions : j # k => x.region[j] = m.region[j]
      /\ x.region[k].first = m.region[k].first /\ x.region[k].last = m.region[k].last
      /\ x.region[k].start = m.region[k].start
      /\ x.region[k].free = m.region[k].free + n /\ x.region[k].end = m.region[k].end
  BY AdvanceIs
<1>2. Opened(m, k)
  BY RoomIs
<1>3. x.gc_alloc_generation = m.gc_alloc_generation
  BY <1>1 DEF SameWork
<1>4. m.region[k].start \in Nat /\ m.region[k].free \in Nat /\ m.region[k].end \in Nat
  BY RegionIs
<1>5. Opened(x, k)
  <2>1. m.region[k].start <= x.region[k].free /\ x.region[k].free <= m.region[k].end
    <3>1. m.region[k].start <= m.region[k].free
      BY <1>2, RegionBounds
    <3>2. QED
      BY <1>1, <1>4, <3>1 DEF HasRoom
  <2>2. QED
    BY <1>1, <1>2, <1>3, <2>1, OpenedSame
<1>6. RegionsOK(x)
  <2> SUFFICES ASSUME NEW j \in Regions
               PROVE  x.region[j] = ResetRegion \/ Opened(x, j)
    BY DEF RegionsOK
  <2>1. CASE j = k
    BY <1>5, <2>1
  <2>2. CASE j # k
    <3>1. x.region[j] = m.region[j]
      BY <1>1, <2>2
    <3>2. m.region[j] = ResetRegion \/ Opened(m, j)
      BY DEF HeapOK, PagesOK, RegionsOK
    <3>3. Opened(m, j) => Opened(x, j)
      <4> SUFFICES ASSUME Opened(m, j)
                   PROVE  Opened(x, j)
        OBVIOUS
      <4>1. m.region[j].start <= m.region[j].free /\ m.region[j].free <= m.region[j].end
        BY RegionBounds
      <4>2. QED
        BY <1>1, <1>3, <3>1, <4>1, OpenedSame
    <3>4. QED
      BY <3>1, <3>2, <3>3
  <2>3. QED
    BY <2>1, <2>2
<1>7. \A a \in Addr : Held(m, a) => Held(x, a)
  <2> SUFFICES ASSUME NEW a \in Addr, Held(m, a)
               PROVE  Held(x, a)
    OBVIOUS
  <2>1. a \in Int
    BY PageIsIn
  <2>2. CASE a - page_address(PageOf(a)) < m.page[PageOf(a)].used
    BY <1>1, <2>2 DEF Held
  <2>3. CASE \E j \in Regions : m.region[j].start <= a /\ a < m.region[j].free
    <3>1. PICK j \in Regions : m.region[j].start <= a /\ a < m.region[j].free
      BY <2>3
    <3>2. x.region[j].start <= a /\ a < x.region[j].free
      BY <1>1, <1>4, <2>1, <3>1
    <3>3. QED
      BY <3>2 DEF Held
  <2>4. QED
    BY <2>2, <2>3 DEF Held
<1>8. PagesOK(x)
  <2>1. RestIsZero(x)
    BY <1>1, <1>7 DEF HeapOK, PagesOK, RestIsZero
  <2>2. FreePages(x) /\ AllBelow(x)
    BY <1>1 DEF HeapOK, PagesOK, FreePages, AllBelow
  <2>3. EmptyInRegion(x)
    <3>1. \A j \in Regions : x.region[j].first = m.region[j].first /\ x.region[j].last = m.region[j].last
      BY <1>1
    <3>2. QED
      BY <1>1, <3>1 DEF HeapOK, PagesOK, EmptyInRegion
  <2>4. Links(x)
    BY <1>1 DEF HeapOK, PagesOK, Links, LinkedTo
  <2>5. LargeOK(x)
    <3> SUFFICES ASSUME NEW q \in Pages, x.page[q].alloc, x.page[q].large PROVE LargeAlone(x, q)
      BY DEF LargeOK
    <3>1. LargeAlone(m, q)
      BY <1>1 DEF HeapOK, PagesOK, LargeOK
    <3>2. x.mem = m.mem /\ x.page = m.page /\ StartOf(x, q) = StartOf(m, q)
      BY <1>1 DEF StartOf
    <3>3. QED
      BY <3>1, <3>2, LargeAloneKept
  <2>6. Bodies(x)
    BY <1>1 DEF HeapOK, PagesOK, Bodies, Whole
  <2>7. QED
    BY <1>6, <2>1, <2>2, <2>3, <2>4, <2>5, <2>6 DEF PagesOK
<1>9. Counters(x)
  <2>1. x.generations = m.generations
    BY <1>1 DEF SameLists
  <2>2. Counters(m)
    BY DEF HeapOK
  <2>3. QED
    BY <1>1, <2>1, <2>2, CountersCarry
<1>10. NoAreas(x)
  BY <1>1 DEF HeapOK, NoAreas, SameWork, SameLists
<1>11. Grows(m, x)
  <2>1. \A p \in Pages : GrownPage(m, x, p)
    BY <1>1 DEF GrownPage
  <2>2. \A a \in Addr : m.page[PageOf(a)].alloc /\ Held(m, a) => KeptCell(m, x, a)
    BY <1>1, <1>7 DEF KeptCell
  <2>3. \A b \in Int : NewArea(m, x, b)
    BY <1>1 DEF NewArea, InArea, SameLists
  <2>4. QED
    BY <1>1, <2>1, <2>2, <2>3 DEF Grows
<1>12. QED
  BY <1>1, <1>5, <1>8, <1>9, <1>10, <1>11 DEF HeapOK

LEMMA AdvanceVacant ==
  ASSUME NEW m \in Heaps, HeapOK(m), NEW k \in Regions, NEW n \in Nat, n >= 1, HasRoom(m, n, k),
         NEW x, x = Advance(m, n, k)
  PROVE  Vacant(x, m.region[k].free, n, k)
<1> DEFINE at == m.region[k].free
           st == m.region[k].start
           en == m.region[k].end
<1>1. /\ x.page = m.page /\ x.mem = m.mem
      /\ x.region[k].start = st /\ x.region[k].free = at + n
  BY AdvanceIs
<1>2. Opened(m, k)
  BY RoomIs
<1>3. st \in Nat /\ at \in Nat /\ en \in Nat /\ st <= at /\ at + n <= en
  BY <1>2, RegionBounds DEF HasRoom
<1>4. /\ m.region[k].first \in Int /\ m.region[k].last \in Int
      /\ page_address(m.region[k].first) <= st /\ st < page_address(m.region[k].first) + PageSize
  BY <1>2, RegionBounds
<1>5. \A b \in at..at+n-1 : /\ b \in Addr /\ m.mem[b] = zero /\ m.page[PageOf(b)].alloc /\ Held(x, b)
                            /\ PageOf(b) \in m.region[k].first..m.region[k].last
  <2> TAKE b \in at..at+n-1
  <2>1. b \in Int /\ st <= b /\ b < en /\ b >= at
    BY <1>3
  <2>2. PageOf(b) \in m.region[k].first..m.region[k].last /\ b \in Addr /\ m.page[PageOf(b)].alloc
    BY <1>2, <2>1, RegionCells
  <2>3. m.mem[b] = zero
    BY <1>2, <2>1, <2>2, RegionRest DEF HeapOK
  <2>4. Held(x, b)
    <3>1. x.region[k].start <= b /\ b < x.region[k].free
      BY <1>1, <1>3, <2>1
    <3>2. QED
      BY <3>1 DEF Held
  <2>5. QED
    BY <2>2, <2>3, <2>4
<1>6. at \in at..at+n-1 /\ at + n - 1 \in at..at+n-1
  BY <1>3
<1>7. at \in Addr
  BY <1>5, <1>6
<1>8. \A p \in PageOf(at)..PageOf(at+n-1) : p \in m.region[k].first..m.region[k].last
  <2>1. PageOf(at) >= m.region[k].first /\ PageOf(at+n-1) <= m.region[k].last
    BY <1>5, <1>6
  <2>2. PageOf(at) \in Int /\ PageOf(at+n-1) \in Int
    BY <1>5, <1>6, PageIsIn, Paging DEF Pages
  <2>3. QED
    BY <1>4, <2>1, <2>2
<1>9. \A p \in m.region[k].first..m.region[k].last : ~m.page[p].large
  BY <1>2 DEF Opened
<1>10. \A p \in m.region[k].first+1..m.region[k].last : m.page[p].offset = page_address(p) - st
  BY <1>2 DEF Opened
<1>11. \A p \in PageOf(at)+1..PageOf(at+n-1) : x.page[p].offset >= page_address(p) - at
  <2> TAKE p \in PageOf(at)+1..PageOf(at+n-1)
  <2>1. PageOf(at) \in Int /\ PageOf(at) >= m.region[k].first /\ PageOf(at+n-1) \in Int /\ PageOf(at+n-1) <= m.region[k].last
    BY <1>5, <1>6, PageIsIn, Paging DEF Pages
  <2>2. p \in m.region[k].first+1..m.region[k].last /\ p \in Int
    BY <1>4, <2>1
  <2>3. m.page[p].offset = page_address(p) - st
    BY <1>10, <2>2
  <2>4. page_address(p) \in Int
    BY <2>2, Paging
  <2>5. QED
    BY <1>1, <1>3, <2>3, <2>4
<1>12. QED
  <2> HIDE DEF at
  <2>1. Vacant(x, at, n, k)
    BY <1>1, <1>5, <1>7, <1>8, <1>9, <1>11 DEF Vacant
  <2>2. QED
    BY <2>1 DEF at

LEMMA StatsOK ==
  ASSUME NEW m \in Heaps, HeapOK(m), NEW st \in [Regions -> Stats], NEW x, x = [m EXCEPT !.stats = st]
  PROVE  x \in Heaps /\ HeapOK(x) /\ Grows(m, x) /\ x.region = m.region /\ x.overflow = m.overflow
<1>1. x \in Heaps
  BY DEF Heaps
<1>2. /\ x.region = m.region /\ x.overflow = m.overflow /\ x.page = m.page /\ x.mem = m.mem
      /\ x.gc_alloc_generation = m.gc_alloc_generation /\ x.last_free_page = m.last_free_page
      /\ x.generations = m.generations /\ x.new_areas = m.new_areas
  BY DEF Heaps
<1>3. SameWork(m, x)
  BY DEF Heaps, SameWork
<1>4. SameHeap(m, x)
  BY <1>2 DEF SameHeap
<1>5. NoAreas(x)
  BY <1>2, <1>3 DEF HeapOK, NoAreas, SameWork
<1>6. HeapOK(x)
  BY <1>1, <1>4, <1>5, Carried
<1>7. Grows(m, x)
  <2>1. \A p \in Pages : GrownPage(m, x, p)
    BY <1>2 DEF GrownPage
  <2>2. \A a \in Addr : m.page[PageOf(a)].alloc /\ Held(m, a) => KeptCell(m, x, a)
    BY <1>2 DEF KeptCell, Held
  <2>3. \A b \in Int : NewArea(m, x, b)
    BY <1>2 DEF NewArea, InArea
  <2>4. QED
    BY <1>3, <2>1, <2>2, <2>3 DEF Grows
<1>8. QED
  BY <1>1, <1>2, <1>6, <1>7

LEMMA StatsAre ==
  ASSUME NEW m \in Heaps, NEW k \in Regions
  PROVE  /\ m.region[k] \in Region
         /\ m.stats \in [Regions -> Stats] /\ m.stats[k].consecutive \in Nat /\ m.stats[k].saved \in Region
  BY DEF Heaps, Stats

LEMMA SaveRegionOK ==
  ASSUME NEW m \in Heaps, HeapOK(m), NEW k \in Regions, NEW x, x = SaveRegion(m, k)
  PROVE  x \in Heaps /\ HeapOK(x) /\ Grows(m, x) /\ x.region = m.region /\ x.overflow = m.overflow
<1> DEFINE w == [consecutive |-> 0, saved |-> m.region[k]]
           st == [m.stats EXCEPT ![k] = w]
<1>1. w \in Stats
  BY StatsAre DEF Stats
<1>2. x = [m EXCEPT !.stats = st]
  BY DEF SaveRegion, Heaps
<1> HIDE DEF w
<1>3. st \in [Regions -> Stats]
  BY <1>1, StatsAre
<1> HIDE DEF st
<1>4. QED
  BY <1>2, <1>3, StatsOK

LEMMA CountLargeOK ==
  ASSUME NEW m \in Heaps, HeapOK(m), NEW k \in Regions, NEW x, x = CountLarge(m, k)
  PROVE  x \in Heaps /\ HeapOK(x) /\ Grows(m, x) /\ x.region = m.region /\ x.overflow = m.overflow
<1> DEFINE c == IF m.stats[k].saved = m.region[k] THEN m.stats[k].consecutive + 1 ELSE 0
           w == [consecutive |-> c, saved |-> m.region[k]]
           st == [m.stats EXCEPT ![k] = w]
<1>1. c \in Nat
  BY StatsAre
<1>2. x = [m EXCEPT !.stats = st]
  BY DEF CountLarge, Heaps
<1> HIDE DEF c
<1>3. w \in Stats
  BY <1>1, StatsAre DEF Stats
<1> HIDE DEF w
<1>4. st \in [Regions -> Stats]
  BY <1>3, StatsAre
<1> HIDE DEF st
<1>5. QED
  BY <1>2, <1>4, StatsOK

LEMMA ForgetLargeOK ==
  ASSUME NEW m \in Heaps, HeapOK(m), NEW k \in Regions, NEW x, x = [m EXCEPT !.stats[k].consecutive = 0]
  PROVE  x \in Heaps /\ HeapOK(x) /\ Grows(m, x) /\ x.region = m.region /\ x.overflow = m.overflow
<1> DEFINE w == [m.stats[k] EXCEPT !.consecutive = 0]
           st == [m.stats EXCEPT ![k] = w]
<1>1. w \in Stats
  BY StatsAre DEF Stats
<1>2. x = [m EXCEPT !.stats = st]
  BY DEF Heaps
<1> HIDE DEF w
<1>3. st \in [Regions -> Stats]
  BY <1>1, StatsAre
<1> HIDE DEF st
<1>4. QED
  BY <1>2, <1>3, StatsOK

LEMMA ReplacedOK ==
  ASSUME NEW m \in Heaps, HeapOK(m), NEW k \in Regions, NEW x, x = Replaced(m, k)
  PROVE  x \in Heaps /\ HeapOK(x) /\ Grows(m, x)
<1> DEFINE y == gc_alloc_update_page_tables(m, k)
<1>1. x = m \/ x = gc_alloc_new_region(y, Threshold, k)
  BY DEF Replaced
<1>2. y \in Heaps /\ HeapOK(y) /\ Grows(m, y) /\ y.region[k] = ResetRegion
  BY UpdateTablesOK
<1> HIDE DEF y
<1>3. CASE x = m
  BY <1>3, GrowsSelf
<1>4. CASE x = gc_alloc_new_region(y, Threshold, k)
  <2>1. Threshold \in Nat
    BY Constants
  <2>2. x \in Heaps /\ HeapOK(x) /\ Grows(y, x)
    BY <1>2, <1>4, <2>1, NewRegionOK
  <2>3. Grows(m, x)
    BY <1>2, <2>2, GrowsOn
  <2>4. QED
    BY <2>2, <2>3
<1>5. QED
  BY <1>1, <1>3, <1>4

LEMMA TryRegionOK ==
  ASSUME NEW m \in Heaps, HeapOK(m), NEW k \in Regions, NEW n \in Nat, n >= 1, HasRoom(m, n, k),
         NEW r, r = gc_alloc_try_current_region(m, n, k)
  PROVE  Allocates(m, r, n, k)
<1> DEFINE x == Advance(m, n, k)
           y == Replaced(x, k)
           z == SaveRegion(y, k)
           at == m.region[k].free
<1>1. r.heap = z /\ r.at = at
  BY DEF gc_alloc_try_current_region
<1>2. x \in Heaps
  BY AdvanceIs
<1>3. HeapOK(x) /\ Grows(m, x)
  BY AdvanceOK
<1>4. Vacant(x, at, n, k)
  BY AdvanceVacant
<1> HIDE DEF x, at
<1>5. y \in Heaps /\ HeapOK(y) /\ Grows(x, y)
  BY <1>2, <1>3, ReplacedOK
<1> HIDE DEF y
<1>6. z \in Heaps /\ HeapOK(z) /\ Grows(y, z)
  BY <1>5, SaveRegionOK
<1> HIDE DEF z
<1>7. Grows(m, y)
  BY <1>2, <1>3, <1>5, GrowsOn
<1>8. Grows(m, z)
  BY <1>5, <1>6, <1>7, GrowsOn
<1>9. Vacant(y, at, n, k)
  BY <1>2, <1>4, <1>5, GrowsVacant
<1>10. Vacant(z, at, n, k)
  BY <1>5, <1>6, <1>9, GrowsVacant
<1>11. QED
  BY <1>1, <1>6, <1>8, <1>10 DEF Allocates

LEMMA AllocatesOn ==
  ASSUME NEW m \in Heaps, NEW x \in Heaps, Grows(m, x), NEW r, NEW n, NEW k, Allocates(x, r, n, k)
  PROVE  Allocates(m, r, n, k)
<1>1. r.heap \in Heaps /\ Grows(x, r.heap)
  BY DEF Allocates
<1>2. Grows(m, r.heap)
  BY <1>1, GrowsOn
<1>3. QED
  BY <1>2 DEF Allocates

LEMMA AllocRegionOK ==
  ASSUME NEW m \in Heaps, HeapOK(m), NEW k \in Regions, NEW n \in Nat, n >= 1, NEW r, r = gc_alloc_region(m, n, k)
  PROVE  Allocates(m, r, n, k)
<1> DEFINE often == Left(m, k) > Threshold /\ m.stats[k].consecutive < LargeLimit
           c == IF n >= LargeSize THEN m ELSE CountLarge(m, k)
           f == [m EXCEPT !.stats[k].consecutive = 0]
           u == gc_alloc_update_page_tables(f, k)
           v == gc_alloc_new_region(u, n, k)
<1>1. CASE ~HasRoom(m, n, k) /\ (n >= LargeSize \/ often)
  <2>1. r = gc_alloc_large(c, n, k)
    BY <1>1 DEF gc_alloc_region
  <2>2. c \in Heaps /\ HeapOK(c) /\ Grows(m, c)
    BY GrowsSelf, CountLargeOK
  <2> HIDE DEF c
  <2>3. Allocates(c, r, n, k)
    BY <2>1, <2>2, AllocLargeOK
  <2>4. QED
    BY <2>2, <2>3, AllocatesOn
<1>2. CASE HasRoom(m, n, k)
  <2>1. r = InRegionOrNot(m, n, k)
    BY <1>2 DEF gc_alloc_region
  <2>2. CASE m.overflow
    <3>1. r.heap = m /\ r.at = NIL
      BY <2>1, <2>2 DEF InRegionOrNot
    <3>2. QED
      BY <3>1, GrowsSelf DEF Allocates
  <2>3. CASE ~m.overflow
    BY <1>2, <2>1, <2>3, TryRegionOK DEF InRegionOrNot
  <2>4. QED
    BY <2>2, <2>3
<1>3. CASE ~HasRoom(m, n, k) /\ ~(n >= LargeSize \/ often)
  <2>1. r = InRegionOrNot(v, n, k)
    BY <1>3 DEF gc_alloc_region
  <2>2. f \in Heaps /\ HeapOK(f) /\ Grows(m, f)
    BY ForgetLargeOK
  <2> HIDE DEF f
  <2>3. u \in Heaps /\ HeapOK(u) /\ Grows(f, u) /\ u.region[k] = ResetRegion
    BY <2>2, UpdateTablesOK
  <2> HIDE DEF u
  <2>4. v \in Heaps /\ HeapOK(v) /\ Grows(u, v) /\ (v.overflow \/ Roomy(v, k, n))
    BY <2>3, NewRegionOK
  <2> HIDE DEF v
  <2>5. Grows(m, u)
    BY <2>2, <2>3, GrowsOn
  <2>6. Grows(m, v)
    BY <2>3, <2>4, <2>5, GrowsOn
  <2>7. CASE v.overflow
    <3>1. r.heap = v /\ r.at = NIL
      BY <2>1, <2>7 DEF InRegionOrNot
    <3>2. QED
      BY <2>4, <2>6, <3>1 DEF Allocates
  <2>8. CASE ~v.overflow
    <3>1. HasRoom(v, n, k)
      BY <2>4, <2>8 DEF Roomy, HasRoom
    <3>2. r = gc_alloc_try_current_region(v, n, k)
      BY <2>1, <2>8 DEF InRegionOrNot
    <3>3. Allocates(v, r, n, k)
      BY <2>4, <3>1, <3>2, TryRegionOK
    <3>4. QED
      BY <2>4, <2>6, <3>3, AllocatesOn
  <2>9. QED
    BY <2>7, <2>8
<1>4. QED
  BY <1>1, <1>2, <1>3

\* gc_quick_alloc and gc_quick_alloc_large.
LEMMA QuickAllocOK ==
  ASSUME NEW m \in Heaps, HeapOK(m), NEW k \in Regions, NEW n \in Nat, n >= 1, NEW r, r = gc_quick_alloc(m, n, k)
  PROVE  Allocates(m, r, n, k)
<1>1. CASE HasRoom(m, n, k)
  <2> DEFINE x == Advance(m, n, k)
             at == m.region[k].free
  <2>1. r.heap = x /\ r.at = at
    BY <1>1 DEF gc_quick_alloc, Advance
  <2>2. x \in Heaps
    BY AdvanceIs
  <2>3. HeapOK(x) /\ Grows(m, x)
    BY <1>1, AdvanceOK
  <2>4. Vacant(x, at, n, k)
    BY <1>1, AdvanceVacant
  <2> HIDE DEF x, at
  <2>5. QED
    BY <2>1, <2>2, <2>3, <2>4 DEF Allocates
<1>2. CASE ~HasRoom(m, n, k)
  BY <1>2, AllocRegionOK DEF gc_quick_alloc
<1>3. QED
  BY <1>1, <1>2

LEMMA QuickAllocLargeOK ==
  ASSUME NEW m \in Heaps, HeapOK(m), NEW k \in Regions, NEW n \in Nat, n >= 1, NEW r, r = gc_quick_alloc_large(m, n, k)
  PROVE  Allocates(m, r, n, k)
<1>1. CASE n >= LargeSize
  BY <1>1, AllocLargeOK DEF gc_quick_alloc_large
<1>2. CASE ~(n >= LargeSize)
  BY <1>2, QuickAllocOK DEF gc_quick_alloc_large
<1>3. QED
  BY <1>1, <1>2

-----------------------------------------------------------------------------
(* A heap that is collected, and what the collection leaves as it is.        *)

\* What is not in the old space is not moved any more.
Safe(m, a) == a \in Addr /\ m.page[PageOf(a)].gen # m.from_space
SafeObject(m, a, kind) == Safe(m, a) /\ m.mem[a].t = "obj" /\ m.mem[a].kind = kind

Spaces(m) ==
  /\ m.from_space \in 0..NumGenerations-1 /\ m.new_space \in m.from_space+1..NumGenerations
  /\ m.gc_alloc_generation = m.new_space
OldSpace(m) == \A p \in Pages : m.page[p].alloc =>
  /\ m.page[p].gen >= m.from_space
  /\ m.page[p].gen = m.from_space => ~m.page[p].wp /\ ~m.page[p].pinned
WeakLists(m) ==
  /\ \A a \in m.weak_pointers : SafeObject(m, a, "weak")
  /\ \A i \in DOMAIN m.weak_hash_tables : SafeObject(m, m.weak_hash_tables[i], "table")
SafeAreas(m) == \A b \in Int : InArea(m, b) => Safe(m, b)
Collecting(m) == Spaces(m) /\ OldSpace(m) /\ WeakLists(m) /\ SafeAreas(m)

\* Pages of older generations than the one that is collected.
OlderPage(m, p) == m.page[p].alloc /\ m.page[p].gen # m.from_space /\ m.page[p].gen # m.new_space
KeptPage(m, x, p) ==
  /\ OlderPage(m, p) => SameShape(m, x, p) /\ x.page[p].gen = m.page[p].gen
  /\ OlderPage(x, p) => OlderPage(m, p)
KeptObject(m, x, a) ==
  Safe(m, a) => Safe(x, a) /\ (m.mem[a].t = "obj" => x.mem[a].t = "obj" /\ x.mem[a].kind = m.mem[a].kind)
SameSpaces(m, x) ==
  /\ x.from_space = m.from_space /\ x.new_space = m.new_space
  /\ x.gc_alloc_generation = m.gc_alloc_generation /\ x.record_new_objects = m.record_new_objects
Keeps(m, x) ==
  SameSpaces(m, x) /\ (\A p \in Pages : KeptPage(m, x, p)) /\ \A a \in Addr : KeptObject(m, x, a)

LEMMA KeepsSelf ==
  ASSUME NEW m
  PROVE  Keeps(m, m)
<1>1. SameSpaces(m, m)
  BY DEF SameSpaces
<1>2. \A p \in Pages : KeptPage(m, m, p)
  BY DEF KeptPage, SameShape
<1>3. \A a \in Addr : KeptObject(m, m, a)
  BY DEF KeptObject
<1>4. QED
  BY <1>1, <1>2, <1>3 DEF Keeps

LEMMA KeepsOn ==
  ASSUME NEW m, NEW x, NEW y, Keeps(m, x), Keeps(x, y)
  PROVE  Keeps(m, y)
<1>1. SameSpaces(m, y)
  BY DEF Keeps, SameSpaces
<1>2. \A p \in Pages : KeptPage(m, y, p)
  <2> TAKE p \in Pages
  <2>1. KeptPage(m, x, p) /\ KeptPage(x, y, p)
    BY DEF Keeps
  <2>2. x.from_space = m.from_space /\ x.new_space = m.new_space
    BY DEF Keeps, SameSpaces
  <2>3. QED
    BY <2>1, <2>2 DEF KeptPage, SameShape, OlderPage
<1>3. \A a \in Addr : KeptObject(m, y, a)
  <2> TAKE a \in Addr
  <2>1. KeptObject(m, x, a) /\ KeptObject(x, y, a)
    BY DEF Keeps
  <2>2. QED
    BY <2>1 DEF KeptObject
<1>4. QED
  BY <1>1, <1>2, <1>3 DEF Keeps

\* Objects that are not moved stay safe.
LEMMA KeepsObject ==
  ASSUME NEW m, NEW x, Keeps(m, x), NEW a, NEW kind, SafeObject(m, a, kind)
  PROVE  SafeObject(x, a, kind)
<1>1. a \in Addr
  BY DEF SafeObject, Safe
<1>2. KeptObject(m, x, a)
  BY <1>1 DEF Keeps
<1>3. QED
  BY <1>2 DEF KeptObject, SafeObject

LEMMA KeepsLists ==
  ASSUME NEW m, NEW x, Keeps(m, x), WeakLists(m),
         x.weak_pointers = m.weak_pointers, x.weak_hash_tables = m.weak_hash_tables
  PROVE  WeakLists(x)
<1>1. \A a \in m.weak_pointers : SafeObject(x, a, "weak")
  BY KeepsObject DEF WeakLists
<1>2. \A i \in DOMAIN m.weak_hash_tables : SafeObject(x, m.weak_hash_tables[i], "table")
  BY KeepsObject DEF WeakLists
<1>3. QED
  BY <1>1, <1>2 DEF WeakLists

LEMMA SpacesAre ==
  ASSUME NEW m, Spaces(m)
  PROVE  /\ m.from_space \in Gen /\ m.new_space \in Gen /\ m.from_space # m.new_space
         /\ m.from_space \in Nat /\ m.new_space \in Nat /\ m.from_space < m.new_space
         /\ m.gc_alloc_generation = m.new_space /\ m.from_space < NumGenerations
<1>1. NumGenerations \in Nat
  BY Constants
<1>2. QED
  BY <1>1 DEF Spaces, Gen

\* An allocation.
LEMMA GrowsKeeps ==
  ASSUME NEW m \in Heaps, HeapOK(m), Collecting(m), NEW x \in Heaps, Grows(m, x)
  PROVE  Collecting(x) /\ Keeps(m, x)
<1>1. /\ m.from_space # m.new_space /\ m.gc_alloc_generation = m.new_space
      /\ m.new_space \in Nat /\ m.from_space \in Nat /\ m.from_space < m.new_space
  BY SpacesAre DEF Collecting
<1>2. /\ x.from_space = m.from_space /\ x.new_space = m.new_space
      /\ x.gc_alloc_generation = m.gc_alloc_generation /\ x.record_new_objects = m.record_new_objects
      /\ x.weak_pointers = m.weak_pointers /\ x.weak_hash_tables = m.weak_hash_tables
  BY DEF Grows, SameWork
<1>3. \A p \in Pages : GrownPage(m, x, p)
  BY DEF Grows
<1>4. \A p \in Pages : KeptPage(m, x, p)
  BY <1>1, <1>2, <1>3 DEF KeptPage, GrownPage, OlderPage, SameShape
<1>5. \A a \in Addr : Safe(m, a) => Safe(x, a)
  <2> SUFFICES ASSUME NEW a \in Addr, Safe(m, a)
               PROVE  Safe(x, a)
    OBVIOUS
  <2>1. GrownPage(m, x, PageOf(a))
    BY <1>3, PageIsIn
  <2>2. QED
    BY <1>1, <1>2, <2>1 DEF Safe, GrownPage
<1>6. \A a \in Addr : KeptObject(m, x, a)
  <2> SUFFICES ASSUME NEW a \in Addr, m.mem[a].t = "obj"
               PROVE  x.mem[a] = m.mem[a]
    BY <1>5 DEF KeptObject
  <2>1. m.page[PageOf(a)].alloc /\ Held(m, a)
    BY ObjectHeld DEF HeapOK
  <2>2. KeptCell(m, x, a)
    BY <2>1 DEF Grows
  <2>3. QED
    BY <2>2 DEF KeptCell
<1>7. Keeps(m, x)
  BY <1>2, <1>4, <1>6 DEF Keeps, SameSpaces
<1>8. Spaces(x)
  BY <1>2 DEF Collecting, Spaces
<1>9. OldSpace(x)
  <2> SUFFICES ASSUME NEW p \in Pages, x.page[p].alloc
               PROVE  /\ x.page[p].gen >= x.from_space
                      /\ x.page[p].gen = x.from_space => ~x.page[p].wp /\ ~x.page[p].pinned
    BY DEF OldSpace
  <2>1. CASE x.page[p] = m.page[p]
    BY <1>2, <2>1 DEF Collecting, OldSpace
  <2>2. CASE x.page[p].gen = m.gc_alloc_generation
    BY <1>1, <1>2, <2>2
  <2>3. QED
    BY <1>3, <2>1, <2>2 DEF GrownPage
<1>10. WeakLists(x)
  BY <1>2, <1>7, KeepsLists DEF Collecting
<1>11. SafeAreas(x)
  <2> SUFFICES ASSUME NEW b \in Int, InArea(x, b)
               PROVE  Safe(x, b)
    BY DEF SafeAreas
  <2>1. NewArea(m, x, b)
    BY DEF Grows
  <2>2. CASE InArea(m, b)
    BY <1>5, <2>2 DEF Collecting, SafeAreas, Safe
  <2>3. CASE b \in Addr /\ x.page[PageOf(b)].gen = m.gc_alloc_generation
    BY <1>1, <1>2, <2>3 DEF Safe
  <2>4. QED
    BY <2>1, <2>2, <2>3 DEF NewArea
<1>12. QED
  BY <1>7, <1>8, <1>9, <1>10, <1>11 DEF Collecting

\* Stores, and changes of the protection outside of the old space.
SameLabels(m, x, p) ==
  /\ SameShape(m, x, p) /\ x.page[p].gen = m.page[p].gen /\ x.page[p].pinned = m.page[p].pinned
  /\ x.page[p].wp => m.page[p].wp \/ m.page[p].gen # m.from_space
SafeStays(m, x, a) ==
  Safe(m, a) /\ m.mem[a].t = "obj" => x.mem[a].t = "obj" /\ x.mem[a].kind = m.mem[a].kind

LEMMA StoresKeep ==
  ASSUME NEW m \in Heaps, Collecting(m), NEW x \in Heaps,
         SameSpaces(m, x), x.weak_pointers = m.weak_pointers, x.weak_hash_tables = m.weak_hash_tables,
         \A b \in Int : InArea(x, b) => InArea(m, b), \A p \in Pages : SameLabels(m, x, p), \A a \in Addr : SafeStays(m, x, a)
  PROVE  Collecting(x) /\ Keeps(m, x)
<1>1. x.from_space = m.from_space /\ x.new_space = m.new_space /\ x.gc_alloc_generation = m.gc_alloc_generation
  BY DEF SameSpaces
<1>2. \A p \in Pages : KeptPage(m, x, p)
  BY <1>1 DEF KeptPage, OlderPage, SameLabels, SameShape
<1>3. \A a \in Addr : Safe(m, a) => Safe(x, a)
  <2> SUFFICES ASSUME NEW a \in Addr, Safe(m, a)
               PROVE  Safe(x, a)
    OBVIOUS
  <2>1. SameLabels(m, x, PageOf(a))
    BY PageIsIn
  <2>2. QED
    BY <1>1, <2>1 DEF Safe, SameLabels
<1>4. \A a \in Addr : KeptObject(m, x, a)
  BY <1>3 DEF KeptObject, SafeStays
<1>5. Keeps(m, x)
  BY <1>2, <1>4 DEF Keeps
<1>6. Spaces(x)
  BY <1>1 DEF Collecting, Spaces
<1>7. OldSpace(x)
  BY <1>1 DEF Collecting, OldSpace, SameLabels, SameShape
<1>8. WeakLists(x)
  BY <1>5, KeepsLists DEF Collecting
<1>9. SafeAreas(x)
  BY <1>3 DEF Collecting, SafeAreas, Safe
<1>10. QED
  BY <1>5, <1>6, <1>7, <1>8, <1>9 DEF Collecting

-----------------------------------------------------------------------------
(* Stores.                                                                   *)
LEMMA BarrierSame ==
  ASSUME NEW m \in Heaps, NEW a, NEW y, y = gc_write_barrier(m, a)
  PROVE  /\ SameWork(m, y) /\ y.new_areas = m.new_areas /\ y.mem = m.mem /\ y.overflow = m.overflow
         /\ \A p \in Pages : SameLabels(m, y, p)
<1>1. CASE y = m
  BY <1>1 DEF SameWork, SameLabels, SameShape
<1>2. CASE PageOf(a) \in Pages /\ y = OnePage(m, PageOf(a), FALSE)
  <2> DEFINE p == PageOf(a)
             w == [m.page[p] EXCEPT !.wp = FALSE]
  <2>1. m.page[p] \in Page
    BY <1>2, PageIs
  <2>2. /\ w.alloc = m.page[p].alloc /\ w.unboxed = m.page[p].unboxed /\ w.large = m.page[p].large
        /\ w.used = m.page[p].used /\ w.offset = m.page[p].offset /\ w.gen = m.page[p].gen
        /\ w.pinned = m.page[p].pinned /\ ~w.wp
    BY <2>1 DEF Page
  <2>3. y = [m EXCEPT !.page = [m.page EXCEPT ![p] = w]]
    BY <1>2 DEF OnePage, Heaps
  <2> HIDE DEF w
  <2>4. \A q \in Pages : y.page[q] = IF q = p THEN w ELSE m.page[q]
    BY <1>2, <2>3 DEF Heaps
  <2>5. SameWork(m, y) /\ y.new_areas = m.new_areas /\ y.mem = m.mem /\ y.overflow = m.overflow
    BY <2>3 DEF Heaps, SameWork
  <2>6. \A q \in Pages : SameLabels(m, y, q)
    BY <2>2, <2>4 DEF SameLabels, SameShape
  <2>7. QED
    BY <2>5, <2>6
<1>3. QED
  BY <1>1, <1>2, BarrierIs

LEMMA WriteIs ==
  ASSUME NEW m \in Heaps, HeapOK(m), NEW a \in Addr, NEW c \in HeapCell, NEW x, x = Write(m, a, c)
  PROVE  /\ x \in Heaps /\ SameWork(m, x) /\ x.new_areas = m.new_areas /\ x.overflow = m.overflow
         /\ x.mem[a] = c /\ \A b \in Addr : b # a => x.mem[b] = m.mem[b]
         /\ \A p \in Pages : SameLabels(m, x, p)
<1> DEFINE y == gc_write_barrier(m, a)
<1>1. y \in Heaps
  BY BarrierOK
<1>2. /\ SameWork(m, y) /\ y.new_areas = m.new_areas /\ y.mem = m.mem /\ y.overflow = m.overflow
      /\ \A p \in Pages : SameLabels(m, y, p)
  BY BarrierSame
<1>3. x = Put(y, a, c)
  BY DEF Write, Put
<1> HIDE DEF y
<1>4. /\ x \in Heaps /\ SamePages(y, x) /\ SameWork(y, x) /\ x.new_areas = y.new_areas /\ x.overflow = y.overflow
      /\ x.mem[a] = c /\ \A b \in Addr : b # a => x.mem[b] = y.mem[b]
  BY <1>1, <1>3, PutIs
<1>5. SameWork(m, x)
  BY <1>2, <1>4 DEF SameWork
<1>6. \A p \in Pages : SameLabels(m, x, p)
  BY <1>2, <1>4 DEF SameLabels, SameShape, SamePages
<1>7. QED
  BY <1>2, <1>4, <1>5, <1>6

\* A store into an object that keeps its kind and its size.
LEMMA WriteKeeps ==
  ASSUME NEW m \in Heaps, HeapOK(m), Collecting(m), NEW a \in Addr, m.mem[a].t = "obj",
         NEW c \in Objs, c.kind = m.mem[a].kind, c.size = m.mem[a].size, NEW x, x = Write(m, a, c)
  PROVE  x \in Heaps /\ HeapOK(x) /\ Collecting(x) /\ Keeps(m, x)
<1>1. c \in HeapCell /\ c.t = "obj"
  BY DEF HeapCell, Objs
<1>2. /\ x \in Heaps /\ SameWork(m, x) /\ x.new_areas = m.new_areas
      /\ x.mem[a] = c /\ \A b \in Addr : b # a => x.mem[b] = m.mem[b]
      /\ \A p \in Pages : SameLabels(m, x, p)
  BY <1>1, WriteIs
<1>3. HeapOK(x)
  BY WriteOK
<1>4. SameSpaces(m, x) /\ x.weak_pointers = m.weak_pointers /\ x.weak_hash_tables = m.weak_hash_tables
  BY <1>2 DEF SameWork, SameSpaces
<1>5. \A b \in Addr : SafeStays(m, x, b)
  BY <1>1, <1>2 DEF SafeStays
<1>6. \A b \in Int : InArea(x, b) => InArea(m, b)
  BY <1>2 DEF InArea
<1>7. Collecting(x) /\ Keeps(m, x)
  BY <1>2, <1>4, <1>5, <1>6, StoresKeep
<1>8. QED
  BY <1>2, <1>3, <1>7

-----------------------------------------------------------------------------
(* Copying.                                                                  *)

\* A pointer into the old space to an object that has not been moved.
OldObject(m, a) == a \in Addr /\ m.mem[a].t = "obj" /\ m.page[PageOf(a)].gen = m.from_space
Moves(m, r) == r.heap \in Heaps /\ HeapOK(r.heap) /\ Collecting(r.heap) /\ Keeps(m, r.heap) /\ r.at \in Addr

LEMMA MoveToOK ==
  ASSUME NEW m \in Heaps, HeapOK(m), Collecting(m), NEW a, OldObject(m, a), ~m.page[PageOf(a)].large,
         NEW k \in Regions, m.mem[a].kind = "vec" => k = "boxed",
         NEW r, Allocates(m, r, m.mem[a].size, k), NEW y, y = MoveTo(r, a, m.mem[a])
  PROVE  Moves(m, y)
<1> DEFINE o == m.mem[a]
           n == o.size
           x == r.heap
           f == Fill(x, r.at, o)
           z == Forward(f, a, r.at)
<1>1. a \in Addr /\ o.t = "obj" /\ m.page[PageOf(a)].gen = m.from_space /\ PageOf(a) \in Pages
  BY PageIsIn DEF OldObject
<1>2. x \in Heaps /\ HeapOK(x) /\ Grows(m, x)
  BY DEF Allocates
<1>3. Collecting(x) /\ Keeps(m, x)
  BY <1>2, GrowsKeeps
<1>4. CASE r.at = NIL
  <2>1. y.heap = x /\ y.at = a
    BY <1>4 DEF MoveTo, Allocates
  <2>2. QED
    BY <1>1, <1>2, <1>3, <2>1 DEF Moves
<1>5. CASE r.at # NIL
  <2>1. y.heap = z /\ y.at = r.at
    BY <1>5 DEF MoveTo
  <2>2. Vacant(x, r.at, n, k)
    BY <1>5 DEF Allocates
  <2>3. o \in Objs /\ n \in Nat /\ n >= 1
    <3>1. o \in HeapCell
      BY <1>1 DEF Heaps
    <3>2. QED
      BY <1>1, <3>1, ObjectIs
  <2>4. r.at \in Addr /\ \A b \in r.at..r.at+n-1 : x.mem[b] = zero
    BY <2>2 DEF Vacant
  <2>5. f \in Heaps /\ HeapOK(f)
    BY <1>2, <2>2, <2>3, FillOK
  <2>6. /\ SamePages(x, f) /\ SameWork(x, f) /\ f.new_areas = x.new_areas
        /\ \A b \in Addr : f.mem[b] = IF b = r.at THEN o ELSE IF b \in r.at+1..r.at+o.size-1 THEN body ELSE x.mem[b]
    BY <1>2, <2>3, <2>4, FillIs
  <2> HIDE DEF f
  <2>7. \A b \in Addr : x.mem[b] # zero => f.mem[b] = x.mem[b]
    <3> SUFFICES ASSUME NEW b \in Addr, x.mem[b] # zero
                 PROVE  f.mem[b] = x.mem[b]
      OBVIOUS
    <3>1. b \notin r.at..r.at+n-1
      BY <2>4
    <3>2. b \in Int /\ r.at \in Int
      BY <2>4, PageIsIn
    <3>3. b # r.at /\ b \notin r.at+1..r.at+n-1
      BY <2>3, <3>1, <3>2
    <3>4. QED
      BY <2>6, <3>3
  <2>8. m.page[PageOf(a)].alloc /\ x.mem[a] = o /\ x.page[PageOf(a)].large = m.page[PageOf(a)].large
    <3>1. m.page[PageOf(a)].alloc /\ Held(m, a)
      BY <1>1, ObjectHeld DEF HeapOK
    <3>2. KeptCell(m, x, a)
      BY <1>1, <1>2, <3>1 DEF Grows
    <3>3. QED
      BY <3>1, <3>2 DEF KeptCell
  <2>9. x.page[PageOf(a)].gen = x.from_space
    <3>1. m.from_space # m.new_space /\ m.gc_alloc_generation = m.new_space
      BY SpacesAre DEF Collecting
    <3>2. GrownPage(m, x, PageOf(a)) /\ x.from_space = m.from_space
      BY <1>1, <1>2 DEF Grows, SameWork
    <3>3. QED
      BY <1>1, <2>8, <3>1, <3>2 DEF GrownPage
  <2>10. f.mem[a] = o
    BY <1>1, <2>7, <2>8, CellsAre
  <2>11. ~f.page[PageOf(a)].large
    BY <2>6, <2>8 DEF SamePages
  <2>12. HeapOK(z)
    BY <1>1, <2>4, <2>5, <2>10, <2>11, ForwardOK
  <2> DEFINE c == [t |-> "fwd", to |-> r.at]
  <2>13. c \in HeapCell
    BY <2>4 DEF HeapCell
  <2>14. z = Put(f, a, c)
    BY DEF Forward, Put
  <2> HIDE DEF c, z
  <2>15. /\ z \in Heaps /\ SamePages(f, z) /\ SameWork(f, z) /\ z.new_areas = f.new_areas
         /\ \A b \in Addr : b # a => z.mem[b] = f.mem[b]
    BY <1>1, <2>5, <2>13, <2>14, PutIs
  <2>16. SameSpaces(x, z) /\ z.weak_pointers = x.weak_pointers /\ z.weak_hash_tables = x.weak_hash_tables
    BY <2>6, <2>15 DEF SameWork, SameSpaces
  <2>17. \A p \in Pages : SameLabels(x, z, p)
    BY <2>6, <2>15 DEF SamePages, SameLabels, SameShape
  <2>18. \A b \in Addr : SafeStays(x, z, b)
    <3> SUFFICES ASSUME NEW b \in Addr, Safe(x, b), x.mem[b].t = "obj"
                 PROVE  z.mem[b] = x.mem[b]
      BY DEF SafeStays
    <3>1. b # a
      BY <2>9 DEF Safe
    <3>2. x.mem[b] # zero
      BY CellsAre
    <3>3. QED
      BY <2>7, <2>15, <3>1, <3>2
  <2>19. \A b \in Int : InArea(z, b) => InArea(x, b)
    BY <2>6, <2>15 DEF InArea
  <2>20. Collecting(z) /\ Keeps(x, z)
    BY <1>2, <1>3, <2>15, <2>16, <2>17, <2>18, <2>19, StoresKeep
  <2>21. Keeps(m, z)
    BY <1>3, <2>20, KeepsOn
  <2>22. QED
    BY <2>1, <2>4, <2>12, <2>15, <2>20, <2>21 DEF Moves
<1>6. QED
  BY <1>4, <1>5

LEMMA CopyOK ==
  ASSUME NEW m \in Heaps, HeapOK(m), Collecting(m), NEW a, OldObject(m, a), ~m.page[PageOf(a)].large,
         NEW y, y = copy_object(m, a)
  PROVE  Moves(m, y)
<1> DEFINE o == m.mem[a]
           k == IF o.kind = "bytes" THEN "unboxed" ELSE "boxed"
           r == gc_quick_alloc_large(m, o.size, k)
<1>1. o.size \in Nat /\ o.size >= 1
  <2>1. o \in HeapCell /\ o.t = "obj"
    BY DEF Heaps, OldObject
  <2>2. QED
    BY <2>1, ObjectIs
<1>2. k \in Regions /\ (o.kind = "vec" => k = "boxed")
  BY DEF Regions
<1>3. y = MoveTo(r, a, o)
  BY DEF copy_object
<1> HIDE DEF k
<1>4. Allocates(m, r, o.size, k)
  BY <1>1, <1>2, QuickAllocLargeOK
<1> HIDE DEF r
<1>5. QED
  BY <1>2, <1>3, <1>4, MoveToOK

-----------------------------------------------------------------------------
(* Large objects that have shrunk.                                           *)

\* A large object of the old space; u says that pages of both sorts may be its own.
Shrinks(m, a, u) ==
  /\ OldObject(m, a) /\ m.page[PageOf(a)].large
  /\ u \in BOOLEAN /\ (~u => m.mem[a].kind = "vec")
LastCell(m, a) == a + m.mem[a].size - 1
LastOf(m, a) == PageOf(LastCell(m, a))
MayDrop(m, u) == {q \in LargePages(m) : u \/ ~m.page[q].unboxed}
Dropped(m, a, u) == ShrunkFrom(m, PageOf(a), m.mem[a].size, MayDrop(m, u))
CanDrop(m, a, u, q) == m.page[q-1].used = PageSize /\ q \in MayDrop(m, u) /\ m.page[q].offset = page_address(q - PageOf(a))

LEMMA ShrinksIs ==
  ASSUME NEW m \in Heaps, HeapOK(m), NEW a, NEW u, Shrinks(m, a, u)
  PROVE  /\ a \in Addr /\ a \in Int /\ m.mem[a].t = "obj" /\ m.mem[a].size \in Nat /\ m.mem[a].size >= 1
         /\ PageOf(a) \in Pages /\ LastOf(m, a) \in Pages /\ PageOf(a) <= LastOf(m, a)
         /\ PageOf(a) \in Int /\ LastOf(m, a) \in Int
         /\ a = page_address(PageOf(a)) /\ m.page[PageOf(a)].offset = 0
         /\ page_address(LastOf(m, a)) < a + m.mem[a].size
         /\ a + m.mem[a].size <= page_address(LastOf(m, a) + 1)
         /\ m.mem[a].kind \in vector /\ (m.mem[a].kind = "vec" => ~m.page[PageOf(a)].unboxed)
         /\ LastOfLarge(PageOf(a), m.mem[a].size) = LastOf(m, a)
<1>1. PagesOK(m) /\ a \in Addr /\ m.mem[a].t = "obj" /\ m.page[PageOf(a)].large
  BY DEF HeapOK, Shrinks, OldObject
<1>2. /\ m.mem[a].size \in Nat /\ m.mem[a].size >= 1 /\ a \in Int
      /\ LastCell(m, a) \in Addr /\ LastOf(m, a) \in Pages /\ PageOf(a) \in Pages /\ PageOf(a) <= LastOf(m, a)
  BY <1>1, ObjectEnd DEF LastCell, LastOf
<1>3. /\ m.page[PageOf(a)].offset = 0 /\ a = page_address(PageOf(a)) /\ m.mem[a].kind \in vector
      /\ (m.mem[a].kind = "vec" => ~m.page[PageOf(a)].unboxed)
  BY <1>1, LargeObject
<1>4. LastOfLarge(PageOf(a), m.mem[a].size) = LastOf(m, a)
  BY <1>1, LastOfLargeIs DEF LastOf, LastCell
<1>5. PageOf(a) \in Int /\ LastOf(m, a) \in Int
  BY <1>2, Paging DEF Pages
<1>6. LastCell(m, a) \in Int
  BY <1>2, PageIsIn
<1>7. page_address(LastOf(m, a)) <= LastCell(m, a) /\ LastCell(m, a) < page_address(LastOf(m, a)) + PageSize
  BY <1>6, PageBounds DEF LastOf
<1>8. page_address(LastOf(m, a) + 1) = page_address(LastOf(m, a)) + PageSize /\ page_address(LastOf(m, a)) \in Int
  BY <1>5, NextPage
<1>9. page_address(LastOf(m, a)) < a + m.mem[a].size /\ a + m.mem[a].size <= page_address(LastOf(m, a) + 1)
  <2> DEFINE e == page_address(LastOf(m, a))
             e1 == page_address(LastOf(m, a) + 1)
  <2>1. /\ e \in Int /\ e1 = e + PageSize /\ e <= a + m.mem[a].size - 1 /\ a + m.mem[a].size - 1 < e + PageSize
        /\ PageSize \in Nat
    BY <1>7, <1>8, Paging DEF LastCell
  <2> HIDE DEF e, e1
  <2>2. e < a + m.mem[a].size /\ a + m.mem[a].size <= e1
    BY <1>2, <2>1
  <2>3. QED
    BY <2>2 DEF e, e1
<1>10. QED
  BY <1>1, <1>2, <1>3, <1>4, <1>5, <1>9

LEMMA OwnPages ==
  ASSUME NEW m \in Heaps, HeapOK(m), NEW a, NEW u, Shrinks(m, a, u), NEW q \in PageOf(a)..LastOf(m, a)
  PROVE  /\ q \in Pages /\ m.page[q].alloc /\ m.page[q].used # 0 /\ m.page[q].large
         /\ m.page[q].gen = m.from_space /\ m.page[q].unboxed = m.page[PageOf(a)].unboxed
         /\ StartOf(m, q) = a /\ m.page[q].offset = page_address(q) - a
<1>1. PagesOK(m) /\ a \in Addr /\ m.mem[a].t = "obj" /\ m.page[PageOf(a)].large /\ m.page[PageOf(a)].gen = m.from_space
  BY DEF HeapOK, Shrinks, OldObject
<1>2. PageOf(a) \in Pages /\ LastOf(m, a) \in Pages /\ a \in Int
  BY ShrinksIs
<1>3. q \in Pages /\ q \in Int /\ PageOf(a) <= q /\ q <= LastOf(m, a)
  BY <1>2, Paging DEF Pages
<1>4. /\ m.page[q].alloc /\ m.page[q].used # 0 /\ m.page[q].large
      /\ m.page[q].gen = m.page[PageOf(a)].gen /\ m.page[q].unboxed = m.page[PageOf(a)].unboxed
      /\ m.page[q].offset = page_address(q) - a
  BY <1>1, <1>3, LargeObjectPages DEF LastOf, LastCell
<1>5. page_address(q) \in Int
  BY <1>3, Paging
<1>6. StartOf(m, q) = a
  BY <1>2, <1>4, <1>5 DEF StartOf
<1>7. QED
  BY <1>1, <1>3, <1>4, <1>6

LEMMA DroppedAre ==
  ASSUME NEW m \in Heaps, HeapOK(m), NEW a, NEW u, Shrinks(m, a, u), NEW q
  PROVE  q \in Dropped(m, a, u) <=> /\ q \in LastOf(m, a)+1..NPages-1
                                    /\ \A x \in LastOf(m, a)+1..q : CanDrop(m, a, u, x)
BY ShrinksIs DEF Dropped, ShrunkFrom, CanDrop

LEMMA MayDropIs ==
  ASSUME NEW m, NEW u, NEW q \in MayDrop(m, u)
  PROVE  /\ q \in Pages /\ m.page[q].alloc /\ m.page[q].large /\ m.page[q].gen = m.from_space
         /\ u \/ ~m.page[q].unboxed
BY DEF MayDrop, LargePages

\* The pages behind the object: they have nothing but zeroes.
LEMMA DroppedIs ==
  ASSUME NEW m \in Heaps, HeapOK(m), NEW a, NEW u, Shrinks(m, a, u), NEW q \in Dropped(m, a, u)
  PROVE  /\ q \in Pages /\ q \in Int /\ q > LastOf(m, a) /\ m.page[q].alloc /\ m.page[q].large
         /\ m.page[q].gen = m.from_space /\ (u \/ ~m.page[q].unboxed) /\ m.page[q].used # 0
         /\ StartOf(m, q) = a /\ \A b \in Addr : PageOf(b) = q => m.mem[b] = zero
<1>1. q \in LastOf(m, a)+1..NPages-1 /\ \A x \in LastOf(m, a)+1..q : CanDrop(m, a, u, x)
  BY DroppedAre
<1>2. /\ a \in Addr /\ a \in Int /\ m.mem[a].t = "obj" /\ m.mem[a].size \in Nat
      /\ PageOf(a) \in Pages /\ PageOf(a) <= LastOf(m, a)
      /\ PageOf(a) \in Int /\ LastOf(m, a) \in Int /\ a = page_address(PageOf(a))
      /\ a + m.mem[a].size <= page_address(LastOf(m, a) + 1)
  BY ShrinksIs
<1>3. q \in Int /\ q > LastOf(m, a) /\ CanDrop(m, a, u, q)
  BY <1>1, <1>2
<1>4. q \in Pages /\ m.page[q].alloc /\ m.page[q].large /\ m.page[q].gen = m.from_space /\ (u \/ ~m.page[q].unboxed)
  BY <1>3, MayDropIs DEF CanDrop
<1>5. m.page[q].used # 0
  BY <1>4, LargeIsUsed DEF HeapOK
<1>6. StartOf(m, q) = a
  <2>1. m.page[q].offset = page_address(q - PageOf(a))
    BY <1>3 DEF CanDrop
  <2>2. page_address(q) = page_address(q - PageOf(a)) + page_address(PageOf(a))
    <3>1. \A i, j, s \in Int : (i - j) * s + j * s = i * s
      OBVIOUS
    <3>2. PageSize \in Int
      BY Paging
    <3>3. QED
      BY <1>2, <1>3, <3>1, <3>2 DEF page_address
  <2>3. page_address(q) \in Int /\ page_address(q - PageOf(a)) \in Int
    BY <1>2, <1>3, Paging
  <2>4. QED
    BY <1>2, <2>1, <2>2, <2>3 DEF StartOf
<1>7. LargeAlone(m, q)
  BY <1>4 DEF HeapOK, PagesOK, LargeOK
<1>8. m.mem[a] # zero
  BY <1>2, CellsAre
<1>9. \A b \in Addr : PageOf(b) = q => m.mem[b] = zero
  <2> SUFFICES ASSUME NEW b \in Addr, PageOf(b) = q
               PROVE  m.mem[b] = zero
    OBVIOUS
  <2>1. b \in Int
    BY PageIsIn
  <2>2. page_address(q) <= b
    BY <2>1, PageBounds
  <2>3. page_address(LastOf(m, a) + 1) <= page_address(q)
    <3>1. CASE q = LastOf(m, a) + 1
      BY <1>3, <3>1, Paging
    <3>2. CASE q > LastOf(m, a) + 1
      <4>1. page_address(LastOf(m, a) + 1) + PageSize <= page_address(q)
        BY <1>2, <1>3, <3>2, Paging
      <4>2. page_address(LastOf(m, a) + 1) \in Int /\ page_address(q) \in Int /\ PageSize \in Nat
        BY <1>2, <1>3, Paging
      <4>3. QED
        BY <4>1, <4>2
    <3>3. QED
      BY <1>2, <1>3, <3>1, <3>2
  <2>4. page_address(LastOf(m, a) + 1) \in Int /\ page_address(q) \in Int
    BY <1>2, <1>3, Paging
  <2>5. b >= a + m.mem[a].size
    <3> DEFINE e == page_address(LastOf(m, a) + 1)
               f == page_address(q)
    <3>1. e \in Int /\ f \in Int /\ e <= f /\ f <= b /\ a + m.mem[a].size <= e
      BY <1>2, <2>2, <2>3, <2>4
    <3> HIDE DEF e, f
    <3>2. QED
      BY <1>2, <2>1, <3>1
  <2>6. QED
    BY <1>6, <1>7, <1>8, <2>5 DEF LargeAlone
<1>10. QED
  BY <1>3, <1>4, <1>5, <1>6, <1>9

\* They are followed by pages of other objects.
LEMMA DroppedNext ==
  ASSUME NEW m \in Heaps, HeapOK(m), NEW a, NEW u, Shrinks(m, a, u), NEW q \in Pages,
         m.page[q].alloc, m.page[q].used # 0, m.page[q].offset # 0,
         q - 1 = LastOf(m, a) \/ q - 1 \in Dropped(m, a, u)
  PROVE  q \in Dropped(m, a, u)
<1> DEFINE s == StartOf(m, q)
<1>1. /\ a \in Addr /\ a \in Int /\ PageOf(a) \in Int /\ LastOf(m, a) \in Int /\ PageOf(a) <= LastOf(m, a)
      /\ a = page_address(PageOf(a)) /\ (m.mem[a].kind = "vec" => ~m.page[PageOf(a)].unboxed)
  BY ShrinksIs
<1>2. q \in Int /\ q >= 0 /\ q <= NPages - 1 /\ NPages \in Nat /\ PageSize \in Nat
  BY Paging DEF Pages
<1>3. LinkedTo(m, q)
  BY DEF HeapOK, PagesOK, Links
<1>4. /\ q - 1 \in Pages /\ m.page[q-1].large /\ m.page[q-1].gen = m.from_space /\ (u \/ ~m.page[q-1].unboxed)
      /\ StartOf(m, q - 1) = a /\ q - 1 >= LastOf(m, a)
  <2>1. CASE q - 1 = LastOf(m, a)
    <3>1. q - 1 \in PageOf(a)..LastOf(m, a)
      BY <1>1, <2>1
    <3>2. /\ q - 1 \in Pages /\ m.page[q-1].large /\ m.page[q-1].gen = m.from_space
          /\ m.page[q-1].unboxed = m.page[PageOf(a)].unboxed /\ StartOf(m, q - 1) = a
      BY <3>1, OwnPages
    <3>3. u \/ ~m.page[PageOf(a)].unboxed
      BY <1>1 DEF Shrinks
    <3>4. QED
      BY <1>1, <2>1, <3>2, <3>3
  <2>2. CASE q - 1 \in Dropped(m, a, u)
    <3> DEFINE x == q - 1
    <3> HIDE DEF x
    <3>1. x \in Dropped(m, a, u)
      BY <2>2 DEF x
    <3>2. /\ x \in Pages /\ x \in Int /\ x > LastOf(m, a) /\ m.page[x].large
          /\ m.page[x].gen = m.from_space /\ (u \/ ~m.page[x].unboxed) /\ StartOf(m, x) = a
      BY <3>1, DroppedIs
    <3>3. x >= LastOf(m, a)
      BY <1>1, <3>2
    <3>4. QED
      BY <3>2, <3>3 DEF x
  <2>3. QED
    BY <2>1, <2>2
<1>5. /\ m.page[q-1].used = PageSize /\ m.page[q].large /\ m.page[q].gen = m.from_space
      /\ (u \/ ~m.page[q].unboxed)
  BY <1>3, <1>4 DEF LinkedTo
<1>6. q \in MayDrop(m, u)
  BY <1>5 DEF MayDrop, LargePages
<1>7. m.page[q].offset \in Nat /\ m.page[q-1].offset \in Nat
  BY <1>4, PageIs
<1>8. /\ page_address(q) \in Int /\ page_address(q - 1) = page_address(q) - PageSize
  BY <1>2, NextPage
<1>9. s \in Int /\ s < page_address(q) /\ s < page_address(q - 1) + PageSize
  BY <1>2, <1>7, <1>8 DEF StartOf
<1>10. InChain(m, q, q - 1)
  <2>1. \A x \in Pages : x <= q /\ StartOf(m, q) < page_address(x) + PageSize => InChain(m, q, x)
    BY ChainIs DEF HeapOK, PagesOK
  <2>2. QED
    BY <1>2, <1>4, <1>9, <2>1
<1>11. s = a
  <2>1. CASE s < page_address(q - 1)
    <3>1. m.page[q-1].offset = page_address(q - 1) - s
      BY <1>10, <2>1 DEF InChain
    <3>2. StartOf(m, q - 1) = page_address(q - 1) - m.page[q-1].offset
      BY DEF StartOf
    <3> HIDE DEF s
    <3>3. page_address(q - 1) \in Int
      BY <1>2, <1>8
    <3>4. QED
      BY <1>1, <1>4, <1>9, <3>1, <3>2, <3>3
  <2>2. CASE page_address(q - 1) <= s
    <3>1. LargeAlone(m, q)
      BY <1>5 DEF HeapOK, PagesOK, LargeOK
    <3>2. s = page_address(PageOf(s)) /\ m.page[PageOf(s)].offset = 0
      BY <3>1 DEF LargeAlone
    <3>3. PageOf(s) = q - 1
      BY <1>2, <1>9, <2>2, OnPage
    <3>4. s = page_address(q - 1) /\ m.page[q-1].offset = 0
      BY <3>2, <3>3
    <3>5. QED
      BY <1>4, <1>8, <3>4, <1>9 DEF StartOf
  <2>3. QED
    <3> HIDE DEF s
    <3>1. page_address(q - 1) \in Int
      BY <1>2, <1>8
    <3>2. QED
      BY <1>9, <2>1, <2>2, <3>1
<1>12. m.page[q].offset = page_address(q - PageOf(a))
  <2>1. page_address(q) = page_address(q - PageOf(a)) + page_address(PageOf(a))
    <3>1. \A i, j, t \in Int : (i - j) * t + j * t = i * t
      OBVIOUS
    <3>2. QED
      BY <1>1, <1>2, <3>1 DEF page_address
  <2>2. page_address(q - PageOf(a)) \in Int
    BY <1>1, <1>2, Paging
  <2>3. QED
    BY <1>1, <1>7, <1>8, <1>11, <2>1, <2>2 DEF StartOf
<1>13. CanDrop(m, a, u, q)
  BY <1>5, <1>6, <1>12 DEF CanDrop
<1>14. \A x \in LastOf(m, a)+1..q : CanDrop(m, a, u, x)
  <2> TAKE x \in LastOf(m, a)+1..q
  <2>1. CASE x = q
    BY <1>13, <2>1
  <2>2. CASE x # q
    <3>1. x \in LastOf(m, a)+1..q-1 /\ q - 1 # LastOf(m, a)
      BY <1>1, <1>2, <2>2
    <3>2. QED
      BY <3>1, DroppedAre
  <2>3. QED
    BY <2>1, <2>2
<1>15. q \in LastOf(m, a)+1..NPages-1
  BY <1>1, <1>2, <1>4
<1>16. QED
  BY <1>14, <1>15, DroppedAre

\* The object keeps its pages, the rest is free.
TrimmedPage(m, x, a, g, q) ==
  /\ x.page[q].alloc /\ x.page[q].gen = g /\ x.page[q].unboxed = (m.mem[a].kind = "bytes")
  /\ x.page[q].large = m.page[q].large /\ x.page[q].offset = m.page[q].offset
  /\ x.page[q].pinned = m.page[q].pinned /\ (x.page[q].wp => m.page[q].wp)
  /\ x.page[q].used = UsedBelow(a + m.mem[a].size, q)
DroppedPage(m, x, q) ==
  /\ ~x.page[q].alloc /\ x.page[q].used = 0 /\ x.page[q].gen = m.page[q].gen
  /\ x.page[q].large = m.page[q].large /\ x.page[q].offset = m.page[q].offset
  /\ x.page[q].pinned = m.page[q].pinned /\ x.page[q].wp = m.page[q].wp
TrimPage(m, x, a, u, g, q) ==
  /\ q \in PageOf(a)..LastOf(m, a) => TrimmedPage(m, x, a, g, q)
  /\ q \in Dropped(m, a, u) => DroppedPage(m, x, q)
  /\ q \notin PageOf(a)..LastOf(m, a) /\ q \notin Dropped(m, a, u) => x.page[q] = m.page[q]
Trims(m, x, a, u, g) ==
  /\ x.mem = m.mem /\ x.region = m.region /\ x.last_free_page = m.last_free_page
  /\ SameWork(m, x) /\ x.new_areas = m.new_areas
  /\ g = m.from_space \/ g = m.new_space
  /\ \A q \in Pages : TrimPage(m, x, a, u, g, q)

LEMMA TrimIs ==
  ASSUME NEW m \in Heaps, HeapOK(m), NEW a, NEW u, Shrinks(m, a, u), NEW x \in Heaps, NEW g, Trims(m, x, a, u, g),
         NEW q \in Pages
  PROVE  /\ x.page[q].large = m.page[q].large /\ x.page[q].offset = m.page[q].offset
         /\ x.page[q].pinned = m.page[q].pinned /\ (x.page[q].wp => m.page[q].wp)
         /\ x.page[q].alloc => m.page[q].alloc
         /\ x.page[q] # m.page[q] => m.page[q].large /\ m.page[q].gen = m.from_space /\ m.page[q].alloc
         /\ x.page[q].gen = m.page[q].gen \/ x.page[q].gen = g
         /\ \/ q \in PageOf(a)..LastOf(m, a) /\ q \notin Dropped(m, a, u)
            \/ q \in Dropped(m, a, u) /\ q \notin PageOf(a)..LastOf(m, a)
            \/ q \notin PageOf(a)..LastOf(m, a) /\ q \notin Dropped(m, a, u) /\ x.page[q] = m.page[q]
<1>1. TrimPage(m, x, a, u, g, q)
  BY DEF Trims
<1>2. q \in PageOf(a)..LastOf(m, a) => q \notin Dropped(m, a, u)
  <2>1. PageOf(a) \in Int /\ LastOf(m, a) \in Int
    BY ShrinksIs
  <2>2. q \in Dropped(m, a, u) => q \in Int /\ q > LastOf(m, a)
    BY DroppedIs
  <2>3. QED
    BY <2>1, <2>2
<1>3. CASE q \in PageOf(a)..LastOf(m, a)
  <2>1. m.page[q].alloc /\ m.page[q].large /\ m.page[q].gen = m.from_space
    BY <1>3, OwnPages
  <2>2. TrimmedPage(m, x, a, g, q)
    BY <1>1, <1>3 DEF TrimPage
  <2>3. QED
    BY <1>2, <1>3, <2>1, <2>2 DEF TrimmedPage
<1>4. CASE q \in Dropped(m, a, u)
  <2>1. m.page[q].alloc /\ m.page[q].large /\ m.page[q].gen = m.from_space
    BY <1>4, DroppedIs
  <2>2. DroppedPage(m, x, q)
    BY <1>1, <1>4 DEF TrimPage
  <2>3. QED
    BY <1>2, <1>4, <2>1, <2>2 DEF DroppedPage
<1>5. CASE q \notin PageOf(a)..LastOf(m, a) /\ q \notin Dropped(m, a, u)
  <2>1. x.page[q] = m.page[q]
    BY <1>1, <1>5 DEF TrimPage
  <2>2. QED
    BY <1>5, <2>1
<1>6. QED
  BY <1>3, <1>4, <1>5

LEMMA TrimOwn ==
  ASSUME NEW m \in Heaps, HeapOK(m), NEW a, NEW u, Shrinks(m, a, u), NEW x \in Heaps, NEW g, Trims(m, x, a, u, g),
         NEW q \in PageOf(a)..LastOf(m, a)
  PROVE  /\ x.page[q].alloc /\ x.page[q].gen = g /\ x.page[q].unboxed = (m.mem[a].kind = "bytes")
         /\ x.page[q].used = UsedBelow(a + m.mem[a].size, q) /\ x.page[q].used # 0
         /\ q < LastOf(m, a) => x.page[q].used = PageSize
         /\ UsedBelow(a, q) = 0 /\ UsedBelow(a + m.mem[a].size, q) \in Int
<1> DEFINE e == a + m.mem[a].size
           l == LastOf(m, a)
           p == PageOf(a)
<1>1. q \in Pages
  BY OwnPages
<1>2. TrimPage(m, x, a, u, g, q)
  BY <1>1 DEF Trims
<1>3. TrimmedPage(m, x, a, g, q)
  BY <1>2 DEF TrimPage
<1>4. Spans(p, l, a, e) /\ p \in Int /\ l \in Int /\ q \in Int
  <2>1. /\ a \in Int /\ m.mem[a].size \in Nat /\ m.mem[a].size >= 1 /\ p \in Int /\ l \in Int /\ p <= l
        /\ a = page_address(p) /\ page_address(l) < e /\ e <= page_address(l + 1)
    BY ShrinksIs
  <2>2. PageSize \in Nat /\ PageSize >= 1
    BY Paging
  <2>3. a < e /\ e \in Int /\ a < a + PageSize
    BY <2>1, <2>2
  <2>4. QED
    BY <2>1, <2>3 DEF Spans
<1> HIDE DEF p, l, e
<1>5. SpanPart(p, l, a, e, q)
  BY <1>4, SpanSizes
<1>6. q \in p..l
  BY DEF p, l
<1>7. a = page_address(p) /\ a \in Int
  BY ShrinksIs DEF p
<1>8. UsedBelow(a, q) = 0 /\ UsedBelow(e, q) \in Int /\ UsedBelow(e, q) > 0 /\ (q < l => UsedBelow(e, q) = PageSize)
  <2>1. q \in p+1..l \/ q = p
    BY <1>4, <1>6
  <2>2. UsedBelow(a, q) = 0
    BY <1>5, <1>7, <2>1 DEF SpanPart
  <2>3. q < l => q \in p..l-1
    BY <1>4, <1>6
  <2>4. QED
    BY <1>5, <1>6, <2>2, <2>3 DEF SpanPart
<1>9. QED
  BY <1>3, <1>8 DEF TrimmedPage, e, l

LEMMA TrimDropped ==
  ASSUME NEW m \in Heaps, HeapOK(m), NEW a, NEW u, Shrinks(m, a, u), NEW x \in Heaps, NEW g, Trims(m, x, a, u, g),
         NEW q \in Dropped(m, a, u)
  PROVE  q \in Pages /\ ~x.page[q].alloc /\ x.page[q].used = 0 /\ x.page[q].gen = m.from_space
<1>1. q \in Pages /\ m.page[q].gen = m.from_space
  BY DroppedIs
<1>2. TrimPage(m, x, a, u, g, q)
  BY <1>1 DEF Trims
<1>3. QED
  BY <1>1, <1>2 DEF TrimPage, DroppedPage

LEMMA TrimRegions ==
  ASSUME NEW m \in Heaps, HeapOK(m), NEW a, NEW u, Shrinks(m, a, u), NEW x \in Heaps, NEW g, Trims(m, x, a, u, g)
  PROVE  RegionsOK(x)
<1> SUFFICES ASSUME NEW k \in Regions, x.region[k] # ResetRegion
             PROVE  Opened(x, k)
  BY DEF RegionsOK
<1>1. x.region = m.region /\ x.gc_alloc_generation = m.gc_alloc_generation
  BY DEF Trims, SameWork
<1>2. Opened(m, k)
  BY <1>1 DEF HeapOK, PagesOK, RegionsOK
<1>3. m.region[k].first \in Int /\ m.region[k].last \in Int /\ \A p \in m.region[k].first..m.region[k].last : p \in Pages
  BY <1>2, RegionBounds
<1>4. \A p \in m.region[k].first..m.region[k].last : x.page[p] = m.page[p]
  <2> TAKE p \in m.region[k].first..m.region[k].last
  <2>1. p \in Pages
    BY <1>3
  <2>2. ~m.page[p].large
    BY <1>2 DEF Opened
  <2>3. QED
    BY <2>1, <2>2, TrimIs
<1>5. QED
  BY <1>1, <1>2, <1>3, <1>4, OpenedKept

LEMMA TrimLinks ==
  ASSUME NEW m \in Heaps, HeapOK(m), NEW a, NEW u, Shrinks(m, a, u), NEW x \in Heaps, NEW g, Trims(m, x, a, u, g)
  PROVE  Links(x)
<1> SUFFICES ASSUME NEW q \in Pages, x.page[q].alloc, x.page[q].used # 0, x.page[q].offset # 0
             PROVE  LinkedTo(x, q)
  BY DEF Links
<1>1. PageOf(a) \in Int /\ LastOf(m, a) \in Int /\ m.page[PageOf(a)].offset = 0 /\ q \in Int
  BY ShrinksIs, Paging DEF Pages
<1>2. m.page[q].alloc /\ m.page[q].offset = x.page[q].offset /\ m.page[q].large = x.page[q].large
  BY TrimIs
<1>3. CASE q \in PageOf(a)..LastOf(m, a)
  <2>1. m.page[q].used # 0
    BY <1>3, OwnPages
  <2>2. LinkedTo(m, q)
    BY <1>2, <2>1 DEF HeapOK, PagesOK, Links
  <2>3. q - 1 \in PageOf(a)..LastOf(m, a) /\ q - 1 < LastOf(m, a)
    <3>1. q # PageOf(a)
      BY <1>1, <1>2
    <3>2. QED
      BY <1>1, <1>3, <3>1
  <2>4. q - 1 \in Pages
    BY <2>3, OwnPages
  <2>5. /\ x.page[q-1].alloc /\ x.page[q-1].gen = g /\ x.page[q-1].unboxed = (m.mem[a].kind = "bytes")
        /\ x.page[q-1].used = PageSize
    BY <2>3, TrimOwn
  <2>6. x.page[q].gen = g /\ x.page[q].unboxed = (m.mem[a].kind = "bytes")
    BY <1>3, TrimOwn
  <2>7. x.page[q-1].offset = m.page[q-1].offset /\ x.page[q-1].large = m.page[q-1].large
    BY <2>4, TrimIs
  <2>8. /\ q # 0 /\ m.page[q-1].large = m.page[q].large
        /\ m.page[q].offset > PageSize => m.page[q-1].offset = m.page[q].offset - PageSize
    BY <2>2 DEF LinkedTo
  <2>9. x.page[q-1].unboxed = x.page[q].unboxed
    BY <2>5, <2>6
  <2>10. QED
    BY <1>2, <2>5, <2>6, <2>7, <2>8, <2>9 DEF LinkedTo
<1>4. CASE q \notin PageOf(a)..LastOf(m, a)
  <2>1. q \notin Dropped(m, a, u)
    BY TrimDropped
  <2>2. x.page[q] = m.page[q]
    BY <1>4, <2>1, TrimIs
  <2>3. LinkedTo(m, q)
    BY <2>2 DEF HeapOK, PagesOK, Links
  <2>4. q # 0
    BY <2>3 DEF LinkedTo
  <2>5. q - 1 \in Pages
    BY <2>4, Paging DEF Pages
  <2>6. q - 1 # LastOf(m, a) /\ q - 1 \notin Dropped(m, a, u)
    BY <2>1, <2>2, DroppedNext
  <2>7. q - 1 \notin PageOf(a)..LastOf(m, a)
    BY <1>1, <1>4, <2>6
  <2>8. x.page[q-1] = m.page[q-1]
    BY <2>5, <2>6, <2>7, TrimIs
  <2>9. QED
    BY <2>2, <2>3, <2>8 DEF LinkedTo
<1>5. QED
  BY <1>3, <1>4

LEMMA TrimLarge ==
  ASSUME NEW m \in Heaps, HeapOK(m), NEW a, NEW u, Shrinks(m, a, u), NEW x \in Heaps, NEW g, Trims(m, x, a, u, g)
  PROVE  LargeOK(x)
<1>0. \A q \in Pages : x.page[q].offset = m.page[q].offset /\ (x.page[q].alloc => m.page[q].alloc)
                      /\ x.page[q].large = m.page[q].large
  BY TrimIs
<1> SUFFICES ASSUME NEW q \in Pages, x.page[q].alloc, x.page[q].large
             PROVE  LargeAlone(x, q)
  BY DEF LargeOK
<1>1. m.page[q].alloc /\ m.page[q].offset = x.page[q].offset /\ m.page[q].large
  BY <1>0, Zenon
<1>2. LargeAlone(m, q)
  BY <1>1 DEF HeapOK, PagesOK, LargeOK
<1>3. StartOf(x, q) = StartOf(m, q)
  BY <1>1 DEF StartOf
<1> DEFINE s == StartOf(m, q)
<1>4. s \in Addr /\ s = page_address(PageOf(s)) /\ m.page[PageOf(s)].offset = 0
  BY <1>2 DEF LargeAlone
<1> HIDE DEF s
<1>5. PageOf(s) \in Pages
  BY <1>4, PageIsIn
<1>6. x.page[PageOf(s)].offset = 0
  BY <1>4, <1>5, TrimIs
<1>7. x.mem = m.mem
  BY DEF Trims
<1>8. CASE q \in PageOf(a)..LastOf(m, a)
  <2>1. s = a
    BY <1>8, OwnPages DEF s
  <2>2. m.mem[a].t = "obj" /\ m.mem[a].kind \in vector
    BY ShrinksIs
  <2>3. x.page[q].unboxed = (m.mem[a].kind = "bytes")
    BY <1>8, TrimOwn
  <2>4. m.mem[a].kind = "vec" => ~x.page[q].unboxed
    BY <2>3
  <2>5. m.mem[a] # zero
    BY <2>2, CellsAre
  <2>6. \A b \in Addr : PageOf(b) = q /\ b >= a + m.mem[a].size => m.mem[b] = zero
    BY <1>2, <2>1, <2>5 DEF LargeAlone, s
  <2>7. QED
    BY <1>3, <1>4, <1>6, <1>7, <2>1, <2>2, <2>4, <2>6 DEF LargeAlone, s
<1>9. CASE q \notin PageOf(a)..LastOf(m, a)
  <2>1. x.page[q] = m.page[q]
    BY <1>9, TrimIs, TrimDropped
  <2>2. \/ m.mem[s] = zero /\ \A b \in Addr : PageOf(b) = q => m.mem[b] = zero
        \/ /\ m.mem[s].t = "obj" /\ m.mem[s].kind \in vector
           /\ m.mem[s].kind = "vec" => ~m.page[q].unboxed
           /\ \A b \in Addr : PageOf(b) = q /\ b >= s + m.mem[s].size => m.mem[b] = zero
    BY <1>2 DEF LargeAlone, s
  <2>3. QED
    BY <1>3, <1>4, <1>6, <1>7, <2>1, <2>2 DEF LargeAlone, s
<1>10. QED
  BY <1>8, <1>9

LEMMA TrimRest ==
  ASSUME NEW m \in Heaps, HeapOK(m), NEW a, NEW u, Shrinks(m, a, u), NEW x \in Heaps, NEW g, Trims(m, x, a, u, g)
  PROVE  RestIsZero(x)
<1> SUFFICES ASSUME NEW b \in Addr, x.page[PageOf(b)].alloc, ~Held(x, b)
             PROVE  x.mem[b] = zero
  BY DEF RestIsZero
<1> DEFINE q == PageOf(b)
<1>1. q \in Pages /\ b \in Int /\ x.mem = m.mem /\ x.region = m.region
  BY PageIsIn DEF Trims
<1>2. m.page[q].alloc
  BY <1>1, TrimIs
<1>3. CASE q \in PageOf(a)..LastOf(m, a)
  <2>1. x.page[q].used = UsedBelow(a + m.mem[a].size, q)
    BY <1>3, TrimOwn
  <2>2. ~(b - page_address(q) < UsedBelow(a + m.mem[a].size, q))
    BY <2>1 DEF Held
  <2>3. page_address(q) <= b /\ b < page_address(q) + PageSize /\ q \in Int
    BY <1>1, PageBounds
  <2>4. /\ a \in Int /\ m.mem[a].size \in Nat /\ m.mem[a].t = "obj"
    BY ShrinksIs
  <2> HIDE DEF q
  <2>5. a + m.mem[a].size \in Int
    BY <2>4
  <2>6. ~(b < a + m.mem[a].size)
    BY <1>1, <2>2, <2>3, <2>5, CellBelow
  <2>7. b >= a + m.mem[a].size
    BY <1>1, <2>5, <2>6
  <2>8. m.page[q].large /\ StartOf(m, q) = a
    BY <1>3, OwnPages
  <2>9. LargeAlone(m, q)
    BY <1>1, <1>2, <2>8 DEF HeapOK, PagesOK, LargeOK
  <2>10. m.mem[a] # zero
    BY <2>4, CellsAre
  <2>11. m.mem[b] = zero
    <3>1. PageOf(b) = q
      BY DEF q
    <3>2. QED
      BY <2>7, <2>8, <2>9, <2>10, <3>1 DEF LargeAlone
  <2>12. QED
    BY <1>1, <2>11
<1>4. CASE q \notin PageOf(a)..LastOf(m, a)
  <2>1. x.page[q] = m.page[q]
    BY <1>1, <1>4, TrimIs, TrimDropped
  <2>2. ~Held(m, b)
    BY <1>1, <2>1 DEF Held
  <2>3. QED
    BY <1>1, <1>2, <2>2 DEF HeapOK, PagesOK, RestIsZero
<1>5. QED
  BY <1>3, <1>4

LEMMA TrimFree ==
  ASSUME NEW m \in Heaps, HeapOK(m), OldSpace(m), NEW a, NEW u, Shrinks(m, a, u),
         NEW x \in Heaps, NEW g, Trims(m, x, a, u, g)
  PROVE  FreePages(x)
<1>1. x.mem = m.mem
  BY DEF Trims
<1>2. \A q \in Pages : ~x.page[q].alloc => x.page[q].used = 0 /\ ~x.page[q].wp /\ ~x.page[q].pinned
  <2> SUFFICES ASSUME NEW q \in Pages, ~x.page[q].alloc
               PROVE  x.page[q].used = 0 /\ ~x.page[q].wp /\ ~x.page[q].pinned
    OBVIOUS
  <2>1. CASE q \in Dropped(m, a, u)
    <3>1. x.page[q].used = 0
      BY <2>1, TrimDropped
    <3>2. m.page[q].alloc /\ m.page[q].gen = m.from_space
      BY <2>1, DroppedIs
    <3>3. ~m.page[q].wp /\ ~m.page[q].pinned
      BY <3>2 DEF OldSpace
    <3>4. x.page[q].pinned = m.page[q].pinned /\ (x.page[q].wp => m.page[q].wp)
      BY TrimIs
    <3>5. QED
      BY <3>1, <3>3, <3>4
  <2>2. CASE q \notin Dropped(m, a, u)
    <3>1. q \notin PageOf(a)..LastOf(m, a)
      BY TrimOwn
    <3>2. x.page[q] = m.page[q]
      BY <2>2, <3>1, TrimIs
    <3>3. QED
      BY <3>2 DEF HeapOK, PagesOK, FreePages
  <2>3. QED
    BY <2>1, <2>2
<1>3. \A b \in Addr : ~x.page[PageOf(b)].alloc =>
          m.mem[b] \in {zero, dirty} /\ (m.mem[page_address(PageOf(b))] = zero => m.mem[b] = zero)
  <2> SUFFICES ASSUME NEW b \in Addr, ~x.page[PageOf(b)].alloc
               PROVE  m.mem[b] \in {zero, dirty} /\ (m.mem[page_address(PageOf(b))] = zero => m.mem[b] = zero)
    OBVIOUS
  <2>1. PageOf(b) \in Pages
    BY PageIsIn
  <2>2. CASE PageOf(b) \in Dropped(m, a, u)
    <3>1. m.mem[b] = zero
      BY <2>2, DroppedIs
    <3>2. QED
      BY <3>1
  <2>3. CASE PageOf(b) \notin Dropped(m, a, u)
    <3>1. PageOf(b) \notin PageOf(a)..LastOf(m, a)
      BY TrimOwn
    <3>2. x.page[PageOf(b)] = m.page[PageOf(b)]
      BY <2>1, <2>3, <3>1, TrimIs
    <3>3. QED
      BY <3>2 DEF HeapOK, PagesOK, FreePages
  <2>4. QED
    BY <2>2, <2>3
<1>4. QED
  BY <1>1, <1>2, <1>3 DEF FreePages

LEMMA TrimPages ==
  ASSUME NEW m \in Heaps, HeapOK(m), OldSpace(m), NEW a, NEW u, Shrinks(m, a, u),
         NEW x \in Heaps, NEW g, Trims(m, x, a, u, g)
  PROVE  PagesOK(x)
<1>1. x.mem = m.mem /\ x.region = m.region /\ x.last_free_page = m.last_free_page
  BY DEF Trims
<1>2. EmptyInRegion(x)
  <2> SUFFICES ASSUME NEW q \in Pages, x.page[q].alloc, x.page[q].used = 0
               PROVE  \E k \in Regions : q \in x.region[k].first..x.region[k].last
    BY DEF EmptyInRegion
  <2>1. q \notin PageOf(a)..LastOf(m, a) /\ q \notin Dropped(m, a, u)
    BY TrimOwn, TrimDropped
  <2>2. x.page[q] = m.page[q]
    BY <2>1, TrimIs
  <2>3. QED
    BY <1>1, <2>2 DEF HeapOK, PagesOK, EmptyInRegion
<1>3. AllBelow(x)
  BY <1>1, TrimIs DEF HeapOK, PagesOK, AllBelow
<1>4. Bodies(x)
  <2> SUFFICES ASSUME NEW b \in Addr, x.mem[b].t = "obj"
               PROVE  Whole(x, b)
    BY DEF Bodies
  <2>1. Whole(m, b) /\ m.mem[b].t = "obj"
    BY <1>1 DEF HeapOK, PagesOK, Bodies
  <2>2. /\ PageOf(b) \in Pages /\ PageOf(b + m.mem[b].size - 1) \in Pages
    BY <2>1, ObjectEnd DEF HeapOK
  <2>3. \A y \in PageOf(b)+1..PageOf(b+m.mem[b].size-1) : x.page[y].offset = m.page[y].offset
    <3> TAKE y \in PageOf(b)+1..PageOf(b+m.mem[b].size-1)
    <3>1. y \in Pages
      BY <2>2, Paging DEF Pages
    <3>2. QED
      BY <3>1, TrimIs
  <2>4. QED
    BY <1>1, <2>1, <2>3 DEF Whole
<1>5. QED
  BY <1>2, <1>3, <1>4, TrimRegions, TrimLinks, TrimLarge, TrimRest, TrimFree DEF PagesOK

\* The counters of the generations.
InGens(m, g) == {p \in Pages : InGen(m, p, g)}
Block(m, a, u) == (PageOf(a)..LastOf(m, a)) \union Dropped(m, a, u)
EndOf(m, a) == a + m.mem[a].size

LEMMA OnIs ==
  ASSUME NEW m \in Heaps, NEW g, NEW q \in Pages
  PROVE  /\ m.page[q].alloc /\ m.page[q].gen = g => On(m, InGens(m, g), q) = m.page[q].used
         /\ ~m.page[q].alloc \/ m.page[q].gen # g => On(m, InGens(m, g), q) = 0
<1>1. q \in InGens(m, g) <=> m.page[q].alloc /\ m.page[q].used # 0 /\ m.page[q].gen = g
  BY DEF InGens, InGen
<1>2. QED
  BY <1>1 DEF On

LEMMA TrimOn ==
  ASSUME NEW m \in Heaps, HeapOK(m), NEW a, NEW u, Shrinks(m, a, u), NEW x \in Heaps, NEW g, Trims(m, x, a, u, g),
         NEW q \in Pages,
         NEW f, f = m.from_space, NEW d, d = UsedBelow(EndOf(m, a), q) - UsedBelow(a, q)
  PROVE  /\ UsedBelow(EndOf(m, a), q) \in Int /\ UsedBelow(a, q) \in Int
         /\ g = f => On(m, InGens(m, f), q) = On(x, InGens(x, f), q) + On(m, Block(m, a, u), q) - d
         /\ g # f => On(m, InGens(m, f), q) = On(x, InGens(x, f), q) + On(m, Block(m, a, u), q)
         /\ g # f => On(x, InGens(x, g), q) = On(m, InGens(m, g), q) + d
         /\ \A G : G # f /\ G # g => On(x, InGens(x, G), q) = On(m, InGens(m, G), q)
<1> DEFINE e == EndOf(m, a)
           B == Block(m, a, u)
           v == m.page[q].used
           w == x.page[q].used
<1>1. /\ a \in Int /\ m.mem[a].size \in Nat /\ m.mem[a].size >= 1 /\ PageOf(a) \in Int /\ LastOf(m, a) \in Int
      /\ PageOf(a) <= LastOf(m, a) /\ a = page_address(PageOf(a))
      /\ page_address(LastOf(m, a)) < e /\ e <= page_address(LastOf(m, a) + 1) /\ e \in Int
  BY ShrinksIs DEF EndOf
<1>2. SpanPart(PageOf(a), LastOf(m, a), a, e, q)
  <2> HIDE DEF e
  <2>1. a < e /\ PageSize \in Nat /\ PageSize >= 1 /\ q \in Int
    BY <1>1, Paging DEF e, EndOf, Pages
  <2>2. Spans(PageOf(a), LastOf(m, a), a, e)
    BY <1>1, <2>1 DEF Spans
  <2>3. QED
    BY <2>1, <2>2, SpanSizes
<1> HIDE DEF e
<1>3. UsedBelow(e, q) \in Int /\ UsedBelow(a, q) \in Int /\ d \in Int
  BY <1>2 DEF SpanPart, e
<1>4. v \in Int /\ w \in Int
  BY PageIs
<1>5. q \in B => On(m, B, q) = v
  BY DEF On
<1>6. q \notin B => On(m, B, q) = 0
  BY DEF On
<1>7. CASE q \in PageOf(a)..LastOf(m, a)
  <2>1. /\ x.page[q].alloc /\ x.page[q].gen = g /\ w = UsedBelow(e, q) /\ UsedBelow(a, q) = 0
    BY <1>7, TrimOwn DEF e, EndOf
  <2>2. m.page[q].alloc /\ m.page[q].gen = f
    BY <1>7, OwnPages
  <2>3. q \in B
    BY <1>7 DEF Block
  <2>4. d = w
    BY <1>3, <2>1 DEF e
  <2> HIDE DEF B, v, w
  <2>5. On(m, InGens(m, f), q) = v /\ On(m, B, q) = v /\ (\A G : G # f => On(m, InGens(m, G), q) = 0)
    BY <1>5, <2>2, <2>3, OnIs DEF v
  <2>6. On(x, InGens(x, g), q) = w /\ (\A G : G # g => On(x, InGens(x, G), q) = 0)
    BY <2>1, OnIs DEF w
  <2>7. QED
    BY <1>3, <1>4, <2>4, <2>5, <2>6 DEF B, e
<1>8. CASE q \in Dropped(m, a, u)
  <2>1. ~x.page[q].alloc
    BY <1>8, TrimDropped
  <2>2. m.page[q].alloc /\ m.page[q].gen = f /\ q \notin PageOf(a)..LastOf(m, a)
    BY <1>1, <1>8, DroppedIs
  <2>3. q \in B
    BY <1>8 DEF Block
  <2>4. d = 0
    BY <1>2, <1>3, <2>2 DEF SpanPart, e
  <2> HIDE DEF B, v, w
  <2>5. On(m, InGens(m, f), q) = v /\ On(m, B, q) = v /\ (\A G : G # f => On(m, InGens(m, G), q) = 0)
    BY <1>5, <2>2, <2>3, OnIs DEF v
  <2>6. \A G : On(x, InGens(x, G), q) = 0
    BY <2>1, OnIs
  <2>7. QED
    BY <1>3, <1>4, <2>4, <2>5, <2>6 DEF B, e
<1>9. CASE q \notin PageOf(a)..LastOf(m, a) /\ q \notin Dropped(m, a, u)
  <2>1. x.page[q] = m.page[q]
    BY <1>9, TrimIs
  <2>2. q \notin B
    BY <1>9 DEF Block
  <2>3. d = 0
    BY <1>2, <1>3, <1>9 DEF SpanPart, e
  <2>4. \A G : On(x, InGens(x, G), q) = On(m, InGens(m, G), q)
    <3>1. \A G : q \in InGens(x, G) <=> q \in InGens(m, G)
      BY <2>1 DEF InGens, InGen
    <3>2. QED
      BY <2>1, <3>1 DEF On
  <2>5. \A G : On(m, InGens(m, G), q) \in Int
    BY <1>4 DEF On
  <2> HIDE DEF B, v, w
  <2>6. On(m, B, q) = 0
    BY <1>6, <2>2
  <2>7. QED
    BY <1>3, <2>3, <2>4, <2>5, <2>6 DEF B, e
<1>10. QED
  BY <1>7, <1>8, <1>9

LEMMA TrimSums ==
  ASSUME NEW m \in Heaps, HeapOK(m), NEW a, NEW u, Shrinks(m, a, u), NEW x \in Heaps, NEW g, Trims(m, x, a, u, g),
         NEW f, f = m.from_space
  PROVE  /\ UsedOn(m, Block(m, a, u)) \in Int
         /\ g = f => UsedOn(m, InGens(m, f)) = UsedOn(x, InGens(x, f)) + UsedOn(m, Block(m, a, u)) - m.mem[a].size
         /\ g # f => UsedOn(m, InGens(m, f)) = UsedOn(x, InGens(x, f)) + UsedOn(m, Block(m, a, u))
         /\ g # f => UsedOn(x, InGens(x, g)) = UsedOn(m, InGens(m, g)) + m.mem[a].size
         /\ \A G : G # f /\ G # g => UsedOn(x, InGens(x, G)) = UsedOn(m, InGens(m, G))
         /\ \A G : UsedOn(m, InGens(m, G)) \in Int /\ UsedOn(x, InGens(x, G)) \in Int
<1> DEFINE e == EndOf(m, a)
           n == m.mem[a].size
           B == Block(m, a, u)
<1>1. UsedAreNumbers(m) /\ UsedAreNumbers(x)
  BY UsedNumbers
<1>2. a \in Int /\ n \in Nat /\ a >= 0 /\ e = a + n
  BY ShrinksIs, PageIsIn DEF EndOf
<1>3. a \in 0..page_address(NPages) /\ e \in 0..page_address(NPages)
  <2>1. LastCell(m, a) \in Addr
    BY ObjectEnd DEF HeapOK, Shrinks, OldObject, LastCell
  <2>2. LastCell(m, a) = e - 1
    BY <1>2 DEF LastCell
  <2>3. e - 1 < page_address(NPages) /\ page_address(NPages) \in Int /\ a < page_address(NPages)
    BY <2>1, <2>2, AddrIs, ShrinksIs, ZeroIsIn
  <2>4. QED
    BY <1>2, <2>3
<1>4. \A G : UsedOn(m, InGens(m, G)) \in Int /\ UsedOn(x, InGens(x, G)) \in Int
  <2> TAKE G
  <2> DEFINE S == InGens(m, G)
             T == InGens(x, G)
  <2>1. \A p \in Pages : On(m, S, p) = On(m, S, p)
    OBVIOUS
  <2>2. \A p \in Pages : On(x, T, p) = On(x, T, p)
    OBVIOUS
  <2> HIDE DEF S, T
  <2>3. UsedOn(m, S) \in Int
    BY <1>1, <2>1, SumsSame
  <2>4. UsedOn(x, T) \in Int
    BY <1>1, <2>2, SumsSame
  <2>5. QED
    BY <2>3, <2>4 DEF S, T
<1>5. UsedOn(m, B) \in Int
  <2>1. \A p \in Pages : On(m, B, p) = On(m, B, p)
    OBVIOUS
  <2> HIDE DEF B
  <2>2. QED
    BY <1>1, <2>1, SumsSame
<1>6. \A q \in Pages :
         /\ UsedBelow(e, q) \in Int /\ UsedBelow(a, q) \in Int
         /\ g = f => On(m, InGens(m, f), q) = On(x, InGens(x, f), q) + On(m, B, q) - (UsedBelow(e, q) - UsedBelow(a, q))
         /\ g # f => On(m, InGens(m, f), q) = On(x, InGens(x, f), q) + On(m, B, q)
         /\ g # f => On(x, InGens(x, g), q) = On(m, InGens(m, g), q) + (UsedBelow(e, q) - UsedBelow(a, q))
         /\ \A G : G # f /\ G # g => On(x, InGens(x, G), q) = On(m, InGens(m, G), q)
  BY TrimOn
<1> HIDE DEF e, n, B
<1>7. \A S, q : q \in Pages => On(m, S, q) \in Int /\ On(x, S, q) \in Int
  BY PageIs DEF On
<1>8. g = f => UsedOn(m, InGens(m, f)) = UsedOn(x, InGens(x, f)) + UsedOn(m, B) - n
  <2> SUFFICES ASSUME g = f
               PROVE  UsedOn(m, InGens(m, f)) = UsedOn(x, InGens(x, f)) + UsedOn(m, B) - n
    OBVIOUS
  <2> DEFINE S == InGens(m, f)
             T == InGens(x, f)
  <2>1. Adds(x, T, m, S, m, B, e, a)
    BY <1>6, <1>7 DEF Adds
  <2>2. UsedOn(m, S) \in Int /\ UsedOn(x, T) \in Int
    BY <1>4
  <2> HIDE DEF S, T
  <2>3. UsedOn(m, S) = UsedOn(x, T) + UsedOn(m, B) + a - e
    BY <1>1, <1>3, <2>1, SumsAdd
  <2>4. UsedOn(m, S) = UsedOn(x, T) + UsedOn(m, B) - n
    BY <1>2, <1>5, <2>2, <2>3
  <2>5. QED
    BY <2>4 DEF S, T
<1>9. g # f => UsedOn(m, InGens(m, f)) = UsedOn(x, InGens(x, f)) + UsedOn(m, B)
  <2> SUFFICES ASSUME g # f
               PROVE  UsedOn(m, InGens(m, f)) = UsedOn(x, InGens(x, f)) + UsedOn(m, B)
    OBVIOUS
  <2> DEFINE S == InGens(m, f)
             T == InGens(x, f)
  <2>1. Adds(x, T, m, S, m, B, a, a)
    BY <1>6, <1>7 DEF Adds
  <2>2. UsedOn(m, S) \in Int /\ UsedOn(x, T) \in Int
    BY <1>4
  <2> HIDE DEF S, T
  <2>3. UsedOn(m, S) = UsedOn(x, T) + UsedOn(m, B) + a - a
    BY <1>1, <1>3, <2>1, SumsAdd
  <2>4. UsedOn(m, S) = UsedOn(x, T) + UsedOn(m, B)
    BY <1>2, <1>5, <2>2, <2>3
  <2>5. QED
    BY <2>4 DEF S, T
<1>10. g # f => UsedOn(x, InGens(x, g)) = UsedOn(m, InGens(m, g)) + n
  <2> SUFFICES ASSUME g # f
               PROVE  UsedOn(x, InGens(x, g)) = UsedOn(m, InGens(m, g)) + n
    OBVIOUS
  <2> DEFINE S == InGens(m, g)
             T == InGens(x, g)
             Q == {}
  <2>1. Adds(m, S, x, T, m, Q, a, e)
    <3>1. \A q : On(m, Q, q) = 0
      BY DEF On
    <3>2. QED
      BY <1>6, <1>7, <3>1 DEF Adds
  <2>2. UsedOn(m, S) \in Int /\ UsedOn(x, T) \in Int
    BY <1>4
  <2>3. UsedOn(m, Q) = 0
    BY <1>1, EmptySum
  <2> HIDE DEF S, T, Q
  <2>4. UsedOn(x, T) = UsedOn(m, S) + UsedOn(m, Q) + e - a
    BY <1>1, <1>3, <2>1, SumsAdd
  <2>5. UsedOn(x, T) = UsedOn(m, S) + n
    BY <1>2, <2>2, <2>3, <2>4
  <2>6. QED
    BY <2>5 DEF S, T
<1>11. \A G : G # f /\ G # g => UsedOn(x, InGens(x, G)) = UsedOn(m, InGens(m, G))
  <2> SUFFICES ASSUME NEW G, G # f, G # g
               PROVE  UsedOn(x, InGens(x, G)) = UsedOn(m, InGens(m, G))
    OBVIOUS
  <2> DEFINE S == InGens(m, G)
             T == InGens(x, G)
  <2>1. \A p \in Pages : On(x, T, p) = On(m, S, p)
    BY <1>6
  <2> HIDE DEF S, T
  <2>2. UsedOn(x, T) = UsedOn(m, S)
    BY <1>1, <2>1, SumsSame
  <2>3. QED
    BY <2>2 DEF S, T
<1>12. QED
  BY <1>4, <1>5, <1>8, <1>9, <1>10, <1>11 DEF n, B

\* What is counted for each generation when an object is trimmed, and moved to generation g.
Less(m, a, u, g, G) ==
  IF g = m.from_space
  THEN (IF G = m.from_space THEN UsedOn(m, Block(m, a, u)) - m.mem[a].size ELSE 0)
  ELSE IF G = m.from_space THEN UsedOn(m, Block(m, a, u)) ELSE IF G = g THEN - m.mem[a].size ELSE 0
Recounted(m, x, a, u, g) ==
  \A G \in Gen : x.generations[G].bytes_allocated = m.generations[G].bytes_allocated - Less(m, a, u, g, G)

LEMMA TrimKeeps ==
  ASSUME NEW m \in Heaps, HeapOK(m), Collecting(m), NEW a, NEW u, Shrinks(m, a, u),
         NEW x \in Heaps, NEW g, Trims(m, x, a, u, g)
  PROVE  Collecting(x) /\ Keeps(m, x)
<1>1. /\ m.from_space # m.new_space /\ m.gc_alloc_generation = m.new_space
      /\ m.new_space \in Nat /\ m.from_space \in Nat /\ m.from_space < m.new_space
  BY SpacesAre DEF Collecting
<1>2. /\ x.from_space = m.from_space /\ x.new_space = m.new_space
      /\ x.gc_alloc_generation = m.gc_alloc_generation /\ x.record_new_objects = m.record_new_objects
      /\ x.weak_pointers = m.weak_pointers /\ x.weak_hash_tables = m.weak_hash_tables
      /\ x.mem = m.mem /\ x.new_areas = m.new_areas /\ (g = m.from_space \/ g = m.new_space)
  BY DEF Trims, SameWork
<1>3. \A p \in Pages :
         /\ x.page[p].alloc => m.page[p].alloc
         /\ x.page[p].wp => m.page[p].wp
         /\ x.page[p] # m.page[p] => m.page[p].gen = m.from_space /\ m.page[p].alloc
         /\ x.page[p].gen = m.page[p].gen \/ x.page[p].gen = g
  BY TrimIs
<1>4. \A p \in Pages : x.page[p].pinned = m.page[p].pinned
  BY TrimIs
<1>5. \A p \in Pages : KeptPage(m, x, p)
  <2> TAKE p \in Pages
  <2>1. CASE x.page[p] = m.page[p]
    BY <1>2, <2>1 DEF KeptPage, OlderPage, SameShape
  <2>2. CASE x.page[p] # m.page[p]
    <3>1. m.page[p].gen = m.from_space
      BY <1>3, <2>2
    <3>2. x.page[p].gen = m.from_space \/ x.page[p].gen = m.new_space
      BY <1>2, <1>3, <3>1
    <3>3. QED
      BY <1>2, <3>1, <3>2 DEF KeptPage, OlderPage
  <2>3. QED
    BY <2>1, <2>2
<1>6. \A b \in Addr : Safe(m, b) => Safe(x, b)
  <2> SUFFICES ASSUME NEW b \in Addr, Safe(m, b)
               PROVE  Safe(x, b)
    OBVIOUS
  <2>1. x.page[PageOf(b)] = m.page[PageOf(b)]
    BY <1>3, PageIsIn DEF Safe
  <2>2. QED
    BY <1>2, <2>1 DEF Safe
<1>7. \A b \in Addr : KeptObject(m, x, b)
  BY <1>2, <1>6 DEF KeptObject
<1>8. Keeps(m, x)
  BY <1>2, <1>5, <1>7 DEF Keeps, SameSpaces
<1>9. Spaces(x)
  BY <1>2 DEF Collecting, Spaces
<1>10. OldSpace(x)
  <2> SUFFICES ASSUME NEW p \in Pages, x.page[p].alloc
               PROVE  /\ x.page[p].gen >= x.from_space
                      /\ x.page[p].gen = x.from_space => ~x.page[p].wp /\ ~x.page[p].pinned
    BY DEF OldSpace
  <2>1. /\ m.page[p].gen >= m.from_space
        /\ m.page[p].gen = m.from_space => ~m.page[p].wp /\ ~m.page[p].pinned
    BY <1>3 DEF Collecting, OldSpace
  <2>2. CASE x.page[p] = m.page[p]
    BY <1>2, <2>1, <2>2
  <2>3. CASE x.page[p] # m.page[p]
    <3>1. ~m.page[p].wp /\ ~m.page[p].pinned /\ m.page[p].gen = m.from_space
      BY <1>3, <2>1, <2>3
    <3>2. ~x.page[p].wp /\ ~x.page[p].pinned
      BY <1>3, <1>4, <3>1
    <3>3. x.page[p].gen >= x.from_space
      BY <1>1, <1>2, <1>3, <3>1
    <3>4. QED
      BY <3>2, <3>3
  <2>4. QED
    BY <2>2, <2>3
<1>11. WeakLists(x)
  BY <1>2, <1>8, KeepsLists DEF Collecting
<1>12. SafeAreas(x)
  BY <1>2, <1>6 DEF Collecting, SafeAreas, InArea, Safe
<1>13. QED
  BY <1>8, <1>9, <1>10, <1>11, <1>12 DEF Collecting

LEMMA CountersAre ==
  ASSUME NEW m
  PROVE  Counters(m) <=> \A G \in Gen : m.generations[G].bytes_allocated = UsedOn(m, InGens(m, G))
BY DEF Counters, InGens

LEMMA TrimOK ==
  ASSUME NEW m \in Heaps, HeapOK(m), Collecting(m), NEW a, NEW u, Shrinks(m, a, u),
         NEW x \in Heaps, NEW g, Trims(m, x, a, u, g), Recounted(m, x, a, u, g)
  PROVE  HeapOK(x) /\ Collecting(x) /\ Keeps(m, x)
<1>1. Collecting(x) /\ Keeps(m, x)
  BY TrimKeeps
<1>2. PagesOK(x)
  BY TrimPages DEF Collecting
<1>3. NoAreas(x)
  BY DEF HeapOK, NoAreas, Trims, SameWork
<1>4. Counters(x)
  <2> DEFINE f == m.from_space
             B == UsedOn(m, Block(m, a, u))
             n == m.mem[a].size
  <2>1. /\ B \in Int
        /\ g = f => UsedOn(m, InGens(m, f)) = UsedOn(x, InGens(x, f)) + B - n
        /\ g # f => UsedOn(m, InGens(m, f)) = UsedOn(x, InGens(x, f)) + B
        /\ g # f => UsedOn(x, InGens(x, g)) = UsedOn(m, InGens(m, g)) + n
        /\ \A G : G # f /\ G # g => UsedOn(x, InGens(x, G)) = UsedOn(m, InGens(m, G))
        /\ \A G : UsedOn(m, InGens(m, G)) \in Int /\ UsedOn(x, InGens(x, G)) \in Int
    BY TrimSums
  <2>2. n \in Nat
    BY ShrinksIs
  <2>3. \A G \in Gen : m.generations[G].bytes_allocated = UsedOn(m, InGens(m, G))
    BY CountersAre DEF HeapOK
  <2>4. \A G \in Gen : x.generations[G].bytes_allocated = UsedOn(m, InGens(m, G)) - Less(m, a, u, g, G)
    BY <2>3 DEF Recounted
  <2>5. \A G : /\ g = f => Less(m, a, u, g, G) = IF G = f THEN B - n ELSE 0
               /\ g # f => Less(m, a, u, g, G) = IF G = f THEN B ELSE IF G = g THEN - n ELSE 0
    BY DEF Less
  <2> HIDE DEF f, B, n
  <2> SUFFICES ASSUME NEW G \in Gen
               PROVE  x.generations[G].bytes_allocated = UsedOn(x, InGens(x, G))
    BY CountersAre
  <2> DEFINE S == UsedOn(m, InGens(m, G))
             T == UsedOn(x, InGens(x, G))
             y == x.generations[G].bytes_allocated
             d == Less(m, a, u, g, G)
  <2>6. S \in Int /\ T \in Int /\ y = S - d
    BY <2>1, <2>4
  <2>7. CASE g = f
    <3>1. G = f => S = T + B - n /\ d = B - n
      BY <2>1, <2>5, <2>7
    <3>2. G # f => S = T /\ d = 0
      BY <2>1, <2>5, <2>7
    <3> HIDE DEF S, T, y, d
    <3>3. y = T
      BY <2>1, <2>2, <2>6, <3>1, <3>2
    <3>4. QED
      BY <3>3 DEF y, T
  <2>8. CASE g # f
    <3>1. G = f => S = T + B /\ d = B
      BY <2>1, <2>5, <2>8
    <3>2. G = g => T = S + n /\ d = - n
      BY <2>1, <2>5, <2>8
    <3>3. G # f /\ G # g => S = T /\ d = 0
      BY <2>1, <2>5, <2>8
    <3> HIDE DEF S, T, y, d
    <3>4. y = T
      <4>1. CASE G = f
        BY <2>1, <2>6, <3>1, <4>1
      <4>2. CASE G = g
        BY <2>2, <2>6, <3>2, <4>2
      <4>3. CASE G # f /\ G # g
        BY <2>6, <3>3, <4>3
      <4>4. QED
        BY <4>1, <4>2, <4>3
    <3>5. QED
      BY <3>4 DEF y, T
  <2>9. QED
    BY <2>7, <2>8
<1>5. QED
  BY <1>1, <1>2, <1>3, <1>4 DEF HeapOK

SetBytes(gs, g, v) == [gs EXCEPT ![g].bytes_allocated = v]

LEMMA SetBytesIs ==
  ASSUME NEW gs \in [Gen -> Generation], NEW g \in Gen, NEW v \in Int, NEW y, y = SetBytes(gs, g, v)
  PROVE  /\ y \in [Gen -> Generation] /\ y[g].bytes_allocated = v
         /\ \A G \in Gen : G # g => y[G] = gs[G]
<1> DEFINE w == [gs[g] EXCEPT !.bytes_allocated = v]
<1>1. w \in Generation /\ w.bytes_allocated = v
  BY DEF Generation
<1>2. y = [gs EXCEPT ![g] = w]
  BY DEF SetBytes
<1> HIDE DEF w
<1>3. QED
  BY <1>1, <1>2

\* maybe_adjust_large_object.
LEMMA AdjustIs ==
  ASSUME NEW m \in Heaps, HeapOK(m), Collecting(m), NEW a, NEW u, u = TRUE, Shrinks(m, a, u),
         NEW x, x = maybe_adjust_large_object(m, a)
  PROVE  x \in Heaps /\ Trims(m, x, a, u, m.from_space) /\ Recounted(m, x, a, u, m.from_space)
<1> DEFINE n == m.mem[a].size
           p == PageOf(a)
           l == LastOf(m, a)
           free == Dropped(m, a, u)
           freed == UsedOn(m, p..l \union free) - n
           f == m.from_space
           PG == [q \in Pages |->
                    IF q \in p..l
                    THEN [m.page[q] EXCEPT !.unboxed = (m.mem[a].kind = "bytes"),
                                           !.alloc = m.page[q].alloc \/ q = l, !.used = UsedBelow(a + n, q)]
                    ELSE IF q \in free THEN [m.page[q] EXCEPT !.alloc = FALSE, !.used = 0] ELSE m.page[q]]
           b == m.generations[f].bytes_allocated
           gs == SetBytes(m.generations, f, b - freed)
<1>1. /\ m.mem[a].t = "obj" /\ m.mem[a].kind \in vector /\ LastOfLarge(p, n) = l /\ n \in Nat /\ a \in Int
      /\ p \in Int /\ l \in Int
  BY ShrinksIs
<1>2. free = ShrunkFrom(m, p, n, LargePages(m))
  <2>1. MayDrop(m, u) = LargePages(m)
    BY DEF MayDrop
  <2>2. QED
    BY <2>1 DEF Dropped
<1>3. freed = UsedOn(m, Block(m, a, u)) - n
  BY DEF Block
<1>4. x = [m EXCEPT !.page = PG, !.generations = gs]
  <2> HIDE DEF free
  <2>1. x = Adjusted(m, a, n, l, free)
    BY <1>1, <1>2 DEF maybe_adjust_large_object
  <2>2. x = [m EXCEPT !.page = PG, !.generations[f].bytes_allocated = @ - freed]
    BY <2>1 DEF Adjusted
  <2> HIDE DEF PG, freed
  <2>3. QED
    BY <2>2 DEF SetBytes, Heaps
<1>5. f \in Gen /\ m.generations \in [Gen -> Generation] /\ b \in Int
  <2>1. f \in Gen
    BY SpacesAre DEF Collecting
  <2>2. m.generations \in [Gen -> Generation]
    BY DEF Heaps
  <2>3. QED
    BY <2>1, <2>2 DEF Generation
<1>6. freed \in Int
  <2>1. UsedAreNumbers(m)
    BY UsedNumbers
  <2> DEFINE B == Block(m, a, u)
  <2>2. \A q \in Pages : On(m, B, q) = On(m, B, q)
    OBVIOUS
  <2> HIDE DEF B
  <2>3. UsedOn(m, B) \in Int
    BY <2>1, <2>2, SumsSame
  <2> DEFINE v == UsedOn(m, B)
  <2>4. freed = v - n
    BY <1>3 DEF B
  <2> HIDE DEF freed, n, v
  <2>5. v \in Int
    BY <2>3 DEF v
  <2>6. QED
    BY <1>1, <2>4, <2>5
<1>7. \A q \in Pages : PG[q] \in Page /\
         /\ q \in p..l => /\ PG[q].alloc /\ PG[q].unboxed = (m.mem[a].kind = "bytes") /\ PG[q].gen = m.page[q].gen
                          /\ PG[q].large = m.page[q].large /\ PG[q].offset = m.page[q].offset
                          /\ PG[q].pinned = m.page[q].pinned /\ PG[q].wp = m.page[q].wp
                          /\ PG[q].used = UsedBelow(a + n, q)
         /\ q \notin p..l /\ q \in free =>
                          /\ ~PG[q].alloc /\ PG[q].used = 0 /\ PG[q].gen = m.page[q].gen
                          /\ PG[q].large = m.page[q].large /\ PG[q].offset = m.page[q].offset
                          /\ PG[q].pinned = m.page[q].pinned /\ PG[q].wp = m.page[q].wp
         /\ q \notin p..l /\ q \notin free => PG[q] = m.page[q]
  <2> SUFFICES ASSUME NEW q \in Pages
               PROVE  PG[q] \in Page /\
         /\ q \in p..l => /\ PG[q].alloc /\ PG[q].unboxed = (m.mem[a].kind = "bytes") /\ PG[q].gen = m.page[q].gen
                          /\ PG[q].large = m.page[q].large /\ PG[q].offset = m.page[q].offset
                          /\ PG[q].pinned = m.page[q].pinned /\ PG[q].wp = m.page[q].wp
                          /\ PG[q].used = UsedBelow(a + n, q)
         /\ q \notin p..l /\ q \in free =>
                          /\ ~PG[q].alloc /\ PG[q].used = 0 /\ PG[q].gen = m.page[q].gen
                          /\ PG[q].large = m.page[q].large /\ PG[q].offset = m.page[q].offset
                          /\ PG[q].pinned = m.page[q].pinned /\ PG[q].wp = m.page[q].wp
         /\ q \notin p..l /\ q \notin free => PG[q] = m.page[q]
    OBVIOUS
  <2>1. PG[q] = IF q \in p..l
                THEN [m.page[q] EXCEPT !.unboxed = (m.mem[a].kind = "bytes"),
                                       !.alloc = m.page[q].alloc \/ q = l, !.used = UsedBelow(a + n, q)]
                ELSE IF q \in free THEN [m.page[q] EXCEPT !.alloc = FALSE, !.used = 0] ELSE m.page[q]
    OBVIOUS
  <2>2. m.page[q] \in Page
    BY PageIs
  <2>3. CASE q \in p..l
    <3>1. m.page[q].alloc
      BY <2>3, OwnPages
    <3> DEFINE ub == (m.mem[a].kind = "bytes")
               v == UsedBelow(a + n, q)
               al == m.page[q].alloc \/ q = l
               w == [m.page[q] EXCEPT !.unboxed = ub, !.alloc = al, !.used = v]
    <3>2. v \in 0..PageSize
      <4>1. a + n \in Int /\ q \in Int
        BY <1>1, Paging DEF Pages
      <4>2. QED
        BY <4>1, UsedBelowIs
    <3>3. PG[q] = w
      BY <2>1, <2>3
    <3>4. ub \in BOOLEAN /\ al = u
      BY <3>1
    <3> HIDE DEF ub, v, al, p, l, n, free, PG
    <3>5. w \in Page
      BY <2>2, <3>2, <3>4 DEF Page
    <3>6. /\ w.alloc /\ w.unboxed = ub /\ w.gen = m.page[q].gen
          /\ w.large = m.page[q].large /\ w.offset = m.page[q].offset
          /\ w.pinned = m.page[q].pinned /\ w.wp = m.page[q].wp /\ w.used = v
      BY <2>2, <3>4 DEF Page
    <3>7. QED
      BY <2>3, <3>3, <3>5, <3>6 DEF ub, v, n
  <2>4. CASE q \notin p..l /\ q \in free
    <3> DEFINE w == [m.page[q] EXCEPT !.alloc = FALSE, !.used = 0]
    <3>1. PG[q] = w
      BY <2>1, <2>4
    <3>2. 0 \in 0..PageSize
      BY Paging
    <3> HIDE DEF p, l, n, free, PG
    <3>3. w \in Page
      BY <2>2, <3>2 DEF Page
    <3>4. /\ ~w.alloc /\ w.used = 0 /\ w.gen = m.page[q].gen
          /\ w.large = m.page[q].large /\ w.offset = m.page[q].offset
          /\ w.pinned = m.page[q].pinned /\ w.wp = m.page[q].wp
      BY <2>2 DEF Page
    <3>5. QED
      BY <2>4, <3>1, <3>3, <3>4
  <2>5. CASE q \notin p..l /\ q \notin free
    <3>1. PG[q] = m.page[q]
      BY <2>1, <2>5
    <3> HIDE DEF PG, p, l, free
    <3>2. QED
      BY <2>2, <2>5, <3>1
  <2>6. QED
    BY <2>3, <2>4, <2>5
<1>8. PG \in [Pages -> Page]
  <2>1. \A q \in Pages : PG[q] \in Page
    BY <1>7
  <2>2. PG = [q \in Pages |-> PG[q]]
    OBVIOUS
  <2> HIDE DEF PG
  <2>3. QED
    BY <2>1, <2>2
<1> HIDE DEF PG, free, freed
<1>9. gs \in [Gen -> Generation] /\ gs[f].bytes_allocated = b - freed /\ \A G \in Gen : G # f => gs[G] = m.generations[G]
  BY <1>5, <1>6, SetBytesIs
<1> HIDE DEF gs
<1>10. x \in Heaps
  BY <1>4, <1>8, <1>9 DEF Heaps
<1>11. /\ x.page = PG /\ x.generations = gs /\ x.mem = m.mem /\ x.region = m.region
       /\ x.last_free_page = m.last_free_page /\ x.new_areas = m.new_areas
  BY <1>4 DEF Heaps
<1>12. SameWork(m, x)
  BY <1>4 DEF Heaps, SameWork
<1>13. \A q \in Pages : TrimPage(m, x, a, u, f, q)
  <2> TAKE q \in Pages
  <2>1. q \in p..l => m.page[q].gen = f
    BY OwnPages
  <2>2. q \in free => q \notin p..l
    <3>1. q \in free => q \in Int /\ q > LastOf(m, a)
      BY DroppedIs DEF free
    <3>2. QED
      BY <1>1, <3>1
  <2>3. /\ q \in p..l => TrimmedPage(m, x, a, f, q)
        /\ q \in free => DroppedPage(m, x, q)
        /\ q \notin p..l /\ q \notin free => x.page[q] = m.page[q]
    BY <1>7, <1>11, <2>1, <2>2 DEF TrimmedPage, DroppedPage
  <2>4. QED
    BY <2>3 DEF TrimPage, free
<1>14. Trims(m, x, a, u, f)
  BY <1>11, <1>12, <1>13 DEF Trims
<1>15. Recounted(m, x, a, u, f)
  <2> SUFFICES ASSUME NEW G \in Gen
               PROVE  x.generations[G].bytes_allocated = m.generations[G].bytes_allocated - Less(m, a, u, f, G)
    BY DEF Recounted
  <2>1. Less(m, a, u, f, G) = IF G = f THEN freed ELSE 0
    BY <1>3 DEF Less
  <2>2. m.generations[G].bytes_allocated \in Int
    BY <1>5 DEF Generation
  <2>3. x.generations[G] = gs[G]
    BY <1>11
  <2>4. CASE G = f
    BY <1>9, <2>1, <2>3, <2>4
  <2>5. CASE G # f
    <3>1. x.generations[G].bytes_allocated = m.generations[G].bytes_allocated
      BY <1>9, <2>3, <2>5
    <3>2. Less(m, a, u, f, G) = 0
      BY <2>1, <2>5
    <3>3. QED
      BY <2>2, <3>1, <3>2
  <2>6. QED
    BY <2>4, <2>5
<1>16. QED
  BY <1>10, <1>14, <1>15

LEMMA AdjustOK ==
  ASSUME NEW m \in Heaps, HeapOK(m), Collecting(m), NEW a \in Addr, m.page[PageOf(a)].large,
         m.page[PageOf(a)].gen = m.from_space,
         NEW x, x = maybe_adjust_large_object(m, a)
  PROVE  x \in Heaps /\ HeapOK(x) /\ Collecting(x) /\ Keeps(m, x)
<1>1. CASE m.mem[a].t = "obj" /\ m.mem[a].kind \in vector
  <2> DEFINE u == TRUE
  <2>0. u = TRUE
    OBVIOUS
  <2>1. Shrinks(m, a, u)
    BY <1>1 DEF Shrinks, OldObject
  <2> HIDE DEF u
  <2>2. x \in Heaps /\ Trims(m, x, a, u, m.from_space) /\ Recounted(m, x, a, u, m.from_space)
    BY <2>0, <2>1, AdjustIs
  <2>3. QED
    BY <2>1, <2>2, TrimOK
<1>2. CASE ~(m.mem[a].t = "obj" /\ m.mem[a].kind \in vector)
  <2>1. x = m
    BY <1>2 DEF maybe_adjust_large_object
  <2>2. QED
    BY <2>1, KeepsSelf
<1>3. QED
  BY <1>1, <1>2

\* What moves between the counters of two generations.
Recount(m, PG, f, t, n, v) ==
  [m EXCEPT !.page = PG, !.generations[f].bytes_allocated = @ - n - v, !.generations[t].bytes_allocated = @ + n]

LEMMA RecountIs ==
  ASSUME NEW m \in Heaps, NEW PG \in [Pages -> Page], NEW f \in Gen, NEW t \in Gen, f # t, NEW n \in Int, NEW v \in Int,
         NEW x, x = Recount(m, PG, f, t, n, v)
  PROVE  /\ x \in Heaps /\ x.page = PG /\ x.mem = m.mem /\ x.region = m.region
         /\ x.last_free_page = m.last_free_page /\ x.new_areas = m.new_areas /\ x.overflow = m.overflow
         /\ SameWork(m, x)
         /\ x.generations[f].bytes_allocated = m.generations[f].bytes_allocated - n - v
         /\ x.generations[t].bytes_allocated = m.generations[t].bytes_allocated + n
         /\ \A G \in Gen : G # f /\ G # t => x.generations[G] = m.generations[G]
<1>1. x.generations[f] = [m.generations[f] EXCEPT !.bytes_allocated = @ - n - v]
  BY DEF Recount, Heaps
<1>2. x.generations[t] = [m.generations[t] EXCEPT !.bytes_allocated = @ + n]
  BY DEF Recount, Heaps
<1>3. \A G \in Gen : G # f /\ G # t => x.generations[G] = m.generations[G]
  BY DEF Recount, Heaps
<1>4. x.generations = [G \in Gen |-> x.generations[G]] /\ x = [m EXCEPT !.page = PG, !.generations = x.generations]
  <2>1. x.generations = [G \in Gen |-> x.generations[G]]
    BY DEF Recount, Heaps
  <2>2. x = [m EXCEPT !.page = PG, !.generations = x.generations]
    BY DEF Recount, Heaps
  <2>3. QED
    BY <2>1, <2>2
<1> DEFINE gs == x.generations
           b == m.generations[f].bytes_allocated
           c == m.generations[t].bytes_allocated
<1>5. m.generations[f] \in Generation /\ m.generations[t] \in Generation /\ \A G \in Gen : m.generations[G] \in Generation
  BY DEF Heaps
<1>6. b \in Int /\ c \in Int
  BY <1>5 DEF Generation
<1>7. b - n - v \in Int /\ c + n \in Int
  BY <1>6
<1>8. /\ gs[f] = [m.generations[f] EXCEPT !.bytes_allocated = b - n - v]
      /\ gs[t] = [m.generations[t] EXCEPT !.bytes_allocated = c + n]
  BY <1>1, <1>2
<1>9. gs = [G \in Gen |-> gs[G]] /\ x = [m EXCEPT !.page = PG, !.generations = gs] /\ \A G \in Gen : G # f /\ G # t => gs[G] = m.generations[G]
  BY <1>3, <1>4
<1> HIDE DEF gs
<1>10. gs[f] \in Generation /\ gs[f].bytes_allocated = b - n - v
  BY <1>5, <1>7, <1>8 DEF Generation
<1>11. gs[t] \in Generation /\ gs[t].bytes_allocated = c + n
  BY <1>5, <1>7, <1>8 DEF Generation
<1>12. gs \in [Gen -> Generation]
  <2>1. \A G \in Gen : gs[G] \in Generation
    BY <1>5, <1>9, <1>10, <1>11
  <2>2. QED
    BY <1>9, <2>1
<1>13. x \in Heaps
  BY <1>9, <1>12 DEF Heaps
<1>14. /\ x.page = PG /\ x.mem = m.mem /\ x.region = m.region /\ x.generations = gs
       /\ x.last_free_page = m.last_free_page /\ x.new_areas = m.new_areas /\ x.overflow = m.overflow
  BY <1>9 DEF Heaps
<1>15. SameWork(m, x)
  BY <1>9 DEF Heaps, SameWork
<1>16. QED
  BY <1>9, <1>10, <1>11, <1>13, <1>14, <1>15

\* copy_large_object and copy_large_unboxed_object, up to the recording.
LEMMA PromotedIs ==
  ASSUME NEW m \in Heaps, HeapOK(m), Collecting(m), NEW a, NEW u, u = (m.mem[a].kind = "bytes"), Shrinks(m, a, u),
         NEW x, x = Promoted(m, a, m.mem[a].size, LastOf(m, a), Dropped(m, a, u), u)
  PROVE  /\ x \in Heaps /\ Trims(m, x, a, u, m.new_space) /\ Recounted(m, x, a, u, m.new_space)
         /\ x.overflow = m.overflow
<1> DEFINE n == m.mem[a].size
           p == PageOf(a)
           l == LastOf(m, a)
           free == Dropped(m, a, u)
           freed == UsedOn(m, p..l \union free) - n
           f == m.from_space
           t == m.new_space
           PG == [q \in Pages |->
                    IF q \in p..l
                    THEN [m.page[q] EXCEPT !.gen = t, !.unboxed = m.page[q].unboxed \/ u,
                                           !.alloc = m.page[q].alloc \/ (u /\ q = l),
                                           !.wp = m.page[q].wp /\ (u \/ q = l), !.used = UsedBelow(a + n, q)]
                    ELSE IF q \in free THEN [m.page[q] EXCEPT !.alloc = FALSE, !.used = 0] ELSE m.page[q]]
           b == m.generations[f].bytes_allocated
           c == m.generations[t].bytes_allocated
<1>1. /\ n \in Nat /\ n \in Int /\ a \in Int /\ p \in Int /\ l \in Int
      /\ m.mem[a].kind = "vec" => ~m.page[p].unboxed
  BY ShrinksIs
<1>2. u \in BOOLEAN /\ (~u => m.mem[a].kind = "vec")
  BY DEF Shrinks
<1>3. freed = UsedOn(m, Block(m, a, u)) - n
  BY DEF Block
<1>4. /\ f \in Gen /\ t \in Gen /\ f # t /\ m.generations \in [Gen -> Generation] /\ b \in Int /\ c \in Int
  <2>1. f \in Gen /\ t \in Gen /\ f # t
    BY SpacesAre DEF Collecting
  <2>2. m.generations \in [Gen -> Generation]
    BY DEF Heaps
  <2>3. QED
    BY <2>1, <2>2 DEF Generation
<1>5. freed \in Int
  <2>1. UsedOn(m, Block(m, a, u)) \in Int
    <3>1. UsedAreNumbers(m)
      BY UsedNumbers
    <3> DEFINE B == Block(m, a, u)
    <3>2. \A q \in Pages : On(m, B, q) = On(m, B, q)
      OBVIOUS
    <3> HIDE DEF B
    <3>3. UsedOn(m, B) \in Int
      BY <3>1, <3>2, SumsSame
    <3>4. QED
      BY <3>3 DEF B
  <2> DEFINE v == UsedOn(m, Block(m, a, u))
  <2>2. freed = v - n
    BY <1>3
  <2> HIDE DEF freed, n, v
  <2>3. v \in Int
    BY <2>1 DEF v
  <2>4. QED
    BY <1>1, <2>2, <2>3
<1>6. x = Recount(m, PG, f, t, n, freed)
  <2> HIDE DEF free
  <2>1. x = Promoted(m, a, n, l, free, u)
    BY DEF free
  <2>2. QED
    BY <2>1 DEF Promoted, Recount
<1>7. \A q \in Pages : PG[q] \in Page /\
         /\ q \in p..l => /\ PG[q].alloc /\ PG[q].unboxed = (m.mem[a].kind = "bytes") /\ PG[q].gen = t
                          /\ PG[q].large = m.page[q].large /\ PG[q].offset = m.page[q].offset
                          /\ PG[q].pinned = m.page[q].pinned /\ (PG[q].wp => m.page[q].wp)
                          /\ PG[q].used = UsedBelow(a + n, q)
         /\ q \notin p..l /\ q \in free =>
                          /\ ~PG[q].alloc /\ PG[q].used = 0 /\ PG[q].gen = m.page[q].gen
                          /\ PG[q].large = m.page[q].large /\ PG[q].offset = m.page[q].offset
                          /\ PG[q].pinned = m.page[q].pinned /\ PG[q].wp = m.page[q].wp
         /\ q \notin p..l /\ q \notin free => PG[q] = m.page[q]
  <2> SUFFICES ASSUME NEW q \in Pages
               PROVE  PG[q] \in Page /\
         /\ q \in p..l => /\ PG[q].alloc /\ PG[q].unboxed = (m.mem[a].kind = "bytes") /\ PG[q].gen = t
                          /\ PG[q].large = m.page[q].large /\ PG[q].offset = m.page[q].offset
                          /\ PG[q].pinned = m.page[q].pinned /\ (PG[q].wp => m.page[q].wp)
                          /\ PG[q].used = UsedBelow(a + n, q)
         /\ q \notin p..l /\ q \in free =>
                          /\ ~PG[q].alloc /\ PG[q].used = 0 /\ PG[q].gen = m.page[q].gen
                          /\ PG[q].large = m.page[q].large /\ PG[q].offset = m.page[q].offset
                          /\ PG[q].pinned = m.page[q].pinned /\ PG[q].wp = m.page[q].wp
         /\ q \notin p..l /\ q \notin free => PG[q] = m.page[q]
    OBVIOUS
  <2>2. m.page[q] \in Page /\ m.page[q].wp \in BOOLEAN
    BY PageIs
  <2>3. CASE q \in p..l
    <3>1. m.page[q].alloc /\ m.page[q].unboxed = m.page[p].unboxed
      BY <2>3, OwnPages
    <3> DEFINE ub == m.page[q].unboxed \/ u
               v == UsedBelow(a + n, q)
               al == m.page[q].alloc \/ (u /\ q = l)
               wp == m.page[q].wp /\ (u \/ q = l)
               w == [m.page[q] EXCEPT !.gen = t, !.unboxed = ub, !.alloc = al, !.wp = wp, !.used = v]
    <3>2. v \in 0..PageSize
      <4>1. a + n \in Int /\ q \in Int
        BY <1>1, Paging DEF Pages
      <4>2. QED
        BY <4>1, UsedBelowIs
    <3>3. PG[q] = w
      BY <2>3
    <3>4. ub \in BOOLEAN /\ al \in BOOLEAN /\ al /\ wp \in BOOLEAN /\ (wp => m.page[q].wp)
      BY <3>1
    <3>5. ub = (m.mem[a].kind = "bytes")
      <4>1. CASE u
        BY <4>1
      <4>2. CASE ~u
        <5>1. ~m.page[p].unboxed
          BY <4>2, <1>1, <1>2
        <5>2. QED
          BY <4>2, <3>1, <5>1
      <4>3. QED
        BY <4>1, <4>2, <1>2
    <3> HIDE DEF ub, v, al, wp, p, l, n, free, PG, t
    <3>6. w \in Page
      BY <2>2, <3>2, <3>4, <1>4 DEF Page
    <3>7. /\ w.alloc /\ w.unboxed = ub /\ w.gen = t
          /\ w.large = m.page[q].large /\ w.offset = m.page[q].offset
          /\ w.pinned = m.page[q].pinned /\ (w.wp => m.page[q].wp) /\ w.used = v
      BY <2>2, <3>4 DEF Page
    <3> HIDE DEF w
    <3>8. QED
      BY <2>3, <3>3, <3>5, <3>6, <3>7 DEF v
  <2>4. CASE q \notin p..l /\ q \in free
    <3> DEFINE w == [m.page[q] EXCEPT !.alloc = FALSE, !.used = 0]
    <3>1. PG[q] = w
      BY <2>4
    <3>2. 0 \in 0..PageSize
      BY Paging
    <3> HIDE DEF p, l, n, free, PG
    <3>3. w \in Page
      BY <2>2, <3>2 DEF Page
    <3>4. /\ ~w.alloc /\ w.used = 0 /\ w.gen = m.page[q].gen
          /\ w.large = m.page[q].large /\ w.offset = m.page[q].offset
          /\ w.pinned = m.page[q].pinned /\ w.wp = m.page[q].wp
      BY <2>2 DEF Page
    <3>5. QED
      BY <2>4, <3>1, <3>3, <3>4
  <2>5. CASE q \notin p..l /\ q \notin free
    <3>1. PG[q] = m.page[q]
      BY <2>5
    <3> HIDE DEF PG, p, l, free
    <3>2. QED
      BY <2>2, <2>5, <3>1
  <2>6. QED
    BY <2>3, <2>4, <2>5
<1>8. PG \in [Pages -> Page]
  <2>1. \A q \in Pages : PG[q] \in Page
    BY <1>7
  <2>2. PG = [q \in Pages |-> PG[q]]
    OBVIOUS
  <2> HIDE DEF PG
  <2>3. QED
    BY <2>1, <2>2
<1> HIDE DEF PG, free, freed, n, t, f
<1>13. /\ x \in Heaps /\ x.page = PG /\ x.mem = m.mem /\ x.region = m.region
       /\ x.last_free_page = m.last_free_page /\ x.new_areas = m.new_areas /\ x.overflow = m.overflow
       /\ SameWork(m, x)
       /\ x.generations[f].bytes_allocated = m.generations[f].bytes_allocated - n - freed
       /\ x.generations[t].bytes_allocated = m.generations[t].bytes_allocated + n
       /\ \A G \in Gen : G # f /\ G # t => x.generations[G] = m.generations[G]
  <2>1. PG \in [Pages -> Page] /\ f \in Gen /\ t \in Gen /\ f # t /\ n \in Int /\ freed \in Int
        /\ x = Recount(m, PG, f, t, n, freed)
    BY <1>1, <1>4, <1>5, <1>6, <1>8
  <2>2. x \in Heaps /\ x.page = PG /\ x.mem = m.mem /\ x.region = m.region
    BY <2>1, RecountIs
  <2>3. x.last_free_page = m.last_free_page /\ x.new_areas = m.new_areas /\ x.overflow = m.overflow
    BY <2>1, RecountIs
  <2>4. SameWork(m, x)
    BY <2>1, RecountIs
  <2>5. x.generations[f].bytes_allocated = m.generations[f].bytes_allocated - n - freed
    BY <2>1, RecountIs
  <2>6. x.generations[t].bytes_allocated = m.generations[t].bytes_allocated + n
    BY <2>1, RecountIs
  <2>7. \A G \in Gen : G # f /\ G # t => x.generations[G] = m.generations[G]
    BY <2>1, RecountIs
  <2>8. QED
    BY <2>2, <2>3, <2>4, <2>5, <2>6, <2>7
<1>15. \A q \in Pages : TrimPage(m, x, a, u, t, q)
  <2> TAKE q \in Pages
  <2>2. q \in free => q \notin p..l
    <3>1. q \in free => q \in Int /\ q > LastOf(m, a)
      BY DroppedIs DEF free
    <3>2. QED
      BY <1>1, <3>1
  <2>3. /\ q \in p..l => TrimmedPage(m, x, a, t, q)
        /\ q \in free => DroppedPage(m, x, q)
        /\ q \notin p..l /\ q \notin free => x.page[q] = m.page[q]
    BY <1>7, <1>13, <2>2 DEF TrimmedPage, DroppedPage, n
  <2>4. QED
    BY <2>3 DEF TrimPage, free
<1>16. Trims(m, x, a, u, t)
  BY <1>13, <1>15 DEF Trims, t
<1>17. Recounted(m, x, a, u, t)
  <2> SUFFICES ASSUME NEW G \in Gen
               PROVE  x.generations[G].bytes_allocated = m.generations[G].bytes_allocated - Less(m, a, u, t, G)
    BY DEF Recounted
  <2>1. Less(m, a, u, t, G) = IF G = f THEN freed + n ELSE IF G = t THEN -n ELSE 0
    <3> DEFINE v == UsedOn(m, Block(m, a, u))
    <3>1. v = freed + n
      <4>1. v \in Int
        <5>1. UsedAreNumbers(m)
          BY UsedNumbers
        <5> DEFINE B == Block(m, a, u)
        <5>2. \A q \in Pages : On(m, B, q) = On(m, B, q)
          OBVIOUS
        <5> HIDE DEF B
        <5>3. UsedOn(m, B) \in Int
          BY <5>1, <5>2, SumsSame
        <5>4. QED
          BY <5>3 DEF B
      <4>2. freed = v - n
        BY <1>3
      <4> HIDE DEF v
      <4>3. QED
        BY <1>1, <4>1, <4>2
    <3> HIDE DEF v
    <3>2. Less(m, a, u, t, G) = IF G = f THEN v ELSE IF G = t THEN -n ELSE 0
      BY <1>4 DEF Less, v, f, n
    <3>3. QED
      BY <3>1, <3>2
  <2>2. m.generations[G].bytes_allocated \in Int
    BY <1>4 DEF Generation
  <2>4. CASE G = f
    <3>1. x.generations[G].bytes_allocated = b - n - freed
      BY <1>13, <2>4
    <3>2. Less(m, a, u, t, G) = freed + n
      BY <2>1, <2>4
    <3>3. QED
      BY <1>1, <1>4, <1>5, <2>4, <3>1, <3>2
  <2>5. CASE G = t
    <3>1. x.generations[G].bytes_allocated = c + n
      BY <1>13, <2>5
    <3>2. Less(m, a, u, t, G) = -n
      BY <2>1, <2>5, <1>4
    <3>3. QED
      BY <1>1, <1>4, <2>5, <3>1, <3>2
  <2>6. CASE G # f /\ G # t
    <3>1. x.generations[G].bytes_allocated = m.generations[G].bytes_allocated
      BY <1>13, <2>6
    <3>2. Less(m, a, u, t, G) = 0
      BY <2>1, <2>6
    <3>3. QED
      BY <2>2, <3>1, <3>2
  <2>7. QED
    BY <2>4, <2>5, <2>6
<1>18. QED
  BY <1>13, <1>16, <1>17 DEF t

\* A large object is promoted where it is.
LEMMA PromoteLargeOK ==
  ASSUME NEW m \in Heaps, HeapOK(m), Collecting(m), NEW a, OldObject(m, a), m.page[PageOf(a)].large,
         m.mem[a].kind \in vector, NEW y, y = PromoteLarge(m, a)
  PROVE  Moves(m, y)
<1> DEFINE u == (m.mem[a].kind = "bytes")
           n == m.mem[a].size
           k == IF u THEN "unboxed" ELSE "boxed"
           x == Promoted(m, a, n, LastOf(m, a), Dropped(m, a, u), u)
<1>1. u \in BOOLEAN /\ (~u => m.mem[a].kind = "vec")
  BY DEF vector
<1>2. Shrinks(m, a, u)
  BY <1>1 DEF Shrinks
<1>3. y = Recorded([heap |-> x, at |-> a], n, k)
  <2>1. LastOfLarge(PageOf(a), n) = LastOf(m, a)
    BY <1>2, ShrinksIs
  <2>2. ShrunkFrom(m, PageOf(a), n, {q \in LargePages(m) : u \/ ~m.page[q].unboxed}) = Dropped(m, a, u)
    BY DEF Dropped, MayDrop
  <2>3. QED
    BY <2>1, <2>2 DEF PromoteLarge
<1>4. u = (m.mem[a].kind = "bytes")
  OBVIOUS
<1> HIDE DEF u
<1>5. /\ x \in Heaps /\ Trims(m, x, a, u, m.new_space) /\ Recounted(m, x, a, u, m.new_space)
  BY <1>2, <1>4, PromotedIs
<1> HIDE DEF x
<1>6. HeapOK(x) /\ Collecting(x) /\ Keeps(m, x)
  BY <1>2, <1>5, TrimOK
<1>7. a \in Addr /\ n \in Nat /\ n >= 1 /\ a \in Int
  BY <1>2, ShrinksIs
<1>8. x.gc_alloc_generation = m.new_space
  BY <1>5 DEF Trims, SameWork, Collecting, Spaces
<1>9. ASSUME NEW b \in a..a+n-1
      PROVE  b \in Addr /\ x.page[PageOf(b)].gen = x.gc_alloc_generation
  <2>1. b \in Addr /\ b \in Int
    <3>1. PagesOK(m) /\ m.mem[a].t = "obj"
      BY DEF HeapOK, OldObject
    <3>2. b \in Addr
      BY <1>7, <3>1, ObjectCells
    <3>3. QED
      BY <3>2, PageIsIn
  <2>2. a <= b /\ b <= a + n - 1 /\ a + n - 1 \in Int
    BY <1>7, <2>1
  <2> HIDE DEF n
  <2>3. PageOf(a) <= PageOf(b) /\ PageOf(b) <= PageOf(a + n - 1) /\ PageOf(a) \in Int /\ PageOf(b) \in Int /\ PageOf(a + n - 1) \in Int
    BY <1>7, <2>1, <2>2, PageOrder
  <2>4. LastOf(m, a) = PageOf(a + n - 1)
    BY DEF LastOf, LastCell, n
  <2>5. PageOf(b) \in PageOf(a)..LastOf(m, a)
    BY <2>3, <2>4
  <2> DEFINE q == PageOf(b)
  <2> HIDE DEF q
  <2>6. q \in PageOf(a)..LastOf(m, a)
    BY <2>5 DEF q
  <2>7. x.page[q].gen = m.new_space
    BY <1>2, <1>5, <2>6, TrimOwn
  <2>8. QED
    BY <2>1, <2>7, <1>8 DEF q
<1>10. y.heap \in Heaps /\ HeapOK(y.heap) /\ Grows(x, y.heap) /\ y.at = a
  <2> HIDE DEF n, k
  <2>1. QED
    BY <1>3, <1>5, <1>6, <1>7, <1>9, RecordedOK
<1> DEFINE z == y.heap
<1> HIDE DEF z
<1>11. z \in Heaps /\ HeapOK(z) /\ Grows(x, z)
  BY <1>10 DEF z
<1>12. Collecting(z) /\ Keeps(x, z)
  BY <1>5, <1>6, <1>11, GrowsKeeps
<1>13. Keeps(m, z)
  BY <1>6, <1>12, KeepsOn
<1>14. QED
  BY <1>7, <1>10, <1>11, <1>12, <1>13 DEF Moves, z

LEMMA TransportOK ==
  ASSUME NEW m \in Heaps, HeapOK(m), Collecting(m), NEW a, OldObject(m, a), NEW y, y = Transport(m, a)
  PROVE  Moves(m, y)
<1>1. CASE m.mem[a].kind \in vector /\ m.page[PageOf(a)].large
  <2>1. y = PromoteLarge(m, a)
    BY <1>1 DEF Transport
  <2>2. QED
    BY <1>1, <2>1, PromoteLargeOK
<1>2. CASE ~(m.mem[a].kind \in vector /\ m.page[PageOf(a)].large)
  <2>1. y = copy_object(m, a)
    BY <1>2 DEF Transport
  <2>2. PagesOK(m) /\ a \in Addr /\ m.mem[a].t = "obj"
    BY DEF HeapOK, OldObject
  <2>3. ~m.page[PageOf(a)].large
    <3>1. m.page[PageOf(a)].large => m.mem[a].kind \in vector
      BY <2>2, LargeObject
    <3>2. QED
      BY <1>2, <3>1
  <2>4. QED
    BY <2>1, <2>3, CopyOK
<1>3. QED
  BY <1>1, <1>2

(* Scavenging.                                                               *)

\* A later heap of the same collection.
Collects(m, x) == x \in Heaps /\ HeapOK(x) /\ Collecting(x) /\ Keeps(m, x)
Collected(m) == {x \in Heaps : Collects(m, x)}

LEMMA CollectsSelf ==
  ASSUME NEW m \in Heaps, HeapOK(m), Collecting(m)
  PROVE  Collects(m, m)
BY KeepsSelf DEF Collects

LEMMA CollectsOn ==
  ASSUME NEW m, NEW x, NEW y, Collects(m, x), Collects(x, y)
  PROVE  Collects(m, y)
BY KeepsOn DEF Collects

LEMMA ScavengeWordOK ==
  ASSUME NEW m \in Heaps, HeapOK(m), Collecting(m), NEW v \in Addr \union {NIL}, NEW r, r = ScavengeWord(m, v)
  PROVE  Collects(m, r.heap) /\ r.at \in Addr \union {NIL}
<1>0. Collects(m, m)
  BY CollectsSelf
<1>1. CASE ~from_space_p(m, v) \/ m.overflow
  <2>1. r = [heap |-> m, at |-> v]
    BY <1>1 DEF ScavengeWord
  <2>2. QED
    BY <1>0, <2>1
<1>2. CASE from_space_p(m, v) /\ ~m.overflow /\ Forwarded(m, v)
  <2>1. r = [heap |-> m, at |-> m.mem[v].to]
    BY <1>2 DEF ScavengeWord
  <2>2. v \in Addr /\ m.mem[v] \in HeapCell /\ m.mem[v].t = "fwd"
    BY <1>2 DEF from_space_p, Forwarded, Heaps
  <2>3. m.mem[v].to \in Addr
    <3> DEFINE c == m.mem[v]
    <3> HIDE DEF c
    <3>1. c \in HeapCell /\ c.t = "fwd"
      BY <2>2 DEF c
    <3>2. c.to \in Addr
      BY <3>1 DEF HeapCell, Objs
    <3>3. QED
      BY <3>2 DEF c
  <2>4. QED
    BY <1>0, <2>1, <2>3
<1>3. CASE from_space_p(m, v) /\ ~m.overflow /\ ~Forwarded(m, v) /\ m.mem[v].t # "obj"
  <2>1. r = [heap |-> m, at |-> v]
    BY <1>3 DEF ScavengeWord
  <2>2. QED
    BY <1>0, <2>1
<1>4. CASE from_space_p(m, v) /\ ~m.overflow /\ ~Forwarded(m, v) /\ m.mem[v].t = "obj"
  <2>1. r = Transport(m, v)
    BY <1>4 DEF ScavengeWord
  <2>2. OldObject(m, v)
    BY <1>4 DEF from_space_p, OldObject
  <2>3. Moves(m, r)
    BY <2>1, <2>2, TransportOK
  <2>4. QED
    BY <2>3 DEF Moves, Collects
<1>5. QED
  BY <1>1, <1>2, <1>3, <1>4

\* A reference of an object that stays where it is.
LEMMA ScavengeFieldOK ==
  ASSUME NEW m \in Heaps, HeapOK(m), Collecting(m), NEW a, NEW k, SafeObject(m, a, k), NEW i \in 1..Arity(k),
         NEW x, x = ScavengeField(m, a, i)
  PROVE  Collects(m, x)
<1> DEFINE v == m.mem[a].refs[i]
           r == ScavengeWord(m, v)
<1>1. a \in Addr /\ m.mem[a].t = "obj" /\ m.mem[a].kind = k /\ m.mem[a] \in HeapCell
  BY DEF SafeObject, Safe, Heaps
<1>2. m.mem[a].refs \in Seq(Addr \union {NIL}) /\ Len(m.mem[a].refs) = Arity(k)
  <2> DEFINE c == m.mem[a]
  <2> HIDE DEF c
  <2>1. c \in HeapCell /\ c.t = "obj" /\ c.kind = k
    BY <1>1 DEF c
  <2>2. c.refs \in Seq(Addr \union {NIL}) /\ Len(c.refs) = Arity(k)
    BY <2>1, ObjectIs
  <2>3. QED
    BY <2>2 DEF c
<1>3. v \in Addr \union {NIL}
  <2> DEFINE s == m.mem[a].refs
  <2> HIDE DEF s
  <2>1. s \in Seq(Addr \union {NIL}) /\ Len(s) = Arity(k)
    BY <1>2 DEF s
  <2>2. s[i] \in Addr \union {NIL}
    BY <2>1
  <2>3. QED
    BY <2>2 DEF s
<1>4. x = Updated(r, a, i, v)
  BY DEF ScavengeField
<1> DEFINE y == r.heap
<1> HIDE DEF v
<1>5. Collects(m, r.heap) /\ r.at \in Addr \union {NIL}
  <2> HIDE DEF r
  <2>1. QED
    BY <1>3, ScavengeWordOK DEF r
<1> HIDE DEF r
<1>6. CASE r.at = v
  BY <1>4, <1>5, <1>6 DEF Updated
<1>7. CASE r.at # v
  <2>1. x = Write(y, a, [y.mem[a] EXCEPT !.refs[i] = r.at])
    BY <1>4, <1>7 DEF Updated
  <2>2. x = Write(y, a, SetRef(y.mem[a], i, r.at))
    BY <2>1 DEF SetRef
  <2> DEFINE w == r.at
             c == y.mem[a]
             d == SetRef(c, i, w)
  <2>3. y \in Heaps /\ HeapOK(y) /\ Collecting(y) /\ Keeps(m, y) /\ Collects(m, y)
    BY <1>5 DEF Collects
  <2> HIDE DEF y, d, w
  <2>4. SafeObject(y, a, k)
    BY <2>3, KeepsObject
  <2>5. c \in HeapCell /\ c.t = "obj" /\ c.kind = k
    BY <2>3, <2>4 DEF SafeObject, Safe, Heaps
  <2> HIDE DEF c
  <2>6. c \in Objs /\ c.refs \in Seq(Addr \union {NIL}) /\ Len(c.refs) = Arity(k)
    BY <2>5, ObjectIs
  <2>7. i \in DOMAIN c.refs
    <3> DEFINE s == c.refs
    <3> HIDE DEF s
    <3>1. s \in Seq(Addr \union {NIL}) /\ Len(s) = Arity(k)
      BY <2>6 DEF s
    <3>2. i \in DOMAIN s
      BY <3>1
    <3>3. QED
      BY <3>2 DEF s
  <2>8. w \in Addr \union {NIL}
    BY <1>5 DEF w
  <2>9. d \in Objs /\ d.kind = c.kind /\ d.size = c.size
    BY <2>6, <2>7, <2>8, SetRefIs DEF d
  <2>10. x = Write(y, a, d)
    BY <2>2 DEF c, d, w
  <2>11. y.mem[a].t = "obj" /\ d.kind = y.mem[a].kind /\ d.size = y.mem[a].size
    BY <2>5, <2>9 DEF c
  <2>12. x \in Heaps /\ HeapOK(x) /\ Collecting(x) /\ Keeps(y, x)
    BY <1>1, <2>3, <2>9, <2>10, <2>11, WriteKeeps
  <2>13. QED
    BY <2>3, <2>12, CollectsOn DEF Collects
<1>8. QED
  BY <1>6, <1>7

\* Heaps that differ in their lists.
SamePlaces(m, x) == SameHeap(m, x) /\ x.from_space = m.from_space /\ x.new_space = m.new_space

LEMMA PlacesKept ==
  ASSUME NEW m, NEW x, SamePlaces(m, x)
  PROVE  /\ \A a : Safe(m, a) => Safe(x, a)
         /\ \A a, k : SafeObject(m, a, k) => SafeObject(x, a, k)
         /\ (WeakLists(m) /\ x.weak_pointers = m.weak_pointers /\ x.weak_hash_tables = m.weak_hash_tables) => WeakLists(x)
<1>1. x.page = m.page /\ x.mem = m.mem /\ x.from_space = m.from_space
  BY DEF SamePlaces, SameHeap
<1>2. \A a : Safe(m, a) => Safe(x, a)
  BY <1>1 DEF Safe
<1>3. \A a, k : SafeObject(m, a, k) => SafeObject(x, a, k)
  BY <1>1, <1>2 DEF SafeObject
<1>4. (WeakLists(m) /\ x.weak_pointers = m.weak_pointers /\ x.weak_hash_tables = m.weak_hash_tables) => WeakLists(x)
  BY <1>3 DEF WeakLists
<1>5. QED
  BY <1>2, <1>3, <1>4

FewerAreas(m, x) == \A b \in Int : InArea(x, b) => InArea(m, b)

LEMMA ListsOK ==
  ASSUME NEW m \in Heaps, HeapOK(m), Collecting(m), NEW x \in Heaps, SamePlaces(m, x), NoAreas(x), WeakLists(x),
         FewerAreas(m, x)
  PROVE  /\ HeapOK(x) /\ Collecting(x)
         /\ x.record_new_objects = m.record_new_objects => Collects(m, x)
<1>1. HeapOK(x)
  BY Carried DEF SamePlaces
<1>2. /\ x.page = m.page /\ x.mem = m.mem /\ x.from_space = m.from_space /\ x.new_space = m.new_space
      /\ x.gc_alloc_generation = m.gc_alloc_generation
  BY DEF SamePlaces, SameHeap
<1>3. Spaces(x) /\ OldSpace(x)
  BY <1>2 DEF Collecting, Spaces, OldSpace
<1>4. SafeAreas(x)
  <2>1. \A b \in Int : InArea(m, b) => Safe(m, b)
    BY DEF Collecting, SafeAreas
  <2>2. QED
    BY <2>1, PlacesKept DEF SafeAreas, FewerAreas
<1>5. Collecting(x)
  BY <1>3, <1>4 DEF Collecting
<1>6. ASSUME x.record_new_objects = m.record_new_objects PROVE Keeps(m, x)
  <2>1. SameSpaces(m, x)
    BY <1>2, <1>6 DEF SameSpaces
  <2>2. \A p \in Pages : KeptPage(m, x, p)
    BY <1>2 DEF KeptPage, OlderPage, SameShape
  <2>3. \A a \in Addr : KeptObject(m, x, a)
    BY <1>2 DEF KeptObject, Safe
  <2>4. QED
    BY <2>1, <2>2, <2>3 DEF Keeps
<1>7. QED
  BY <1>1, <1>5, <1>6 DEF Collects

\* scav_weak_pointer and scav_hash_vector put what they are given on a list.
LEMMA ListedOK ==
  ASSUME NEW m \in Heaps, HeapOK(m), Collecting(m), NEW a,
         NEW x, \/ SafeObject(m, a, "weak") /\ x = scav_weak_pointer(m, a)
                \/ SafeObject(m, a, "table") /\ x = scav_hash_vector(m, a)
  PROVE  Collects(m, x)
<1>0. a \in Addr /\ WeakLists(m)
  BY DEF SafeObject, Safe, Collecting
<1>1. CASE SafeObject(m, a, "weak") /\ x = scav_weak_pointer(m, a)
  <2> DEFINE W == m.weak_pointers \union {a}
  <2>1. x = [m EXCEPT !.weak_pointers = W]
    BY <1>1 DEF scav_weak_pointer
  <2>2. W \in SUBSET Addr
    BY <1>0 DEF Heaps
  <2>3. \A b \in W : SafeObject(m, b, "weak")
    BY <1>0, <1>1 DEF WeakLists
  <2> HIDE DEF W
  <2>4. x \in Heaps /\ x.weak_pointers = W /\ x.weak_hash_tables = m.weak_hash_tables
    BY <2>1, <2>2 DEF Heaps
  <2>5. SamePlaces(m, x) /\ x.record_new_objects = m.record_new_objects /\ x.new_areas = m.new_areas
    BY <2>1 DEF Heaps, SamePlaces, SameHeap
  <2>6. NoAreas(x) /\ FewerAreas(m, x)
    BY <2>5 DEF HeapOK, NoAreas, FewerAreas, InArea
  <2>7. WeakLists(x)
    BY <1>0, <2>3, <2>4, <2>5, PlacesKept DEF WeakLists
  <2>8. QED
    BY <2>4, <2>5, <2>6, <2>7, ListsOK
<1>2. CASE SafeObject(m, a, "table") /\ x = scav_hash_vector(m, a)
  <2>1. CASE Linked(m, a)
    <3>1. x = m
      BY <1>2, <2>1 DEF scav_hash_vector
    <3>2. QED
      BY <3>1, CollectsSelf
  <2>2. CASE ~Linked(m, a)
    <3> DEFINE s == m.weak_hash_tables
               W == <<a>> \o s
    <3>1. x = [m EXCEPT !.weak_hash_tables = W]
      BY <1>2, <2>2 DEF scav_hash_vector
    <3>2. s \in Seq(Addr)
      BY DEF Heaps
    <3>3. W \in Seq(Addr)
      BY <1>0, <3>2
    <3>4. \A i \in DOMAIN s : SafeObject(m, s[i], "table")
      BY <1>0 DEF WeakLists
    <3>5. \A i \in DOMAIN W : SafeObject(m, W[i], "table")
      <4>1. TAKE i \in DOMAIN W
      <4> HIDE DEF s
      <4>2. i \in 1..Len(s)+1 /\ (i = 1 => W[i] = a) /\ (i # 1 => i - 1 \in DOMAIN s /\ W[i] = s[i-1])
        BY <3>2, <3>3
      <4>3. QED
        BY <4>2, <3>4, <1>2
    <3> HIDE DEF W
    <3>6. x \in Heaps /\ x.weak_hash_tables = W /\ x.weak_pointers = m.weak_pointers
      BY <3>1, <3>3 DEF Heaps
    <3>7. SamePlaces(m, x) /\ x.record_new_objects = m.record_new_objects /\ x.new_areas = m.new_areas
      BY <3>1 DEF Heaps, SamePlaces, SameHeap
    <3>8. NoAreas(x) /\ FewerAreas(m, x)
      BY <3>7 DEF HeapOK, NoAreas, FewerAreas, InArea
    <3>9. WeakLists(x)
      BY <1>0, <3>5, <3>6, <3>7, PlacesKept DEF WeakLists
    <3>10. QED
      BY <3>6, <3>7, <3>8, <3>9, ListsOK
  <2>3. QED
    BY <2>1, <2>2
<1>3. QED
  BY <1>1, <1>2

LEMMA ScavengeObjectOK ==
  ASSUME NEW m \in Heaps, HeapOK(m), Collecting(m), NEW a, Safe(m, a), NEW x, x = ScavengeObject(m, a)
  PROVE  Collects(m, x)
<1>0. Collects(m, m)
  BY CollectsSelf
<1>1. CASE m.mem[a].t # "obj"
  BY <1>0, <1>1 DEF ScavengeObject
<1>2. CASE m.mem[a].t = "obj" /\ m.mem[a].kind \in {"box", "vec"}
  <2> DEFINE k == m.mem[a].kind
             i == 1
  <2>1. x = ScavengeField(m, a, i)
    BY <1>2 DEF ScavengeObject
  <2>2. SafeObject(m, a, k)
    BY <1>2 DEF SafeObject
  <2>3. i \in 1..Arity(k)
    BY <1>2 DEF Arity
  <2> HIDE DEF k, i
  <2>4. QED
    BY <2>1, <2>2, <2>3, ScavengeFieldOK
<1>3. CASE m.mem[a].t = "obj" /\ m.mem[a].kind = "weak"
  <2>1. x = scav_weak_pointer(m, a)
    BY <1>3 DEF ScavengeObject
  <2>2. SafeObject(m, a, "weak")
    BY <1>3 DEF SafeObject
  <2>3. QED
    BY <2>1, <2>2, ListedOK
<1>4. CASE m.mem[a].t = "obj" /\ m.mem[a].kind = "table"
  <2>1. x = scav_hash_vector(m, a)
    BY <1>4 DEF ScavengeObject
  <2>2. SafeObject(m, a, "table")
    BY <1>4 DEF SafeObject
  <2>3. QED
    BY <2>1, <2>2, ListedOK
<1>5. CASE m.mem[a].t = "obj" /\ m.mem[a].kind \notin {"box", "vec", "weak", "table"}
  <2>1. x = m
    BY <1>5 DEF ScavengeObject
  <2>2. QED
    BY <1>0, <2>1
<1>6. QED
  BY <1>1, <1>2, <1>3, <1>4, <1>5

LEMMA SafeLater ==
  ASSUME NEW m, NEW x, Collects(m, x), NEW a, Safe(m, a)
  PROVE  Safe(x, a)
<1>1. a \in Addr
  BY DEF Safe
<1>2. KeptObject(m, x, a)
  BY <1>1 DEF Collects, Keeps
<1>3. QED
  BY <1>2 DEF KeptObject

\* scavenge over cells that are not in the old space.
SafeRange(m, a, n) == \A b \in a..a+n-1 : Safe(m, b)

LEMMA ScavengeOK ==
  ASSUME NEW m \in Heaps, HeapOK(m), Collecting(m), NEW a \in Int, NEW n \in Nat, SafeRange(m, a, n),
         NEW y, y = scavenge(m, a, n)
  PROVE  Collects(m, y)
<1> DEFINE S == Collected(m)
<1>1. m \in S
  BY CollectsSelf DEF Collected
<1>2. \A i \in 1..n : \A x \in S : ScavengeObject(x, a + i - 1) \in S
  <2> SUFFICES ASSUME NEW i \in 1..n, NEW x \in S PROVE ScavengeObject(x, a + i - 1) \in S
    OBVIOUS
  <2> DEFINE b == a + i - 1
             z == ScavengeObject(x, b)
  <2>1. b \in a..a+n-1
    OBVIOUS
  <2>2. Collects(m, x) /\ x \in Heaps /\ HeapOK(x) /\ Collecting(x)
    BY DEF Collected, Collects
  <2>3. Safe(m, b)
    BY <2>1 DEF SafeRange
  <2> HIDE DEF b, S
  <2>4. Safe(x, b)
    BY <2>2, <2>3, SafeLater
  <2> HIDE DEF z
  <2>5. z = ScavengeObject(x, b)
    BY DEF z
  <2>6. Collects(x, z)
    BY <2>2, <2>4, <2>5, ScavengeObjectOK
  <2>7. Collects(m, z)
    BY <2>2, <2>6, CollectsOn
  <2>8. z \in Heaps
    BY <2>7 DEF Collects
  <2>9. QED
    BY <2>7, <2>8, <2>5 DEF S, Collected, b
<1> HIDE DEF S
<1>3. y \in S
  BY <1>1, <1>2, ScavengeFold
<1>4. QED
  BY <1>3 DEF S, Collected

\* The areas that were recorded.
LEMMA ScavengeAreasOK ==
  ASSUME NEW m \in Heaps, HeapOK(m), Collecting(m), NEW seq \in Seq(Area),
         \A i \in 1..Len(seq) : SafeRange(m, seq[i].start, seq[i].size),
         NEW y, y = scavenge_areas(m, seq)
  PROVE  Collects(m, y)
<1> DEFINE S == Collected(m)
           n == Len(seq)
<1>1. m \in S
  BY CollectsSelf DEF Collected
<1>2. n \in Nat /\ DOMAIN seq = 1..n /\ \A i \in 1..n : seq[i] \in Area
  OBVIOUS
<1> HIDE DEF n
<1>3. \A i \in 1..n : \A x \in S : scavenge(x, seq[i].start, seq[i].size) \in S
  <2> SUFFICES ASSUME NEW i \in 1..n, NEW x \in S PROVE scavenge(x, seq[i].start, seq[i].size) \in S
    OBVIOUS
  <2> DEFINE a == seq[i].start
             l == seq[i].size
             z == scavenge(x, a, l)
  <2>1. Collects(m, x) /\ x \in Heaps /\ HeapOK(x) /\ Collecting(x)
    BY DEF Collected, Collects
  <2>2. a \in Int /\ l \in Nat
    <3>1. seq[i] \in Area
      BY <1>2
    <3>2. a \in Addr /\ l \in Nat
      BY <3>1 DEF Area
    <3>3. QED
      BY <3>2, PageIsIn
  <2>3. SafeRange(m, a, l)
    BY DEF n
  <2> HIDE DEF a, l, S
  <2>4. SafeRange(x, a, l)
    BY <2>1, <2>3, SafeLater DEF SafeRange
  <2> HIDE DEF z
  <2>5. z = scavenge(x, a, l)
    BY DEF z
  <2>6. Collects(x, z)
    BY <2>1, <2>2, <2>4, <2>5, ScavengeOK
  <2>7. Collects(m, z)
    BY <2>1, <2>6, CollectsOn
  <2>8. z \in Heaps
    BY <2>7 DEF Collects
  <2>9. QED
    BY <2>7, <2>8, <2>5 DEF S, Collected, a, l
<1> HIDE DEF S
<1>4. y \in S
  BY <1>1, <1>2, <1>3, AreasFold
<1>5. QED
  BY <1>4 DEF S, Collected

-----------------------------------------------------------------------------
(* Weak tables and weak pointers.                                            *)
LEMMA WeakEntryOK ==
  ASSUME NEW m \in Heaps, HeapOK(m), Collecting(m), NEW a, SafeObject(m, a, "table"), NEW x, x = ScavWeakEntry(m, a)
  PROVE  Collects(m, x)
<1> DEFINE k == "table"
           i == 2
<1>1. i \in 1..Arity(k) /\ SafeObject(m, a, k)
  BY DEF Arity
<1>2. x = ScavengeField(m, a, i) \/ x = m
  BY DEF ScavWeakEntry
<1> HIDE DEF k, i
<1>3. CASE x = ScavengeField(m, a, i)
  BY <1>1, <1>3, ScavengeFieldOK
<1>4. CASE x = m
  BY <1>4, CollectsSelf
<1>5. QED
  BY <1>2, <1>3, <1>4

LEMMA SafeObjectLater ==
  ASSUME NEW m, NEW x, Collects(m, x), NEW a, NEW k, SafeObject(m, a, k)
  PROVE  SafeObject(x, a, k)
<1>1. Keeps(m, x)
  BY DEF Collects
<1>2. QED
  BY <1>1, KeepsObject

NoRefs(o) == [o EXCEPT !.refs = <<NIL, NIL>>]

LEMMA HashEntriesOK ==
  ASSUME NEW m \in Heaps, HeapOK(m), Collecting(m), NEW a, SafeObject(m, a, "table"), NEW removep,
         NEW x, x = scav_hash_entries(m, a, removep)
  PROVE  Collects(m, x)
<1> DEFINE k == "table"
           i == 1
           j == 2
           y == ScavengeField(m, a, i)
<1>1. i \in 1..Arity(k) /\ j \in 1..Arity(k) /\ SafeObject(m, a, k)
  BY DEF Arity
<1>2. \/ x = ScavengeField(y, a, j)
      \/ x = Write(m, a, [m.mem[a] EXCEPT !.refs = <<NIL, NIL>>])
      \/ x = m
  BY DEF scav_hash_entries
<1> HIDE DEF k, i, j, y
<1>3. CASE x = ScavengeField(y, a, j)
  <2>1. Collects(m, y)
    BY <1>1, ScavengeFieldOK DEF y
  <2>2. SafeObject(y, a, k) /\ y \in Heaps /\ HeapOK(y) /\ Collecting(y)
    BY <1>1, <2>1, SafeObjectLater DEF Collects
  <2>3. Collects(y, x)
    BY <1>1, <1>3, <2>2, ScavengeFieldOK
  <2>4. QED
    BY <2>1, <2>3, CollectsOn
<1>4. CASE x = Write(m, a, [m.mem[a] EXCEPT !.refs = <<NIL, NIL>>])
  <2> DEFINE c == m.mem[a]
             d == NoRefs(c)
  <2>1. a \in Addr /\ m.mem[a].t = "obj" /\ m.mem[a].kind = "table" /\ m.mem[a] \in HeapCell
    BY DEF SafeObject, Safe, Heaps
  <2>2. x = Write(m, a, d)
    BY <1>4 DEF NoRefs
  <2>3. d \in Objs /\ d.kind = c.kind /\ d.size = c.size
    <3> HIDE DEF c
    <3>1. c \in HeapCell /\ c.t = "obj" /\ c.kind = "table"
      BY <2>1 DEF c
    <3>2. c \in Objs
      BY <3>1, ObjectIs
    <3> DEFINE s == <<NIL, NIL>>
    <3>3. s \in Seq(Addr \union {NIL}) /\ Len(s) = 2
      OBVIOUS
    <3>4. d = [c EXCEPT !.refs = s]
      BY DEF NoRefs
    <3> HIDE DEF d, s
    <3>5. d \in [t : {"obj"}, id : 1..MaxObjects, kind : Kind, size : Nat, refs : Seq(Addr \union {NIL})] /\ d.kind = c.kind
          /\ d.size = c.size /\ d.refs = s
      BY <3>2, <3>3, <3>4 DEF Objs
    <3>6. Arity(d.kind) = 2
      BY <3>1, <3>5 DEF Arity
    <3>7. d.size \in 1..Size[d.kind]
      BY <3>2, <3>5 DEF Objs
    <3>8. QED
      BY <3>3, <3>5, <3>6, <3>7 DEF Objs
  <2> HIDE DEF d
  <2>4. x \in Heaps /\ HeapOK(x) /\ Collecting(x) /\ Keeps(m, x)
    BY <2>1, <2>2, <2>3, WriteKeeps
  <2>5. QED
    BY <2>4 DEF Collects
<1>5. CASE x = m
  BY <1>5, CollectsSelf
<1>6. QED
  BY <1>2, <1>3, <1>4, <1>5

\* A list of tables, and a pass over it.
Tables(m, seq) == seq \in Seq(Addr) /\ \A i \in DOMAIN seq : SafeObject(m, seq[i], "table")

LEMMA TablesAre ==
  ASSUME NEW m \in Heaps, Collecting(m)
  PROVE  Tables(m, m.weak_hash_tables)
BY DEF Heaps, Collecting, WeakLists, Tables

LEMMA TablesLater ==
  ASSUME NEW m, NEW x, Collects(m, x), NEW seq, Tables(m, seq)
  PROVE  Tables(x, seq)
BY SafeObjectLater DEF Tables

LEMMA WeakEntriesOK ==
  ASSUME NEW m \in Heaps, HeapOK(m), Collecting(m), NEW seq, Tables(m, seq), NEW y, y = ScavWeakEntries(m, seq)
  PROVE  Collects(m, y)
<1> DEFINE S == Collected(m)
           n == Len(seq)
<1>1. m \in S
  BY CollectsSelf DEF Collected
<1>2. n \in Nat /\ DOMAIN seq = 1..n
  BY DEF Tables
<1> HIDE DEF n
<1>3. \A i \in 1..n : \A x \in S : ScavWeakEntry(x, seq[i]) \in S
  <2> SUFFICES ASSUME NEW i \in 1..n, NEW x \in S PROVE ScavWeakEntry(x, seq[i]) \in S
    OBVIOUS
  <2> DEFINE a == seq[i]
             z == ScavWeakEntry(x, a)
  <2>1. Collects(m, x) /\ x \in Heaps /\ HeapOK(x) /\ Collecting(x)
    BY DEF Collected, Collects
  <2>2. SafeObject(m, a, "table")
    BY <1>2 DEF Tables
  <2> HIDE DEF a, S
  <2>3. SafeObject(x, a, "table")
    BY <2>1, <2>2, SafeObjectLater
  <2> HIDE DEF z
  <2>4. z = ScavWeakEntry(x, a)
    BY DEF z
  <2>5. Collects(x, z)
    BY <2>1, <2>3, <2>4, WeakEntryOK
  <2>6. Collects(m, z)
    BY <2>1, <2>5, CollectsOn
  <2>7. z \in Heaps
    BY <2>6 DEF Collects
  <2>8. QED
    BY <2>6, <2>7, <2>4 DEF S, Collected, a
<1> HIDE DEF S
<1>4. y \in S
  BY <1>1, <1>2, <1>3, WeakEntriesFold
<1>5. QED
  BY <1>4 DEF S, Collected

LEMMA SettledOK ==
  ASSUME NEW m \in Heaps, HeapOK(m), Collecting(m), NEW y, y = Settled(m)
  PROVE  Collects(m, y)
<1> DEFINE S == Collected(m)
           n == MaxObjects
           w == m.weak_hash_tables
           step == [i \in 1..n |-> [x \in S |-> ScavWeakEntries(x, w)]]
<1>1. m \in S
  BY CollectsSelf DEF Collected
<1>2. n \in Nat
  BY Constants
<1>3. ASSUME NEW i \in 1..n, NEW x \in S PROVE step[i][x] = ScavWeakEntries(x, w) /\ step[i][x] \in S
  <2> DEFINE z == ScavWeakEntries(x, w)
  <2>1. Collects(m, x) /\ x \in Heaps /\ HeapOK(x) /\ Collecting(x)
    BY DEF Collected, Collects
  <2>2. step[i][x] = z
    OBVIOUS
  <2>3. Tables(m, w)
    BY TablesAre
  <2> HIDE DEF S, w
  <2>4. Tables(x, w)
    BY <2>1, <2>3, TablesLater
  <2> HIDE DEF z
  <2>5. z = ScavWeakEntries(x, w)
    BY DEF z
  <2>6. Collects(x, z)
    BY <2>1, <2>4, <2>5, WeakEntriesOK
  <2>7. Collects(m, z)
    BY <2>1, <2>6, CollectsOn
  <2>8. z \in Heaps
    BY <2>7 DEF Collects
  <2>9. z \in S
    BY <2>7, <2>8 DEF S, Collected
  <2> HIDE DEF step
  <2>10. QED
    BY <2>2, <2>5, <2>9
<1> HIDE DEF step, S, n
<1>4. PICK r : r = [i \in 0..n |-> IF i = 0 THEN m ELSE step[i][r[i - 1]]] /\ Looped(n, m, step, S, r)
  BY <1>1, <1>2, <1>3, LoopExists
<1>5. r = [i \in 0..n |-> IF i = 0 THEN m ELSE ScavWeakEntries(r[i - 1], w)]
  <2>1. ASSUME NEW i \in 0..n, i # 0 PROVE step[i][r[i - 1]] = ScavWeakEntries(r[i - 1], w)
    <3>1. i \in 1..n /\ i - 1 \in 0..n
      BY <1>2, <2>1
    <3>2. r[i - 1] \in S
      BY <1>4, <3>1 DEF Looped
    <3>3. QED
      BY <1>3, <3>1, <3>2
  <2>2. QED
    BY <1>4, <2>1
<1> DEFINE round[i \in 0..MaxObjects] == IF i = 0 THEN m ELSE ScavWeakEntries(round[i - 1], m.weak_hash_tables)
<1>6. y = round[n]
  BY Zenon DEF Settled, n
<1>7. round = [i \in 0..n |-> IF i = 0 THEN m ELSE ScavWeakEntries(round[i - 1], w)]
  BY <1>5, Zenon DEF n
<1> HIDE DEF round, w
<1> DEFINE T == {i \in Nat : i <= n => round[i] \in S}
<1>8. 0 \in T
  <2>1. 0 \in 0..n
    BY <1>2
  <2>2. round[0] = m
    BY <1>7, <2>1
  <2>3. QED
    BY <1>1, <2>2
<1>9. ASSUME NEW i \in Nat, i \in T PROVE i + 1 \in T
  <2> SUFFICES ASSUME i + 1 <= n PROVE round[i + 1] \in S
    OBVIOUS
  <2>1. i + 1 \in 0..n /\ i + 1 # 0 /\ i + 1 - 1 = i /\ i + 1 \in 1..n /\ round[i] \in S
    BY <1>2, <1>9
  <2>2. round[i + 1] = ScavWeakEntries(round[i], w)
    <3> DEFINE j == i + 1
    <3>1. j \in 0..n /\ j # 0 /\ j - 1 = i
      BY <2>1
    <3> HIDE DEF j
    <3>2. round[j] = ScavWeakEntries(round[j - 1], w)
      BY <1>7, <3>1
    <3>3. QED
      BY <3>1, <3>2 DEF j
  <2>3. QED
    BY <1>3, <2>1, <2>2
<1>10. round[n] \in S
  <2> HIDE DEF T
  <2>1. Nat \subseteq T
    BY <1>8, <1>9, Induction
  <2>2. QED
    BY <1>2, <2>1 DEF T
<1>11. QED
  BY <1>6, <1>10 DEF S, Collected

LEMMA ScavTablesOK ==
  ASSUME NEW m \in Heaps, HeapOK(m), Collecting(m), NEW removep, NEW y, y = scav_tables(m, removep)
  PROVE  Collects(m, y)
<1> DEFINE S == Collected(m)
           seq == m.weak_hash_tables
           n == Len(seq)
<1>1. m \in S
  BY CollectsSelf DEF Collected
<1>2. Tables(m, seq)
  BY TablesAre
<1> HIDE DEF seq
<1>3. n \in Nat /\ DOMAIN seq = 1..n
  BY <1>2 DEF Tables
<1> HIDE DEF n
<1>4. \A i \in 1..n : \A x \in S : scav_hash_entries(x, seq[i], removep) \in S
  <2> SUFFICES ASSUME NEW i \in 1..n, NEW x \in S PROVE scav_hash_entries(x, seq[i], removep) \in S
    OBVIOUS
  <2> DEFINE a == seq[i]
             z == scav_hash_entries(x, a, removep)
  <2>1. Collects(m, x) /\ x \in Heaps /\ HeapOK(x) /\ Collecting(x)
    BY DEF Collected, Collects
  <2>2. SafeObject(m, a, "table")
    BY <1>2, <1>3 DEF Tables
  <2> HIDE DEF a, S
  <2>3. SafeObject(x, a, "table")
    BY <2>1, <2>2, SafeObjectLater
  <2> HIDE DEF z
  <2>4. z = scav_hash_entries(x, a, removep)
    BY DEF z
  <2>5. Collects(x, z)
    BY <2>1, <2>3, <2>4, HashEntriesOK
  <2>6. Collects(m, z)
    BY <2>1, <2>5, CollectsOn
  <2>7. z \in Heaps
    BY <2>6 DEF Collects
  <2>8. QED
    BY <2>6, <2>7, <2>4 DEF S, Collected, a
<1> HIDE DEF S
<1>5. seq = m.weak_hash_tables
  BY DEF seq
<1>6. y \in S
  BY <1>1, <1>3, <1>4, <1>5, TablesFold
<1>7. QED
  BY <1>6 DEF S, Collected

LEMMA ScavWeakTablesOK ==
  ASSUME NEW m \in Heaps, HeapOK(m), Collecting(m), NEW y, y = scav_weak_tables(m)
  PROVE  Collects(m, y)
<1> DEFINE x == Settled(m)
           r == FALSE
<1>1. y = scav_tables(x, r)
  BY DEF scav_weak_tables
<1> HIDE DEF x, r
<1>2. Collects(m, x)
  BY SettledOK DEF x
<1>3. x \in Heaps /\ HeapOK(x) /\ Collecting(x)
  BY <1>2 DEF Collects
<1>4. Collects(x, y)
  BY <1>1, <1>3, ScavTablesOK
<1>5. QED
  BY <1>2, <1>4, CollectsOn

LEMMA ScanWeakTablesOK ==
  ASSUME NEW m \in Heaps, HeapOK(m), Collecting(m), NEW y, y = scan_weak_tables(m)
  PROVE  Collects(m, y)
<1> DEFINE r == TRUE
           x == scav_tables(m, r)
<1>1. y = [x EXCEPT !.weak_hash_tables = << >>]
  BY DEF scan_weak_tables
<1> HIDE DEF r
<1>2. Collects(m, x)
  BY ScavTablesOK
<1> HIDE DEF x
<1>3. x \in Heaps /\ HeapOK(x) /\ Collecting(x)
  BY <1>2 DEF Collects
<1>4. y \in Heaps
  <2>1. << >> \in Seq(Addr)
    OBVIOUS
  <2>2. QED
    BY <1>1, <1>3, <2>1 DEF Heaps
<1>5. /\ SamePlaces(x, y) /\ y.record_new_objects = x.record_new_objects /\ y.new_areas = x.new_areas
      /\ y.weak_pointers = x.weak_pointers
  BY <1>1, <1>3 DEF Heaps, SamePlaces, SameHeap
<1>6. NoAreas(y) /\ FewerAreas(x, y)
  BY <1>3, <1>5 DEF HeapOK, NoAreas, FewerAreas, InArea
<1>7. WeakLists(y)
  <2>1. y.weak_hash_tables = << >>
    BY <1>1, <1>3 DEF Heaps
  <2>2. WeakLists(x)
    BY <1>3 DEF Collecting
  <2>3. DOMAIN y.weak_hash_tables = {}
    BY <2>1
  <2>4. QED
    BY <2>2, <2>3, <1>5, PlacesKept DEF WeakLists
<1>8. Collects(x, y)
  BY <1>3, <1>4, <1>5, <1>6, <1>7, ListsOK
<1>9. QED
  BY <1>2, <1>8, CollectsOn

LEMMA WeakPointerOK ==
  ASSUME NEW m \in Heaps, HeapOK(m), Collecting(m), NEW a, SafeObject(m, a, "weak"), NEW x, x = ScanWeakPointer(m, a)
  PROVE  Collects(m, x)
<1> DEFINE v == m.mem[a].refs[1]
           w == IF Forwarded(m, v) THEN m.mem[v].to ELSE NIL
           c == m.mem[a]
           i == 1
           d == SetRef(c, i, w)
<1>1. CASE x = m
  BY <1>1, CollectsSelf
<1>2. CASE from_space_p(m, v) /\ x = Write(m, a, [m.mem[a] EXCEPT !.refs[1] = w])
  <2>1. x = Write(m, a, d)
    BY <1>2 DEF SetRef
  <2>2. a \in Addr /\ m.mem[a].t = "obj" /\ m.mem[a].kind = "weak" /\ m.mem[a] \in HeapCell
    BY DEF SafeObject, Safe, Heaps
  <2>3. c.kind = m.mem[a].kind /\ c.size = m.mem[a].size
    OBVIOUS
  <2>4. c \in HeapCell /\ c.t = "obj" /\ c.kind = "weak" /\ v = c.refs[1]
    BY <2>2
  <2> HIDE DEF c
  <2>5. c \in Objs /\ c.refs \in Seq(Addr \union {NIL}) /\ Len(c.refs) = Arity(c.kind)
    BY <2>4, ObjectIs
  <2>6. i \in DOMAIN c.refs /\ c.refs[1] \in Addr \union {NIL}
    <3> DEFINE s == c.refs
    <3> HIDE DEF s
    <3>1. s \in Seq(Addr \union {NIL}) /\ Len(s) = 1
      BY <2>4, <2>5 DEF s, Arity
    <3>2. 1 \in DOMAIN s /\ s[1] \in Addr \union {NIL}
      <4> DEFINE B == Addr \union {NIL}
      <4> HIDE DEF B
      <4>1. s \in Seq(B) /\ Len(s) = 1
        BY <3>1 DEF B
      <4>2. DOMAIN s = 1..1 /\ 1 \in 1..1
        BY <4>1
      <4>3. s[1] \in B
        BY <4>1
      <4>4. QED
        BY <4>2, <4>3 DEF B
    <3> HIDE DEF i
    <3>3. QED
      BY <3>2 DEF s, i
  <2>7. v \in Addr
    BY <1>2, <2>4, <2>6 DEF from_space_p
  <2> HIDE DEF v, i
  <2>8. w \in Addr \union {NIL}
    <3>1. CASE Forwarded(m, v)
      <4> DEFINE e == m.mem[v]
      <4>1. e \in HeapCell /\ e.t = "fwd" /\ w = e.to
        BY <2>7, <3>1 DEF Forwarded, Heaps
      <4> HIDE DEF e
      <4>2. e.to \in Addr
        BY <4>1 DEF HeapCell, Objs
      <4>3. QED
        BY <4>1, <4>2
    <3>2. CASE ~Forwarded(m, v)
      BY <3>2
    <3>3. QED
      BY <3>1, <3>2
  <2> HIDE DEF w
  <2>9. d \in Objs /\ d.kind = c.kind /\ d.size = c.size
    BY <2>5, <2>6, <2>8, SetRefIs
  <2> HIDE DEF d
  <2>10. x \in Heaps /\ HeapOK(x) /\ Collecting(x) /\ Keeps(m, x)
    BY <2>1, <2>2, <2>3, <2>9, WriteKeeps
  <2>11. QED
    BY <2>10 DEF Collects
<1>3. QED
  BY <1>1, <1>2 DEF ScanWeakPointer

LEMMA WeakPointersOK ==
  ASSUME NEW m \in Heaps, HeapOK(m), Collecting(m), NEW y, y = scan_weak_pointers(m)
  PROVE  Collects(m, y)
<1> DEFINE S == Collected(m)
           W == m.weak_pointers
           z == ScanWeakPointers(m, W)
<1>1. m \in S
  BY CollectsSelf DEF Collected
<1>2. IsFiniteSet(W) /\ \A e \in W : SafeObject(m, e, "weak")
  <2>1. W \in SUBSET Addr
    BY DEF Heaps
  <2>2. IsFiniteSet(Addr)
    <3>1. NPages * PageSize - 1 \in Int
      BY Constants
    <3>2. QED
      BY <3>1, FS_Interval DEF Addr
  <2>3. IsFiniteSet(W)
    BY <2>1, <2>2, FS_Subset
  <2>4. QED
    BY <2>3 DEF Collecting, WeakLists
<1> HIDE DEF W
<1>3. PICK n \in Nat : SetToSeq(W) \in [1..n -> W]
  BY <1>2, SetToSeqIs
<1>4. \A e \in W : \A x \in S : ScanWeakPointer(x, e) \in S
  <2> SUFFICES ASSUME NEW a \in W, NEW x \in S PROVE ScanWeakPointer(x, a) \in S
    OBVIOUS
  <2> DEFINE u == ScanWeakPointer(x, a)
  <2>1. Collects(m, x) /\ x \in Heaps /\ HeapOK(x) /\ Collecting(x)
    BY DEF Collected, Collects
  <2>2. SafeObject(m, a, "weak")
    BY <1>2
  <2> HIDE DEF S
  <2>3. SafeObject(x, a, "weak")
    BY <2>1, <2>2, SafeObjectLater
  <2> HIDE DEF u
  <2>4. u = ScanWeakPointer(x, a)
    BY DEF u
  <2>5. Collects(x, u)
    BY <2>1, <2>3, <2>4, WeakPointerOK
  <2>6. Collects(m, u)
    BY <2>1, <2>5, CollectsOn
  <2>7. u \in Heaps
    BY <2>6 DEF Collects
  <2>8. QED
    BY <2>6, <2>7, <2>4 DEF S, Collected
<1> HIDE DEF S
<1>5. z \in S
  BY <1>1, <1>2, <1>3, <1>4, PointersFold
<1>6. Collects(m, z) /\ z \in Heaps /\ HeapOK(z) /\ Collecting(z)
  BY <1>5 DEF S, Collected, Collects
<1>7. y = [z EXCEPT !.weak_pointers = {}]
  BY DEF scan_weak_pointers, W
<1> HIDE DEF z
<1>8. y \in Heaps
  BY <1>6, <1>7 DEF Heaps
<1>9. /\ SamePlaces(z, y) /\ y.record_new_objects = z.record_new_objects /\ y.new_areas = z.new_areas
      /\ y.weak_pointers = {} /\ y.weak_hash_tables = z.weak_hash_tables
  BY <1>6, <1>7 DEF Heaps, SamePlaces, SameHeap
<1>10. NoAreas(y) /\ FewerAreas(z, y)
  BY <1>6, <1>9 DEF HeapOK, NoAreas, FewerAreas, InArea
<1>11. WeakLists(y)
  <2>1. WeakLists(z)
    BY <1>6 DEF Collecting
  <2>2. QED
    BY <2>1, <1>9, PlacesKept DEF WeakLists
<1>12. Collects(z, y)
  BY <1>6, <1>8, <1>9, <1>10, <1>11, ListsOK
<1>13. QED
  BY <1>6, <1>12, CollectsOn

-----------------------------------------------------------------------------
(* The roots.                                                                *)
Roots == [Slot -> [at : Addr \union {NIL}, live : BOOLEAN]]

LEMMA ScavengeRootsOK ==
  ASSUME NEW m \in Heaps, HeapOK(m), Collecting(m), NEW roots \in Roots,
         NEW y, y = ScavengeRoots([m |-> m, root |-> roots])
  PROVE  Collects(m, y.m) /\ y.root \in Roots
<1> DEFINE S == [m : Collected(m), root : Roots]
           W == Static
           c == [m |-> m, root |-> roots]
<1>1. c \in S
  BY CollectsSelf DEF Collected
<1>2. IsFiniteSet(W) /\ W \subseteq Slot
  <2>1. W \subseteq Slot
    BY DEF Slot
  <2>2. QED
    BY <2>1, Slots, FS_Subset
<1>3. W = Static
  OBVIOUS
<1> HIDE DEF W, c
<1>4. PICK n \in Nat : SetToSeq(W) \in [1..n -> W]
  BY <1>2, SetToSeqIs
<1>5. \A e \in W : \A x \in S : ScavengeRoot(x, e) \in S
  <2> SUFFICES ASSUME NEW s \in W, NEW x \in S PROVE ScavengeRoot(x, s) \in S
    OBVIOUS
  <2> DEFINE b == x.m
             q == x.root
             v == q[s].at
             r == ScavengeWord(b, v)
             z == [q EXCEPT ![s].at = r.at]
  <2>1. b \in Collected(m) /\ q \in Roots
    OBVIOUS
  <2>2. Collects(m, b) /\ b \in Heaps /\ HeapOK(b) /\ Collecting(b)
    BY <2>1 DEF Collected, Collects
  <2>3. s \in Slot
    BY <1>2
  <2> HIDE DEF b, q
  <2>4. v \in Addr \union {NIL} /\ q[s] \in [at : Addr \union {NIL}, live : BOOLEAN]
    BY <2>1, <2>3 DEF Roots
  <2> HIDE DEF v, r
  <2>5. r = ScavengeWord(b, v)
    BY DEF r
  <2>6. Collects(b, r.heap) /\ r.at \in Addr \union {NIL}
    BY <2>2, <2>4, <2>5, ScavengeWordOK
  <2>7. Collects(m, r.heap)
    BY <2>2, <2>6, CollectsOn
  <2>8. r.heap \in Collected(m)
    BY <2>7 DEF Collected, Collects
  <2>9. z \in Roots
    <3> DEFINE w == r.at
               e == [q[s] EXCEPT !.at = w]
    <3> HIDE DEF w
    <3>1. w \in Addr \union {NIL}
      BY <2>6 DEF w
    <3>2. e \in [at : Addr \union {NIL}, live : BOOLEAN]
      BY <2>4, <3>1
    <3>3. z = [q EXCEPT ![s] = e]
      BY DEF w
    <3> HIDE DEF e, z
    <3>4. QED
      BY <2>1, <2>3, <3>2, <3>3 DEF Roots
  <2>10. ScavengeRoot(x, s) = [m |-> r.heap, root |-> z]
    BY DEF ScavengeRoot, SetRoot, b, q, r, v
  <2> HIDE DEF z
  <2>11. QED
    BY <2>8, <2>9, <2>10
<1>6. y = ScavengeRoots(c)
  BY DEF c
<1> HIDE DEF S
<1>7. ScavengeRoots(c) \in S
  BY <1>1, <1>2, <1>3, <1>4, <1>5, RootsFold
<1>8. QED
  BY <1>6, <1>7 DEF S, Collected

(* Blocks of pages.                                                          *)
LEMMA LastOfBlockIs ==
  ASSUME NEW m \in Heaps, NEW g, NEW same, NEW p \in Pages, InGen(m, p, g), p \in same,
         NEW l, l = LastOfBlock(m, p, g, same)
  PROVE  /\ l \in Pages /\ p <= l
         /\ \A q \in p..l : q \in Pages /\ InGen(m, q, g) /\ q \in same
         /\ \A q \in p+1..l : m.page[q].offset # 0 /\ m.page[q-1].used = PageSize
         /\ (l + 1 \in Pages /\ InGen(m, l + 1, g) /\ l + 1 \in same /\ m.page[l+1].offset # 0) => m.page[l].used # PageSize
<1> DEFINE ends(q) == \/ m.page[q].used < PageSize
                      \/ q = NPages - 1
                      \/ ~InGen(m, q + 1, g) \/ q + 1 \notin same \/ m.page[q+1].offset = 0
           T == {q \in p..NPages-1 : ends(q)}
<1>0. NPages \in Nat /\ PageSize \in Nat /\ p \in Int /\ p >= 0 /\ p <= NPages - 1 /\ Pages = 0..NPages-1
  BY Paging DEF Pages
<1>1. T \in SUBSET Nat /\ T # {}
  <2>1. NPages - 1 \in T
    BY <1>0
  <2>2. \A q \in p..NPages-1 : q \in Nat
    BY <1>0
  <2>3. QED
    BY <2>1, <2>2
<1>2. l = LeastOf(T)
  BY DEF LastOfBlock
<1> HIDE DEF T
<1>3. l \in T /\ \A n \in T : l <= n
  BY <1>1, <1>2, Least
<1>4. l \in p..NPages-1 /\ ends(l)
  BY <1>3 DEF T
<1>5. l \in Pages /\ p <= l /\ l \in Int
  BY <1>0, <1>4
<1>6. ASSUME NEW q \in p..l, q < l PROVE ~ends(q)
  <2>1. q \in p..NPages-1 /\ ~(l <= q)
    BY <1>0, <1>4, <1>5, <1>6
  <2>2. q \notin T
    BY <1>3, <2>1
  <2> HIDE DEF ends
  <2>3. QED
    BY <2>1, <2>2 DEF T
<1>7. \A q \in p+1..l : q \in Pages /\ InGen(m, q, g) /\ q \in same /\ m.page[q].offset # 0 /\ m.page[q-1].used = PageSize
  <2> SUFFICES ASSUME NEW q \in p+1..l
               PROVE  q \in Pages /\ InGen(m, q, g) /\ q \in same /\ m.page[q].offset # 0 /\ m.page[q-1].used = PageSize
    OBVIOUS
  <2>1. q - 1 \in p..l /\ q - 1 < l /\ (q - 1) + 1 = q /\ q \in Pages /\ q - 1 \in Pages
    BY <1>0, <1>5
  <2>2. ~ends(q - 1)
    BY <1>6, <2>1
  <2>3. m.page[q-1].used \in Nat /\ m.page[q-1].used <= PageSize
    BY <2>1, PageIs
  <2>4. ~(m.page[q-1].used < PageSize) /\ InGen(m, q, g) /\ q \in same /\ m.page[q].offset # 0
    BY <2>1, <2>2
  <2>5. QED
    BY <1>0, <2>1, <2>3, <2>4
<1>8. \A q \in p..l : q \in Pages /\ InGen(m, q, g) /\ q \in same
  <2> SUFFICES ASSUME NEW q \in p..l PROVE q \in Pages /\ InGen(m, q, g) /\ q \in same
    OBVIOUS
  <2>1. CASE q = p
    BY <2>1
  <2>2. CASE q # p
    <3>1. q \in p+1..l
      BY <1>0, <1>5, <2>2
    <3>2. QED
      BY <1>7, <3>1
  <2>3. QED
    BY <2>1, <2>2
<1>9. (l + 1 \in Pages /\ InGen(m, l + 1, g) /\ l + 1 \in same /\ m.page[l+1].offset # 0) => m.page[l].used # PageSize
  <2> SUFFICES ASSUME l + 1 \in Pages, InGen(m, l + 1, g), l + 1 \in same, m.page[l+1].offset # 0
               PROVE  m.page[l].used # PageSize
    OBVIOUS
  <2>1. l # NPages - 1
    BY <1>0, <1>5
  <2>2. m.page[l].used < PageSize
    BY <1>4, <2>1
  <2>3. m.page[l].used \in Nat
    BY <1>5, PageIs
  <2>4. QED
    BY <1>0, <2>2, <2>3
<1>10. QED
  BY <1>5, <1>7, <1>8, <1>9

\* What moves between the counters of two generations when pages are pinned.
Repin(m, PG, f, t, n) ==
  [m EXCEPT !.page = PG, !.generations[t].bytes_allocated = @ + n, !.generations[f].bytes_allocated = @ - n]

Repinned(m, x, PG, f, t, n) ==
  /\ x \in Heaps /\ x.page = PG /\ x.mem = m.mem /\ x.region = m.region
  /\ x.last_free_page = m.last_free_page /\ x.new_areas = m.new_areas /\ x.overflow = m.overflow
  /\ SameWork(m, x)
  /\ x.generations[f].bytes_allocated = m.generations[f].bytes_allocated - n
  /\ x.generations[t].bytes_allocated = m.generations[t].bytes_allocated + n
  /\ \A G \in Gen : G # f /\ G # t => x.generations[G] = m.generations[G]

LEMMA RepinIs ==
  ASSUME NEW m \in Heaps, NEW PG \in [Pages -> Page], NEW f \in Gen, NEW t \in Gen, f # t, NEW n \in Int,
         NEW x, x = Repin(m, PG, f, t, n)
  PROVE  Repinned(m, x, PG, f, t, n)
<1>1. x.generations[f] = [m.generations[f] EXCEPT !.bytes_allocated = @ - n]
  BY DEF Repin, Heaps
<1>2. x.generations[t] = [m.generations[t] EXCEPT !.bytes_allocated = @ + n]
  BY DEF Repin, Heaps
<1>3. \A G \in Gen : G # f /\ G # t => x.generations[G] = m.generations[G]
  BY DEF Repin, Heaps
<1>4. x.generations = [G \in Gen |-> x.generations[G]] /\ x = [m EXCEPT !.page = PG, !.generations = x.generations]
  <2>1. x.generations = [G \in Gen |-> x.generations[G]]
    BY DEF Repin, Heaps
  <2>2. x = [m EXCEPT !.page = PG, !.generations = x.generations]
    BY DEF Repin, Heaps
  <2>3. QED
    BY <2>1, <2>2
<1> DEFINE gs == x.generations
           b == m.generations[f].bytes_allocated
           c == m.generations[t].bytes_allocated
<1>5. m.generations[f] \in Generation /\ m.generations[t] \in Generation /\ \A G \in Gen : m.generations[G] \in Generation
  BY DEF Heaps
<1>6. b \in Int /\ c \in Int
  BY <1>5 DEF Generation
<1>7. b - n \in Int /\ c + n \in Int
  BY <1>6
<1>8. /\ gs[f] = [m.generations[f] EXCEPT !.bytes_allocated = b - n]
      /\ gs[t] = [m.generations[t] EXCEPT !.bytes_allocated = c + n]
  BY <1>1, <1>2
<1>9. gs = [G \in Gen |-> gs[G]] /\ x = [m EXCEPT !.page = PG, !.generations = gs] /\ \A G \in Gen : G # f /\ G # t => gs[G] = m.generations[G]
  BY <1>3, <1>4
<1> HIDE DEF gs
<1>10. gs[f] \in Generation /\ gs[f].bytes_allocated = b - n
  BY <1>5, <1>7, <1>8 DEF Generation
<1>11. gs[t] \in Generation /\ gs[t].bytes_allocated = c + n
  BY <1>5, <1>7, <1>8 DEF Generation
<1>12. gs \in [Gen -> Generation]
  <2>1. \A G \in Gen : gs[G] \in Generation
    BY <1>5, <1>9, <1>10, <1>11
  <2>2. QED
    BY <1>9, <2>1
<1>13. x \in Heaps
  BY <1>9, <1>12 DEF Heaps
<1>14. /\ x.page = PG /\ x.mem = m.mem /\ x.region = m.region /\ x.generations = gs
       /\ x.last_free_page = m.last_free_page /\ x.new_areas = m.new_areas /\ x.overflow = m.overflow
  BY <1>9 DEF Heaps
<1>15. SameWork(m, x)
  BY <1>9 DEF Heaps, SameWork
<1>16. QED
  BY <1>9, <1>10, <1>11, <1>13, <1>14, <1>15 DEF Repinned

\* Pages of the old space that are pinned become pages of the new space.
LEMMA PinIs ==
  ASSUME NEW m \in Heaps, Spaces(m), NEW p \in Int, NEW l \in Int, NEW n \in Int, n = UsedOn(m, p..l),
         NEW f, f = m.from_space, NEW t, t = m.new_space, NEW x, x = Pin(m, p, l)
  PROVE  /\ x \in Heaps /\ SameCells(m, x) /\ SameWork(m, x)
         /\ x.last_free_page = m.last_free_page /\ x.new_areas = m.new_areas /\ x.overflow = m.overflow
         /\ \A q \in Pages : SameShape(m, x, q) /\ (x.page[q].wp => m.page[q].wp)
         /\ \A q \in Pages : q \in p..l => x.page[q].gen = t
         /\ \A q \in Pages : q \notin p..l => x.page[q] = m.page[q]
         /\ x.generations[f].bytes_allocated = m.generations[f].bytes_allocated - n
         /\ x.generations[t].bytes_allocated = m.generations[t].bytes_allocated + n
         /\ \A G \in Gen : G # f /\ G # t => x.generations[G] = m.generations[G]
<1>0. f \in Gen /\ t \in Gen /\ f # t
  BY SpacesAre
<1> DEFINE PG == [q \in Pages |-> IF q \in p..l THEN [m.page[q] EXCEPT !.pinned = TRUE, !.gen = t] ELSE m.page[q]]
<1>1. x = Repin(m, PG, f, t, n)
  BY DEF Pin, Repin
<1>2. ASSUME NEW q \in Pages
      PROVE  /\ PG[q] \in Page
             /\ q \in p..l => /\ PG[q].gen = t /\ PG[q].alloc = m.page[q].alloc /\ PG[q].unboxed = m.page[q].unboxed
                              /\ PG[q].large = m.page[q].large /\ PG[q].used = m.page[q].used
                              /\ PG[q].offset = m.page[q].offset /\ PG[q].wp = m.page[q].wp
             /\ q \notin p..l => PG[q] = m.page[q]
  <2>1. m.page[q] \in Page
    BY PageIs
  <2>2. CASE q \in p..l
    <3> DEFINE w == [m.page[q] EXCEPT !.pinned = TRUE, !.gen = t]
    <3>1. PG[q] = w
      BY <2>2
    <3> HIDE DEF PG
    <3>2. w \in Page /\ w.gen = t /\ w.alloc = m.page[q].alloc /\ w.unboxed = m.page[q].unboxed
          /\ w.large = m.page[q].large /\ w.used = m.page[q].used /\ w.offset = m.page[q].offset /\ w.wp = m.page[q].wp
      BY <1>0, <2>1 DEF Page
    <3> HIDE DEF w
    <3>3. QED
      BY <2>2, <3>1, <3>2
  <2>3. CASE q \notin p..l
    BY <2>1, <2>3
  <2>4. QED
    BY <2>2, <2>3
<1>3. PG \in [Pages -> Page]
  BY <1>2
<1> HIDE DEF PG
<1>4. Repinned(m, x, PG, f, t, n)
  BY <1>0, <1>1, <1>3, RepinIs
<1>9. /\ x \in Heaps /\ x.page = PG /\ x.mem = m.mem /\ x.region = m.region
      /\ x.last_free_page = m.last_free_page /\ x.new_areas = m.new_areas /\ x.overflow = m.overflow
      /\ SameWork(m, x)
      /\ x.generations[f].bytes_allocated = m.generations[f].bytes_allocated - n
      /\ x.generations[t].bytes_allocated = m.generations[t].bytes_allocated + n
      /\ \A G \in Gen : G # f /\ G # t => x.generations[G] = m.generations[G]
  BY <1>4 DEF Repinned
<1>5. \A q \in Pages : SameShape(m, x, q) /\ (x.page[q].wp => m.page[q].wp)
  BY <1>2, <1>9 DEF SameShape
<1>6. \A q \in Pages : (q \in p..l => x.page[q].gen = t) /\ (q \notin p..l => x.page[q] = m.page[q])
  BY <1>2, <1>9
<1>7. SameCells(m, x)
  BY <1>9 DEF SameCells
<1>10. QED
  BY <1>9, <1>5, <1>6, <1>7

-----------------------------------------------------------------------------
(* Pinning a block.                                                          *)

\* What Pin does to the pages first..l.
Pins(m, x, first, l) ==
  /\ x \in Heaps /\ SameCells(m, x) /\ SameWork(m, x)
  /\ x.last_free_page = m.last_free_page /\ x.new_areas = m.new_areas
  /\ \A q \in Pages : SameShape(m, x, q) /\ (x.page[q].wp => m.page[q].wp)
  /\ \A q \in Pages : q \in first..l => x.page[q].gen = m.new_space
  /\ \A q \in Pages : q \notin first..l => x.page[q] = m.page[q]

\* The block: pages of the old space from its first to its last.
Blocked(m, first, l) ==
  /\ first \in Pages /\ l \in Pages /\ first <= l /\ first \in Int /\ l \in Int
  /\ \A q \in first..l : q \in Pages /\ InGen(m, q, m.from_space)
  /\ m.page[first].offset = 0
  /\ (l + 1 \in Pages /\ InGen(m, l + 1, m.from_space) /\ m.page[l+1].offset # 0) => m.page[l].used # PageSize

LEMMA PinLabels ==
  ASSUME NEW m \in Heaps, HeapOK(m), Spaces(m), NEW first, NEW l, Blocked(m, first, l),
         NEW x, Pins(m, x, first, l)
  PROVE  Labelled(x)
<1>0. /\ first \in Int /\ l \in Int /\ x \in Heaps /\ PagesOK(m) /\ Links(m) /\ FreePages(m) /\ RegionsOK(m)
      /\ x.region = m.region /\ x.gc_alloc_generation = m.gc_alloc_generation
  BY DEF HeapOK, PagesOK, Pins, Blocked, SameCells, SameWork
<1>1. \A p \in Pages : ~x.page[p].alloc => ~x.page[p].wp /\ ~x.page[p].pinned
  <2> SUFFICES ASSUME NEW p \in Pages, ~x.page[p].alloc PROVE ~x.page[p].wp /\ ~x.page[p].pinned
    OBVIOUS
  <2>1. ~m.page[p].alloc
    BY DEF Pins, SameShape
  <2>2. p \notin first..l
    BY <2>1 DEF Blocked, InGen
  <2>3. x.page[p] = m.page[p]
    BY <2>2 DEF Pins
  <2>4. QED
    BY <1>0, <2>1, <2>3 DEF FreePages
<1>2. ASSUME NEW q \in Pages, x.page[q].alloc, x.page[q].used # 0, x.page[q].offset # 0
      PROVE  x.page[q-1].gen = x.page[q].gen
  <2>1. m.page[q].alloc /\ m.page[q].used # 0 /\ m.page[q].offset # 0
    BY <1>2 DEF Pins, SameShape
  <2>2. LinkedTo(m, q)
    BY <1>0, <2>1 DEF Links
  <2>3. q \in Int /\ q - 1 \in Pages /\ (q - 1) + 1 = q
    BY <2>2, Paging DEF LinkedTo, Pages
  <2>4. m.page[q-1].used = PageSize /\ m.page[q-1].gen = m.page[q].gen
    BY <2>2 DEF LinkedTo
  <2>5. CASE q \in first..l /\ q - 1 \in first..l
    BY <2>3, <2>5 DEF Pins
  <2>6. CASE q \notin first..l /\ q - 1 \notin first..l
    BY <2>3, <2>4, <2>6 DEF Pins
  <2>7. CASE q \in first..l /\ q - 1 \notin first..l
    <3>1. q = first
      BY <1>0, <2>3, <2>7
    <3>2. QED
      BY <2>1, <3>1 DEF Blocked
  <2>8. CASE q \notin first..l /\ q - 1 \in first..l
    <3>1. q = l + 1 /\ q - 1 = l
      BY <1>0, <2>3, <2>8
    <3>2. m.page[l].gen = m.from_space /\ m.page[l].used = PageSize
      BY <2>4, <2>8, <3>1 DEF Blocked, InGen
    <3>3. InGen(m, l + 1, m.from_space) /\ l + 1 \in Pages /\ m.page[l+1].offset # 0
      BY <2>1, <2>4, <3>1, <3>2 DEF InGen
    <3>4. QED
      BY <3>2, <3>3 DEF Blocked
  <2>9. QED
    BY <2>5, <2>6, <2>7, <2>8
<1>3. ASSUME NEW k \in Regions, NEW p \in x.region[k].first..x.region[k].last
      PROVE  x.page[p].gen = x.gc_alloc_generation /\ ~x.page[p].wp /\ ~x.page[p].pinned
  <2>1. p \in m.region[k].first..m.region[k].last
    BY <1>0
  <2>2. Opened(m, k)
    <3>1. CASE m.region[k] = ResetRegion
      BY <2>1, <3>1, ResetIs
    <3>2. QED
      BY <1>0, <3>1 DEF RegionsOK
  <2>3. p \in Pages
    BY <2>1, <2>2, RegionBounds
  <2>4. m.page[p].gen = m.gc_alloc_generation /\ ~m.page[p].wp /\ ~m.page[p].pinned
    BY <2>1, <2>2 DEF Opened
  <2>5. m.page[p].gen # m.from_space
    BY <2>4, SpacesAre
  <2>6. p \notin first..l
    BY <2>5 DEF Blocked, InGen
  <2>7. x.page[p] = m.page[p]
    BY <2>3, <2>6 DEF Pins
  <2>8. QED
    BY <1>0, <2>4, <2>7
<1>4. QED
  BY <1>1, <1>2, <1>3 DEF Labelled

LEMMA PinKeeps ==
  ASSUME NEW m \in Heaps, HeapOK(m), Collecting(m), NEW first, NEW l, Blocked(m, first, l),
         NEW x, Pins(m, x, first, l)
  PROVE  Collecting(x) /\ Keeps(m, x)
<1>0. /\ x \in Heaps /\ SameSpaces(m, x) /\ x.mem = m.mem
      /\ x.weak_pointers = m.weak_pointers /\ x.weak_hash_tables = m.weak_hash_tables /\ x.new_areas = m.new_areas
      /\ m.from_space # m.new_space /\ m.new_space \in Nat /\ m.from_space \in Nat /\ m.from_space < m.new_space
  <2>1. Spaces(m)
    BY DEF Collecting
  <2>2. QED
    BY <2>1, SpacesAre DEF Pins, SameCells, SameWork, SameSpaces
<1>1. ASSUME NEW p \in Pages, m.page[p].gen # m.from_space PROVE x.page[p] = m.page[p]
  <2>1. p \notin first..l
    BY <1>1 DEF Blocked, InGen
  <2>2. QED
    BY <2>1 DEF Pins
<1>2. ASSUME NEW p \in Pages PROVE KeptPage(m, x, p)
  <2>1. OlderPage(m, p) => x.page[p] = m.page[p]
    BY <1>1 DEF OlderPage
  <2>2. OlderPage(x, p) => x.page[p] = m.page[p]
    <3>1. p \in first..l => x.page[p].gen = x.new_space
      BY <1>0 DEF Pins, SameSpaces
    <3>2. p \notin first..l => x.page[p] = m.page[p]
      BY DEF Pins
    <3>3. QED
      BY <3>1, <3>2 DEF OlderPage
  <2>3. x.from_space = m.from_space /\ x.new_space = m.new_space
    BY <1>0 DEF SameSpaces
  <2>4. OlderPage(x, p) => OlderPage(m, p)
    BY <2>2, <2>3 DEF OlderPage
  <2>5. OlderPage(m, p) => SameShape(m, x, p) /\ x.page[p].gen = m.page[p].gen
    BY <2>1 DEF SameShape
  <2>6. QED
    BY <2>4, <2>5 DEF KeptPage
<1>3. ASSUME NEW a \in Addr, Safe(m, a) PROVE Safe(x, a)
  <2>1. PageOf(a) \in Pages
    BY PageIsIn
  <2>2. x.page[PageOf(a)] = m.page[PageOf(a)]
    BY <1>1, <1>3, <2>1 DEF Safe
  <2>3. QED
    BY <1>0, <1>3, <2>2 DEF Safe, SameSpaces
<1>4. ASSUME NEW a \in Addr PROVE KeptObject(m, x, a)
  BY <1>0, <1>3 DEF KeptObject
<1>5. Keeps(m, x)
  BY <1>0, <1>2, <1>4 DEF Keeps
<1>6. Spaces(x)
  BY <1>0 DEF Collecting, Spaces, SameSpaces
<1>7. OldSpace(x)
  <2> SUFFICES ASSUME NEW p \in Pages, x.page[p].alloc
               PROVE  x.page[p].gen >= x.from_space /\ (x.page[p].gen = x.from_space => ~x.page[p].wp /\ ~x.page[p].pinned)
    BY DEF OldSpace
  <2>0. x.from_space = m.from_space
    BY <1>0 DEF SameSpaces
  <2>1. CASE p \in first..l
    <3>1. x.page[p].gen = m.new_space
      BY <2>1 DEF Pins
    <3>2. QED
      BY <1>0, <2>0, <3>1
  <2>2. CASE p \notin first..l
    <3>1. x.page[p] = m.page[p]
      BY <2>2 DEF Pins
    <3>2. QED
      BY <2>0, <3>1 DEF Collecting, OldSpace
  <2>3. QED
    BY <2>1, <2>2
<1>8. WeakLists(x)
  BY <1>0, <1>5, KeepsLists DEF Collecting
<1>9. SafeAreas(x)
  <2> SUFFICES ASSUME NEW b \in Int, InArea(x, b) PROVE Safe(x, b)
    BY DEF SafeAreas
  <2>1. InArea(m, b)
    BY <1>0 DEF InArea
  <2>2. Safe(m, b)
    BY <2>1 DEF Collecting, SafeAreas
  <2>3. QED
    BY <1>3, <2>2 DEF Safe
<1>10. QED
  BY <1>5, <1>6, <1>7, <1>8, <1>9 DEF Collecting

\* A sum over two sets of pages.
Joins(x, T, m, S, y, Q) == \A p \in Pages : On(x, T, p) = On(m, S, p) + On(y, Q, p)

LEMMA SumsJoin ==
  ASSUME NEW m, UsedAreNumbers(m), NEW S, NEW x, UsedAreNumbers(x), NEW T, NEW y, UsedAreNumbers(y), NEW Q,
         Joins(x, T, m, S, y, Q)
  PROVE  UsedOn(x, T) = UsedOn(m, S) + UsedOn(y, Q) /\ UsedOn(m, S) \in Int /\ UsedOn(y, Q) \in Int
<1>1. \A p \in Pages : UsedBelow(0, p) \in Int /\ On(m, S, p) \in Int /\ On(y, Q, p) \in Int
  <2> SUFFICES ASSUME NEW p \in Pages PROVE UsedBelow(0, p) \in Int /\ On(m, S, p) \in Int /\ On(y, Q, p) \in Int
    OBVIOUS
  <2>1. p \in Int
    BY Paging DEF Pages
  <2>2. UsedBelow(0, p) \in 0..PageSize
    BY <2>1, UsedBelowIs
  <2>3. On(m, S, p) \in Int /\ On(y, Q, p) \in Int
    BY Paging DEF On, UsedAreNumbers
  <2>4. QED
    BY <2>2, <2>3, Paging
<1>2. Adds(m, S, x, T, y, Q, 0, 0)
  <2> SUFFICES ASSUME NEW p \in Pages
               PROVE  On(x, T, p) = On(m, S, p) + On(y, Q, p) + UsedBelow(0, p) - UsedBelow(0, p)
    BY DEF Adds
  <2>1. On(x, T, p) = On(m, S, p) + On(y, Q, p)
    BY DEF Joins
  <2>2. QED
    BY <1>1, <2>1
<1>3. /\ UsedOn(x, T) = UsedOn(m, S) + UsedOn(y, Q) + 0 - 0
      /\ UsedOn(m, S) \in Int /\ UsedOn(y, Q) \in Int
  BY <1>2, ZeroIsIn, SumsAdd
<1>4. QED
  BY <1>3

LEMMA SumIsNumber ==
  ASSUME NEW m, UsedAreNumbers(m), NEW S
  PROVE  UsedOn(m, S) \in Int
<1>1. \A q \in Pages : On(m, S, q) = On(m, S, q)
  OBVIOUS
<1>2. QED
  BY <1>1, SumsSame

\* What is pinned is counted in the new space.
LEMMA PinCounters ==
  ASSUME NEW m \in Heaps, HeapOK(m), Spaces(m), NEW first, NEW l, Blocked(m, first, l),
         NEW x, Pins(m, x, first, l), NEW n, n = UsedOn(m, first..l), NEW f, f = m.from_space, NEW t, t = m.new_space,
         x.generations[f].bytes_allocated = m.generations[f].bytes_allocated - n,
         x.generations[t].bytes_allocated = m.generations[t].bytes_allocated + n,
         \A G \in Gen : G # f /\ G # t => x.generations[G] = m.generations[G]
  PROVE  Counters(x)
<1>0. UsedAreNumbers(m) /\ UsedAreNumbers(x) /\ f # t /\ f \in Gen /\ t \in Gen /\ x \in Heaps
  BY UsedNumbers, SpacesAre DEF Pins
<1>1. \A G \in Gen : m.generations[G].bytes_allocated = UsedOn(m, InGens(m, G))
  BY CountersAre DEF HeapOK
<1>2. ASSUME NEW q \in Pages
      PROVE  /\ On(m, InGens(m, f), q) = On(x, InGens(x, f), q) + On(m, first..l, q)
             /\ On(x, InGens(x, t), q) = On(m, InGens(m, t), q) + On(m, first..l, q)
             /\ \A G : G # f /\ G # t => On(x, InGens(x, G), q) = On(m, InGens(m, G), q)
  <2>1. m.page[q].used \in Nat /\ x.page[q].used = m.page[q].used /\ x.page[q].alloc = m.page[q].alloc
    BY PageIs DEF Pins, SameShape
  <2>2. CASE q \in first..l
    <3>1. m.page[q].alloc /\ m.page[q].gen = f /\ x.page[q].gen = t
      BY <2>2 DEF Blocked, InGen, Pins
    <3>2. On(m, first..l, q) = m.page[q].used
      BY <2>2 DEF On
    <3>3. /\ On(m, InGens(m, f), q) = m.page[q].used /\ On(x, InGens(x, t), q) = m.page[q].used
          /\ \A G : G # f => On(m, InGens(m, G), q) = 0
          /\ \A G : G # t => On(x, InGens(x, G), q) = 0
      BY <1>0, <2>1, <3>1, OnIs
    <3>4. QED
      BY <1>0, <2>1, <3>2, <3>3
  <2>3. CASE q \notin first..l
    <3>1. x.page[q] = m.page[q]
      BY <2>3 DEF Pins
    <3>2. On(m, first..l, q) = 0
      BY <2>3 DEF On
    <3>3. \A G : On(x, InGens(x, G), q) = On(m, InGens(m, G), q)
      BY <3>1 DEF On, InGens, InGen
    <3>4. \A G : On(m, InGens(m, G), q) \in Int
      BY <2>1 DEF On
    <3>5. QED
      BY <3>2, <3>3, <3>4
  <2>4. QED
    BY <2>2, <2>3
<1>3. UsedOn(m, InGens(m, f)) = UsedOn(x, InGens(x, f)) + n /\ UsedOn(x, InGens(x, f)) \in Int /\ n \in Int
  <2>1. Joins(m, InGens(m, f), x, InGens(x, f), m, first..l)
    BY <1>2 DEF Joins
  <2>2. QED
    BY <1>0, <2>1, SumsJoin
<1>4. UsedOn(x, InGens(x, t)) = UsedOn(m, InGens(m, t)) + n
  <2>1. Joins(x, InGens(x, t), m, InGens(m, t), m, first..l)
    BY <1>2 DEF Joins
  <2>2. QED
    BY <1>0, <2>1, SumsJoin
<1>5. ASSUME NEW G \in Gen, G # f, G # t PROVE UsedOn(x, InGens(x, G)) = UsedOn(m, InGens(m, G))
  <2> DEFINE S == InGens(m, G)
             T == InGens(x, G)
  <2>1. \A q \in Pages : On(x, T, q) = On(m, S, q)
    BY <1>2, <1>5
  <2> HIDE DEF S, T
  <2>2. UsedOn(x, T) = UsedOn(m, S)
    BY <1>0, <2>1, SumsSame
  <2>3. QED
    BY <2>2 DEF S, T
<1>6. x.generations[f].bytes_allocated = UsedOn(x, InGens(x, f))
  <2> DEFINE v == UsedOn(x, InGens(x, f))
             w == UsedOn(m, InGens(m, f))
  <2>0. m.generations[f].bytes_allocated = w
    BY <1>0, <1>1
  <2>1. w = v + n /\ v \in Int /\ n \in Int
    BY <1>3
  <2>4. x.generations[f].bytes_allocated = w - n
    BY <2>0
  <2> HIDE DEF v, w
  <2>2. x.generations[f].bytes_allocated = v
    BY <2>1, <2>4
  <2>3. QED
    BY <2>2 DEF v
<1>7. x.generations[t].bytes_allocated = UsedOn(x, InGens(x, t))
  BY <1>0, <1>1, <1>4
<1>8. \A G \in Gen : x.generations[G].bytes_allocated = UsedOn(x, InGens(x, G))
  BY <1>1, <1>5, <1>6, <1>7
<1>9. QED
  BY <1>8, CountersAre

LEMMA PinOK ==
  ASSUME NEW m \in Heaps, HeapOK(m), Collecting(m), NEW first \in Pages, InGen(m, first, m.from_space),
         m.page[first].offset = 0, NEW l, l = LastOfBlock(m, first, m.from_space, Pages), NEW x, x = Pin(m, first, l)
  PROVE  Collects(m, x)
<1> DEFINE f == m.from_space
           t == m.new_space
           n == UsedOn(m, first..l)
<1>0. Spaces(m) /\ PagesOK(m) /\ UsedAreNumbers(m) /\ NoAreas(m)
  BY UsedNumbers DEF Collecting, HeapOK
<1>1. /\ l \in Pages /\ first <= l /\ \A q \in first..l : q \in Pages /\ InGen(m, q, f)
      /\ (l + 1 \in Pages /\ InGen(m, l + 1, f) /\ m.page[l+1].offset # 0) => m.page[l].used # PageSize
  BY LastOfBlockIs
<1>2. first \in Int /\ l \in Int
  BY <1>1, Paging DEF Pages
<1>3. Blocked(m, first, l)
  BY <1>1, <1>2 DEF Blocked
<1>4. n \in Int
  BY <1>0, SumIsNumber
<1>5. /\ x \in Heaps /\ SameCells(m, x) /\ SameWork(m, x)
      /\ x.last_free_page = m.last_free_page /\ x.new_areas = m.new_areas
      /\ \A q \in Pages : SameShape(m, x, q) /\ (x.page[q].wp => m.page[q].wp)
      /\ \A q \in Pages : q \in first..l => x.page[q].gen = t
      /\ \A q \in Pages : q \notin first..l => x.page[q] = m.page[q]
      /\ x.generations[f].bytes_allocated = m.generations[f].bytes_allocated - n
      /\ x.generations[t].bytes_allocated = m.generations[t].bytes_allocated + n
      /\ \A G \in Gen : G # f /\ G # t => x.generations[G] = m.generations[G]
  BY <1>0, <1>2, <1>4, PinIs
<1>6. Pins(m, x, first, l)
  BY <1>5 DEF Pins
<1>7. Labelled(x)
  BY <1>0, <1>3, <1>6, PinLabels
<1>8. AllBelow(x)
  BY <1>0, <1>5 DEF PagesOK, AllBelow, SameShape
<1>9. \A p \in Pages : SameShape(m, x, p)
  BY <1>5
<1>10. PagesOK(x)
  BY <1>0, <1>5, <1>7, <1>8, <1>9, Relabelled
<1>11. Counters(x)
  BY <1>0, <1>3, <1>5, <1>6, PinCounters
<1>12. NoAreas(x)
  BY <1>0, <1>5 DEF NoAreas, SameWork
<1>13. Collecting(x) /\ Keeps(m, x)
  BY <1>3, <1>6, PinKeeps
<1>14. QED
  BY <1>5, <1>10, <1>11, <1>12, <1>13 DEF Collects, HeapOK

-----------------------------------------------------------------------------
(* Pointers on the stack.                                                    *)

\* The first page of a large object of the old space keeps its place when it is adjusted.
LEMMA AdjustFirst ==
  ASSUME NEW m \in Heaps, HeapOK(m), Collecting(m), NEW p \in Pages, m.page[p].large, m.page[p].offset = 0,
         InGen(m, p, m.from_space), NEW x, x = maybe_adjust_large_object(m, page_address(p))
  PROVE  Collects(m, x) /\ InGen(x, p, x.from_space) /\ x.page[p].offset = 0
<1> DEFINE a == page_address(p)
<1>1. a \in Addr /\ PageOf(a) = p
  <2>1. p \in Int /\ page_address(p) \in Int /\ PageSize >= 1 /\ PageSize \in Int
    BY Paging DEF Pages
  <2>2. page_address(p) <= a /\ a < page_address(p) + PageSize
    BY <2>1
  <2>3. QED
    BY <2>1, <2>2, CellIsIn
<1> HIDE DEF a
<1>2. x = maybe_adjust_large_object(m, a)
  BY DEF a
<1>3. m.page[PageOf(a)].large /\ m.page[PageOf(a)].gen = m.from_space
  BY <1>1 DEF InGen
<1>4. x \in Heaps /\ HeapOK(x) /\ Collecting(x) /\ Keeps(m, x)
  BY <1>1, <1>2, <1>3, AdjustOK
<1>5. x.from_space = m.from_space
  BY <1>4 DEF Keeps, SameSpaces
<1>6. CASE m.mem[a].t = "obj" /\ m.mem[a].kind \in vector
  <2> DEFINE u == TRUE
  <2>0. u = TRUE
    OBVIOUS
  <2>1. Shrinks(m, a, u)
    BY <1>1, <1>3, <1>6 DEF Shrinks, OldObject
  <2> HIDE DEF u
  <2>2. Trims(m, x, a, u, m.from_space)
    BY <1>2, <2>0, <2>1, AdjustIs
  <2>3. p \in PageOf(a)..LastOf(m, a)
    <3>1. PageOf(a) \in Int /\ LastOf(m, a) \in Int /\ PageOf(a) <= LastOf(m, a)
      BY <2>1, ShrinksIs
    <3>2. QED
      BY <1>1, <3>1
  <2>4. x.page[p].alloc /\ x.page[p].gen = m.from_space /\ x.page[p].used # 0
    BY <1>4, <2>1, <2>2, <2>3, TrimOwn
  <2>5. x.page[p].offset = m.page[p].offset
    BY <1>4, <2>1, <2>2, TrimIs
  <2>6. QED
    BY <1>4, <1>5, <2>4, <2>5 DEF Collects, InGen
<1>7. CASE ~(m.mem[a].t = "obj" /\ m.mem[a].kind \in vector)
  <2>1. x = m
    BY <1>2, <1>7 DEF maybe_adjust_large_object
  <2>2. QED
    BY <1>4, <2>1 DEF Collects
<1>8. QED
  BY <1>6, <1>7

LEMMA PinBlockOK ==
  ASSUME NEW m \in Heaps, HeapOK(m), Collecting(m), NEW first \in Pages, InGen(m, first, m.from_space),
         m.page[first].offset = 0, NEW p, NEW off, NEW x, x = PinBlock(m, p, off, first)
  PROVE  Collects(m, x)
<1>1. CASE x = m
  BY <1>1, CollectsSelf
<1>2. CASE x = Pin(m, first, LastOfBlock(m, first, m.from_space, Pages))
  <2> DEFINE l == LastOfBlock(m, first, m.from_space, Pages)
  <2>1. l = LastOfBlock(m, first, m.from_space, Pages) /\ x = Pin(m, first, l)
    BY <1>2
  <2> HIDE DEF l
  <2>2. QED
    BY <2>1, PinOK
<1>3. QED
  BY <1>1, <1>2 DEF PinBlock

LEMMA PreserveOK ==
  ASSUME NEW m \in Heaps, HeapOK(m), Collecting(m), NEW a, NEW x, x = preserve_pointer(m, a)
  PROVE  Collects(m, x)
<1> DEFINE p == PageOf(a)
           off == a - page_address(p)
           first == FirstOfBlock(m, p)
           y == IF m.page[first].large THEN maybe_adjust_large_object(m, page_address(first)) ELSE m
           skip == \/ find_page_index(a) = -1 \/ ~InGen(m, p, m.from_space) \/ off > m.page[p].used
                   \/ m.page[p].pinned \/ ~search_dynamic_space(m, a)
<1>1. CASE skip
  <2>1. x = m
    BY <1>1 DEF preserve_pointer
  <2>2. QED
    BY <2>1, CollectsSelf
<1>2. CASE ~skip
  <2>1. x = PinBlock(y, p, off, first)
    BY <1>2 DEF preserve_pointer
  <2>2. a \in Addr /\ InGen(m, p, m.from_space)
    BY <1>2 DEF find_page_index
  <2>3. p \in Pages /\ m.page[p].alloc /\ m.page[p].used # 0 /\ m.page[p].gen = m.from_space
    BY <2>2, PageIsIn DEF InGen
  <2> HIDE DEF p, off
  <2>4. Links(m)
    BY DEF HeapOK, PagesOK
  <2>5. first \in Pages /\ first <= p /\ m.page[first].offset = 0
    BY <2>3, <2>4, FirstOfBlockIs
  <2>6. m.page[first].alloc /\ m.page[first].used # 0 /\ m.page[first].gen = m.page[p].gen
    <3>1. \A z \in Pages : FirstOfBlock(m, p) <= z /\ z <= p =>
             m.page[z].alloc /\ m.page[z].used # 0 /\ m.page[z].gen = m.page[p].gen
      BY <2>3, <2>4, FirstOfBlockIs
    <3>2. first <= first
      BY <2>5, Paging DEF Pages
    <3>3. QED
      BY <2>5, <3>1, <3>2
  <2>7. InGen(m, first, m.from_space)
    BY <2>3, <2>6 DEF InGen
  <2> HIDE DEF first
  <2>8. Collects(m, y) /\ InGen(y, first, y.from_space) /\ y.page[first].offset = 0
    <3>1. CASE m.page[first].large
      <4>1. y = maybe_adjust_large_object(m, page_address(first))
        BY <3>1
      <4> HIDE DEF y
      <4>2. QED
        BY <2>5, <2>7, <3>1, <4>1, AdjustFirst
    <3>2. CASE ~m.page[first].large
      <4>1. y = m
        BY <3>2
      <4> HIDE DEF y
      <4>2. QED
        BY <2>5, <2>7, <4>1, CollectsSelf
    <3>3. QED
      BY <3>1, <3>2
  <2> HIDE DEF y
  <2>9. y \in Heaps /\ HeapOK(y) /\ Collecting(y)
    BY <2>8 DEF Collects
  <2>10. Collects(y, x)
    BY <2>1, <2>5, <2>8, <2>9, PinBlockOK
  <2>11. QED
    BY <2>8, <2>10, CollectsOn
<1>3. QED
  BY <1>1, <1>2

LEMMA PreserveStackOK ==
  ASSUME NEW m \in Heaps, HeapOK(m), Collecting(m), NEW y, y = PreserveStack(m)
  PROVE  Collects(m, y)
<1> DEFINE S == Collected(m)
           W == Stack
<1>1. m \in S
  BY CollectsSelf DEF Collected
<1>2. IsFiniteSet(W) /\ W = Stack
  <2>1. W \subseteq Slot
    BY DEF Slot
  <2>2. QED
    BY <2>1, Slots, FS_Subset
<1> HIDE DEF W
<1>3. PICK n \in Nat : SetToSeq(W) \in [1..n -> W]
  BY <1>2, SetToSeqIs
<1>4. \A e \in W : \A x \in S : preserve_pointer(x, root[e].at) \in S
  <2> SUFFICES ASSUME NEW e \in W, NEW x \in S PROVE preserve_pointer(x, root[e].at) \in S
    OBVIOUS
  <2> DEFINE z == preserve_pointer(x, root[e].at)
             v == root[e].at
  <2>1. z = preserve_pointer(x, v)
    OBVIOUS
  <2> HIDE DEF z, v
  <2>2. Collects(m, x) /\ x \in Heaps /\ HeapOK(x) /\ Collecting(x)
    BY DEF Collected, Collects
  <2>3. Collects(x, z)
    BY <2>1, <2>2, PreserveOK
  <2>4. Collects(m, z)
    BY <2>2, <2>3, CollectsOn
  <2>5. z \in S
    BY <2>4 DEF Collected, Collects
  <2>6. QED
    BY <2>5 DEF z
<1> HIDE DEF S
<1>5. PreserveStack(m) \in S
  BY <1>1, <1>2, <1>3, <1>4, StackFold
<1>6. QED
  BY <1>5 DEF S, Collected

-----------------------------------------------------------------------------
(* The spaces of a collection.                                               *)

\* No region is open.
Reset(m) == \A k \in Regions : m.region[k] = ResetRegion

LEMMA NoRegions ==
  ASSUME NEW m \in Heaps, PagesOK(m), Reset(m)
  PROVE  /\ \A k \in Regions : m.region[k].first..m.region[k].last = {}
         /\ \A p \in Pages : m.page[p].alloc => m.page[p].used # 0
<1>1. ASSUME NEW k \in Regions PROVE m.region[k].first..m.region[k].last = {}
  BY ResetIs DEF Reset
<1>2. ASSUME NEW p \in Pages, m.page[p].alloc PROVE m.page[p].used # 0
  BY <1>1, <1>2 DEF PagesOK, EmptyInRegion
<1>3. QED
  BY <1>1, <1>2

LEMMA HintIs == NoHint \in [Regions -> Nat]
BY DEF NoHint, Regions

FreshHints(gn, s) == [gn EXCEPT !.start = NoHint, !.large_start = NoHint, !.cum_sum = s]

LEMMA FreshHintsIs ==
  ASSUME NEW gn \in Generation, NEW s \in Int, NEW y, y = FreshHints(gn, s)
  PROVE  y \in Generation /\ y.bytes_allocated = gn.bytes_allocated
BY HintIs DEF FreshHints, Generation

\* What SetUpSpaces may be asked for.
MaySetUp(g, r) ==
  /\ Reset(h) /\ h.record_new_objects = 0 /\ h \in Heaps /\ HeapOK(h)
  /\ g \in 0..OldestGenToGc /\ r \in BOOLEAN /\ (r => g < OldestGenToGc)
  /\ \A p \in Pages : h.page[p].alloc => h.page[p].gen >= g

LEMMA SetUpIs ==
  ASSUME NEW g, NEW r, MaySetUp(g, r), NEW new, new = (IF r THEN g + 1 ELSE NumGenerations), NEW x, x = SetUpSpaces(g, r)
  PROVE  /\ x \in Heaps /\ SameCells(h, x)
         /\ x.weak_pointers = {} /\ x.weak_hash_tables = << >> /\ x.new_areas = << >>
         /\ x.from_space = g /\ x.new_space = new /\ x.gc_alloc_generation = new
         /\ x.record_new_objects = 0 /\ x.last_free_page = h.last_free_page
         /\ \A G \in Gen : x.generations[G].bytes_allocated = h.generations[G].bytes_allocated
         /\ \A p \in Pages : /\ SameShape(h, x, p) /\ x.page[p].gen = h.page[p].gen /\ ~x.page[p].pinned
                             /\ x.page[p].wp = (h.page[p].wp /\ ~InGen(h, p, g))
<1>0. /\ g \in Int /\ g \in Gen /\ new \in Gen /\ new \in Int /\ g < new
  BY Constants, SizesAssumption DEF MaySetUp, Gen
<1> DEFINE s == IF r THEN h.generations[new].cum_sum + h.generations[new].bytes_allocated
                ELSE h.generations[new].cum_sum
           R == FreshHints(h.generations[new], s)
           GS == [h.generations EXCEPT ![new] = R]
           PG == [p \in Pages |-> [h.page[p] EXCEPT !.pinned = FALSE, !.wp = h.page[p].wp /\ ~InGen(h, p, g)]]
<1>1. h \in Heaps /\ h.generations[new] \in Generation /\ NoAreas(h)
  BY <1>0 DEF MaySetUp, Heaps, HeapOK
<1>2. s \in Int
  <2>1. h.generations[new].cum_sum \in Int /\ h.generations[new].bytes_allocated \in Int
    BY <1>1 DEF Generation
  <2>2. QED
    BY <2>1
<1>3. R = [h.generations[new] EXCEPT !.start = NoHint, !.large_start = NoHint,
               !.cum_sum = IF r THEN @ + h.generations[new].bytes_allocated ELSE @]
  BY <1>1 DEF FreshHints, Generation
<1>4. x = [h EXCEPT !.weak_pointers = {}, !.weak_hash_tables = << >>,
                    !.from_space = g, !.new_space = new, !.gc_alloc_generation = new,
                    !.generations[new] = R, !.page = PG]
  <2> HIDE DEF R
  <2>1. [p \in Pages |-> [h.page[p] EXCEPT !.pinned = FALSE, !.wp = h.page[p].wp /\ ~InGen(h, p, g)]] = PG
    OBVIOUS
  <2>2. QED
    BY <1>3, <2>1 DEF SetUpSpaces
<1> HIDE DEF s
<1>5. R \in Generation /\ R.bytes_allocated = h.generations[new].bytes_allocated
  <2> HIDE DEF R
  <2>1. R = FreshHints(h.generations[new], s)
    BY DEF R
  <2>2. QED
    BY <1>1, <1>2, <2>1, FreshHintsIs
<1> HIDE DEF R
<1>6. x = [h EXCEPT !.weak_pointers = {}, !.weak_hash_tables = << >>,
                    !.from_space = g, !.new_space = new, !.gc_alloc_generation = new,
                    !.generations = GS, !.page = PG]
  BY <1>4
<1>7. ASSUME NEW p \in Pages
      PROVE  /\ PG[p] \in Page /\ PG[p].alloc = h.page[p].alloc /\ PG[p].unboxed = h.page[p].unboxed
             /\ PG[p].large = h.page[p].large /\ PG[p].used = h.page[p].used /\ PG[p].offset = h.page[p].offset
             /\ PG[p].gen = h.page[p].gen /\ ~PG[p].pinned /\ PG[p].wp = (h.page[p].wp /\ ~InGen(h, p, g))
  <2>1. h.page[p] \in Page
    BY <1>1, PageIs
  <2>2. PG[p] = [h.page[p] EXCEPT !.pinned = FALSE, !.wp = h.page[p].wp /\ ~InGen(h, p, g)]
    OBVIOUS
  <2> DEFINE b == h.page[p].wp /\ ~InGen(h, p, g)
  <2>3. b \in BOOLEAN
    OBVIOUS
  <2>4. PG[p] = [h.page[p] EXCEPT !.pinned = FALSE, !.wp = b] /\ b = (h.page[p].wp /\ ~InGen(h, p, g))
    BY <2>2
  <2> HIDE DEF b, PG
  <2>5. QED
    BY <2>1, <2>3, <2>4 DEF Page
<1>8. PG \in [Pages -> Page]
  BY <1>7
<1>9. GS \in [Gen -> Generation] /\ \A G \in Gen : GS[G].bytes_allocated = h.generations[G].bytes_allocated
  <2>1. h.generations \in [Gen -> Generation]
    BY <1>1 DEF Heaps
  <2>2. QED
    BY <1>0, <1>5, <2>1
<1> HIDE DEF PG, GS
<1>10. x \in Heaps
  <2>1. g \in Gen \union {-1} /\ new \in Gen \union {-1} /\ {} \in SUBSET Addr /\ << >> \in Seq(Addr)
    BY <1>0
  <2>2. h \in Heaps /\ GS \in [Gen -> Generation] /\ new \in Gen
    BY <1>0, <1>1, <1>9
  <2> DEFINE y == [h EXCEPT !.generations = GS, !.page = PG]
  <2>3. y \in Heaps
    BY <1>8, <2>2 DEF Heaps
  <2>4. x = [y EXCEPT !.weak_pointers = {}, !.weak_hash_tables = << >>,
                      !.from_space = g, !.new_space = new, !.gc_alloc_generation = new]
    BY <1>6, <2>2 DEF Heaps
  <2> HIDE DEF y
  <2>5. QED
    BY <2>1, <2>2, <2>3, <2>4 DEF Heaps
<1>11. /\ x.page = PG /\ x.generations = GS /\ x.mem = h.mem /\ x.region = h.region
       /\ x.weak_pointers = {} /\ x.weak_hash_tables = << >> /\ x.new_areas = h.new_areas
       /\ x.from_space = g /\ x.new_space = new /\ x.gc_alloc_generation = new
       /\ x.record_new_objects = h.record_new_objects /\ x.last_free_page = h.last_free_page
  BY <1>1, <1>6 DEF Heaps
<1>12. h.new_areas = << >> /\ h.record_new_objects = 0
  BY <1>1 DEF NoAreas, MaySetUp
<1>13. SameCells(h, x)
  BY <1>11 DEF SameCells
<1>14. \A G \in Gen : x.generations[G].bytes_allocated = h.generations[G].bytes_allocated
  BY <1>9, <1>11
<1>15. \A p \in Pages : /\ SameShape(h, x, p) /\ x.page[p].gen = h.page[p].gen /\ ~x.page[p].pinned
                        /\ x.page[p].wp = (h.page[p].wp /\ ~InGen(h, p, g))
  BY <1>7, <1>11 DEF SameShape
<1>16. QED
  BY <1>10, <1>11, <1>12, <1>13, <1>14, <1>15

LEMMA SetUpOK ==
  ASSUME NEW g, NEW r, MaySetUp(g, r), NEW x, x = SetUpSpaces(g, r)
  PROVE  /\ x \in Heaps /\ HeapOK(x) /\ Collecting(x)
         /\ x.from_space = g /\ x.new_space = (IF r THEN g + 1 ELSE NumGenerations) /\ x.record_new_objects = 0
<1> DEFINE new == IF r THEN g + 1 ELSE NumGenerations
<1>0. new = (IF r THEN g + 1 ELSE NumGenerations)
  OBVIOUS
<1>n. g \in Int /\ g >= 0 /\ g <= NumGenerations - 1 /\ new \in Int /\ g < new /\ new <= NumGenerations /\ NumGenerations \in Int
  BY Constants, SizesAssumption DEF MaySetUp
<1> HIDE DEF new
<1>1. /\ x \in Heaps /\ SameCells(h, x)
      /\ x.weak_pointers = {} /\ x.weak_hash_tables = << >> /\ x.new_areas = << >>
      /\ x.from_space = g /\ x.new_space = new /\ x.gc_alloc_generation = new
      /\ x.record_new_objects = 0 /\ x.last_free_page = h.last_free_page
      /\ \A G \in Gen : x.generations[G].bytes_allocated = h.generations[G].bytes_allocated
      /\ \A p \in Pages : /\ SameShape(h, x, p) /\ x.page[p].gen = h.page[p].gen /\ ~x.page[p].pinned
                          /\ x.page[p].wp = (h.page[p].wp /\ ~InGen(h, p, g))
  BY <1>0, SetUpIs
<1>2. h \in Heaps /\ HeapOK(h) /\ PagesOK(h) /\ Counters(h) /\ Reset(h) /\ FreePages(h) /\ AllBelow(h)
  BY DEF MaySetUp, HeapOK, PagesOK
<1>3. /\ \A k \in Regions : h.region[k].first..h.region[k].last = {}
      /\ \A p \in Pages : h.page[p].alloc => h.page[p].used # 0
  BY <1>2, NoRegions
<1>4. Labelled(x)
  <2>1. \A p \in Pages : ~x.page[p].alloc => ~x.page[p].wp /\ ~x.page[p].pinned
    <3> TAKE p \in Pages
    <3>1. SameShape(h, x, p) /\ ~x.page[p].pinned /\ x.page[p].wp = (h.page[p].wp /\ ~InGen(h, p, g))
      BY <1>1
    <3>2. x.page[p].alloc = h.page[p].alloc
      BY <3>1 DEF SameShape
    <3>3. ~h.page[p].alloc => ~h.page[p].wp
      BY <1>2 DEF FreePages
    <3>4. QED
      BY <3>1, <3>2, <3>3
  <2>2. ASSUME NEW q \in Pages, x.page[q].alloc, x.page[q].used # 0, x.page[q].offset # 0
        PROVE  x.page[q-1].gen = x.page[q].gen
    <3>1. h.page[q].alloc /\ h.page[q].used # 0 /\ h.page[q].offset # 0
      BY <1>1, <2>2 DEF SameShape
    <3>2. LinkedTo(h, q)
      BY <1>2, <3>1 DEF PagesOK, Links
    <3>3. q - 1 \in Pages /\ h.page[q-1].gen = h.page[q].gen
      BY <3>2, Paging DEF LinkedTo, Pages
    <3>4. QED
      BY <1>1, <3>3
  <2>3. \A k \in Regions : x.region[k].first..x.region[k].last = {}
    BY <1>1, <1>3 DEF SameCells
  <2>4. QED
    BY <2>1, <2>2, <2>3 DEF Labelled
<1>5. AllBelow(x)
  BY <1>1, <1>2 DEF AllBelow, SameShape
<1>6. \A p \in Pages : SameShape(h, x, p)
  BY <1>1
<1>7. PagesOK(x)
  BY <1>1, <1>2, <1>4, <1>5, <1>6, Relabelled
<1>8. Counters(x)
  <2>1. \A p \in Pages : x.page[p].used = h.page[p].used /\ x.page[p].alloc = h.page[p].alloc /\ x.page[p].gen = h.page[p].gen
    BY <1>1 DEF SameShape
  <2>2. QED
    BY <1>1, <1>2, <2>1, CountersCarry
<1>9. HeapOK(x)
  BY <1>1, <1>7, <1>8 DEF HeapOK, NoAreas
<1>10. Spaces(x)
  BY <1>1, <1>n DEF Spaces
<1>11. OldSpace(x)
  <2> SUFFICES ASSUME NEW p \in Pages, x.page[p].alloc
               PROVE  x.page[p].gen >= x.from_space /\ (x.page[p].gen = x.from_space => ~x.page[p].wp /\ ~x.page[p].pinned)
    BY DEF OldSpace
  <2>1. h.page[p].alloc /\ h.page[p].used # 0
    BY <1>1, <1>3 DEF SameShape
  <2>2. h.page[p].gen >= g
    BY <2>1 DEF MaySetUp
  <2>3. x.page[p].gen = x.from_space => InGen(h, p, g)
    BY <1>1, <2>1 DEF InGen
  <2>4. QED
    BY <1>1, <2>2, <2>3
<1>12. WeakLists(x)
  BY <1>1 DEF WeakLists
<1>13. SafeAreas(x)
  BY <1>1 DEF SafeAreas, InArea
<1>14. QED
  BY <1>0, <1>1, <1>9, <1>10, <1>11, <1>12, <1>13 DEF Collecting

LEMMA FlushOK ==
  ASSUME NEW m \in Heaps, HeapOK(m), NEW y, y = Flush(m)
  PROVE  y \in Heaps /\ HeapOK(y) /\ Grows(m, y) /\ Reset(y) /\ y.overflow = m.overflow
<1> DEFINE a == "boxed"
           b == "unboxed"
           x == gc_alloc_update_page_tables(m, a)
<1>0. a \in Regions /\ b \in Regions /\ a # b /\ \A k \in Regions : k = a \/ k = b
  BY DEF Regions
<1>1. y = gc_alloc_update_page_tables(x, b)
  BY DEF Flush
<1>2. x = gc_alloc_update_page_tables(m, a)
  OBVIOUS
<1> HIDE DEF a, b, x
<1>3. HeapOK(x) /\ x \in Heaps /\ Grows(m, x) /\ x.region[a] = ResetRegion /\ x.overflow = m.overflow
  BY <1>0, <1>2, UpdateTablesOK
<1>4. /\ HeapOK(y) /\ y \in Heaps /\ Grows(x, y) /\ y.region[b] = ResetRegion /\ y.overflow = x.overflow
      /\ \A j \in Regions : j # b => y.region[j] = x.region[j]
  BY <1>0, <1>1, <1>3, UpdateTablesOK
<1>5. Grows(m, y)
  BY <1>3, <1>4, GrowsOn
<1>6. Reset(y)
  BY <1>0, <1>3, <1>4 DEF Reset
<1>7. QED
  BY <1>3, <1>4, <1>5, <1>6

LEMMA FlushCollects ==
  ASSUME NEW m \in Heaps, HeapOK(m), Collecting(m), NEW y, y = Flush(m)
  PROVE  Collects(m, y) /\ Reset(y)
<1>1. y \in Heaps /\ HeapOK(y) /\ Grows(m, y) /\ Reset(y)
  BY FlushOK
<1>2. QED
  BY <1>1, GrowsKeeps DEF Collects

\* The new lists and switches of a round.
Rounds(m, areas, record) == [m EXCEPT !.new_areas = areas, !.record_new_objects = record]

LEMMA RoundsOK ==
  ASSUME NEW m \in Heaps, HeapOK(m), Collecting(m), NEW areas, areas = << >> \/ areas = m.new_areas,
         NEW record \in 0..2, record = 0 => areas = << >>, NEW x, x = Rounds(m, areas, record)
  PROVE  /\ x \in Heaps /\ HeapOK(x) /\ Collecting(x)
         /\ x.record_new_objects = record /\ x.new_areas = areas
         /\ x.from_space = m.from_space /\ x.new_space = m.new_space /\ x.page = m.page /\ x.region = m.region
<1>1. areas \in Seq(Area)
  <2>1. m.new_areas \in Seq(Area) /\ << >> \in Seq(Area)
    BY DEF Heaps
  <2>2. QED
    BY <2>1
<1>2. x \in Heaps
  BY <1>1 DEF Rounds, Heaps
<1>3. /\ x.record_new_objects = record /\ x.new_areas = areas
      /\ x.from_space = m.from_space /\ x.new_space = m.new_space /\ x.page = m.page /\ x.region = m.region
      /\ x.mem = m.mem /\ x.generations = m.generations
      /\ x.gc_alloc_generation = m.gc_alloc_generation /\ x.last_free_page = m.last_free_page
      /\ x.weak_pointers = m.weak_pointers /\ x.weak_hash_tables = m.weak_hash_tables
  BY <1>1 DEF Rounds, Heaps
<1>4. SamePlaces(m, x)
  BY <1>3 DEF SamePlaces, SameHeap
<1>5. NoAreas(x)
  BY <1>3 DEF NoAreas
<1>6. WeakLists(x)
  BY <1>3, <1>4, PlacesKept DEF Collecting
<1>7. FewerAreas(m, x)
  BY <1>3 DEF FewerAreas, InArea
<1>8. HeapOK(x) /\ Collecting(x)
  BY <1>2, <1>4, <1>5, <1>6, <1>7, ListsOK
<1>9. QED
  BY <1>2, <1>3, <1>8

-----------------------------------------------------------------------------
(* Older generations: a page is protected, and a block is scavenged.         *)
LEMMA ProtectOneOK ==
  ASSUME NEW m \in Heaps, HeapOK(m), Collecting(m), NEW p \in Pages, OlderPage(m, p),
         NEW x, x = update_page_write_prot(m, p)
  PROVE  Collects(m, x)
<1> DEFINE u == TRUE
<1>1. x = m \/ x = OnePage(m, p, u)
  BY DEF update_page_write_prot, OnePage
<1>2. u = TRUE /\ u \in BOOLEAN
  OBVIOUS
<1> HIDE DEF u
<1>3. CASE x = m
  BY <1>3, CollectsSelf
<1>4. CASE x = OnePage(m, p, u)
  <2>1. m.page[p].alloc /\ m.page[p].gen # m.from_space /\ m.page[p].gen # m.new_space
    BY DEF OlderPage
  <2>2. Spaces(m) /\ PagesOK(m) /\ RegionsOK(m)
    BY DEF Collecting, HeapOK, PagesOK
  <2>3. ASSUME NEW k \in Regions, p \in m.region[k].first..m.region[k].last PROVE FALSE
    <3>1. CASE m.region[k] = ResetRegion
      BY <2>3, <3>1, ResetIs
    <3>2. CASE Opened(m, k)
      <4>1. m.page[p].gen = m.gc_alloc_generation
        BY <2>3, <3>2 DEF Opened
      <4>2. QED
        BY <2>1, <2>2, <4>1 DEF Spaces
    <3>3. QED
      BY <2>2, <3>1, <3>2 DEF RegionsOK
  <2>4. \A k \in Regions : p \notin m.region[k].first..m.region[k].last
    BY <2>3
  <2>5. x \in Heaps /\ HeapOK(x) /\ x.mem = m.mem
    <3>1. OnePage(m, p, u) \in Heaps /\ HeapOK(OnePage(m, p, u)) /\ OnePage(m, p, u).mem = m.mem
      BY <1>2, <2>1, <2>4, OnePageOK
    <3>2. QED
      BY <1>4, <3>1
  <2>6. /\ x.from_space = m.from_space /\ x.new_space = m.new_space
        /\ x.gc_alloc_generation = m.gc_alloc_generation /\ x.record_new_objects = m.record_new_objects
        /\ x.weak_pointers = m.weak_pointers /\ x.weak_hash_tables = m.weak_hash_tables
        /\ x.new_areas = m.new_areas
    BY <1>4 DEF OnePage, Heaps
  <2>7. SameSpaces(m, x)
    BY <2>6 DEF SameSpaces
  <2>8. ASSUME NEW q \in Pages PROVE SameLabels(m, x, q)
    <3>1. q # p => x.page[q] = m.page[q]
      BY <1>4 DEF OnePage, Heaps
    <3>2. CASE q # p
      BY <3>1, <3>2 DEF SameLabels, SameShape
    <3>3. CASE q = p
      <4>1. x.page[p] = [m.page[p] EXCEPT !.wp = u]
        BY <1>4 DEF OnePage, Heaps
      <4>2. m.page[p] \in Page
        BY PageIs
      <4>3. /\ x.page[p].alloc = m.page[p].alloc /\ x.page[p].unboxed = m.page[p].unboxed
            /\ x.page[p].large = m.page[p].large /\ x.page[p].used = m.page[p].used
            /\ x.page[p].offset = m.page[p].offset /\ x.page[p].gen = m.page[p].gen
            /\ x.page[p].pinned = m.page[p].pinned
        BY <4>1, <4>2 DEF Page
      <4>4. QED
        BY <2>1, <3>3, <4>3 DEF SameLabels, SameShape
    <3>4. QED
      BY <3>2, <3>3
  <2>9. \A a \in Addr : SafeStays(m, x, a)
    BY <2>5 DEF SafeStays
  <2>10. \A b \in Int : InArea(x, b) => InArea(m, b)
    BY <2>6 DEF InArea
  <2>11. Collecting(x) /\ Keeps(m, x)
    BY <2>5, <2>6, <2>7, <2>8, <2>9, <2>10, StoresKeep
  <2>12. QED
    BY <2>5, <2>11 DEF Collects
<1>5. QED
  BY <1>1, <1>3, <1>4

LEMMA OlderStays ==
  ASSUME NEW m, NEW x, Collects(m, x), NEW p \in Pages, OlderPage(m, p)
  PROVE  OlderPage(x, p)
<1>1. KeptPage(m, x, p) /\ x.from_space = m.from_space /\ x.new_space = m.new_space
  BY DEF Collects, Keeps, SameSpaces
<1>2. x.page[p].alloc = m.page[p].alloc /\ x.page[p].gen = m.page[p].gen
  BY <1>1 DEF KeptPage, SameShape
<1>3. QED
  BY <1>1, <1>2 DEF OlderPage

LEMMA ProtectPagesOK ==
  ASSUME NEW m \in Heaps, HeapOK(m), Collecting(m), NEW p \in Int, NEW l \in Int, p <= l,
         \A q \in p..l : q \in Pages /\ OlderPage(m, q), NEW y, y = ProtectPages(m, p, l)
  PROVE  Collects(m, y)
<1> DEFINE S == Collected(m)
           n == l - p + 1
<1>1. m \in S
  BY CollectsSelf DEF Collected
<1>2. n \in Nat /\ n = l - p + 1
  OBVIOUS
<1> HIDE DEF n
<1>3. \A i \in 1..n : \A x \in S : update_page_write_prot(x, p + i - 1) \in S
  <2> SUFFICES ASSUME NEW i \in 1..n, NEW x \in S PROVE update_page_write_prot(x, p + i - 1) \in S
    OBVIOUS
  <2> DEFINE q == p + i - 1
             z == update_page_write_prot(x, q)
  <2>1. z = update_page_write_prot(x, q)
    OBVIOUS
  <2>2. q \in p..l
    BY <1>2
  <2> HIDE DEF q, z
  <2>3. q \in Pages /\ OlderPage(m, q)
    BY <2>2
  <2>4. Collects(m, x) /\ x \in Heaps /\ HeapOK(x) /\ Collecting(x)
    BY DEF Collected, Collects
  <2>5. OlderPage(x, q)
    BY <2>3, <2>4, OlderStays
  <2>6. Collects(x, z)
    BY <2>1, <2>3, <2>4, <2>5, ProtectOneOK
  <2>7. Collects(m, z)
    BY <2>4, <2>6, CollectsOn
  <2>8. z \in S
    BY <2>7 DEF Collected, Collects
  <2>9. QED
    BY <2>8 DEF q, z
<1> HIDE DEF S
<1>4. ProtectPages(m, p, l) \in S
  BY <1>1, <1>2, <1>3, ProtectFold
<1>5. QED
  BY <1>4 DEF S, Collected

\* The cells of a block, and those from the start of its first object.
LEMMA BlockEnd ==
  ASSUME NEW m \in Heaps, NEW p \in Pages, NEW l \in Pages, p <= l, NEW n, n = m.page[l].used + page_address(l - p)
  PROVE  /\ n \in Nat /\ page_address(p) \in Int /\ page_address(p) + n = page_address(l) + m.page[l].used
         /\ page_address(p) + n <= page_address(l) + PageSize /\ page_address(l) \in Int
<1>1. p \in Int /\ l \in Int /\ PageSize \in Nat
  BY Paging DEF Pages
<1>2. m.page[l].used \in Nat /\ m.page[l].used <= PageSize
  BY PageIs
<1>3. page_address(l - p) \in Int /\ page_address(l) \in Int /\ page_address(p) \in Int /\ l - p \in Int
  BY <1>1, Paging
<1>4. page_address(l - p) + page_address(p) = page_address(l)
  <2> DEFINE j == l - p
  <2>1. j \in Nat /\ l = p + j
    BY <1>1
  <2>2. p * PageSize + j * PageSize = (p + j) * PageSize
    BY <1>1, <2>1
  <2>3. page_address(j) = j * PageSize /\ page_address(p) = p * PageSize /\ page_address(l) = l * PageSize
    BY DEF page_address
  <2> HIDE DEF j
  <2>4. page_address(j) + page_address(p) = page_address(l)
    <3> DEFINE a == p * PageSize
               b == j * PageSize
    <3>1. a \in Int /\ b \in Int
      BY <1>1, <2>1
    <3>2. page_address(l) = a + b /\ page_address(j) = b /\ page_address(p) = a
      BY <2>1, <2>2, <2>3
    <3> HIDE DEF a, b
    <3>3. QED
      BY <3>1, <3>2
  <2>5. QED
    BY <2>4 DEF j
<1>5. page_address(l - p) >= 0
  <2> DEFINE j == l - p
  <2>1. j \in Nat
    BY <1>1
  <2> HIDE DEF j
  <2>2. j = 0 \/ 0 < j
    BY <2>1
  <2>3. page_address(0) = 0 /\ (0 < j => page_address(0) + PageSize <= page_address(j)) /\ page_address(j) \in Int
    BY <2>1, Paging
  <2>4. page_address(j) >= 0
    BY <1>1, <2>2, <2>3
  <2>5. QED
    BY <2>4 DEF j
<1>6. QED
  BY <1>1, <1>2, <1>3, <1>4, <1>5

\* A page between two cells.
LEMMA Between ==
  ASSUME NEW b \in Int, NEW p \in Pages, NEW l \in Pages, page_address(p) <= b, b < page_address(l) + PageSize
  PROVE  /\ PageOf(b) \in p..l /\ PageOf(b) \in Pages /\ b \in Addr
         /\ page_address(PageOf(b)) <= b /\ b < page_address(PageOf(b)) + PageSize
<1> DEFINE q == PageOf(b)
<1>1. q \in Int /\ page_address(q) <= b /\ b < page_address(q) + PageSize
  BY PageBounds
<1> HIDE DEF q
<1>2. /\ p \in Int /\ l \in Int /\ p >= 0 /\ l <= NPages - 1 /\ NPages \in Int /\ PageSize \in Int
      /\ page_address(p) \in Int /\ page_address(l) \in Int /\ page_address(q) \in Int
  BY <1>1, Paging DEF Pages
<1>3. q < p => page_address(q) + PageSize <= page_address(p)
  BY <1>1, <1>2, Paging
<1>4. l < q => page_address(l) + PageSize <= page_address(q)
  BY <1>1, <1>2, Paging
<1>5. q >= p /\ q <= l
  BY <1>1, <1>2, <1>3, <1>4
<1>6. q \in Pages
  BY <1>1, <1>2, <1>5 DEF Pages
<1>7. b \in Addr
  BY <1>1, <1>6, CellIsIn
<1>8. QED
  BY <1>1, <1>2, <1>5, <1>6, <1>7 DEF q

LEMMA BlockSafe ==
  ASSUME NEW m \in Heaps, NEW g, g # m.from_space, NEW same, NEW p \in Pages, InGen(m, p, g), p \in same,
         NEW l, l = LastOfBlock(m, p, g, same), NEW n, n = m.page[l].used + page_address(l - p)
  PROVE  n \in Nat /\ SafeRange(m, page_address(p), n) /\ page_address(p) \in Int
<1>1. l \in Pages /\ p <= l /\ \A q \in p..l : InGen(m, q, g)
  BY LastOfBlockIs
<1>2. /\ n \in Nat /\ page_address(p) \in Int /\ page_address(l) \in Int
      /\ page_address(p) + n <= page_address(l) + PageSize
  BY <1>1, BlockEnd
<1>3. ASSUME NEW b \in page_address(p)..page_address(p)+n-1 PROVE Safe(m, b)
  <2>1. b \in Int /\ page_address(p) <= b /\ b < page_address(l) + PageSize
    BY <1>2, <1>3, Paging
  <2>2. PageOf(b) \in p..l /\ b \in Addr
    BY <1>1, <2>1, Between
  <2>3. m.page[PageOf(b)].gen = g
    BY <1>1, <2>2 DEF InGen
  <2>4. QED
    BY <2>2, <2>3 DEF Safe
<1>4. QED
  BY <1>2, <1>3 DEF SafeRange

\* The object that reaches into the block is of the same generation.
LEMMA SpaceSafe ==
  ASSUME NEW m \in Heaps, Links(m), NEW g, g # m.from_space, NEW same, NEW p \in Pages, InGen(m, p, g), p \in same,
         NEW l, l = LastOfBlock(m, p, g, same), NEW n, n = m.page[l].used + page_address(l - p),
         NEW d, d = m.page[p].offset
  PROVE  n + d \in Nat /\ SafeRange(m, page_address(p) - d, n + d) /\ page_address(p) - d \in Int
<1>1. n \in Nat /\ SafeRange(m, page_address(p), n) /\ page_address(p) \in Int
  BY BlockSafe
<1>2. d \in Nat
  BY PageIs
<1>3. StartOf(m, p) = page_address(p) - d
  BY DEF StartOf
<1>4. /\ StartOf(m, p) \in Addr
      /\ \A x \in Pages : x <= p /\ StartOf(m, p) < page_address(x) + PageSize => InChain(m, p, x)
  BY ChainIs DEF InGen
<1> DEFINE s == page_address(p) - d
<1>5. s \in Addr /\ s \in Int /\ \A x \in Pages : x <= p /\ s < page_address(x) + PageSize => InChain(m, p, x)
  BY <1>1, <1>2, <1>3, <1>4
<1>6. ASSUME NEW b \in s..page_address(p)-1 PROVE Safe(m, b)
  <2>0. b \in Int /\ s <= b /\ b < page_address(p)
    BY <1>1, <1>5, <1>6
  <2>1. 0 <= s
    BY <1>5, AddrIs
  <2>2. 0 \in Pages /\ page_address(0) <= b /\ b < page_address(p) + PageSize
    BY <1>1, <1>5, <2>0, <2>1, Paging DEF Pages
  <2>3. /\ PageOf(b) \in 0..p /\ PageOf(b) \in Pages /\ b \in Addr
        /\ page_address(PageOf(b)) <= b /\ b < page_address(PageOf(b)) + PageSize
    BY <2>0, <2>2, Between
  <2> DEFINE x == PageOf(b)
  <2>4. x \in Pages /\ x <= p /\ page_address(x) \in Int /\ b < page_address(x) + PageSize
    BY <2>3, Paging
  <2> HIDE DEF x
  <2>5. s < page_address(x) + PageSize
    BY <1>5, <2>0, <2>4, Paging
  <2> HIDE DEF s
  <2>6. InChain(m, p, x)
    BY <1>5, <2>4, <2>5
  <2>7. m.page[x].gen = g
    BY <2>6 DEF InChain, InGen
  <2>8. QED
    BY <2>3, <2>7 DEF Safe, x
<1>7. ASSUME NEW b \in s..s+(n+d)-1 PROVE Safe(m, b)
  <2>1. CASE b < page_address(p)
    <3>1. b \in s..page_address(p)-1
      BY <1>1, <1>2, <1>7, <2>1
    <3>2. QED
      BY <1>6, <3>1
  <2>2. CASE ~(b < page_address(p))
    <3>1. b \in page_address(p)..page_address(p)+n-1
      BY <1>1, <1>2, <1>7, <2>2
    <3>2. QED
      BY <1>1, <3>1 DEF SafeRange
  <2>3. QED
    BY <2>1, <2>2
<1>8. QED
  BY <1>1, <1>2, <1>5, <1>7 DEF SafeRange

-----------------------------------------------------------------------------
(* The invariant.                                                            *)

GcRec == [pc : {"lisp", "start", "older", "scan", "areas", "looping", "free", "next"},
          count : Nat, objects : 0..MaxObjects, ops : Nat, gen : Gen, last : Nat, raise : BOOLEAN, g : Gen, i : 0..NPages]

\* While a generation is collected: the spaces are those of the generation, and one that is
\* not raised is the last.
Gathering(m, c) ==
  /\ Collecting(m) /\ m.from_space = c.gen /\ c.gen <= OldestGenToGc
  /\ m.new_space = (IF c.raise THEN c.gen + 1 ELSE NumGenerations)
  /\ ~c.raise => c.gen >= OldestGenToGc \/ c.gen >= c.last

\* The page where the scan of an older generation goes on starts with an object.
AtStart(m, c) ==
  /\ c.g # c.gen /\ c.g # m.new_space
  /\ c.i \in Pages /\ InGen(m, c.i, c.g) /\ ~m.page[c.i].unboxed => m.page[c.i].offset = 0

\* Between two generations: if the last one was raised there is nothing younger than the
\* next, otherwise there is no next.
Following(m, c) ==
  IF c.raise THEN \A p \in Pages : m.page[p].alloc => m.page[p].gen >= c.gen
  ELSE c.gen > OldestGenToGc \/ c.gen > c.last

PcOK(m, c) ==
  /\ c.pc \notin {"scan", "areas", "looping"} => m.record_new_objects = 0
  /\ c.pc \in {"lisp", "start"} => c.gen = 0
  /\ c.pc \in {"start", "free", "next"} => Reset(m)
  /\ c.pc \in {"older", "scan", "areas", "looping", "free"} => Gathering(m, c)
  /\ c.pc = "older" => c.i = 0 \/ AtStart(m, c)
  /\ c.pc = "next" => Following(m, c)

Sound(m, c) == m \in Heaps /\ HeapOK(m) /\ c \in GcRec /\ PcOK(m, c)
IInv == Sound(h, gc) /\ root \in Roots

LEMMA Later ==
  ASSUME Sound(h', gc'), root' \in Roots
  PROVE  IInv'
<1>1. Sound(h, gc)' = Sound(h', gc')
  OBVIOUS
<1>2. (root \in Roots)' = (root' \in Roots)
  BY DEF Roots, Slot
<1>3. QED
  BY <1>1, <1>2 DEF IInv

LEMMA GcIs ==
  ASSUME NEW c \in GcRec
  PROVE  /\ c.pc \in {"lisp", "start", "older", "scan", "areas", "looping", "free", "next"}
         /\ c.objects \in 0..MaxObjects /\ c.objects \in Int /\ c.ops \in Nat /\ c.count \in Nat
         /\ c.gen \in Gen /\ c.gen \in Int /\ c.gen >= 0 /\ c.last \in Nat /\ c.raise \in BOOLEAN
         /\ c.g \in Gen /\ c.g \in Int /\ c.g >= 0 /\ c.i \in 0..NPages /\ c.i \in Int
<1>1. NumGenerations \in Nat /\ NPages \in Nat /\ MaxObjects \in Nat
  BY Constants
<1>2. QED
  BY <1>1 DEF GcRec, Gen

LEMMA Numbers ==
  /\ OldestGenToGc \in Nat /\ OldestGenToGc <= NumGenerations - 1 /\ NumGenerations \in Nat /\ NPages \in Nat
  /\ NumGenerations >= 1 /\ \A g : g \in Gen <=> g \in Int /\ 0 <= g /\ g <= NumGenerations
BY Constants, SizesAssumption DEF Gen

LEMMA Same ==
  ASSUME NEW m, NEW x, Collects(m, x)
  PROVE  /\ x \in Heaps /\ HeapOK(x) /\ Collecting(x) /\ x.from_space = m.from_space /\ x.new_space = m.new_space
         /\ x.record_new_objects = m.record_new_objects
BY DEF Collects, Keeps, SameSpaces

\* Up to the roots.
LEMMA StartGenerationOK ==
  ASSUME IInv, StartGeneration
  PROVE  IInv'
<1> DEFINE g == gc.gen
           r == Raise(g)
           x == SetUpSpaces(g, r)
           y == PreserveStack(x)
           z == ScavengeRoots([m |-> y, root |-> root])
<1>1. /\ h' = z.m /\ root' = z.root
      /\ gc' = [gc EXCEPT !.pc = "older", !.raise = r, !.g = 0, !.i = 0]
      /\ gc.pc = "start" \/ (gc.pc = "next" /\ Continue)
  BY DEF StartGeneration, At
<1>2. h \in Heaps /\ HeapOK(h) /\ gc \in GcRec /\ PcOK(h, gc) /\ root \in Roots
  BY DEF IInv, Sound
<1>3. Reset(h) /\ h.record_new_objects = 0
  BY <1>1, <1>2 DEF PcOK
<1>4. g \in 0..OldestGenToGc
  <2>1. CASE gc.pc = "start"
    BY <1>2, <2>1, Numbers DEF PcOK
  <2>2. CASE gc.pc = "next" /\ Continue
    BY <1>2, <2>2, Numbers, GcIs DEF Continue
  <2>3. QED
    BY <1>1, <2>1, <2>2
<1>5. \A p \in Pages : h.page[p].alloc => h.page[p].gen >= g
  <2>1. CASE gc.pc = "start"
    <3>1. g = 0
      BY <1>2, <2>1 DEF PcOK
    <3>2. \A p \in Pages : h.page[p].gen \in Gen
      BY <1>2, PageIs
    <3>3. QED
      BY <3>1, <3>2, Numbers
  <2>2. CASE gc.pc = "next" /\ Continue
    <3>1. Following(h, gc)
      BY <1>2, <2>2 DEF PcOK
    <3>2. gc.raise
      <4>1. gc.gen <= OldestGenToGc /\ (gc.gen < gc.last \/ gc.raise)
        BY <2>2 DEF Continue
      <4>2. QED
        BY <1>2, <3>1, <4>1, Numbers, GcIs DEF Following
    <3>3. QED
      BY <3>1, <3>2 DEF Following
  <2>3. QED
    BY <1>1, <2>1, <2>2
<1>6. r \in BOOLEAN /\ (r => g < OldestGenToGc) /\ (~r => g >= OldestGenToGc \/ g >= gc.last)
  <2>1. r => g < OldestGenToGc
    BY DEF Raise
  <2>2. h.generations[g].num_gc \in Nat
    <3>1. g \in Gen
      BY <1>2, GcIs
    <3>2. h.generations[g] \in Generation
      BY <1>2, <3>1 DEF Heaps
    <3>3. QED
      BY <3>2 DEF Generation
  <2>3. ~r => g >= OldestGenToGc \/ g >= gc.last
    <3>1. g \in Int /\ gc.last \in Int /\ OldestGenToGc \in Int
      BY <1>2, GcIs, Numbers
    <3>2. QED
      BY <3>1 DEF Raise
  <2>4. r \in BOOLEAN
    BY DEF Raise
  <2>5. QED
    BY <2>1, <2>3, <2>4
<1> HIDE DEF r
<1>7. MaySetUp(g, r)
  BY <1>2, <1>3, <1>4, <1>5, <1>6 DEF MaySetUp
<1>8. x = SetUpSpaces(g, r)
  OBVIOUS
<1> HIDE DEF x
<1>9. /\ x \in Heaps /\ HeapOK(x) /\ Collecting(x)
      /\ x.from_space = g /\ x.new_space = (IF r THEN g + 1 ELSE NumGenerations) /\ x.record_new_objects = 0
  BY <1>7, <1>8, SetUpOK
<1>10. y = PreserveStack(x)
  OBVIOUS
<1> HIDE DEF y
<1>11. Collects(x, y)
  BY <1>9, <1>10, PreserveStackOK
<1>12. y \in Heaps /\ HeapOK(y) /\ Collecting(y)
  BY <1>11, Same
<1>13. z = ScavengeRoots([m |-> y, root |-> root])
  OBVIOUS
<1> HIDE DEF z
<1>14. Collects(y, z.m) /\ z.root \in Roots
  BY <1>2, <1>12, <1>13, ScavengeRootsOK
<1>15. Collects(x, z.m)
  BY <1>11, <1>14, CollectsOn
<1> DEFINE m == z.m
           c == [gc EXCEPT !.pc = "older", !.raise = r, !.g = 0, !.i = 0]
<1>16. /\ m \in Heaps /\ HeapOK(m) /\ Collecting(m) /\ m.from_space = g
       /\ m.new_space = (IF r THEN g + 1 ELSE NumGenerations) /\ m.record_new_objects = 0
  BY <1>9, <1>15, Same
<1>17. /\ c \in GcRec /\ c.pc = "older" /\ c.raise = r /\ c.g = 0 /\ c.i = 0 /\ c.gen = g /\ c.last = gc.last
  <2>1. 0 \in Gen /\ 0 \in 0..NPages
    BY Numbers
  <2>2. QED
    BY <1>2, <1>6, <2>1 DEF GcRec
<1>18. m = h' /\ c = gc' /\ root' \in Roots
  BY <1>1, <1>14
<1> HIDE DEF m, c, g
<1>19. g <= OldestGenToGc
  BY <1>4, Numbers
<1>20. Gathering(m, c)
  BY <1>6, <1>16, <1>17, <1>19 DEF Gathering
<1>21. PcOK(m, c)
  BY <1>16, <1>17, <1>20 DEF PcOK
<1>22. Sound(h', gc')
  BY <1>16, <1>17, <1>18, <1>21 DEF Sound
<1>23. QED
  BY <1>18, <1>22, Later

\* The next block of an older generation.
LEMMA OlderIs ==
  ASSUME gc \in GcRec, Older # {}, NEW g, g = LeastOf(Older), NEW p, p = LeastOf(OlderLeft(g))
  PROVE  /\ g \in Gen /\ g # gc.gen /\ g # h.new_space /\ p \in Pages /\ p \in Boxed /\ InGen(h, p, g)
         /\ p \in OlderLeft(g) /\ \A q \in OlderLeft(g) : p <= q
<1>1. Older \in SUBSET Nat /\ \A j \in Older : j \in Gen /\ j # gc.gen /\ j # h.new_space /\ OlderLeft(j) # {}
  <2> SUFFICES ASSUME NEW j \in Older PROVE j \in Nat /\ j \in Gen /\ j # gc.gen /\ j # h.new_space /\ OlderLeft(j) # {}
    OBVIOUS
  <2>1. j \in gc.g..NumGenerations-1 /\ j # gc.gen /\ j # h.new_space /\ OlderLeft(j) # {}
    BY DEF Older
  <2>2. gc.g \in Int /\ gc.g >= 0 /\ NumGenerations \in Int
    BY GcIs, Numbers
  <2>3. QED
    BY <2>1, <2>2, Numbers
<1>2. g \in Older
  <2> DEFINE S == Older
  <2>1. S \in SUBSET Nat /\ S # {} /\ g = LeastOf(S)
    BY <1>1
  <2> HIDE DEF S
  <2>2. g \in S
    BY <2>1, Least
  <2>3. QED
    BY <2>2 DEF S
<1>3. OlderLeft(g) \in SUBSET Pages /\ \A q \in OlderLeft(g) : q \in Boxed /\ InGen(h, q, g)
  <2>1. \A j : BoxedPages(g, j) \subseteq Boxed /\ \A q \in BoxedPages(g, j) : InGen(h, q, g)
    BY DEF BoxedPages
  <2>2. Boxed \subseteq Pages
    BY DEF Boxed
  <2>3. QED
    BY <2>1, <2>2 DEF OlderLeft
<1>4. p \in OlderLeft(g) /\ \A q \in OlderLeft(g) : p <= q
  <2> DEFINE S == OlderLeft(g)
  <2>1. S \in SUBSET Nat
    BY <1>3, Paging DEF Pages
  <2>2. S # {} /\ p = LeastOf(S)
    BY <1>1, <1>2
  <2> HIDE DEF S
  <2>3. p \in S /\ \A q \in S : p <= q
    BY <2>1, <2>2, Least
  <2>4. QED
    BY <2>3 DEF S
<1>5. QED
  BY <1>1, <1>2, <1>3, <1>4

LEMMA ScavengeGenerationOK ==
  ASSUME IInv, ScavengeGeneration
  PROVE  IInv'
<1> DEFINE g == LeastOf(Older)
           p == LeastOf(OlderLeft(g))
           l == LastOfBlock(h, p, g, Boxed)
           n == BlockSize(p, l)
           x == scavenge(h, page_address(p), n)
           m == IF \A q \in p..l : h.page[q].wp THEN h ELSE ProtectPages(x, p, l)
           c == [gc EXCEPT !.g = g, !.i = l + 1]
<1>1. h' = m /\ gc' = c /\ root' = root /\ gc.pc = "older" /\ Older # {}
  BY DEF ScavengeGeneration, At
<1>2. h \in Heaps /\ HeapOK(h) /\ gc \in GcRec /\ PcOK(h, gc) /\ root \in Roots /\ Links(h)
  BY DEF IInv, Sound, HeapOK, PagesOK
<1>3. Gathering(h, gc) /\ Collecting(h) /\ h.record_new_objects = 0
  BY <1>1, <1>2 DEF PcOK, Gathering
<1>4. /\ g \in Gen /\ g # gc.gen /\ g # h.new_space /\ p \in Pages /\ p \in Boxed /\ InGen(h, p, g)
  BY <1>1, <1>2, OlderIs
<1>5. g # h.from_space
  BY <1>3, <1>4 DEF Gathering
<1> HIDE DEF g, p
<1>6. l = LastOfBlock(h, p, g, Boxed) /\ n = h.page[l].used + page_address(l - p)
  BY DEF BlockSize
<1> HIDE DEF l, n
<1>7. /\ l \in Pages /\ p <= l
      /\ \A q \in p..l : q \in Pages /\ InGen(h, q, g)
      /\ (l + 1 \in Pages /\ InGen(h, l + 1, g) /\ l + 1 \in Boxed /\ h.page[l+1].offset # 0) => h.page[l].used # PageSize
  BY <1>2, <1>4, <1>6, LastOfBlockIs
<1>8. p \in Int /\ l \in Int /\ l >= 0 /\ l <= NPages - 1
  BY <1>4, <1>7, Paging DEF Pages
<1>9. n \in Nat /\ SafeRange(h, page_address(p), n) /\ page_address(p) \in Int
  BY <1>2, <1>4, <1>5, <1>6, BlockSafe
<1>10. x = scavenge(h, page_address(p), n)
  OBVIOUS
<1> HIDE DEF x
<1>11. Collects(h, x)
  BY <1>2, <1>3, <1>9, <1>10, ScavengeOK
<1>12. \A q \in p..l : q \in Pages /\ OlderPage(h, q)
  BY <1>4, <1>5, <1>7 DEF OlderPage, InGen
<1>13. \A q \in p..l : q \in Pages /\ OlderPage(x, q)
  BY <1>11, <1>12, OlderStays
<1>14. Collects(h, m)
  <2>1. CASE m = h
    BY <1>2, <1>3, <2>1, CollectsSelf
  <2>2. CASE m = ProtectPages(x, p, l)
    <3> HIDE DEF m
    <3>1. x \in Heaps /\ HeapOK(x) /\ Collecting(x)
      BY <1>11, Same
    <3>2. Collects(x, m)
      BY <1>7, <1>8, <1>13, <2>2, <3>1, ProtectPagesOK
    <3>3. QED
      BY <1>11, <3>2, CollectsOn
  <2>3. QED
    BY <2>1, <2>2
<1> HIDE DEF m
<1>15. /\ m \in Heaps /\ HeapOK(m) /\ Collecting(m) /\ m.from_space = h.from_space /\ m.new_space = h.new_space
       /\ m.record_new_objects = 0
  BY <1>3, <1>14, Same
<1>16. /\ c \in GcRec /\ c.pc = "older" /\ c.g = g /\ c.i = l + 1
       /\ c.gen = gc.gen /\ c.last = gc.last /\ c.raise = gc.raise
  <2>1. l + 1 \in 0..NPages
    BY <1>8, Numbers
  <2>2. QED
    BY <1>1, <1>2, <1>4, <2>1 DEF GcRec
<1> HIDE DEF c
<1>17. Gathering(m, c)
  BY <1>3, <1>15, <1>16 DEF Gathering
<1>18. AtStart(m, c)
  <2>1. c.g # c.gen /\ c.g # m.new_space
    BY <1>4, <1>15, <1>16
  <2>2. ASSUME c.i \in Pages, InGen(m, c.i, c.g), ~m.page[c.i].unboxed PROVE m.page[c.i].offset = 0
    <3> DEFINE q == l + 1
    <3>1. q \in Pages /\ m.page[q].alloc /\ m.page[q].used # 0 /\ m.page[q].gen = g /\ ~m.page[q].unboxed /\ c.i = q
      BY <1>16, <2>2 DEF InGen
    <3>2. q = l + 1 /\ q - 1 = l /\ q \in Int
      BY <1>8
    <3> HIDE DEF q
    <3>3. OlderPage(m, q)
      BY <1>4, <1>5, <1>15, <3>1 DEF OlderPage
    <3>4. KeptPage(h, m, q)
      BY <1>14, <3>1 DEF Collects, Keeps
    <3>5. SameShape(h, m, q) /\ m.page[q].gen = h.page[q].gen
      BY <3>3, <3>4 DEF KeptPage
    <3>6. /\ h.page[q].alloc /\ h.page[q].used # 0 /\ h.page[q].gen = g /\ ~h.page[q].unboxed
          /\ h.page[q].offset = m.page[q].offset
      BY <3>1, <3>5 DEF SameShape
    <3>7. InGen(h, l + 1, g) /\ l + 1 \in Boxed /\ l + 1 \in Pages
      BY <3>1, <3>2, <3>6 DEF InGen, Boxed
    <3>8. ASSUME h.page[q].offset # 0 PROVE FALSE
      <4>1. LinkedTo(h, q)
        BY <1>2, <3>1, <3>6, <3>8 DEF Links
      <4>2. h.page[l].used = PageSize
        BY <3>2, <4>1 DEF LinkedTo
      <4>3. QED
        BY <1>7, <3>2, <3>7, <3>8, <4>2
    <3>9. QED
      BY <3>1, <3>6, <3>8
  <2>3. QED
    BY <2>1, <2>2 DEF AtStart
<1>19. PcOK(m, c)
  BY <1>15, <1>16, <1>17, <1>18 DEF PcOK
<1>20. Sound(h', gc')
  BY <1>1, <1>15, <1>16, <1>19 DEF Sound
<1>21. QED
  BY <1>1, <1>2, <1>20, Later

\* A later step of the same collection.
LEMMA Gathered ==
  ASSUME NEW m, NEW x, Gathering(m, gc), Collecting(x), x.from_space = m.from_space, x.new_space = m.new_space,
         NEW c, c.gen = gc.gen, c.last = gc.last, c.raise = gc.raise
  PROVE  Gathering(x, c)
BY DEF Gathering

LEMMA GatheringIs ==
  ASSUME IInv, gc.pc \in {"older", "scan", "areas", "looping", "free"}
  PROVE  /\ h \in Heaps /\ HeapOK(h) /\ gc \in GcRec /\ root \in Roots /\ Gathering(h, gc) /\ Collecting(h)
         /\ Links(h)
BY DEF IInv, Sound, PcOK, Gathering, HeapOK, PagesOK

\* What holds at a place of the collection where nothing is asked of the regions.
LEMMA GatheredSound ==
  ASSUME IInv, gc.pc \in {"older", "scan", "areas", "looping", "free"},
         NEW x \in Heaps, HeapOK(x), Collecting(x), x.from_space = h.from_space, x.new_space = h.new_space,
         NEW c \in GcRec, c.pc \in {"scan", "areas", "looping"}, c.gen = gc.gen, c.last = gc.last, c.raise = gc.raise,
         h' = x, gc' = c, root' = root
  PROVE  IInv'
<1>1. Gathering(h, gc) /\ root \in Roots
  BY GatheringIs
<1>2. Gathering(x, c)
  BY <1>1, Gathered
<1>3. PcOK(x, c)
  BY <1>2 DEF PcOK
<1>4. Sound(h', gc')
  BY <1>3 DEF Sound
<1>5. QED
  BY <1>1, <1>4, Later

LEMMA StartNewspaceOK ==
  ASSUME IInv, StartNewspace
  PROVE  IInv'
<1> DEFINE x == Flush(h)
           a == << >>
           i == 1
           y == Rounds(x, a, i)
           c == [gc EXCEPT !.pc = "scan", !.i = 0]
<1>1. h' = y /\ gc' = c /\ root' = root /\ gc.pc = "older"
  BY DEF StartNewspace, At, Rounds
<1>2. h \in Heaps /\ HeapOK(h) /\ gc \in GcRec /\ Collecting(h)
  BY <1>1, GatheringIs
<1>3. Collects(h, x)
  BY <1>2, FlushCollects
<1>4. x \in Heaps /\ HeapOK(x) /\ Collecting(x) /\ x.from_space = h.from_space /\ x.new_space = h.new_space
  BY <1>3, Same
<1>5. a = << >> /\ i \in 0..2 /\ (i = 0 => a = << >>) /\ y = Rounds(x, a, i)
  OBVIOUS
<1> HIDE DEF x, a, i, y
<1>6. y \in Heaps /\ HeapOK(y) /\ Collecting(y) /\ y.from_space = h.from_space /\ y.new_space = h.new_space
  BY <1>4, <1>5, RoundsOK
<1>7. c \in GcRec /\ c.pc = "scan" /\ c.gen = gc.gen /\ c.last = gc.last /\ c.raise = gc.raise
  <2>1. 0 \in 0..NPages
    BY Numbers
  <2>2. QED
    BY <1>2, <2>1 DEF GcRec
<1> HIDE DEF c
<1>8. QED
  BY <1>1, <1>6, <1>7, GatheredSound

Ignoring(m, l) == [m EXCEPT !.new_areas_ignore_page = l]

LEMMA IgnoringOK ==
  ASSUME NEW m \in Heaps, HeapOK(m), Collecting(m), NEW l \in Nat, NEW x, x = Ignoring(m, l)
  PROVE  Collects(m, x) /\ x.page = m.page
<1>1. x \in Heaps
  BY DEF Ignoring, Heaps
<1>2. /\ x.record_new_objects = m.record_new_objects /\ x.new_areas = m.new_areas
      /\ x.from_space = m.from_space /\ x.new_space = m.new_space /\ x.page = m.page /\ x.region = m.region
      /\ x.mem = m.mem /\ x.generations = m.generations
      /\ x.gc_alloc_generation = m.gc_alloc_generation /\ x.last_free_page = m.last_free_page
      /\ x.weak_pointers = m.weak_pointers /\ x.weak_hash_tables = m.weak_hash_tables
  BY DEF Ignoring, Heaps
<1>3. SamePlaces(m, x)
  BY <1>2 DEF SamePlaces, SameHeap
<1>4. NoAreas(x)
  BY <1>2 DEF NoAreas, HeapOK
<1>5. WeakLists(x)
  BY <1>2, <1>3, PlacesKept DEF Collecting
<1>6. FewerAreas(m, x)
  BY <1>2 DEF FewerAreas, InArea
<1>7. QED
  BY <1>1, <1>2, <1>3, <1>4, <1>5, <1>6, ListsOK

LEMMA OneScanOK ==
  ASSUME IInv, OneScan
  PROVE  IInv'
<1> DEFINE p == LeastOf(NewspacePages(gc.i))
           g == h.new_space
           l == LastOfBlock(h, p, g, Boxed)
           d == h.page[p].offset
           n == BlockSize(p, l)
           x == Ignoring(h, l)
           y == scavenge(x, page_address(p) - d, n + d)
           c == [gc EXCEPT !.i = l + 1]
<1>1. h' = y /\ gc' = c /\ root' = root /\ gc.pc = "scan" /\ NewspacePages(gc.i) # {}
  BY DEF OneScan, At, Ignoring
<1>2. h \in Heaps /\ HeapOK(h) /\ gc \in GcRec /\ Collecting(h) /\ Links(h)
  BY <1>1, GatheringIs
<1>3. p \in Pages /\ p \in Boxed /\ InGen(h, p, g)
  <2> DEFINE S == NewspacePages(gc.i)
  <2>1. S \subseteq Boxed /\ \A q \in S : InGen(h, q, g)
    BY DEF NewspacePages, BoxedPages
  <2>2. Boxed \subseteq Pages
    BY DEF Boxed
  <2>4. S # {} /\ p = LeastOf(S)
    BY <1>1
  <2> HIDE DEF S, p
  <2>n. Pages \subseteq Nat
    BY Paging DEF Pages
  <2>3. S \in SUBSET Nat
    BY <2>1, <2>2, <2>n
  <2>5. p \in S
    BY <2>3, <2>4, Least
  <2>6. QED
    BY <2>1, <2>2, <2>5
<1>4. g # h.from_space
  BY <1>2, SpacesAre DEF Collecting
<1>5. l = LastOfBlock(h, p, g, Boxed) /\ n = h.page[l].used + page_address(l - p) /\ d = h.page[p].offset
  BY DEF BlockSize
<1> HIDE DEF p, g, l, d, n
<1>6. l \in Pages
  BY <1>2, <1>3, <1>5, LastOfBlockIs
<1>7. n + d \in Nat /\ SafeRange(h, page_address(p) - d, n + d) /\ page_address(p) - d \in Int
  BY <1>2, <1>3, <1>4, <1>5, SpaceSafe
<1>8. x = Ignoring(h, l) /\ l \in Nat /\ l + 1 \in 0..NPages
  BY <1>6, Paging DEF Pages
<1> HIDE DEF x
<1>9. Collects(h, x) /\ x.page = h.page
  BY <1>2, <1>8, IgnoringOK
<1>10. x \in Heaps /\ HeapOK(x) /\ Collecting(x) /\ x.from_space = h.from_space /\ x.new_space = h.new_space
  BY <1>9, Same
<1> DEFINE s == page_address(p) - d
           e == n + d
<1>11. s \in Int /\ e \in Nat /\ SafeRange(x, s, e) /\ y = scavenge(x, s, e)
  BY <1>7, <1>9, <1>10 DEF SafeRange, Safe
<1> HIDE DEF s, e, y
<1>12. Collects(x, y)
  BY <1>10, <1>11, ScavengeOK
<1>13. y \in Heaps /\ HeapOK(y) /\ Collecting(y) /\ y.from_space = h.from_space /\ y.new_space = h.new_space
  BY <1>10, <1>12, Same
<1>14. c \in GcRec /\ c.pc = "scan" /\ c.gen = gc.gen /\ c.last = gc.last /\ c.raise = gc.raise
  BY <1>1, <1>2, <1>8 DEF GcRec
<1> HIDE DEF c
<1>15. QED
  BY <1>1, <1>13, <1>14, GatheredSound

\* On a list of tables that is a cycle scav_weak_tables stays.
LEMMA LoopingOK ==
  ASSUME IInv, gc.pc \in {"scan", "areas"},
         NEW m \in Heaps, HeapOK(m), Collecting(m), m.from_space = h.from_space, m.new_space = h.new_space,
         h' = Settled(m), gc' = [gc EXCEPT !.pc = "looping"], root' = root
  PROVE  IInv'
<1> DEFINE y == Settled(m)
           c == [gc EXCEPT !.pc = "looping"]
<1>1. y = Settled(m) /\ h' = y /\ gc' = c /\ gc \in GcRec
  BY DEF IInv, Sound
<1>2. c \in GcRec /\ c.pc = "looping" /\ c.gen = gc.gen /\ c.last = gc.last /\ c.raise = gc.raise
  BY <1>1 DEF GcRec
<1> HIDE DEF y, c
<1>3. Collects(m, y)
  BY <1>1, SettledOK
<1>4. y \in Heaps /\ HeapOK(y) /\ Collecting(y) /\ y.from_space = h.from_space /\ y.new_space = h.new_space
  BY <1>3, Same
<1>5. QED
  BY <1>1, <1>2, <1>4, GatheredSound

LEMMA OneScanEndsOK ==
  ASSUME IInv, OneScanEnds
  PROVE  IInv'
<1> DEFINE x == scav_weak_tables(h)
           a == x.new_areas
           i == 2
           y == Rounds(x, a, i)
           z == Flush(y)
           c == [gc EXCEPT !.pc = "areas"]
<1>0. h \in Heaps /\ HeapOK(h) /\ gc \in GcRec /\ Collecting(h) /\ gc.pc = "scan" /\ root' = root
  BY GatheringIs DEF OneScanEnds, WeakTables, At
<1>c. CASE Cyclic(h)
  BY <1>0, <1>c, LoopingOK DEF OneScanEnds, WeakTables
<1> SUFFICES ASSUME ~Cyclic(h) PROVE IInv'
  BY <1>c
<1>1. x = scav_weak_tables(h) /\ a = x.new_areas /\ z = Flush(y)
  OBVIOUS
<1>2. h' = Flush([x EXCEPT !.record_new_objects = 2]) /\ gc' = c /\ root' = root /\ gc.pc = "scan"
  BY <1>0 DEF OneScanEnds, WeakTables
<1> HIDE DEF x
<1>3. Collects(h, x)
  BY <1>0, <1>1, ScavWeakTablesOK
<1>4. x \in Heaps /\ HeapOK(x) /\ Collecting(x) /\ x.from_space = h.from_space /\ x.new_space = h.new_space
  BY <1>3, Same
<1>5. [x EXCEPT !.record_new_objects = 2] = y
  BY <1>4 DEF Rounds, Heaps
<1>6. h' = z
  BY <1>2, <1>5
<1>7. i \in 0..2 /\ (i = 0 => a = << >>) /\ y = Rounds(x, a, i)
  OBVIOUS
<1> HIDE DEF a, i, y
<1>8. y \in Heaps /\ HeapOK(y) /\ Collecting(y) /\ y.from_space = h.from_space /\ y.new_space = h.new_space
  BY <1>1, <1>4, <1>7, RoundsOK
<1> HIDE DEF z
<1>9. Collects(y, z)
  BY <1>1, <1>8, FlushCollects
<1>10. z \in Heaps /\ HeapOK(z) /\ Collecting(z) /\ z.from_space = h.from_space /\ z.new_space = h.new_space
  BY <1>8, <1>9, Same
<1>11. c \in GcRec /\ c.pc = "areas" /\ c.gen = gc.gen /\ c.last = gc.last /\ c.raise = gc.raise
  BY <1>0 DEF GcRec
<1> HIDE DEF c
<1>12. QED
  BY <1>2, <1>6, <1>10, <1>11, GatheredSound

LEMMA ScavengeNewAreasOK ==
  ASSUME IInv, ScavengeNewAreas
  PROVE  IInv'
<1> DEFINE a == << >>
           seq == h.new_areas
           c == [gc EXCEPT !.pc = "scan", !.i = 0]
<1>0. h \in Heaps /\ HeapOK(h) /\ gc \in GcRec /\ Collecting(h) /\ gc.pc = "areas"
  BY GatheringIs DEF ScavengeNewAreas, At
<1>1. a = << >> /\ seq \in Seq(Area) /\ seq = h.new_areas
  BY <1>0 DEF Heaps
<1> DEFINE fresh == [h EXCEPT !.new_areas = << >>]
<1>2. /\ root' = root
      /\ \/ h' = [fresh EXCEPT !.record_new_objects = 1] /\ gc' = c
         \/ ScavengeAreas(fresh)
  BY DEF ScavengeNewAreas, Rescan, ScavengeAreas, WeakTables
<1>3. CASE h' = [fresh EXCEPT !.record_new_objects = 1] /\ gc' = c
  <2> DEFINE i == 1
             y == Rounds(h, a, i)
  <2>1. h' = y
    BY <1>0, <1>3 DEF Rounds, Heaps
  <2>2. i \in 0..2 /\ (i = 0 => a = << >>) /\ y = Rounds(h, a, i)
    OBVIOUS
  <2> HIDE DEF i, y, a
  <2>3. y \in Heaps /\ HeapOK(y) /\ Collecting(y) /\ y.from_space = h.from_space /\ y.new_space = h.new_space
    BY <1>0, <1>1, <2>2, RoundsOK
  <2>4. c \in GcRec /\ c.pc = "scan" /\ c.gen = gc.gen /\ c.last = gc.last /\ c.raise = gc.raise
    <3>1. 0 \in 0..NPages
      BY Numbers
    <3>2. QED
      BY <1>0, <3>1 DEF GcRec
  <2> HIDE DEF c
  <2>5. QED
    BY <1>0, <1>2, <1>3, <2>1, <2>3, <2>4, GatheredSound
<1>4. CASE ScavengeAreas(fresh)
  <2> DEFINE i == h.record_new_objects
             w == Rounds(h, a, i)
             x == scavenge_areas(w, seq)
             y == scav_weak_tables(x)
             z == Flush(y)
  <2>1. w = fresh
    BY <1>0 DEF Rounds, Heaps
  <2>2. w = Rounds(h, a, i) /\ x = scavenge_areas(w, seq) /\ y = scav_weak_tables(x) /\ z = Flush(y)
    OBVIOUS
  <2>s. WeakTables(x, z)
    BY <1>4, <2>1 DEF ScavengeAreas
  <2>3. i \in 0..2 /\ (i = 0 => a = << >>)
    BY <1>0 DEF Heaps
  <2> HIDE DEF fresh, w, x, y, z, i, a, seq
  <2>4. w \in Heaps /\ HeapOK(w) /\ Collecting(w) /\ w.from_space = h.from_space /\ w.new_space = h.new_space /\ w.page = h.page
    BY <1>0, <1>1, <2>2, <2>3, RoundsOK
  <2>5. \A j \in 1..Len(seq) : SafeRange(w, seq[j].start, seq[j].size)
    <3> SUFFICES ASSUME NEW j \in 1..Len(seq) PROVE SafeRange(w, seq[j].start, seq[j].size)
      OBVIOUS
    <3> SUFFICES ASSUME NEW b \in seq[j].start..seq[j].start+seq[j].size-1 PROVE Safe(w, b)
      BY DEF SafeRange
    <3>1. j \in DOMAIN seq /\ seq[j] \in Area
      BY <1>1
    <3>2. seq[j].start \in Int /\ seq[j].size \in Int
      BY <3>1, AddrIs DEF Area
    <3>3. b \in Int /\ seq[j].start <= b /\ b < seq[j].start + seq[j].size
      BY <3>2
    <3>4. InArea(h, b)
      BY <1>1, <3>1, <3>3 DEF InArea
    <3>5. Safe(h, b)
      BY <1>0, <3>3, <3>4 DEF Collecting, SafeAreas
    <3>6. QED
      BY <2>4, <3>5 DEF Safe
  <2>6. Collects(w, x)
    BY <1>1, <2>2, <2>4, <2>5, ScavengeAreasOK
  <2>7. x \in Heaps /\ HeapOK(x) /\ Collecting(x) /\ x.from_space = h.from_space /\ x.new_space = h.new_space
    BY <2>4, <2>6, Same
  <2>8. Collects(x, y)
    BY <2>2, <2>7, ScavWeakTablesOK
  <2>9. y \in Heaps /\ HeapOK(y) /\ Collecting(y) /\ y.from_space = h.from_space /\ y.new_space = h.new_space
    BY <2>7, <2>8, Same
  <2>10. Collects(y, z)
    BY <2>2, <2>9, FlushCollects
  <2>11. z \in Heaps /\ HeapOK(z) /\ Collecting(z) /\ z.from_space = h.from_space /\ z.new_space = h.new_space
    BY <2>9, <2>10, Same
  <2>12. CASE Cyclic(x)
    BY <1>0, <2>s, <2>7, <2>12, LoopingOK DEF WeakTables
  <2>13. CASE ~Cyclic(x)
    <3>1. h' = z /\ gc' = gc /\ root' = root
      BY <1>0, <2>s, <2>13 DEF WeakTables, GcRec
    <3>2. QED
      BY <1>0, <2>11, <3>1, GatheredSound
  <2>14. QED
    BY <2>12, <2>13
<1>5. QED
  BY <1>2, <1>3, <1>4

LEMMA ScanWeakObjectsOK ==
  ASSUME IInv, ScanWeakObjects
  PROVE  IInv'
<1> DEFINE a == << >>
           i == 0
           w == Rounds(h, a, i)
           x == scan_weak_tables(w)
           y == scan_weak_pointers(x)
           z == Flush(y)
           c == [gc EXCEPT !.pc = "free"]
<1>0. h \in Heaps /\ HeapOK(h) /\ gc \in GcRec /\ Collecting(h) /\ gc.pc = "areas" /\ Gathering(h, gc) /\ root \in Roots
  BY GatheringIs DEF ScanWeakObjects, At
<1>1. /\ h' = Flush(scan_weak_pointers(scan_weak_tables([h EXCEPT !.record_new_objects = 0])))
      /\ gc' = c /\ root' = root /\ h.new_areas = << >>
  BY DEF ScanWeakObjects
<1>2. [h EXCEPT !.record_new_objects = 0] = w
  BY <1>0, <1>1 DEF Rounds, Heaps
<1>3. h' = z /\ w = Rounds(h, a, i) /\ x = scan_weak_tables(w) /\ y = scan_weak_pointers(x) /\ z = Flush(y)
      /\ a = << >> /\ i \in 0..2 /\ i = 0
  BY <1>1, <1>2
<1> HIDE DEF a, i, w, x, y, z
<1>4. /\ w \in Heaps /\ HeapOK(w) /\ Collecting(w) /\ w.from_space = h.from_space /\ w.new_space = h.new_space
      /\ w.record_new_objects = 0
  BY <1>0, <1>3, RoundsOK
<1>5. Collects(w, x)
  BY <1>3, <1>4, ScanWeakTablesOK
<1>6. /\ x \in Heaps /\ HeapOK(x) /\ Collecting(x) /\ x.from_space = h.from_space /\ x.new_space = h.new_space
      /\ x.record_new_objects = 0
  BY <1>4, <1>5, Same
<1>7. Collects(x, y)
  BY <1>3, <1>6, WeakPointersOK
<1>8. /\ y \in Heaps /\ HeapOK(y) /\ Collecting(y) /\ y.from_space = h.from_space /\ y.new_space = h.new_space
      /\ y.record_new_objects = 0
  BY <1>6, <1>7, Same
<1>9. Collects(y, z) /\ Reset(z)
  BY <1>3, <1>8, FlushCollects
<1>10. /\ z \in Heaps /\ HeapOK(z) /\ Collecting(z) /\ z.from_space = h.from_space /\ z.new_space = h.new_space
       /\ z.record_new_objects = 0
  BY <1>8, <1>9, Same
<1>11. c \in GcRec /\ c.pc = "free" /\ c.gen = gc.gen /\ c.last = gc.last /\ c.raise = gc.raise
  BY <1>0 DEF GcRec
<1> HIDE DEF c
<1>12. Gathering(z, c)
  BY <1>0, <1>10, <1>11, Gathered
<1>13. PcOK(z, c)
  BY <1>9, <1>10, <1>11, <1>12 DEF PcOK
<1>14. Sound(h', gc')
  BY <1>1, <1>3, <1>10, <1>11, <1>13 DEF Sound
<1>15. QED
  BY <1>0, <1>1, <1>14, Later

-----------------------------------------------------------------------------
(* Freeing the old space.                                                    *)
Frees(m, x, f) ==
  /\ x \in Heaps /\ x.region = m.region /\ SameWork(m, x) /\ x.new_areas = m.new_areas
  /\ x.last_free_page = m.last_free_page
  /\ \A p \in Pages : InGen(m, p, f) =>
        /\ ~x.page[p].alloc /\ x.page[p].used = 0 /\ ~x.page[p].wp /\ x.page[p].pinned = m.page[p].pinned
  /\ \A p \in Pages : ~InGen(m, p, f) => x.page[p] = m.page[p]
  /\ \A a \in Addr : x.mem[a] = (IF InGen(m, PageOf(a), f) THEN dirty ELSE m.mem[a])
  /\ x.generations[f].bytes_allocated = 0
  /\ \A G \in Gen : G # f => x.generations[G] = m.generations[G]

LEMMA HeapUpdated ==
  ASSUME NEW m \in Heaps, NEW PG \in [Pages -> Page], NEW MM \in [Addr -> HeapCell],
         NEW GS \in [Gen -> Generation], NEW x, x = [m EXCEPT !.page = PG, !.mem = MM, !.generations = GS]
  PROVE  x \in Heaps
BY DEF Heaps

LEMMA FreeIs ==
  ASSUME NEW m \in Heaps, HeapOK(m), Collecting(m), NEW f, f = m.from_space, NEW x, x = free_oldspace(m)
  PROVE  Frees(m, x, f)
<1> DEFINE old == {p \in 0..m.last_free_page-1 : InGen(m, p, f)}
           PG == [p \in Pages |-> IF p \in old
                     THEN [m.page[p] EXCEPT !.alloc = FALSE, !.used = 0, !.wp = FALSE] ELSE m.page[p]]
           MM == [a \in Addr |-> IF PageOf(a) \in old THEN dirty ELSE m.mem[a]]
           v == m.generations[f].bytes_allocated - UsedOn(m, old)
           GS == SetBytes(m.generations, f, v)
<1>0. f \in Gen /\ m.generations \in [Gen -> Generation]
  BY SpacesAre DEF Collecting, Heaps
<1>1. old = InGens(m, f)
  <2>1. m.last_free_page \in 0..NPages /\ AllBelow(m)
    BY DEF HeapOK, PagesOK, Heaps
  <2>2. \A p \in 0..m.last_free_page-1 : p \in Pages
    BY <2>1, Paging DEF Pages
  <2>3. \A p \in Pages : InGen(m, p, f) => p \in 0..m.last_free_page-1
    BY <2>1, Paging DEF AllBelow, InGen, Pages
  <2>4. QED
    BY <2>2, <2>3 DEF InGens
<1>2. x = [m EXCEPT !.page = PG, !.mem = MM, !.generations = GS]
  <2>1. x = [m EXCEPT !.page = PG, !.mem = MM, !.generations[f].bytes_allocated = @ - UsedOn(m, old)]
    BY DEF free_oldspace
  <2>2. [m EXCEPT !.page = PG, !.mem = MM, !.generations[f].bytes_allocated = @ - UsedOn(m, old)]
          = [m EXCEPT !.page = PG, !.mem = MM, !.generations = GS]
    <3> HIDE DEF PG, MM, old
    <3>1. QED
      BY <1>0 DEF SetBytes
  <2>3. QED
    BY <2>1, <2>2
<1>3. v = 0
  <2>1. m.generations[f].bytes_allocated = UsedOn(m, InGens(m, f))
    BY <1>0, CountersAre DEF HeapOK
  <2>2. UsedOn(m, old) \in Int
    BY UsedNumbers, SumIsNumber
  <2>3. m.generations[f].bytes_allocated = UsedOn(m, old)
    BY <1>1, <2>1
  <2> DEFINE b == UsedOn(m, old)
  <2>4. v = b - b /\ b \in Int
    BY <2>2, <2>3
  <2> HIDE DEF b, v
  <2>5. QED
    BY <2>4
<1> HIDE DEF v
<1>4. GS \in [Gen -> Generation] /\ GS[f].bytes_allocated = 0 /\ \A G \in Gen : G # f => GS[G] = m.generations[G]
  <2>1. GS = SetBytes(m.generations, f, v) /\ v \in Int
    BY <1>3
  <2> HIDE DEF GS
  <2>2. QED
    BY <1>0, <1>3, <2>1, SetBytesIs
<1>5. \A p \in Pages : p \in old <=> InGen(m, p, f)
  BY <1>1 DEF InGens
<1> HIDE DEF old, GS
<1>6. ASSUME NEW p \in Pages
      PROVE  /\ PG[p] \in Page
             /\ p \in old => /\ ~PG[p].alloc /\ PG[p].used = 0 /\ ~PG[p].wp /\ PG[p].pinned = m.page[p].pinned
             /\ p \notin old => PG[p] = m.page[p]
  <2>1. m.page[p] \in Page
    BY PageIs
  <2>2. CASE p \in old
    <3> DEFINE w == [m.page[p] EXCEPT !.alloc = FALSE, !.used = 0, !.wp = FALSE]
    <3>1. PG[p] = w
      BY <2>2
    <3> HIDE DEF PG
    <3>2. 0 \in 0..PageSize
      BY Paging
    <3>3. w \in Page /\ ~w.alloc /\ w.used = 0 /\ ~w.wp /\ w.pinned = m.page[p].pinned
      BY <2>1, <3>2 DEF Page
    <3> HIDE DEF w
    <3>4. QED
      BY <2>2, <3>1, <3>3
  <2>3. CASE p \notin old
    BY <2>1, <2>3
  <2>4. QED
    BY <2>2, <2>3
<1>7. PG \in [Pages -> Page]
  BY <1>6
<1>8. \A a \in Addr : MM[a] = (IF PageOf(a) \in old THEN dirty ELSE m.mem[a])
  OBVIOUS
<1>9. MM \in [Addr -> HeapCell]
  <2>1. m.mem \in [Addr -> HeapCell] /\ dirty \in HeapCell
    BY CellsAre DEF Heaps
  <2> HIDE DEF PG
  <2>2. QED
    BY <2>1
<1> HIDE DEF PG, MM
<1>10. x \in Heaps
  BY <1>2, <1>4, <1>7, <1>9, HeapUpdated
<1>11. /\ x.page = PG /\ x.mem = MM /\ x.generations = GS /\ x.region = m.region /\ x.new_areas = m.new_areas
       /\ x.last_free_page = m.last_free_page
  BY <1>2 DEF Heaps
<1>12. SameWork(m, x)
  BY <1>2 DEF Heaps, SameWork
<1>13. \A p \in Pages : InGen(m, p, f) =>
        /\ ~x.page[p].alloc /\ x.page[p].used = 0 /\ ~x.page[p].wp /\ x.page[p].pinned = m.page[p].pinned
  BY <1>5, <1>6, <1>11
<1>14. \A p \in Pages : ~InGen(m, p, f) => x.page[p] = m.page[p]
  BY <1>5, <1>6, <1>11
<1>15. \A a \in Addr : x.mem[a] = (IF InGen(m, PageOf(a), f) THEN dirty ELSE m.mem[a])
  <2>1. \A a \in Addr : PageOf(a) \in Pages
    BY PageIsIn
  <2>2. QED
    BY <1>5, <1>8, <1>11, <2>1
<1>16. QED
  BY <1>4, <1>10, <1>11, <1>12, <1>13, <1>14, <1>15 DEF Frees

\* Pages and cells outside the old space.
LEMMA FreedPage ==
  ASSUME NEW m \in Heaps, HeapOK(m), Reset(m), NEW f, NEW x, Frees(m, x, f), NEW p \in Pages
  PROVE  /\ x.page[p].alloc => m.page[p].alloc /\ m.page[p].used # 0 /\ m.page[p].gen # f /\ x.page[p] = m.page[p]
         /\ m.page[p].alloc /\ m.page[p].gen # f => x.page[p] = m.page[p]
         /\ ~x.page[p].alloc => ~m.page[p].alloc \/ InGen(m, p, f)
<1>1. m.page[p].alloc => m.page[p].used # 0
  BY NoRegions DEF HeapOK
<1>2. InGen(m, p, f) => ~x.page[p].alloc
  BY DEF Frees
<1>3. ~InGen(m, p, f) => x.page[p] = m.page[p]
  BY DEF Frees
<1>4. QED
  BY <1>1, <1>2, <1>3 DEF InGen

LEMMA FreedCell ==
  ASSUME NEW m \in Heaps, NEW f, NEW x, Frees(m, x, f), NEW a \in Addr
  PROVE  /\ m.page[PageOf(a)].gen # f => x.mem[a] = m.mem[a]
         /\ x.mem[a] # dirty => x.mem[a] = m.mem[a] /\ ~InGen(m, PageOf(a), f)
         /\ InGen(m, PageOf(a), f) => x.mem[a] = dirty
         /\ ~InGen(m, PageOf(a), f) => x.mem[a] = m.mem[a]
BY DEF Frees, InGen

LEMMA FreedHeld ==
  ASSUME NEW m \in Heaps, Reset(m), NEW f, NEW x, Frees(m, x, f), NEW a \in Addr
  PROVE  /\ Held(m, a) <=> a - page_address(PageOf(a)) < m.page[PageOf(a)].used
         /\ Held(x, a) <=> a - page_address(PageOf(a)) < x.page[PageOf(a)].used
<1>1. \A k \in Regions : m.region[k].free = 0 /\ x.region[k].free = 0 /\ m.region[k].start = 0 /\ x.region[k].start = 0
  BY ResetIs DEF Reset, Frees
<1>2. a \in Int /\ a >= 0
  BY PageIsIn
<1>3. \A k \in Regions : ~(a < m.region[k].free) /\ ~(a < x.region[k].free)
  <2>1. ~(a < 0)
    BY <1>2
  <2>2. QED
    BY <1>1, <2>1
<1>4. QED
  BY <1>3 DEF Held

LEMMA FreedRest ==
  ASSUME NEW m \in Heaps, HeapOK(m), Reset(m), NEW f, NEW x, Frees(m, x, f)
  PROVE  RestIsZero(x) /\ EmptyInRegion(x) /\ AllBelow(x) /\ RegionsOK(x) /\ Reset(x)
<1>1. PagesOK(m) /\ x \in Heaps /\ x.region = m.region /\ x.last_free_page = m.last_free_page
  BY DEF HeapOK, Frees
<1>2. ASSUME NEW p \in Pages, x.page[p].alloc
      PROVE  m.page[p].alloc /\ m.page[p].used # 0 /\ m.page[p].gen # f /\ x.page[p] = m.page[p]
  BY <1>2, FreedPage
<1>3. RestIsZero(x)
  <2> SUFFICES ASSUME NEW a \in Addr, x.page[PageOf(a)].alloc, ~Held(x, a) PROVE x.mem[a] = zero
    BY DEF RestIsZero
  <2>0. PageOf(a) \in Pages
    BY PageIsIn
  <2>1. /\ m.page[PageOf(a)].alloc /\ m.page[PageOf(a)].gen # f /\ x.page[PageOf(a)] = m.page[PageOf(a)]
    BY <1>2, <2>0
  <2>2. ~Held(m, a)
    BY <2>1, FreedHeld
  <2>3. m.mem[a] = zero
    BY <1>1, <2>1, <2>2 DEF PagesOK, RestIsZero
  <2>4. QED
    BY <2>1, <2>3, FreedCell
<1>4. EmptyInRegion(x)
  BY <1>2 DEF EmptyInRegion
<1>5. AllBelow(x)
  BY <1>1, <1>2 DEF AllBelow, PagesOK
<1>6. Reset(x) /\ RegionsOK(x)
  BY <1>1 DEF Reset, RegionsOK
<1>7. QED
  BY <1>3, <1>4, <1>5, <1>6

LEMMA FreedFree ==
  ASSUME NEW m \in Heaps, HeapOK(m), Reset(m), OldSpace(m), NEW f, f = m.from_space, NEW x, Frees(m, x, f)
  PROVE  FreePages(x)
<1>0. FreePages(m)
  BY DEF HeapOK, PagesOK
<1>1. ASSUME NEW p \in Pages, ~x.page[p].alloc
      PROVE  x.page[p].used = 0 /\ ~x.page[p].wp /\ ~x.page[p].pinned
  <2>1. CASE InGen(m, p, f)
    <3>1. ~m.page[p].pinned
      BY <2>1 DEF InGen, OldSpace
    <3>2. QED
      BY <2>1, <3>1 DEF Frees
  <2>2. CASE ~InGen(m, p, f)
    <3>1. x.page[p] = m.page[p]
      BY <2>2 DEF Frees
    <3>2. QED
      BY <1>0, <1>1, <3>1 DEF FreePages
  <2>3. QED
    BY <2>1, <2>2
<1>2. ASSUME NEW a \in Addr, ~x.page[PageOf(a)].alloc
      PROVE  x.mem[a] \in {zero, dirty} /\ (x.mem[page_address(PageOf(a))] = zero => x.mem[a] = zero)
  <2> DEFINE p == PageOf(a)
             b == page_address(p)
  <2>0. p \in Pages /\ a \in Int /\ p \in Int
    BY PageIsIn, Paging DEF Pages
  <2>1. b \in Addr /\ PageOf(b) = p
    <3>1. b \in Int /\ b < page_address(p) + PageSize /\ page_address(p) <= b
      BY <2>0, Paging
    <3>2. QED
      BY <2>0, <3>1, CellIsIn
  <2>2. CASE InGen(m, p, f)
    <3>1. x.mem[a] = dirty /\ x.mem[b] = dirty
      BY <2>1, <2>2, FreedCell
    <3>2. dirty # zero
      BY CellsAre
    <3>3. QED
      BY <3>1, <3>2
  <2>3. CASE ~InGen(m, p, f)
    <3>1. x.mem[a] = m.mem[a] /\ x.mem[b] = m.mem[b] /\ x.page[p] = m.page[p]
      BY <2>0, <2>1, <2>3, FreedCell DEF Frees
    <3>2. QED
      BY <1>0, <1>2, <3>1 DEF FreePages
  <2>4. QED
    BY <2>2, <2>3
<1>3. QED
  BY <1>1, <1>2 DEF FreePages

LEMMA FreedLinks ==
  ASSUME NEW m \in Heaps, HeapOK(m), Reset(m), NEW f, NEW x, Frees(m, x, f)
  PROVE  Links(x)
<1>1. Links(m)
  BY DEF HeapOK, PagesOK
<1> SUFFICES ASSUME NEW q \in Pages, x.page[q].alloc, x.page[q].used # 0, x.page[q].offset # 0 PROVE LinkedTo(x, q)
  BY DEF Links
<1>2. m.page[q].alloc /\ m.page[q].used # 0 /\ m.page[q].gen # f /\ x.page[q] = m.page[q]
  BY FreedPage
<1>3. LinkedTo(m, q)
  BY <1>1, <1>2 DEF Links
<1>4. q-1 \in Pages
  BY <1>3, Paging DEF LinkedTo, Pages
<1>5. m.page[q-1].alloc /\ m.page[q-1].gen # f
  BY <1>2, <1>3 DEF LinkedTo
<1>6. x.page[q-1] = m.page[q-1]
  BY <1>4, <1>5, FreedPage
<1>7. QED
  BY <1>2, <1>3, <1>6 DEF LinkedTo

LEMMA FreedLarge ==
  ASSUME NEW m \in Heaps, HeapOK(m), Reset(m), NEW f, NEW x, Frees(m, x, f)
  PROVE  LargeOK(x)
<1>1. PagesOK(m) /\ LargeOK(m)
  BY DEF HeapOK, PagesOK
<1> SUFFICES ASSUME NEW q \in Pages, x.page[q].alloc, x.page[q].large PROVE LargeAlone(x, q)
  BY DEF LargeOK
<1>2. m.page[q].alloc /\ m.page[q].used # 0 /\ m.page[q].gen # f /\ x.page[q] = m.page[q]
  BY FreedPage
<1> DEFINE s == StartOf(m, q)
<1>3. s \in Addr /\ PageOf(s) \in Pages /\ InChain(m, q, PageOf(s)) /\ LargeAlone(m, q)
  BY <1>1, <1>2, LargeStart
<1>4. StartOf(x, q) = s
  BY <1>2 DEF StartOf
<1> HIDE DEF s
<1>5. m.page[PageOf(s)].alloc /\ m.page[PageOf(s)].gen # f
  BY <1>2, <1>3 DEF InChain
<1>6. x.page[PageOf(s)] = m.page[PageOf(s)] /\ x.mem[s] = m.mem[s]
  BY <1>3, <1>5, FreedPage, FreedCell
<1>7. \A a \in Addr : PageOf(a) = q => x.mem[a] = m.mem[a]
  BY <1>2, FreedCell
<1>8. /\ s \in Addr /\ s = page_address(PageOf(s)) /\ m.page[PageOf(s)].offset = 0
      /\ \/ m.mem[s] = zero /\ \A a \in Addr : PageOf(a) = q => m.mem[a] = zero
         \/ /\ m.mem[s].t = "obj" /\ m.mem[s].kind \in vector
            /\ m.mem[s].kind = "vec" => ~m.page[q].unboxed
            /\ \A a \in Addr : PageOf(a) = q /\ a >= s + m.mem[s].size => m.mem[a] = zero
  BY <1>3 DEF s, LargeAlone
<1>9. /\ s \in Addr /\ s = page_address(PageOf(s)) /\ x.page[PageOf(s)].offset = 0
      /\ \/ x.mem[s] = zero /\ \A a \in Addr : PageOf(a) = q => x.mem[a] = zero
         \/ /\ x.mem[s].t = "obj" /\ x.mem[s].kind \in vector
            /\ x.mem[s].kind = "vec" => ~x.page[q].unboxed
            /\ \A a \in Addr : PageOf(a) = q /\ a >= s + x.mem[s].size => x.mem[a] = zero
  BY <1>2, <1>6, <1>7, <1>8
<1>10. QED
  BY <1>4, <1>9 DEF LargeAlone

LEMMA FreedBodies ==
  ASSUME NEW m \in Heaps, HeapOK(m), Reset(m), NEW f, NEW x, Frees(m, x, f)
  PROVE  Bodies(x)
<1>1. PagesOK(m) /\ Bodies(m)
  BY DEF HeapOK, PagesOK
<1> SUFFICES ASSUME NEW a \in Addr, x.mem[a].t = "obj" PROVE Whole(x, a)
  BY DEF Bodies
<1>2. x.mem[a] = m.mem[a] /\ ~InGen(m, PageOf(a), f)
  <2>1. x.mem[a] # dirty
    BY CellsAre
  <2>2. QED
    BY <2>1, FreedCell
<1>3. m.page[PageOf(a)].alloc /\ PageOf(a) \in Pages
  BY <1>1, <1>2, ObjectHeld, PageIsIn
<1>4. m.page[PageOf(a)].gen # f
  <2>1. m.page[PageOf(a)].used # 0
    BY <1>1, <1>3, NoRegions
  <2>2. QED
    BY <1>2, <1>3, <2>1 DEF InGen
<1>5. Whole(m, a)
  BY <1>1, <1>2 DEF Bodies
<1> DEFINE n == m.mem[a].size
<1>6. n \in Nat /\ n >= 1 /\ a \in Int /\ a + n - 1 \in Addr /\ PageOf(a + n - 1) \in Pages /\ PageOf(a) <= PageOf(a + n - 1)
  BY <1>1, <1>2, ObjectEnd
<1>7. ASSUME NEW y \in Pages, PageOf(a) <= y, y <= PageOf(a + n - 1)
      PROVE  m.page[y].gen # f /\ x.page[y] = m.page[y]
  <2>1. m.page[y].alloc /\ m.page[y].gen = m.page[PageOf(a)].gen
    BY <1>1, <1>2, <1>7, ObjectPages
  <2>2. QED
    BY <1>4, <2>1, FreedPage
<1> HIDE DEF n
<1>8. ASSUME NEW b \in a+1..a+n-1 PROVE b \in Addr /\ x.mem[b] = body
  <2>1. b \in Addr /\ m.mem[b] = body
    BY <1>5 DEF Whole, n
  <2>2. a \in Int /\ b \in Int /\ a + n - 1 \in Int /\ a <= b /\ b <= a + n - 1
    BY <1>6
  <2>3. PageOf(b) \in Pages /\ PageOf(a) <= PageOf(b) /\ PageOf(b) <= PageOf(a + n - 1)
    BY <2>1, <2>2, PageOrder, PageIsIn
  <2>4. m.page[PageOf(b)].gen # f
    BY <1>7, <2>3
  <2>5. QED
    BY <2>1, <2>4, FreedCell
<1>9. ASSUME NEW y \in PageOf(a)+1..PageOf(a+n-1) PROVE x.page[y].offset >= page_address(y) - a
  <2>1. m.page[y].offset >= page_address(y) - a
    BY <1>5 DEF Whole, n
  <2>2. y \in Pages /\ PageOf(a) <= y /\ y <= PageOf(a + n - 1)
    BY <1>3, <1>6, Paging DEF Pages
  <2>3. x.page[y] = m.page[y]
    BY <1>7, <2>2
  <2>4. QED
    BY <2>1, <2>3
<1>10. QED
  BY <1>2, <1>8, <1>9 DEF Whole, n

LEMMA FreedCounters ==
  ASSUME NEW m \in Heaps, HeapOK(m), Reset(m), NEW f \in Gen, NEW x, Frees(m, x, f)
  PROVE  Counters(x)
<1>0. UsedAreNumbers(m) /\ UsedAreNumbers(x) /\ x \in Heaps
  BY UsedNumbers DEF Frees
<1>1. \A G \in Gen : m.generations[G].bytes_allocated = UsedOn(m, InGens(m, G))
  BY CountersAre DEF HeapOK
<1>2. ASSUME NEW G \in Gen, G # f PROVE x.generations[G].bytes_allocated = UsedOn(x, InGens(x, G))
  <2> DEFINE S == InGens(m, G)
             T == InGens(x, G)
  <2>1. \A p \in Pages : p \in T <=> p \in S
    <3>1. \A p \in Pages : InGen(x, p, G) <=> InGen(m, p, G)
      BY <1>2, FreedPage DEF InGen
    <3>2. QED
      BY <3>1 DEF InGens
  <2>2. \A p \in Pages : p \in S => x.page[p] = m.page[p]
    BY <1>2, FreedPage DEF InGens, InGen
  <2> HIDE DEF S, T
  <2>3. \A p \in Pages : On(x, T, p) = On(m, S, p)
    BY <2>1, <2>2 DEF On
  <2>4. UsedOn(x, T) = UsedOn(m, S)
    BY <1>0, <2>3, SumsSame
  <2>5. QED
    BY <1>1, <1>2, <2>4 DEF Frees, S, T
<1>3. x.generations[f].bytes_allocated = UsedOn(x, InGens(x, f))
  <2>1. \A p \in Pages : ~InGen(x, p, f)
    BY FreedPage DEF InGen
  <2>2. InGens(x, f) = {}
    BY <2>1 DEF InGens
  <2>3. UsedOn(x, {}) = 0
    BY <1>0, EmptySum
  <2>4. QED
    BY <2>2, <2>3 DEF Frees
<1>4. \A G \in Gen : x.generations[G].bytes_allocated = UsedOn(x, InGens(x, G))
  BY <1>2, <1>3
<1>5. QED
  BY <1>4, CountersAre

\* The heap without its old space.
LEMMA FreedOK ==
  ASSUME NEW m \in Heaps, HeapOK(m), Reset(m), Collecting(m), m.record_new_objects = 0, NEW x, x = free_oldspace(m)
  PROVE  /\ x \in Heaps /\ HeapOK(x) /\ Reset(x) /\ x.record_new_objects = 0 /\ x.new_areas = << >>
         /\ x.from_space = m.from_space /\ x.new_space = m.new_space /\ x.gc_alloc_generation = m.gc_alloc_generation
         /\ \A p \in Pages : x.page[p].alloc => x.page[p].gen > m.from_space /\ x.page[p].used # 0
<1> DEFINE f == m.from_space
<1>1. Frees(m, x, f)
  BY FreeIs
<1>2. f \in Gen /\ OldSpace(m) /\ f \in Int
  BY SpacesAre DEF Collecting
<1> HIDE DEF f
<1>3. RestIsZero(x) /\ EmptyInRegion(x) /\ AllBelow(x) /\ RegionsOK(x) /\ Reset(x) /\ Links(x) /\ LargeOK(x) /\ Bodies(x)
  BY <1>1, FreedRest, FreedLinks, FreedLarge, FreedBodies
<1>4. FreePages(x)
  <2>1. f = m.from_space
    BY DEF f
  <2>2. QED
    BY <1>1, <1>2, <2>1, FreedFree
<1>5. Counters(x)
  BY <1>1, <1>2, FreedCounters
<1>6. /\ x \in Heaps /\ x.record_new_objects = 0 /\ x.new_areas = << >>
      /\ x.from_space = m.from_space /\ x.new_space = m.new_space /\ x.gc_alloc_generation = m.gc_alloc_generation
  BY <1>1 DEF Frees, SameWork, HeapOK, NoAreas
<1>7. HeapOK(x)
  BY <1>3, <1>4, <1>5, <1>6 DEF HeapOK, PagesOK, NoAreas
<1>8. ASSUME NEW p \in Pages, x.page[p].alloc PROVE x.page[p].gen > m.from_space /\ x.page[p].used # 0
  <2>1. m.page[p].alloc /\ m.page[p].used # 0 /\ m.page[p].gen # f /\ x.page[p] = m.page[p]
    BY <1>1, <1>8, FreedPage
  <2>2. m.page[p].gen >= f /\ m.page[p].gen \in Int
    BY <1>2, <2>1, PageIs DEF OldSpace, f
  <2>3. m.page[p].gen > f
    BY <1>2, <2>1, <2>2
  <2>4. QED
    BY <2>1, <2>3 DEF f
<1>9. QED
  BY <1>3, <1>6, <1>7, <1>8

-----------------------------------------------------------------------------
(* A generation that is not raised comes back from the temporary one.        *)
Lowered(m, PG, g, t) ==
  [m EXCEPT !.page = PG, !.generations[g].bytes_allocated = m.generations[t].bytes_allocated,
            !.generations[t].bytes_allocated = 0]
Lowers(m, x, g, t) ==
  /\ x \in Heaps /\ x.mem = m.mem /\ x.region = m.region
  /\ x.last_free_page = m.last_free_page /\ x.new_areas = m.new_areas /\ SameWork(m, x)
  /\ x.generations[g].bytes_allocated = m.generations[t].bytes_allocated
  /\ x.generations[t].bytes_allocated = 0
  /\ \A G \in Gen : G # g /\ G # t => x.generations[G] = m.generations[G]
LowersPage(m, x, g, t, p) ==
  /\ SameShape(m, x, p) /\ x.page[p].wp = m.page[p].wp /\ x.page[p].pinned = m.page[p].pinned
  /\ m.page[p].used # 0 /\ m.page[p].gen = t => x.page[p].gen = g
  /\ m.page[p].used = 0 \/ m.page[p].gen # t => x.page[p].gen = m.page[p].gen

LEMMA LoweredIs ==
  ASSUME NEW m \in Heaps, NEW PG \in [Pages -> Page], NEW g \in Gen, NEW t \in Gen, g # t, NEW x, x = Lowered(m, PG, g, t)
  PROVE  Lowers(m, x, g, t) /\ x.page = PG
<1>1. x.generations[g] = [m.generations[g] EXCEPT !.bytes_allocated = m.generations[t].bytes_allocated]
  BY DEF Lowered, Heaps
<1>2. x.generations[t] = [m.generations[t] EXCEPT !.bytes_allocated = 0]
  BY DEF Lowered, Heaps
<1>3. \A G \in Gen : G # g /\ G # t => x.generations[G] = m.generations[G]
  BY DEF Lowered, Heaps
<1>4. x.generations = [G \in Gen |-> x.generations[G]] /\ x = [m EXCEPT !.page = PG, !.generations = x.generations]
  <2>1. x.generations = [G \in Gen |-> x.generations[G]]
    BY DEF Lowered, Heaps
  <2>2. x = [m EXCEPT !.page = PG, !.generations = x.generations]
    BY DEF Lowered, Heaps
  <2>3. QED
    BY <2>1, <2>2
<1> DEFINE gs == x.generations
           b == m.generations[t].bytes_allocated
<1>5. \A G \in Gen : m.generations[G] \in Generation
  BY DEF Heaps
<1>6. b \in Int
  BY <1>5 DEF Generation
<1>7. /\ gs[g] = [m.generations[g] EXCEPT !.bytes_allocated = b] /\ gs[t] = [m.generations[t] EXCEPT !.bytes_allocated = 0]
      /\ gs = [G \in Gen |-> gs[G]] /\ x = [m EXCEPT !.page = PG, !.generations = gs]
      /\ \A G \in Gen : G # g /\ G # t => gs[G] = m.generations[G]
  BY <1>1, <1>2, <1>3, <1>4
<1> HIDE DEF gs
<1>8. gs[g] \in Generation /\ gs[g].bytes_allocated = b
  BY <1>5, <1>6, <1>7 DEF Generation
<1>9. gs[t] \in Generation /\ gs[t].bytes_allocated = 0
  BY <1>5, <1>7 DEF Generation
<1>10. gs \in [Gen -> Generation]
  <2>1. \A G \in Gen : gs[G] \in Generation
    BY <1>5, <1>7, <1>8, <1>9
  <2>2. QED
    BY <1>7, <2>1
<1>11. x \in Heaps
  BY <1>7, <1>10 DEF Heaps
<1>12. /\ x.page = PG /\ x.mem = m.mem /\ x.region = m.region /\ x.generations = gs
       /\ x.last_free_page = m.last_free_page /\ x.new_areas = m.new_areas
  BY <1>7 DEF Heaps
<1>13. SameWork(m, x)
  BY <1>7 DEF Heaps, SameWork
<1>14. QED
  BY <1>7, <1>8, <1>9, <1>11, <1>12, <1>13 DEF Lowers

LEMMA LowerIs ==
  ASSUME NEW m \in Heaps, NEW g \in Gen, g = m.from_space, NEW t \in Gen, t = NumGenerations, g # t, NEW x, x = lower(m)
  PROVE  Lowers(m, x, g, t) /\ \A p \in Pages : LowersPage(m, x, g, t, p)
<1> DEFINE PG == [p \in Pages |-> IF m.page[p].used # 0 /\ m.page[p].gen = t
                                  THEN [m.page[p] EXCEPT !.gen = g] ELSE m.page[p]]
<1>1. x = Lowered(m, PG, g, t)
  <2>1. [p \in Pages |-> IF m.page[p].used # 0 /\ m.page[p].gen = NumGenerations
                         THEN [m.page[p] EXCEPT !.gen = m.from_space] ELSE m.page[p]] = PG
    OBVIOUS
  <2> HIDE DEF PG
  <2>2. QED
    BY <2>1 DEF lower, Lowered
<1>2. ASSUME NEW p \in Pages
      PROVE  /\ PG[p] \in Page /\ PG[p].alloc = m.page[p].alloc /\ PG[p].unboxed = m.page[p].unboxed
             /\ PG[p].large = m.page[p].large /\ PG[p].used = m.page[p].used /\ PG[p].offset = m.page[p].offset
             /\ PG[p].wp = m.page[p].wp /\ PG[p].pinned = m.page[p].pinned
             /\ m.page[p].used # 0 /\ m.page[p].gen = t => PG[p].gen = g
             /\ m.page[p].used = 0 \/ m.page[p].gen # t => PG[p].gen = m.page[p].gen
  <2>1. m.page[p] \in Page
    BY PageIs
  <2>2. CASE m.page[p].used # 0 /\ m.page[p].gen = t
    <3>1. PG[p] = [m.page[p] EXCEPT !.gen = g]
      BY <2>2
    <3> HIDE DEF PG
    <3>2. QED
      BY <2>1, <2>2, <3>1 DEF Page
  <2>3. CASE ~(m.page[p].used # 0 /\ m.page[p].gen = t)
    <3>1. PG[p] = m.page[p]
      BY <2>3
    <3> HIDE DEF PG
    <3>2. QED
      BY <2>1, <2>3, <3>1
  <2>4. QED
    BY <2>2, <2>3
<1>3. PG \in [Pages -> Page]
  BY <1>2
<1> HIDE DEF PG
<1>4. Lowers(m, x, g, t) /\ x.page = PG
  BY <1>1, <1>3, LoweredIs
<1>5. \A p \in Pages : LowersPage(m, x, g, t, p)
  BY <1>2, <1>4 DEF LowersPage, SameShape
<1>6. QED
  BY <1>4, <1>5

LEMMA LowersCounters ==
  ASSUME NEW m \in Heaps, HeapOK(m), NEW g \in Gen, NEW t \in Gen, g # t,
         \A p \in Pages : m.page[p].alloc => m.page[p].gen # g /\ m.page[p].used # 0,
         NEW x, Lowers(m, x, g, t), \A p \in Pages : LowersPage(m, x, g, t, p)
  PROVE  Counters(x)
<1>0. UsedAreNumbers(m) /\ UsedAreNumbers(x) /\ x \in Heaps
  BY UsedNumbers DEF Lowers
<1>1. \A G \in Gen : m.generations[G].bytes_allocated = UsedOn(m, InGens(m, G))
  BY CountersAre DEF HeapOK
<1>2. ASSUME NEW p \in Pages
      PROVE  /\ InGen(x, p, g) <=> InGen(m, p, t)
             /\ ~InGen(x, p, t)
             /\ \A G \in Gen : G # g /\ G # t => (InGen(x, p, G) <=> InGen(m, p, G))
             /\ x.page[p].used = m.page[p].used
  BY DEF LowersPage, SameShape, InGen
<1>3. x.generations[g].bytes_allocated = UsedOn(x, InGens(x, g))
  <2> DEFINE S == InGens(m, t)
             T == InGens(x, g)
  <2>1. \A p \in Pages : p \in T <=> p \in S
    BY <1>2 DEF InGens
  <2> HIDE DEF S, T
  <2>2. \A p \in Pages : On(x, T, p) = On(m, S, p)
    BY <1>2, <2>1 DEF On
  <2>3. UsedOn(x, T) = UsedOn(m, S)
    BY <1>0, <2>2, SumsSame
  <2>4. QED
    BY <1>1, <2>3 DEF Lowers, S, T
<1>4. x.generations[t].bytes_allocated = UsedOn(x, InGens(x, t))
  <2>1. InGens(x, t) = {}
    BY <1>2 DEF InGens
  <2>2. UsedOn(x, {}) = 0
    BY <1>0, EmptySum
  <2>3. QED
    BY <2>1, <2>2 DEF Lowers
<1>5. ASSUME NEW G \in Gen, G # g, G # t PROVE x.generations[G].bytes_allocated = UsedOn(x, InGens(x, G))
  <2> DEFINE S == InGens(m, G)
             T == InGens(x, G)
  <2>1. \A p \in Pages : p \in T <=> p \in S
    BY <1>2, <1>5 DEF InGens
  <2> HIDE DEF S, T
  <2>2. \A p \in Pages : On(x, T, p) = On(m, S, p)
    BY <1>2, <2>1 DEF On
  <2>3. UsedOn(x, T) = UsedOn(m, S)
    BY <1>0, <2>2, SumsSame
  <2>4. QED
    BY <1>1, <1>5, <2>3 DEF Lowers, S, T
<1>6. \A G \in Gen : x.generations[G].bytes_allocated = UsedOn(x, InGens(x, G))
  BY <1>3, <1>4, <1>5
<1>7. QED
  BY <1>6, CountersAre

LEMMA LowerOK ==
  ASSUME NEW m \in Heaps, HeapOK(m), Reset(m), Spaces(m), m.new_areas = << >>,
         \A p \in Pages : m.page[p].alloc => m.page[p].gen > m.from_space /\ m.page[p].used # 0,
         NEW x, x = lower(m)
  PROVE  x \in Heaps /\ HeapOK(x) /\ Reset(x) /\ x.record_new_objects = m.record_new_objects /\ x.new_areas = << >>
<1> DEFINE g == m.from_space
           t == NumGenerations
<1>1. g \in Gen /\ g \in Int /\ t \in Gen /\ t \in Int /\ g # t /\ g = m.from_space /\ t = NumGenerations
  BY SpacesAre, Constants DEF Gen
<1>2. \A p \in Pages : m.page[p].alloc => m.page[p].gen # g /\ m.page[p].used # 0
  BY <1>1
<1> HIDE DEF g, t
<1>3. Lowers(m, x, g, t) /\ \A p \in Pages : LowersPage(m, x, g, t, p)
  BY <1>1, LowerIs
<1>4. Counters(x)
  BY <1>1, <1>2, <1>3, LowersCounters
<1>5. x \in Heaps /\ SameCells(m, x) /\ (\A p \in Pages : SameShape(m, x, p)) /\ PagesOK(m)
  BY <1>3 DEF Lowers, LowersPage, SameCells, HeapOK
<1>6. Reset(x)
  BY <1>5 DEF Reset, SameCells
<1>7. AllBelow(x)
  <2>1. AllBelow(m) /\ x.last_free_page = m.last_free_page
    BY <1>3 DEF HeapOK, PagesOK, Lowers
  <2>2. QED
    BY <1>5, <2>1 DEF AllBelow, SameShape
<1>8. Labelled(x)
  <2>1. \A p \in Pages : ~x.page[p].alloc => ~x.page[p].wp /\ ~x.page[p].pinned
    <3>1. FreePages(m)
      BY <1>5 DEF PagesOK
    <3>2. QED
      BY <1>3, <3>1 DEF FreePages, LowersPage, SameShape
  <2>2. ASSUME NEW q \in Pages, x.page[q].alloc, x.page[q].used # 0, x.page[q].offset # 0
        PROVE  x.page[q-1].gen = x.page[q].gen
    <3>1. m.page[q].alloc /\ m.page[q].used # 0 /\ m.page[q].offset # 0
      BY <1>5, <2>2 DEF SameShape
    <3>2. LinkedTo(m, q)
      BY <1>5, <3>1 DEF PagesOK, Links
    <3>3. q-1 \in Pages /\ m.page[q-1].used # 0 /\ m.page[q-1].gen = m.page[q].gen
      BY <3>2, Paging DEF LinkedTo, Pages
    <3>4. LowersPage(m, x, g, t, q) /\ LowersPage(m, x, g, t, q-1)
      BY <1>3, <3>3
    <3>5. QED
      BY <3>1, <3>3, <3>4 DEF LowersPage
  <2>3. \A k \in Regions : x.region[k].first..x.region[k].last = {}
    <3>1. \A k \in Regions : m.region[k].first..m.region[k].last = {}
      BY <1>5, NoRegions
    <3>2. QED
      BY <1>5, <3>1 DEF SameCells
  <2>4. QED
    BY <2>1, <2>2, <2>3 DEF Labelled
<1>9. PagesOK(x)
  BY <1>5, <1>7, <1>8, Relabelled
<1>10. x.new_areas = << >> /\ x.record_new_objects = m.record_new_objects
  BY <1>3 DEF Lowers, SameWork
<1>11. HeapOK(x)
  BY <1>4, <1>5, <1>9, <1>10 DEF HeapOK, NoAreas
<1>12. QED
  BY <1>5, <1>6, <1>10, <1>11

-----------------------------------------------------------------------------
(* The end of a generation, and of a collection.                             *)
Tuned(gn, raise) ==
  [gn EXCEPT !.start = NoHint, !.large_start = NoHint, !.cum_sum = 0, !.gc_trigger = gn.bytes_allocated + Consed,
             !.num_gc = IF raise THEN 0 ELSE @ + 1]

LEMMA TunedIs ==
  ASSUME NEW gn \in Generation, NEW raise \in BOOLEAN, NEW y, y = Tuned(gn, raise)
  PROVE  y \in Generation /\ y.bytes_allocated = gn.bytes_allocated
<1> DEFINE b == gn.bytes_allocated + Consed
           n == IF raise THEN 0 ELSE gn.num_gc + 1
<1>1. b \in Int /\ n \in Nat
  <2>1. gn.bytes_allocated \in Int /\ gn.num_gc \in Nat /\ Consed \in Nat
    BY Constants DEF Generation
  <2>2. QED
    BY <2>1
<1>2. y = [gn EXCEPT !.start = NoHint, !.large_start = NoHint, !.cum_sum = 0, !.gc_trigger = b, !.num_gc = n]
  BY DEF Tuned, Generation
<1> HIDE DEF b, n
<1> DEFINE z == FreshHints(gn, 0)
<1>3. z \in Generation /\ z.bytes_allocated = gn.bytes_allocated
  <2>1. z = FreshHints(gn, 0) /\ 0 \in Int
    OBVIOUS
  <2> HIDE DEF z
  <2>2. QED
    BY <2>1, FreshHintsIs
<1>4. y = [z EXCEPT !.gc_trigger = b, !.num_gc = n]
  BY <1>2 DEF FreshHints, Generation
<1> HIDE DEF z
<1>5. QED
  BY <1>1, <1>3, <1>4 DEF Generation

OneGeneration(m, g, gn) == [m EXCEPT !.generations[g] = gn]

LEMMA OneGenerationOK ==
  ASSUME NEW m \in Heaps, HeapOK(m), NEW g \in Gen, NEW gn \in Generation,
         gn.bytes_allocated = m.generations[g].bytes_allocated, NEW x, x = OneGeneration(m, g, gn)
  PROVE  /\ x \in Heaps /\ HeapOK(x) /\ x.page = m.page /\ x.region = m.region
         /\ x.record_new_objects = m.record_new_objects
<1> DEFINE GS == [m.generations EXCEPT ![g] = gn]
<1>1. x = [m EXCEPT !.generations = GS]
  BY DEF OneGeneration
<1>2. GS \in [Gen -> Generation] /\ \A G \in Gen : GS[G].bytes_allocated = m.generations[G].bytes_allocated
  BY DEF Heaps
<1> HIDE DEF GS
<1>3. x \in Heaps
  BY <1>1, <1>2 DEF Heaps
<1>4. SameHeap(m, x)
  BY <1>1, <1>2 DEF SameHeap, Heaps
<1>5. x.new_areas = m.new_areas /\ x.record_new_objects = m.record_new_objects
  BY <1>1 DEF Heaps
<1>6. NoAreas(x)
  BY <1>5 DEF HeapOK, NoAreas
<1>7. QED
  BY <1>3, <1>4, <1>5, <1>6, Carried DEF SameHeap

LEMMA FreeOldspaceOK ==
  ASSUME IInv, FreeOldspace
  PROVE  IInv'
<1> DEFINE g == gc.gen
           fr == free_oldspace(h)
           m == IF gc.raise THEN fr ELSE lower(fr)
           gn == Tuned(m.generations[g], gc.raise)
<1>1. gc.pc = "free" /\ h' = OneGeneration(m, g, gn) /\ gc' = [gc EXCEPT !.pc = "next", !.gen = g + 1] /\ root' = root
  BY DEF FreeOldspace, At, Tuned, OneGeneration
<1>2. h \in Heaps /\ HeapOK(h) /\ gc \in GcRec /\ root \in Roots /\ Gathering(h, gc) /\ Collecting(h)
  BY <1>1, GatheringIs
<1>3. Reset(h) /\ h.record_new_objects = 0 /\ h.from_space = g
  BY <1>1, <1>2 DEF IInv, Sound, PcOK, Gathering
<1> DEFINE y == fr
<1>4. /\ fr \in Heaps /\ HeapOK(fr) /\ Reset(fr) /\ fr.record_new_objects = 0 /\ fr.new_areas = << >>
      /\ fr.from_space = h.from_space /\ fr.new_space = h.new_space /\ fr.gc_alloc_generation = h.gc_alloc_generation
      /\ \A p \in Pages : fr.page[p].alloc => fr.page[p].gen > h.from_space /\ fr.page[p].used # 0
  <2>1. fr = free_oldspace(h)
    OBVIOUS
  <2> HIDE DEF fr
  <2>2. QED
    BY <1>2, <1>3, <2>1, FreedOK
<1> HIDE DEF fr
<1>5. m \in Heaps /\ HeapOK(m) /\ Reset(m) /\ m.record_new_objects = 0
  <2>1. CASE gc.raise
    BY <1>4, <2>1
  <2>2. CASE ~gc.raise
    <3>1. Spaces(fr)
      BY <1>2, <1>4 DEF Collecting, Spaces
    <3>2. \A p \in Pages : fr.page[p].alloc => fr.page[p].gen > fr.from_space /\ fr.page[p].used # 0
      BY <1>4
    <3>3. m = lower(fr)
      BY <2>2
    <3> HIDE DEF m
    <3>4. QED
      BY <1>4, <3>1, <3>2, <3>3, LowerOK
  <2>3. QED
    BY <2>1, <2>2
<1>6. gc.raise => \A p \in Pages : m.page[p].alloc => m.page[p].gen > g
  BY <1>3, <1>4
<1> HIDE DEF m
<1>7. g \in Gen /\ g \in Int /\ gc.raise \in BOOLEAN /\ g <= OldestGenToGc /\ g + 1 \in Gen /\ gc.last \in Int
  <2>1. g \in Gen /\ g \in Int /\ gc.raise \in BOOLEAN /\ g <= OldestGenToGc /\ gc.last \in Int /\ g >= 0
    BY <1>2, GcIs DEF Gathering
  <2>2. QED
    BY <2>1, Numbers
<1>8. gn \in Generation /\ gn.bytes_allocated = m.generations[g].bytes_allocated
  <2>1. m.generations[g] \in Generation
    BY <1>5, <1>7 DEF Heaps
  <2>2. gn = Tuned(m.generations[g], gc.raise)
    OBVIOUS
  <2> HIDE DEF gn
  <2>3. QED
    BY <1>7, <2>1, <2>2, TunedIs
<1> HIDE DEF gn
<1>9. /\ h' \in Heaps /\ HeapOK(h') /\ h'.page = m.page /\ h'.region = m.region /\ h'.record_new_objects = 0
  <2>1. /\ h' \in Heaps /\ HeapOK(h') /\ h'.page = m.page /\ h'.region = m.region
        /\ h'.record_new_objects = m.record_new_objects
    BY <1>1, <1>5, <1>7, <1>8, OneGenerationOK
  <2>2. QED
    BY <1>5, <2>1
<1>10. Reset(h')
  BY <1>5, <1>9 DEF Reset
<1>11. gc' \in GcRec /\ gc'.pc = "next" /\ gc'.gen = g + 1 /\ gc'.raise = gc.raise /\ gc'.last = gc.last
  <2> DEFINE G == g + 1
  <2>1. G \in Gen /\ gc' = [gc EXCEPT !.pc = "next", !.gen = G]
    BY <1>1, <1>7
  <2> HIDE DEF G
  <2>2. gc' \in GcRec /\ gc'.pc = "next" /\ gc'.gen = G /\ gc'.raise = gc.raise /\ gc'.last = gc.last
    BY <1>2, <2>1 DEF GcRec
  <2>3. QED
    BY <2>2 DEF G
<1>12. Following(h', gc')
  <2>1. CASE gc.raise
    <3>1. \A p \in Pages : h'.page[p].alloc => h'.page[p].gen >= g + 1
      <4> SUFFICES ASSUME NEW p \in Pages, h'.page[p].alloc PROVE h'.page[p].gen >= g + 1
        OBVIOUS
      <4>1. h'.page[p].gen > g /\ h'.page[p].gen \in Int
        BY <1>6, <1>9, <2>1, PageIs
      <4>2. QED
        BY <1>7, <4>1
    <3>2. QED
      BY <1>11, <2>1, <3>1 DEF Following
  <2>2. CASE ~gc.raise
    <3>1. g >= OldestGenToGc \/ g >= gc.last
      BY <1>2, <2>2 DEF Gathering
    <3>2. g + 1 > OldestGenToGc \/ g + 1 > gc.last
      BY <1>7, <3>1, Numbers
    <3>3. QED
      BY <1>11, <2>2, <3>2 DEF Following
  <2>3. QED
    BY <2>1, <2>2
<1>13. PcOK(h', gc')
  BY <1>9, <1>10, <1>11, <1>12 DEF PcOK
<1>14. Sound(h', gc') /\ root' \in Roots
  BY <1>1, <1>2, <1>9, <1>11, <1>13 DEF Sound
<1>15. QED
  BY <1>14, Later

LEMMA LastIs ==
  ASSUME NEW S, S \subseteq Pages, S # {}, NEW l, l = CHOOSE p \in S : \A q \in S : q <= p
  PROVE  l \in S /\ \A q \in S : q <= l
<1>0. NPages \in Int /\ \A p \in S : p \in Int /\ 0 <= p /\ p <= NPages - 1
  BY Paging DEF Pages
<1> DEFINE T == {k \in Nat : \E i \in S : k = NPages - i}
<1>1. T \in SUBSET Nat /\ T # {}
  <2>1. PICK e \in S : TRUE
    OBVIOUS
  <2>2. NPages - e \in T
    BY <1>0, <2>1
  <2>3. QED
    BY <2>2
<1>2. PICK k \in T : \A j \in T : k <= j
  BY <1>1, Least
<1>3. PICK i \in S : k = NPages - i
  BY <1>2
<1>4. \A j \in S : j <= i
  <2>1. TAKE j \in S
  <2>2. NPages - j \in T
    BY <1>0
  <2>3. QED
    BY <1>0, <2>2, <1>2, <1>3
<1>5. QED
  BY <1>4

UsedPages(m) == {p \in Pages : m.page[p].alloc /\ m.page[p].used # 0}
EndOfPages(m) == IF UsedPages(m) = {} THEN 0 ELSE 1 + CHOOSE p \in UsedPages(m) : \A q \in UsedPages(m) : q <= p
Finished(m) == [m EXCEPT !.gc_alloc_generation = 0, !.from_space = -1, !.new_space = -1, !.last_free_page = EndOfPages(m)]

LEMMA EndOfPagesIs ==
  ASSUME NEW m, NEW e, e = EndOfPages(m)
  PROVE  e \in 0..NPages /\ \A p \in UsedPages(m) : p < e
<1>1. CASE UsedPages(m) = {}
  BY <1>1, Paging DEF EndOfPages
<1>2. CASE UsedPages(m) # {}
  <2> DEFINE S == UsedPages(m)
             l == CHOOSE p \in S : \A q \in S : q <= p
  <2>1. S \subseteq Pages /\ S # {} /\ e = 1 + l
    BY <1>2 DEF EndOfPages, UsedPages
  <2>2. l = CHOOSE p \in S : \A q \in S : q <= p
    OBVIOUS
  <2> HIDE DEF S, l
  <2>3. l \in S /\ \A q \in S : q <= l
    BY <2>1, <2>2, LastIs
  <2>4. l \in Int /\ 0 <= l /\ l <= NPages - 1 /\ \A q \in S : q \in Int
    BY <2>1, <2>3, Paging DEF Pages
  <2>5. e \in 0..NPages /\ \A q \in S : q < e
    BY <2>1, <2>3, <2>4, Paging
  <2>6. QED
    BY <2>5 DEF S
<1>3. QED
  BY <1>1, <1>2

\* Its pages are protected.
Protects(m, x) ==
  /\ x \in Heaps /\ SameCells(m, x) /\ x.record_new_objects = m.record_new_objects /\ x.new_areas = m.new_areas
  /\ x.generations = m.generations
  /\ \A p \in Pages : /\ SameShape(m, x, p) /\ x.page[p].gen = m.page[p].gen /\ x.page[p].pinned = m.page[p].pinned
                      /\ x.page[p].wp => m.page[p].wp \/ m.page[p].alloc

LEMMA ProtectsIs ==
  ASSUME NEW m \in Heaps, NEW g, NEW x, x = write_protect_generation_pages(m, g)
  PROVE  Protects(m, x)
<1> DEFINE PG == [p \in Pages |-> IF p < m.last_free_page /\ InGen(m, p, g) /\ ~m.page[p].unboxed
                                  THEN [m.page[p] EXCEPT !.wp = TRUE] ELSE m.page[p]]
<1>1. x = [m EXCEPT !.page = PG]
  BY DEF write_protect_generation_pages
<1>2. ASSUME NEW p \in Pages
      PROVE  /\ PG[p] \in Page /\ PG[p].alloc = m.page[p].alloc /\ PG[p].unboxed = m.page[p].unboxed
             /\ PG[p].large = m.page[p].large /\ PG[p].used = m.page[p].used /\ PG[p].offset = m.page[p].offset
             /\ PG[p].gen = m.page[p].gen /\ PG[p].pinned = m.page[p].pinned
             /\ PG[p].wp => m.page[p].wp \/ m.page[p].alloc
  <2>1. m.page[p] \in Page
    BY PageIs
  <2>2. CASE p < m.last_free_page /\ InGen(m, p, g) /\ ~m.page[p].unboxed
    <3>1. PG[p] = [m.page[p] EXCEPT !.wp = TRUE] /\ m.page[p].alloc
      BY <2>2 DEF InGen
    <3> HIDE DEF PG
    <3>2. QED
      BY <2>1, <3>1 DEF Page
  <2>3. CASE ~(p < m.last_free_page /\ InGen(m, p, g) /\ ~m.page[p].unboxed)
    <3>1. PG[p] = m.page[p]
      BY <2>3
    <3> HIDE DEF PG
    <3>2. QED
      BY <2>1, <3>1
  <2>4. QED
    BY <2>2, <2>3
<1>3. PG \in [Pages -> Page]
  BY <1>2
<1> HIDE DEF PG
<1>4. x \in Heaps /\ x.page = PG /\ x.mem = m.mem /\ x.region = m.region /\ x.generations = m.generations
      /\ x.record_new_objects = m.record_new_objects /\ x.new_areas = m.new_areas
  BY <1>1, <1>3 DEF Heaps
<1>5. QED
  BY <1>2, <1>4 DEF Protects, SameCells, SameShape

LEMMA FinishedOK ==
  ASSUME NEW m \in Heaps, HeapOK(m), Reset(m), NEW y, y = m \/ Protects(m, y), NEW x, x = Finished(y)
  PROVE  x \in Heaps /\ HeapOK(x) /\ x.record_new_objects = m.record_new_objects
<1>1. Protects(m, y)
  <2>1. CASE y = m
    <3>1. Protects(m, m)
      BY DEF Protects, SameCells, SameShape
    <3>2. QED
      BY <2>1, <3>1
  <2>2. QED
    BY <2>1
<1>2. y \in Heaps /\ PagesOK(m) /\ Counters(m) /\ NoAreas(m)
  BY <1>1 DEF Protects, HeapOK
<1> DEFINE e == EndOfPages(y)
<1>3. e \in 0..NPages /\ \A p \in UsedPages(y) : p < e
  BY EndOfPagesIs
<1>4. x = [y EXCEPT !.gc_alloc_generation = 0, !.from_space = -1, !.new_space = -1, !.last_free_page = e]
  BY DEF Finished
<1> HIDE DEF e
<1>5. 0 \in Gen
  BY Numbers
<1>6. /\ x \in Heaps /\ x.page = y.page /\ x.mem = y.mem /\ x.region = y.region /\ x.generations = y.generations
      /\ x.record_new_objects = y.record_new_objects /\ x.new_areas = y.new_areas /\ x.last_free_page = e
  BY <1>2, <1>3, <1>4, <1>5 DEF Heaps
<1>7. /\ SameCells(m, x) /\ x.generations = m.generations
      /\ x.record_new_objects = m.record_new_objects /\ x.new_areas = m.new_areas
      /\ \A p \in Pages : /\ SameShape(m, x, p) /\ x.page[p].gen = m.page[p].gen /\ x.page[p].pinned = m.page[p].pinned
                          /\ x.page[p].wp => m.page[p].wp \/ m.page[p].alloc
  BY <1>1, <1>6 DEF Protects, SameCells, SameShape
<1>8. (\A k \in Regions : m.region[k].first..m.region[k].last = {}) /\ \A p \in Pages : m.page[p].alloc => m.page[p].used # 0
  BY <1>2, NoRegions
<1>9. AllBelow(x)
  <2> SUFFICES ASSUME NEW p \in Pages, x.page[p].alloc PROVE p < e
    BY <1>6 DEF AllBelow
  <2>1. y.page[p].alloc /\ y.page[p].used # 0
    BY <1>6, <1>7, <1>8 DEF SameShape
  <2>2. QED
    BY <1>3, <2>1 DEF UsedPages
<1>10. Labelled(x)
  <2>1. \A p \in Pages : ~x.page[p].alloc => ~x.page[p].wp /\ ~x.page[p].pinned
    <3>1. FreePages(m)
      BY <1>2 DEF PagesOK
    <3>2. QED
      BY <1>7, <3>1 DEF FreePages, SameShape
  <2>2. ASSUME NEW q \in Pages, x.page[q].alloc, x.page[q].used # 0, x.page[q].offset # 0
        PROVE  x.page[q-1].gen = x.page[q].gen
    <3>1. m.page[q].alloc /\ m.page[q].used # 0 /\ m.page[q].offset # 0
      BY <1>7, <2>2 DEF SameShape
    <3>2. LinkedTo(m, q)
      BY <1>2, <3>1 DEF PagesOK, Links
    <3>3. q-1 \in Pages /\ m.page[q-1].gen = m.page[q].gen
      BY <3>2, Paging DEF LinkedTo, Pages
    <3>4. QED
      BY <1>7, <3>3
  <2>3. \A k \in Regions : x.region[k].first..x.region[k].last = {}
    BY <1>7, <1>8 DEF SameCells
  <2>4. QED
    BY <2>1, <2>2, <2>3 DEF Labelled
<1>11. PagesOK(x)
  BY <1>2, <1>6, <1>7, <1>9, <1>10, Relabelled
<1>12. Counters(x)
  BY <1>2, <1>6, <1>7, CountersCarry DEF SameShape
<1>13. HeapOK(x)
  BY <1>2, <1>6, <1>7, <1>11, <1>12 DEF HeapOK, NoAreas
<1>14. QED
  BY <1>6, <1>7, <1>13

LEMMA FinishCollectionOK ==
  ASSUME IInv, FinishCollection
  PROVE  IInv'
<1> DEFINE wp == IF gc.raise THEN gc.gen ELSE gc.gen - 1
           m == IF wp > 0 THEN write_protect_generation_pages(h, wp) ELSE h
<1>1. /\ gc.pc = "next" /\ h' = Finished(m) /\ root' = root
      /\ gc' = [gc EXCEPT !.pc = "lisp", !.gen = 0, !.last = 0, !.raise = FALSE, !.g = 0, !.i = 0]
  BY DEF FinishCollection, At, Finished, EndOfPages, UsedPages
<1>2. h \in Heaps /\ HeapOK(h) /\ gc \in GcRec /\ root \in Roots /\ Reset(h) /\ h.record_new_objects = 0
  BY <1>1 DEF IInv, Sound, PcOK
<1>3. m = h \/ Protects(h, m)
  BY <1>2, ProtectsIs
<1> HIDE DEF m
<1>4. h' \in Heaps /\ HeapOK(h') /\ h'.record_new_objects = 0
  <2>1. h' \in Heaps /\ HeapOK(h') /\ h'.record_new_objects = h.record_new_objects
    BY <1>1, <1>2, <1>3, FinishedOK
  <2>2. QED
    BY <1>2, <2>1
<1>5. gc' \in GcRec /\ gc'.pc = "lisp" /\ gc'.gen = 0
  <2>1. 0 \in Gen /\ 0 \in 0..NPages
    BY Numbers
  <2>2. QED
    BY <1>1, <1>2, <2>1 DEF GcRec
<1>6. PcOK(h', gc')
  BY <1>4, <1>5 DEF PcOK
<1>7. Sound(h', gc') /\ root' \in Roots
  BY <1>1, <1>2, <1>4, <1>5, <1>6 DEF Sound
<1>8. QED
  BY <1>7, Later

-----------------------------------------------------------------------------
(* Lisp.                                                                     *)
LEMMA LispIs ==
  ASSUME IInv, Lisp
  PROVE  /\ h \in Heaps /\ HeapOK(h) /\ gc \in GcRec /\ root \in Roots /\ h.record_new_objects = 0
         /\ gc.pc = "lisp" /\ gc.gen = 0
BY DEF IInv, Sound, PcOK, Lisp

LEMMA LispGoesOn ==
  ASSUME h' \in Heaps, HeapOK(h'), h'.record_new_objects = 0, gc' \in GcRec, gc'.pc = "lisp", gc'.gen = 0,
         root' \in Roots
  PROVE  IInv'
<1>1. PcOK(h', gc')
  BY DEF PcOK
<1>2. Sound(h', gc')
  BY <1>1 DEF Sound
<1>3. QED
  BY <1>2, Later

LEMMA CountedIs ==
  ASSUME IInv, Lisp
  PROVE  Counted \in GcRec /\ Counted.pc = "lisp" /\ Counted.gen = 0 /\ Counted.objects = gc.objects
<1>1. gc \in GcRec /\ gc.pc = "lisp" /\ gc.gen = 0 /\ gc.ops \in Nat
  BY LispIs, GcIs
<1> DEFINE o == gc.ops + 1
<1>2. o \in Nat /\ Counted = [gc EXCEPT !.ops = o]
  BY <1>1 DEF Counted, GcRec
<1> HIDE DEF o
<1>3. QED
  BY <1>1, <1>2 DEF GcRec

LEMMA ValuesAre ==
  ASSUME root \in Roots
  PROVE  /\ Values \subseteq Addr \union {NIL} /\ \A s \in Objects : s \in Slot /\ root[s].at \in Addr
         /\ \A s \in Readable : s \in Objects
<1>1. \A s \in Slot : root[s].at \in Addr \union {NIL}
  BY DEF Roots
<1>2. Live \subseteq Slot
  BY DEF Live
<1>3. QED
  BY <1>1, <1>2 DEF Values, Objects, Readable

\* The references of a new object.
LEMMA ReferencesAre ==
  ASSUME NEW S, NEW v \in S, NEW w \in S, NEW k
  PROVE  SubSeq(<<v, w>>, 1, Arity(k)) \in Seq(S) /\ Len(SubSeq(<<v, w>>, 1, Arity(k))) = Arity(k)
<1> DEFINE q == <<v, w>>
           n == Arity(k)
<1>1. q[1] \in S /\ q[2] \in S
  OBVIOUS
<1>2. n = 0 \/ n = 1 \/ n = 2
  BY DEF Arity
<1> HIDE DEF q, n
<1>3. SubSeq(q, 1, n) \in Seq(S) /\ Len(SubSeq(q, 1, n)) = (IF 1 <= n THEN n - 1 + 1 ELSE 0)
  <2>1. \A i \in 1..n : q[i] \in S
    <3> TAKE i \in 1..n
    <3>1. i = 1 \/ i = 2
      BY <1>2
    <3>2. QED
      BY <1>1, <3>1
  <2>2. n \in Int /\ 1 \in Int
    BY <1>2
  <2>3. QED
    BY <2>1, <2>2, SubSeqProperties
<1>4. SubSeq(q, 1, n) \in Seq(S) /\ Len(SubSeq(q, 1, n)) = n
  BY <1>2, <1>3
<1>5. QED
  BY <1>4 DEF q, n

LEMMA AllocOK ==
  ASSUME IInv, NEW s \in Slot, NEW k \in Kind, NEW v \in Values, NEW w \in Values, Alloc(s, k, v, w)
  PROVE  IInv'
<1> DEFINE refs == SubSeq(<<v, w>>, 1, Arity(k))
           o == [t |-> "obj", id |-> gc.objects + 1, kind |-> k, size |-> Size[k], refs |-> refs]
           n == Size[k]
           r == gc_quick_alloc(h, n, "boxed")
<1>1. /\ Lisp /\ gc.objects < MaxObjects /\ gc' = [Counted EXCEPT !.objects = @ + 1]
      /\ IF r.at = NIL THEN h' = r.heap /\ UNCHANGED root
         ELSE h' = Fill(r.heap, r.at, o) /\ root' = [root EXCEPT ![s] = [at |-> r.at, live |-> TRUE]]
  BY DEF Alloc, Operation
<1>2. h \in Heaps /\ HeapOK(h) /\ gc \in GcRec /\ root \in Roots /\ h.record_new_objects = 0
  BY <1>1, LispIs
<1>3. n \in Nat /\ n >= 1 /\ "boxed" \in Regions
  BY Sizes DEF Regions
<1>4. Allocates(h, r, n, "boxed")
  <2>1. r = gc_quick_alloc(h, n, "boxed")
    OBVIOUS
  <2> HIDE DEF r, n
  <2>2. QED
    BY <1>2, <1>3, <2>1, QuickAllocOK
<1> DEFINE b == gc.objects + 1
<1>5. b \in 1..MaxObjects /\ b \in 0..MaxObjects
  <2>1. gc.objects \in Int /\ gc.objects >= 0 /\ MaxObjects \in Int
    BY <1>2, GcIs, Constants
  <2>2. QED
    BY <1>1, <2>1
<1>6. refs \in Seq(Addr \union {NIL}) /\ Len(refs) = Arity(k)
  <2> DEFINE S == Addr \union {NIL}
  <2>1. v \in S /\ w \in S
    BY <1>2, ValuesAre
  <2> HIDE DEF S
  <2>2. refs \in Seq(S) /\ Len(refs) = Arity(k)
    BY <2>1, ReferencesAre
  <2>3. QED
    BY <2>2 DEF S
<1> HIDE DEF refs
<1>7. o = [t |-> "obj", id |-> b, kind |-> k, size |-> n, refs |-> refs] /\ n = Size[k]
  OBVIOUS
<1>8. gc' = [Counted EXCEPT !.objects = b] /\ Counted \in GcRec /\ Counted.pc = "lisp" /\ Counted.gen = 0
  BY <1>1, CountedIs
<1> HIDE DEF o, n, b, r
<1>9. o \in Objs /\ o.size = n
  <2>1. n \in 1..Size[k]
    BY <1>3, <1>7
  <2>2. n \in Nat /\ o.size = n /\ o.kind = k /\ o.refs = refs
    BY <1>3, <1>7
  <2>3. o \in [t : {"obj"}, id : 1..MaxObjects, kind : Kind, size : Nat, refs : Seq(Addr \union {NIL})]
    BY <1>3, <1>5, <1>6, <1>7
  <2>4. QED
    BY <1>6, <2>1, <2>2, <2>3 DEF Objs
<1>10. gc' \in GcRec /\ gc'.pc = "lisp" /\ gc'.gen = 0
  BY <1>5, <1>8 DEF GcRec
<1>11. /\ r.heap \in Heaps /\ HeapOK(r.heap) /\ r.heap.record_new_objects = 0
       /\ r.at = NIL \/ Vacant(r.heap, r.at, n, "boxed")
  BY <1>2, <1>4 DEF Allocates, Grows, SameWork
<1>12. CASE r.at = NIL
  <2>1. h' = r.heap /\ root' = root
    BY <1>1, <1>12
  <2>2. QED
    BY <1>2, <1>10, <1>11, <2>1, LispGoesOn
<1>13. CASE r.at # NIL
  <2>1. h' = Fill(r.heap, r.at, o) /\ root' = [root EXCEPT ![s] = [at |-> r.at, live |-> TRUE]]
    BY <1>1, <1>13
  <2>2. Vacant(r.heap, r.at, n, "boxed") /\ r.at \in Addr
    BY <1>11, <1>13 DEF Vacant
  <2>3. HeapOK(h') /\ h' \in Heaps
    BY <1>3, <1>9, <1>11, <2>1, <2>2, FillOK
  <2>4. h'.record_new_objects = 0
    <3>1. SameWork(r.heap, Fill(r.heap, r.at, o))
      BY <1>9, <1>11, <2>2, FillIs
    <3>2. QED
      BY <1>11, <2>1, <3>1 DEF SameWork
  <2>5. root' \in Roots
    BY <1>2, <2>1, <2>2 DEF Roots
  <2>6. QED
    BY <1>10, <2>3, <2>4, <2>5, LispGoesOn
<1>14. QED
  BY <1>12, <1>13

LEMMA SetFieldOK ==
  ASSUME IInv, NEW s \in Readable, NEW v \in Values, NEW i \in DOMAIN ObjectAt(s).refs, SetField(s, i, v)
  PROVE  IInv'
<1> DEFINE a == root[s].at
           c == SetRef(h.mem[a], i, v)
<1>1. Lisp /\ gc' = Counted /\ h' = Write(h, a, c) /\ root' = root
  BY DEF SetField, Operation, ObjectAt, SetRef
<1>2. h \in Heaps /\ HeapOK(h) /\ gc \in GcRec /\ root \in Roots /\ h.record_new_objects = 0
  BY <1>1, LispIs
<1>3. a \in Addr /\ h.mem[a].t = "obj" /\ v \in Addr \union {NIL} /\ i \in DOMAIN h.mem[a].refs
  BY <1>2, ValuesAre DEF Readable, ObjectAt
<1>4. h.mem[a] \in Objs
  <2>1. h.mem[a] \in HeapCell
    BY <1>2, <1>3 DEF Heaps
  <2>2. QED
    BY <1>3, <2>1, ObjectIs
<1>5. c \in Objs /\ c.kind = h.mem[a].kind /\ c.size = h.mem[a].size
  BY <1>3, <1>4, SetRefIs
<1> HIDE DEF c
<1>6. HeapOK(h') /\ h' \in Heaps
  BY <1>1, <1>2, <1>3, <1>5, WriteOK
<1>7. h'.record_new_objects = 0
  <2>1. c \in HeapCell
    BY <1>5 DEF HeapCell
  <2>2. SameWork(h, h')
    BY <1>1, <1>2, <1>3, <2>1, WriteIs
  <2>3. QED
    BY <1>2, <2>2 DEF SameWork
<1>8. QED
  BY <1>1, <1>2, <1>6, <1>7, CountedIs, LispGoesOn

LEMMA SetSlotOK ==
  ASSUME IInv, NEW d \in Slot, NEW v \in Addr \union {NIL}, SetSlot(d, v)
  PROVE  IInv'
<1>1. Lisp /\ v \in Addr /\ gc' = Counted /\ h' = h /\ root' = [root EXCEPT ![d] = [at |-> v, live |-> TRUE]]
  BY DEF SetSlot, Operation
<1>2. h \in Heaps /\ HeapOK(h) /\ gc \in GcRec /\ root \in Roots /\ h.record_new_objects = 0
  BY <1>1, LispIs
<1>3. root' \in Roots
  BY <1>1, <1>2 DEF Roots
<1>4. QED
  BY <1>1, <1>2, <1>3, CountedIs, LispGoesOn

LEMMA DropOK ==
  ASSUME IInv, NEW s \in Slot, Drop(s)
  PROVE  IInv'
<1> DEFINE e == IF s \in Static THEN [root[s] EXCEPT !.at = NIL] ELSE [root[s] EXCEPT !.live = FALSE]
<1>1. Lisp /\ gc' = Counted /\ h' = h /\ root' = [root EXCEPT ![s] = e]
  BY DEF Drop, Operation
<1>2. h \in Heaps /\ HeapOK(h) /\ gc \in GcRec /\ root \in Roots /\ h.record_new_objects = 0
  BY <1>1, LispIs
<1>3. e \in [at : Addr \union {NIL}, live : BOOLEAN]
  <2>1. root[s] \in [at : Addr \union {NIL}, live : BOOLEAN]
    BY <1>2 DEF Roots
  <2>2. QED
    BY <2>1
<1> HIDE DEF e
<1>4. root' \in Roots
  BY <1>1, <1>2, <1>3 DEF Roots
<1>5. QED
  BY <1>1, <1>2, <1>4, CountedIs, LispGoesOn

LEMMA ShrinkVectorOK ==
  ASSUME IInv, NEW s \in Readable, ShrinkVector(s)
  PROVE  IInv'
<1> DEFINE a == root[s].at
<1>1. /\ Lisp /\ gc' = Counted /\ h' = Shrunk(h, a) /\ root' = root
      /\ h.mem[a].kind \in vector /\ h.mem[a].size > 1
  BY DEF ShrinkVector, Operation, Shrunk
<1>2. h \in Heaps /\ HeapOK(h) /\ gc \in GcRec /\ root \in Roots /\ h.record_new_objects = 0
  BY <1>1, LispIs
<1>3. a \in Addr /\ h.mem[a].t = "obj"
  BY <1>2, ValuesAre DEF Readable, ObjectAt
<1>4. HeapOK(h') /\ h' \in Heaps
  BY <1>1, <1>2, <1>3, ShrunkOK
<1>5. h'.record_new_objects = h.record_new_objects
  BY <1>1, <1>2 DEF Shrunk, Heaps
<1>6. QED
  BY <1>1, <1>2, <1>4, <1>5, CountedIs, LispGoesOn

LEMMA CollectGarbageOK ==
  ASSUME IInv, NEW last \in LastGens, CollectGarbage(last)
  PROVE  IInv'
<1>1. /\ Lisp /\ h' = Flush(h) /\ root' = root
      /\ gc' = [gc EXCEPT !.pc = "start", !.count = @ + 1, !.gen = 0, !.last = last]
  BY DEF CollectGarbage
<1>2. h \in Heaps /\ HeapOK(h) /\ gc \in GcRec /\ root \in Roots /\ h.record_new_objects = 0
  BY <1>1, LispIs
<1>3. h' \in Heaps /\ HeapOK(h') /\ Grows(h, h') /\ Reset(h')
  BY <1>1, <1>2, FlushOK
<1>4. h'.record_new_objects = 0
  BY <1>2, <1>3 DEF Grows, SameWork
<1>5. gc' \in GcRec /\ gc'.pc = "start" /\ gc'.gen = 0
  <2> DEFINE n == gc.count + 1
  <2>1. n \in Nat /\ 0 \in Gen /\ last \in Nat
    BY <1>2, GcIs, Numbers, Slots
  <2>2. gc' = [gc EXCEPT !.pc = "start", !.count = n, !.gen = 0, !.last = last]
    BY <1>1, <1>2 DEF GcRec
  <2> HIDE DEF n
  <2>3. QED
    BY <1>2, <2>1, <2>2 DEF GcRec
<1>6. PcOK(h', gc')
  BY <1>3, <1>4, <1>5 DEF PcOK
<1>7. Sound(h', gc') /\ root' \in Roots
  BY <1>1, <1>2, <1>3, <1>5, <1>6 DEF Sound
<1>8. QED
  BY <1>7, Later

LEMMA MutateOK ==
  ASSUME IInv, Mutate
  PROVE  IInv'
<1>0. root \in Roots
  BY DEF IInv
<1>1. CASE \E s \in Slot, k \in Kind, v \in Values, w \in Values :
             (Arity(k) < 2 => w = NIL) /\ (Arity(k) < 1 => v = NIL) /\ Alloc(s, k, v, w)
  <2>1. PICK s \in Slot, k \in Kind, v \in Values, w \in Values : Alloc(s, k, v, w)
    BY <1>1
  <2>2. QED
    BY <2>1, AllocOK
<1>2. CASE \E s \in Readable, v \in Values : \E i \in DOMAIN ObjectAt(s).refs :
             ObjectAt(s).kind # "weak" /\ SetField(s, i, v)
  <2>1. PICK s \in Readable : \E v \in Values : \E i \in DOMAIN ObjectAt(s).refs : SetField(s, i, v)
    BY <1>2
  <2>2. PICK v \in Values : \E i \in DOMAIN ObjectAt(s).refs : SetField(s, i, v)
    BY <2>1
  <2>3. PICK i \in DOMAIN ObjectAt(s).refs : SetField(s, i, v)
    BY <2>2
  <2>4. QED
    BY <2>3, SetFieldOK
<1>3. CASE \E d \in Slot, s \in Objects : SetSlot(d, root[s].at)
  <2>1. PICK d \in Slot, s \in Objects : SetSlot(d, root[s].at)
    BY <1>3
  <2>2. root[s].at \in Addr \union {NIL}
    BY <1>0, ValuesAre
  <2>3. QED
    BY <2>1, <2>2, SetSlotOK
<1>4. CASE \E d \in Slot, s \in Readable : \E i \in DOMAIN ObjectAt(s).refs :
             /\ ObjectAt(s).kind = "table" => i = 2 /\ ObjectAt(s).refs[1] \in Values \ {NIL}
             /\ SetSlot(d, ObjectAt(s).refs[i])
  <2>1. PICK d \in Slot, s \in Readable : \E i \in DOMAIN ObjectAt(s).refs : SetSlot(d, ObjectAt(s).refs[i])
    BY <1>4
  <2>2. PICK i \in DOMAIN ObjectAt(s).refs : SetSlot(d, ObjectAt(s).refs[i])
    BY <2>1
  <2>3. ObjectAt(s).refs[i] \in Addr \union {NIL}
    <3> DEFINE c == h.mem[root[s].at]
    <3>1. root[s].at \in Addr /\ c.t = "obj" /\ h \in Heaps
      BY <1>0, ValuesAre DEF Readable, ObjectAt, IInv, Sound
    <3>2. c \in HeapCell
      BY <3>1 DEF Heaps
    <3> HIDE DEF c
    <3>3. c.refs \in Seq(Addr \union {NIL})
      BY <3>1, <3>2, ObjectIs
    <3>4. ObjectAt(s) = c
      BY DEF ObjectAt, c
    <3> DEFINE S == Addr \union {NIL}
               rs == c.refs
    <3>5. rs \in Seq(S) /\ i \in DOMAIN rs
      BY <3>3, <3>4
    <3> HIDE DEF S, rs
    <3>6. rs[i] \in S
      BY <3>5
    <3>7. QED
      BY <3>4, <3>6 DEF rs, S
  <2>4. QED
    BY <2>2, <2>3, SetSlotOK
<1>5. CASE \E s \in Objects : Drop(s)
  BY <1>0, <1>5, ValuesAre, DropOK
<1>6. CASE \E s \in Readable : ShrinkVector(s)
  BY <1>6, ShrinkVectorOK
<1>7. CASE \E last \in LastGens : CollectGarbage(last)
  BY <1>7, CollectGarbageOK
<1>8. QED
  BY <1>1, <1>2, <1>3, <1>4, <1>5, <1>6, <1>7 DEF Mutate

LEMMA CollectOK ==
  ASSUME IInv, Collect
  PROVE  IInv'
BY StartGenerationOK, ScavengeGenerationOK, StartNewspaceOK, OneScanOK, OneScanEndsOK, ScavengeNewAreasOK,
   ScanWeakObjectsOK, FreeOldspaceOK, FinishCollectionOK DEF Collect

LEMMA IdleOK ==
  ASSUME IInv, UNCHANGED vars
  PROVE  IInv'
BY DEF vars, IInv

-----------------------------------------------------------------------------
(* The invariant holds at the start and goes on holding.                     *)
LEMMA FirstHeap ==
  ASSUME NEW m, m = gc_init
  PROVE  /\ m \in Heaps /\ Reset(m) /\ m.new_areas = << >> /\ m.record_new_objects = 0
         /\ \A p \in Pages : m.page[p] = FreePage
         /\ \A a \in Addr : m.mem[a] = zero
         /\ \A g \in Gen : m.generations[g].bytes_allocated = 0
<1>1. FreePage \in Page
  <2>1. 0 \in Gen /\ 0 \in 0..PageSize /\ 0 \in 0..NPages*PageSize
    BY Numbers, Paging, ZeroIsIn DEF page_address
  <2>2. QED
    BY <2>1 DEF FreePage, Page
<1>2. NewGeneration \in Generation /\ NewGeneration.bytes_allocated = 0
  BY HintIs, Constants DEF NewGeneration, Generation
<1> DEFINE st == [consecutive |-> 0, saved |-> ResetRegion]
           PG == [p \in Pages |-> FreePage]
           MM == [a \in Addr |-> zero]
           RG == [k \in Regions |-> ResetRegion]
           ST == [k \in Regions |-> st]
           GS == [g \in Gen |-> NewGeneration]
<1>3. st \in Stats
  BY ResetIs DEF Stats
<1>4. /\ PG \in [Pages -> Page] /\ MM \in [Addr -> HeapCell] /\ RG \in [Regions -> Region]
      /\ ST \in [Regions -> Stats] /\ GS \in [Gen -> Generation]
  BY <1>1, <1>2, <1>3, ResetIs, CellsAre
<1>5. m = [page |-> PG, mem |-> MM, region |-> RG, stats |-> ST, generations |-> GS,
           gc_alloc_generation |-> 0, last_free_page |-> 0, from_space |-> -1, new_space |-> -1,
           record_new_objects |-> 0, new_areas_ignore_page |-> 0, new_areas |-> << >>,
           weak_pointers |-> {}, weak_hash_tables |-> << >>, overflow |-> FALSE]
  BY DEF gc_init
<1>6. /\ \A p \in Pages : PG[p] = FreePage
      /\ \A a \in Addr : MM[a] = zero
      /\ \A k \in Regions : RG[k] = ResetRegion
      /\ \A g \in Gen : GS[g].bytes_allocated = 0
  BY <1>2
<1> HIDE DEF PG, MM, RG, ST, GS
<1>7. 0 \in Gen /\ 0 \in 0..NPages /\ -1 \in Gen \union {-1} /\ << >> \in Seq(Area) /\ << >> \in Seq(Addr) /\ {} \in SUBSET Addr
  BY Numbers
<1>8. m \in Heaps
  BY <1>4, <1>5, <1>7 DEF Heaps
<1>9. m.page = PG /\ m.mem = MM /\ m.region = RG /\ m.generations = GS /\ m.new_areas = << >> /\ m.record_new_objects = 0
  BY <1>5
<1>10. QED
  BY <1>6, <1>8, <1>9 DEF Reset

LEMMA FirstHeapOK ==
  ASSUME NEW m, m = gc_init
  PROVE  m \in Heaps /\ HeapOK(m) /\ m.record_new_objects = 0
<1>1. /\ m \in Heaps /\ Reset(m) /\ m.new_areas = << >> /\ m.record_new_objects = 0
      /\ \A p \in Pages : m.page[p] = FreePage
      /\ \A a \in Addr : m.mem[a] = zero
      /\ \A g \in Gen : m.generations[g].bytes_allocated = 0
  BY FirstHeap
<1>2. \A p \in Pages : ~m.page[p].alloc /\ m.page[p].used = 0 /\ ~m.page[p].wp /\ ~m.page[p].pinned
  BY <1>1 DEF FreePage
<1>3. \A a \in Addr : PageOf(a) \in Pages
  BY PageIsIn
<1>4. \A a \in Addr : m.mem[a].t # "obj"
  BY <1>1, CellsAre
<1>5. RegionsOK(m) /\ RestIsZero(m) /\ FreePages(m) /\ EmptyInRegion(m) /\ AllBelow(m) /\ Links(m) /\ LargeOK(m)
  <2>1. RegionsOK(m)
    BY <1>1 DEF RegionsOK, Reset
  <2>2. RestIsZero(m)
    BY <1>1 DEF RestIsZero
  <2>3. FreePages(m)
    BY <1>1, <1>2 DEF FreePages
  <2>4. EmptyInRegion(m) /\ AllBelow(m) /\ Links(m) /\ LargeOK(m)
    BY <1>2 DEF EmptyInRegion, AllBelow, Links, LargeOK
  <2>5. QED
    BY <2>1, <2>2, <2>3, <2>4
<1>6. Bodies(m)
  BY <1>4 DEF Bodies
<1>7. Counters(m)
  <2>1. ASSUME NEW G \in Gen PROVE m.generations[G].bytes_allocated = UsedOn(m, InGens(m, G))
    <3>1. InGens(m, G) = {}
      BY <1>2 DEF InGens, InGen
    <3>2. UsedOn(m, {}) = 0
      BY <1>1, UsedNumbers, EmptySum
    <3>3. QED
      BY <1>1, <3>1, <3>2
  <2>2. QED
    BY <2>1, CountersAre
<1>8. QED
  BY <1>1, <1>5, <1>6, <1>7 DEF HeapOK, PagesOK, NoAreas

LEMMA InitOK == Init => IInv
<1> SUFFICES ASSUME Init PROVE IInv
  OBVIOUS
<1>1. h = gc_init /\ root = [s \in Slot |-> [at |-> NIL, live |-> s \in Static]] /\ gc = Idle
  BY DEF Init
<1>2. h \in Heaps /\ HeapOK(h) /\ h.record_new_objects = 0
  BY <1>1, FirstHeapOK
<1>3. gc \in GcRec /\ gc.pc = "lisp" /\ gc.gen = 0
  <2>1. 0 \in Gen /\ 0 \in 0..NPages /\ 0 \in 0..MaxObjects
    BY Numbers, Constants
  <2>2. QED
    BY <1>1, <2>1 DEF Idle, GcRec
<1>4. root \in Roots
  <2>1. \A s \in Slot : (s \in Static) \in BOOLEAN
    OBVIOUS
  <2>2. \A s \in Slot : [at |-> NIL, live |-> s \in Static] \in [at : Addr \union {NIL}, live : BOOLEAN]
    BY <2>1
  <2>3. QED
    BY <1>1, <2>2 DEF Roots
<1>5. PcOK(h, gc)
  BY <1>2, <1>3 DEF PcOK
<1>6. QED
  BY <1>2, <1>3, <1>4, <1>5 DEF IInv, Sound

\* The heap and the place of the collection fit each other in every state:
\* whatever Lisp allocates and stores between and whatever the roots are, each
\* step of collect_garbage and garbage_collect_generation finds the pages,
\* regions, objects and counters it counts on, and leaves them for the next.
THEOREM HeapInvariant == Spec => []IInv
<1>1. Init => IInv
  BY InitOK
<1>2. IInv /\ [Next]_vars => IInv'
  BY MutateOK, CollectOK, IdleOK DEF Next
<1>3. QED
  BY <1>1, <1>2, PTL DEF Spec

LEMMA CellIs ==
  ASSUME NEW m \in Heaps, PagesOK(m), NEW a \in Addr
  PROVE  m.mem[a] \in Cell
<1>1. m.mem[a] \in HeapCell
  BY DEF Heaps
<1>2. CASE m.mem[a].t = "obj"
  <2> DEFINE c == m.mem[a]
             n == c.size
  <2>1. c \in Objs /\ c.kind \in Kind /\ c.id \in 1..MaxObjects /\ c.refs \in Seq(Addr \union {NIL})
    BY <1>1, <1>2, ObjectIs
  <2>2. n \in Nat /\ n >= 1 /\ a \in Int /\ a + n - 1 \in Addr
    BY <1>2, ObjectEnd
  <2>3. n \in 1..NPages*PageSize
    <3>1. a >= 0 /\ a + n - 1 < page_address(NPages) /\ page_address(NPages) \in Nat
      BY <2>2, AddrIs, PageIsIn, ZeroIsIn
    <3>2. n <= page_address(NPages)
      BY <2>2, <3>1
    <3> DEFINE e == NPages*PageSize
    <3>3. n <= e /\ e \in Nat
      BY <3>1, <3>2 DEF page_address
    <3> HIDE DEF e, n
    <3>4. n \in 1..e
      BY <2>2, <3>3
    <3>5. QED
      BY <3>4 DEF e
  <2>4. c \in [t : {"obj"}, id : 1..MaxObjects, kind : Kind, size : Nat, refs : Seq(Addr \union {NIL})]
    BY <2>1 DEF Objs
  <2> DEFINE E == 1..NPages*PageSize
             R == Seq(Addr \union {NIL})
  <2>5. n \in E /\ c.refs \in R
    BY <2>1, <2>3
  <2> HIDE DEF E
  <2>6. c \in [t : {"obj"}, id : 1..MaxObjects, kind : Kind, size : E, refs : R]
    BY <2>4, <2>5
  <2>7. QED
    BY <2>6 DEF Cell, E
<1>3. CASE m.mem[a].t # "obj"
  BY <1>1, <1>3 DEF HeapCell, Cell, Objs
<1>4. QED
  BY <1>2, <1>3

\* gencgc.c writes nothing out of range: no counter goes below zero, no page is
\* filled past its end, no pointer leads out of the heap, no generation is
\* beyond the last, however large the heap and whatever the vectors' sizes.
THEOREM TypesAreKept == Spec => []TypeOK
<1>1. IInv => TypeOK
  <2> SUFFICES ASSUME IInv PROVE TypeOK
    OBVIOUS
  <2>1. h \in Heaps /\ PagesOK(h) /\ gc \in GcRec /\ root \in Roots
    BY DEF IInv, Sound, HeapOK
  <2>2. \A a \in Addr : h.mem[a] \in Cell
    BY <2>1, CellIs
  <2>3. h.page \in [Pages -> Page] /\ h.gc_alloc_generation \in Gen /\ h.last_free_page \in 0..NPages
    BY <2>1 DEF Heaps
  <2>4. gc.gen \in Gen /\ gc.objects \in 0..MaxObjects
    BY <2>1, GcIs
  <2>5. QED
    BY <2>1, <2>2, <2>3, <2>4 DEF TypeOK, Roots
<1>2. QED
  BY <1>1, HeapInvariant, PTL

-----------------------------------------------------------------------------
(* The page table, the regions and the objects agree.                        *)
LEMMA ZeroInRegions ==
  ASSUME h \in Heaps, PagesOK(h)
  PROVE  RegionIsZero
<1> SUFFICES ASSUME NEW k \in Regions, NEW a \in h.region[k].free..h.region[k].end-1 PROVE h.mem[a] = zero
  BY DEF RegionIsZero
<1>1. h.region[k] = ResetRegion \/ Opened(h, k)
  BY DEF PagesOK, RegionsOK
<1>2. CASE h.region[k] = ResetRegion
  <2>1. a \in 0..0-1
    BY <1>2, ResetIs
  <2>2. QED
    BY <2>1
<1>3. CASE Opened(h, k)
  <2>1. /\ h.region[k].start \in Nat /\ h.region[k].free \in Nat /\ h.region[k].end \in Nat
        /\ h.region[k].start <= h.region[k].free
    BY <1>3, RegionBounds
  <2>2. a \in Int /\ h.region[k].start <= a /\ a < h.region[k].end /\ a >= h.region[k].free
    BY <2>1
  <2>3. PageOf(a) \in h.region[k].first..h.region[k].last /\ a \in Addr
    BY <1>3, <2>2, RegionCells
  <2>4. QED
    BY <1>3, <2>2, <2>3, RegionRest
<1>4. QED
  BY <1>1, <1>2, <1>3

LEMMA NothingYounger ==
  ASSUME IInv
  PROVE  YoungerAreEmpty
<1>1. ASSUME gc.pc \notin {"lisp", "start", "next"} PROVE gc.pc \in {"older", "scan", "areas", "looping", "free"}
  BY <1>1, GcIs DEF IInv, Sound
<1>2. ASSUME gc.pc \notin {"lisp", "start", "next"}, NEW p \in Pages, h.page[p].alloc PROVE h.page[p].gen >= gc.gen
  <2>1. Gathering(h, gc)
    BY <1>1, <1>2 DEF IInv, Sound, PcOK
  <2>2. QED
    BY <1>2, <2>1 DEF Gathering, Collecting, OldSpace
<1>3. QED
  BY <1>2 DEF YoungerAreEmpty

LEMMA AccountedFor ==
  ASSUME h \in Heaps, PagesOK(h)
  PROVE  ObjectsAccounted
<1> SUFFICES ASSUME NEW a \in Addr, h.mem[a].t = "obj", NEW b \in a..a+h.mem[a].size-1
             PROVE  h.page[PageOf(b)].alloc /\ Accounted(b)
  BY DEF ObjectsAccounted, Holders
<1>1. h.page[PageOf(b)].alloc /\ Held(h, b)
  BY ObjectCells
<1>2. QED
  BY <1>1 DEF Held, Accounted

\* scavenge_generation finds the first page of a block.
LEMMA BlocksStart ==
  ASSUME IInv, gc.pc = "older", Older # {}, NEW g, g = LeastOf(Older), NEW p, p = LeastOf(OlderLeft(g))
  PROVE  h.page[p].offset = 0
<1>1. h \in Heaps /\ PagesOK(h) /\ gc \in GcRec /\ (gc.i = 0 \/ AtStart(h, gc))
  BY DEF IInv, Sound, PcOK, HeapOK
<1>2. /\ g \in Gen /\ p \in Pages /\ p \in Boxed /\ InGen(h, p, g)
      /\ p \in OlderLeft(g) /\ \A q \in OlderLeft(g) : p <= q
  BY <1>1, OlderIs
<1>3. p \in Int /\ gc.i \in Int /\ gc.i >= 0
  BY <1>1, <1>2, GcIs, Paging DEF Pages
<1> SUFFICES ASSUME h.page[p].offset # 0 PROVE FALSE
  OBVIOUS
<1> DEFINE q == p - 1
<1>4. LinkedTo(h, p)
  BY <1>1, <1>2 DEF PagesOK, Links, InGen
<1>5. q \in Pages /\ q \in Int /\ q >= 0
  BY <1>2, <1>3, <1>4, Paging DEF LinkedTo, Pages
<1>6. InGen(h, q, g) /\ q \in Boxed
  <2>1. /\ h.page[q].alloc /\ h.page[q].used = PageSize
        /\ h.page[q].gen = h.page[p].gen /\ h.page[q].unboxed = h.page[p].unboxed
    BY <1>4 DEF LinkedTo
  <2>2. PageSize # 0 /\ h.page[p].gen = g /\ ~h.page[p].unboxed
    BY <1>2, Paging DEF InGen, Boxed
  <2>3. QED
    BY <1>5, <2>1, <2>2 DEF InGen, Boxed
<1>7. q < h.last_free_page
  BY <1>1, <1>5, <1>6 DEF PagesOK, AllBelow, InGen
<1>8. CASE g = gc.g
  <2>1. gc.i <= p
    BY <1>2, <1>8 DEF OlderLeft, BoxedPages
  <2>2. gc.i <= q
    <3>1. CASE gc.i = 0
      BY <1>5, <3>1
    <3>2. CASE AtStart(h, gc)
      <4>1. gc.i # p
        BY <1>2, <1>8, <3>2 DEF AtStart, Boxed
      <4>2. QED
        BY <1>3, <2>1, <4>1
    <3>3. QED
      BY <1>1, <3>1, <3>2
  <2>3. q \in OlderLeft(g)
    BY <1>6, <1>7, <1>8, <2>2 DEF OlderLeft, BoxedPages
  <2>4. p <= q
    BY <1>2, <2>3
  <2>5. QED
    BY <1>3, <2>4
<1>9. CASE g # gc.g
  <2>1. q \in OlderLeft(g)
    BY <1>5, <1>6, <1>7, <1>9 DEF OlderLeft, BoxedPages
  <2>2. p <= q
    BY <1>2, <2>1
  <2>3. QED
    BY <1>3, <2>2
<1>10. QED
  BY <1>8, <1>9

LEMMA AssertsHold ==
  ASSUME IInv
  PROVE  Asserts
<1>1. gc.pc = "older" /\ Older # {} => h.page[LeastOf(OlderLeft(LeastOf(Older)))].offset = 0
  BY BlocksStart
<1>2. ASSUME NEW k \in Regions, NEW p \in h.region[k].first..h.region[k].last
      PROVE  /\ h.page[p].alloc /\ h.page[p].gen = h.gc_alloc_generation
             /\ h.page[p].unboxed = (k = "unboxed")
             /\ ~h.page[p].wp /\ ~h.page[p].large /\ ~h.page[p].pinned
  <2>1. h.region[k] = ResetRegion \/ Opened(h, k)
    BY DEF IInv, Sound, HeapOK, PagesOK, RegionsOK
  <2>2. CASE h.region[k] = ResetRegion
    <3>1. p \in 0..-1
      BY <2>2, ResetIs
    <3>2. QED
      BY <3>1
  <2>3. CASE Opened(h, k)
    BY <2>3 DEF Opened
  <2>4. QED
    BY <2>1, <2>2, <2>3
<1>3. QED
  BY <1>1, <1>2 DEF Asserts

\* The page table tells the truth: the asserts of gc_alloc_new_region,
\* gc_alloc_update_page_tables and scavenge_generation hold, the bytes counted
\* for a generation are those of its pages, every cell of an object is on an
\* allocated page below bytes_used or in an open region, what is free in a
\* region is zero, and nothing is left in a generation younger than the one
\* collected.
THEOREM PagesStayRight == Spec => []PagesAgree
<1>1. IInv => PagesAgree
  <2> SUFFICES ASSUME IInv PROVE PagesAgree
    OBVIOUS
  <2>1. h \in Heaps /\ HeapOK(h) /\ PagesOK(h) /\ Counters(h)
    BY DEF IInv, Sound, HeapOK
  <2>2. CountersAgree
    BY <2>1 DEF Counters, CountersAgree
  <2>3. QED
    BY <2>1, <2>2, ZeroInRegions, NothingYounger, AssertsHold, AccountedFor DEF PagesAgree
<1>2. QED
  BY <1>1, HeapInvariant, PTL
=============================================================================
