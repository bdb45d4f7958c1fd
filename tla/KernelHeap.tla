------------------------------ MODULE KernelHeap ------------------------------
(***************************************************************************)
(* The kernel heap (kalloc.cpp), a K&R allocator with page allocation on    *)
(* top.  Addresses count units of sizeof(heap_block_hdr_t) = 8 bytes from   *)
(* kernel_heap_start.  The free blocks form a circular list in the order of *)
(* their addresses that also holds kernel_heap_free_base, a block of size 0 *)
(* in the kernel image, below the heap.                                     *)
(*                                                                         *)
(* One iteration of a loop of the code is one step, so that a call takes    *)
(* several; pc says which loop is being executed.  Calls do not overlap:    *)
(* they are made by handlers, with interrupts off, and by main() before it  *)
(* installs the scheduler.  The model ends where kalloc_page breaks the     *)
(* list: what later calls do depends on what clients write into a page.     *)
(***************************************************************************)
EXTENDS Integers, FiniteSetsExt

CONSTANTS
    PageUnits,  \* units in a page; 512 in the code
    Frames,     \* frames mm_page_allocate can still deliver
    Requests    \* values of nunits in kalloc, header included

ASSUME PageAssumption    == PageUnits \in Nat \ {0}
ASSUME FramesAssumption  == Frames \in Nat
ASSUME RequestAssumption == Requests \subseteq Nat \ {0}

Base == -1      \* &kernel_heap_free_base
Null == -2

VARIABLES
    next,    \* next_block, for the headers of free blocks
    size,    \* block_size, for the headers of free, used and changing blocks
    freep,   \* kernel_heap_free
    heap,    \* kernel_heap_alloc, in pages
    frames,  \* frames left
    used,    \* headers of the blocks kalloc has returned
    pages,   \* pages kalloc_page has returned
    pc,      \* "idle", the loop being executed, or "fault": NULL dereferenced
    ret,     \* where kfree returns to: "idle", or "kalloc" when called by kbrk
    p, prevp,\* the local variables of kalloc and kalloc_page
    need,    \* nunits in kalloc
    bp, fp,  \* the local variables bp and p of kfree
    damage   \* what kalloc_page broke: history, not in the code

list  == <<next, size, freep>>
owned == <<used, pages>>
local == <<p, prevp, need, bp, fp, ret>>
vars  == <<next, size, freep, heap, frames, used, pages, pc, ret, p, prevp, need, bp, fp,
           damage>>

Free == DOMAIN next

(* A memory cell is written, or no longer holds a header. *)
Put(f, h, v) == [x \in DOMAIN f \cup {h} |-> IF x = h THEN v ELSE f[x]]
Drop(f, h)   == [x \in DOMAIN f \ {h} |-> f[x]]

Init ==
    /\ next = [h \in {} |-> Null]
    /\ size = [h \in {} |-> 0]
    /\ freep = Null
    /\ heap = 0
    /\ frames = Frames
    /\ used = {}
    /\ pages = {}
    /\ pc = "idle"
    /\ ret = "idle"
    /\ p = Null /\ prevp = Null
    /\ need = 0
    /\ bp = Null /\ fp = Null
    /\ damage = "none"

-----------------------------------------------------------------------------
(* Entering and leaving a function. *)

(* kalloc and kalloc_page: the list is created on the first call. *)
EnterSearch(loop) ==
    /\ IF freep = Null
       THEN /\ next' = [h \in {Base} |-> Base]
            /\ size' = [h \in {Base} |-> 0]
            /\ freep' = Base
       ELSE UNCHANGED list
    /\ prevp' = freep'
    /\ p' = next'[freep']
    /\ pc' = loop

(* kfree(b + 1), to return to r.  Before the first kalloc the list is NULL.   *)
EnterFree(b, r) ==
    /\ bp' = b
    /\ fp' = freep
    /\ ret' = r
    /\ pc' = IF freep = Null THEN "fault" ELSE "kfree"
    /\ UNCHANGED <<next, freep>>

ReturnToCaller ==
    /\ pc' = "idle"
    /\ p' = Null /\ prevp' = Null
    /\ need' = 0
    /\ UNCHANGED <<bp, fp, ret>>

(* Mutant: the answer 0 of mm_page_allocate is not looked at. *)
MapAnyPage == frames' = frames - 1 /\ heap' = heap + 1

(* A page is mapped behind the heap, if mm_page_allocate has a frame for it.  *)
MapPage == frames > 0 /\ frames' = frames - 1 /\ heap' = heap + 1

(* kbrk, up to its call of kfree. *)
Grow(r) ==
    /\ MapPage
    /\ size' = Put(size, heap * PageUnits, PageUnits)
    /\ EnterFree(heap * PageUnits, r)

Advance == prevp' = p /\ p' = next[p]

-----------------------------------------------------------------------------
(* kalloc *)

Kalloc(n) ==
    /\ pc = "idle"
    /\ need' = n
    /\ EnterSearch("kalloc")
    /\ UNCHANGED <<heap, frames, owned, bp, fp, ret, damage>>

(* Mutant: the front of the block is given out, and stays on the list. *)
CutFront(h) == h

(* Where the units that are cut off a block that is too large begin. *)
Cut(h) == h + (size[h] - need)

(* The block fits: it is unlinked, or its tail is cut off. *)
KallocTake ==
    /\ pc = "kalloc" /\ size[p] >= need
    /\ IF size[p] = need
       THEN /\ next' = Drop([next EXCEPT ![prevp] = next[p]], p)
            /\ used' = used \cup {p}
            /\ UNCHANGED size
       ELSE /\ size' = Put([size EXCEPT ![p] = size[p] - need], Cut(p), need)
            /\ used' = used \cup {Cut(p)}
            /\ UNCHANGED next
    /\ freep' = prevp
    /\ ReturnToCaller
    /\ UNCHANGED <<heap, frames, pages, damage>>

KallocGrow ==
    /\ pc = "kalloc" /\ size[p] < need /\ p = freep
    /\ Grow("kalloc")
    /\ UNCHANGED <<owned, p, prevp, need, damage>>

(* kalloc returns NULL. *)
KallocFail ==
    /\ pc = "kalloc" /\ size[p] < need /\ p = freep
    /\ frames = 0
    /\ ReturnToCaller
    /\ UNCHANGED <<list, heap, frames, owned, damage>>

KallocNext ==
    /\ pc = "kalloc" /\ size[p] < need /\ p # freep
    /\ Advance
    /\ UNCHANGED <<list, heap, frames, owned, pc, need, bp, fp, ret, damage>>

-----------------------------------------------------------------------------
(* kfree, kfree_page and kbrk *)

Kfree(b) ==
    /\ pc = "idle"
    /\ used' = used \ {b}
    /\ EnterFree(b, "idle")
    /\ UNCHANGED <<size, heap, frames, pages, p, prevp, need, damage>>

KfreePage(b) ==
    /\ pc = "idle"
    /\ pages' = pages \ {b}
    /\ size' = Put(size, b, PageUnits)
    /\ EnterFree(b, "idle")
    /\ UNCHANGED <<heap, frames, used, p, prevp, need, damage>>

Kbrk ==
    /\ pc = "idle"
    /\ Grow("idle")
    /\ UNCHANGED <<owned, p, prevp, need, damage>>

(* Mutants: the end of the heap is forgotten; the upper neighbour is.         *)
PlaceInside == fp < bp /\ bp < next[fp]
PlaceAbove  == fp < bp \/ fp >= next[fp]

(* bp belongs between fp and its successor, or at an end of the heap. *)
PlaceFound ==
    \/ fp < bp /\ bp < next[fp]
    \/ fp >= next[fp] /\ (bp > fp \/ bp < next[fp])

KfreeNext ==
    /\ pc = "kfree" /\ ~ PlaceFound
    /\ fp' = next[fp]
    /\ UNCHANGED <<list, heap, frames, owned, pc, p, prevp, need, bp, ret, damage>>

(* Mutant: the block is not merged with the one that follows. *)
NeverJoins == FALSE

(* The block ends where the next free one begins. *)
JoinsNext == bp + size[bp] = next[fp]

(* The block is linked in behind fp and merged with its neighbours. *)
KfreeInsert ==
    LET nx        == next[fp]
        joinsPrev == fp + size[fp] = bp
        linkB     == IF JoinsNext THEN next[nx] ELSE nx
        sizeB     == IF JoinsNext THEN size[bp] + size[nx] ELSE size[bp]
        next1     == IF JoinsNext THEN Drop(next, nx) ELSE next
        size1     == IF JoinsNext THEN Drop(size, nx) ELSE size
    IN
    /\ pc = "kfree" /\ PlaceFound
    /\ IF joinsPrev
       THEN /\ next' = [next1 EXCEPT ![fp] = linkB]
            /\ size' = Drop([size1 EXCEPT ![fp] = size[fp] + sizeB], bp)
       ELSE /\ next' = Put([next1 EXCEPT ![fp] = bp], bp, linkB)
            /\ size' = [size1 EXCEPT ![bp] = sizeB]
    /\ freep' = fp
    /\ bp' = Null /\ fp' = Null /\ ret' = "idle"
    /\ IF ret = "kalloc"
       THEN pc' = "kalloc" /\ prevp' = p /\ p' = next'[p]
       ELSE pc' = "idle" /\ UNCHANGED <<p, prevp>>
    /\ UNCHANGED <<heap, frames, owned, need, damage>>

-----------------------------------------------------------------------------
(* kalloc_page *)

(* The first page boundary in block h, and the units in front of it.          *)
Aligned(h)  == ((h + PageUnits - 1) \div PageUnits) * PageUnits
Overhead(h) == Aligned(h) - h

(* Mutants: the alignment is not counted; a header is counted twice. *)
NbytesUnaligned(h)  == size[h]
NbytesBehindHead(h) == IF size[h] > Overhead(h) THEN size[h] - Overhead(h) - 1 ELSE 0

(* What is left of a block behind the boundary. *)
Nbytes(h) == IF size[h] > Overhead(h) THEN size[h] - Overhead(h) ELSE 0

KallocPage ==
    /\ pc = "idle"
    /\ EnterSearch("page")
    /\ UNCHANGED <<heap, frames, owned, need, bp, fp, ret, damage>>

(* The page is cut out of block p; kernel_heap_free is left alone.  Without   *)
(* units behind the page the code unlinks the block that follows: p itself    *)
(* when p starts on the boundary (p was set to prevp), the next block when    *)
(* units of p remain in front of the page.  That one is lost, and when p is   *)
(* unlinked while kernel_heap_free points to it, that pointer is left stale.  *)
PageTake ==
    LET page  == Aligned(p)
        after == page + PageUnits
        front == Overhead(p) > 0
        back  == Nbytes(p) > PageUnits
        h     == IF front THEN p ELSE prevp
        nextA == IF back THEN Put([next EXCEPT ![h] = after], after, next[p])
                 ELSE Drop([next EXCEPT ![h] = next[next[h]]], next[h])
        sizeA == IF front THEN [size EXCEPT ![p] = Overhead(p)] ELSE Drop(size, p)
    IN
    /\ pc = "page" /\ Nbytes(p) >= PageUnits
    /\ next' = IF front THEN nextA ELSE Drop(nextA, p)
    /\ size' = IF back THEN Put(sizeA, after, Nbytes(p) - PageUnits) ELSE sizeA
    /\ pages' = pages \cup {page}
    /\ damage' = IF front /\ ~ back THEN "skipped"
                 ELSE IF ~ front /\ freep = p THEN "stale"
                 ELSE "none"
    /\ ReturnToCaller
    /\ UNCHANGED <<freep, heap, frames, used>>

(* No block holds a page: a new one is mapped behind the heap, or NULL. *)
PageGrow ==
    /\ pc = "page" /\ Nbytes(p) < PageUnits /\ p = freep
    /\ MapPage
    /\ pages' = pages \cup {heap * PageUnits}
    /\ ReturnToCaller
    /\ UNCHANGED <<list, used, damage>>

PageFail ==
    /\ pc = "page" /\ Nbytes(p) < PageUnits /\ p = freep
    /\ frames = 0
    /\ ReturnToCaller
    /\ UNCHANGED <<list, heap, frames, owned, damage>>

PageNext ==
    /\ pc = "page" /\ Nbytes(p) < PageUnits /\ p # freep
    /\ Advance
    /\ UNCHANGED <<list, heap, frames, owned, pc, need, bp, fp, ret, damage>>

-----------------------------------------------------------------------------
KallocLoop == KallocTake \/ KallocGrow \/ KallocFail \/ KallocNext
KfreeLoop  == KfreeNext \/ KfreeInsert
PageLoop   == PageTake \/ PageGrow \/ PageFail \/ PageNext
Internal   == KallocLoop \/ KfreeLoop \/ PageLoop

Call ==
    \/ \E n \in Requests : Kalloc(n)
    \/ \E b \in used : Kfree(b)
    \/ \E b \in pages : KfreePage(b)
    \/ KallocPage
    \/ Kbrk

Next == (damage = "none" /\ Call) \/ Internal

Spec == Init /\ [][Next]_vars

(* A call that has started runs: nothing preempts it. *)
FairSpec == Spec /\ WF_vars(Internal)

-----------------------------------------------------------------------------
(* Properties. *)

Addr == {Base} \cup 0 .. Frames * PageUnits

TypeOK ==
    /\ Free \subseteq Addr /\ \A h \in Free : next[h] \in Addr
    /\ Free \subseteq DOMAIN size
    /\ DOMAIN size \subseteq Addr /\ \A h \in DOMAIN size : size[h] \in Nat
    /\ freep \in Addr \cup {Null}
    /\ heap \in Nat /\ frames \in Nat /\ heap + frames = Frames
    /\ used \subseteq DOMAIN size /\ pages \subseteq Addr
    /\ pc \in {"idle", "kalloc", "kfree", "page", "fault"}
    /\ ret \in {"idle", "kalloc"}
    /\ {p, prevp, bp, fp} \subseteq Addr \cup {Null}
    /\ need \in Requests \cup {0}
    /\ damage \in {"none", "skipped", "stale"}

(* The free blocks are linked in the order of their addresses, the last one   *)
(* back to the base block, and kernel_heap_free points to one of them: a walk *)
(* from there meets every free block.  Nothing but the two cases recorded in  *)
(* damage, both in kalloc_page, breaks the list.                              *)
ListInOrder ==
    damage = "none" /\ freep # Null =>
        /\ Base \in Free /\ freep \in Free
        /\ \A h \in Free : next[h] \in Free
        /\ \A h \in Free :
               IF next[h] = Base THEN \A g \in Free : g <= h
               ELSE h < next[h] /\ \A g \in Free : g <= h \/ next[h] <= g

(* Headers whose block is neither free nor in use: the one kfree works on. *)
Moving == IF pc = "kfree" THEN {bp} ELSE {}

Block(h) == [at |-> h, len |-> size[h]]
Page(g)  == [at |-> g, len |-> PageUnits]
Held     == {Block(h) : h \in used} \cup {Page(g) : g \in pages}
Regions  == Held \cup {Block(h) : h \in Free \ {Base}} \cup {Block(h) : h \in Moving}

(* kalloc, kalloc_page and kfree never let two blocks overlap, be they free,  *)
(* in use, or on their way, and all of them lie inside the heap.              *)
NoOverlap ==
    /\ Free \cap used = {} /\ Moving \cap (Free \cup used) = {}
    /\ pages \cap (Free \cup used \cup Moving) = {}
    /\ \A r \in Regions : 0 <= r.at /\ 0 < r.len /\ r.at + r.len <= heap * PageUnits
    /\ \A r, s \in Regions : r.at < s.at => r.at + r.len <= s.at

(* kfree merges a block with both neighbours: no two free blocks touch. *)
Coalesced == damage = "none" => \A h \in Free \ {Base} : h + size[h] # next[h]

(* kh_get_memory_info: what it reports as allocated, in units. *)
FreeUnits == MapThenSumSet(LAMBDA h : size[h], Free)
Allocated == heap * PageUnits - FreeUnits

(* Between two calls the figure is what the clients hold: no unit is lost,    *)
(* however blocks are cut, merged and moved.                                  *)
NothingLost ==
    pc = "idle" /\ damage = "none" => Allocated = MapThenSumSet(LAMBDA r : r.len, Held)

(* Every call returns: the loops of kalloc, kfree and kalloc_page come to an   *)
(* end, also when kalloc extends the heap under its own feet.                 *)
CallsReturn == pc \in {"kalloc", "kfree", "page"} ~> pc \in {"idle", "fault"}

(* The allocator keeps the promises of RegionHeap. *)
Promise == INSTANCE RegionHeap WITH held <- Held, limit <- heap * PageUnits

(* A call hands out a region nobody holds, or takes one back; nothing else    *)
(* happens to what the clients hold.                                          *)
ImplementsRegionHeap == Promise!Spec

=============================================================================
