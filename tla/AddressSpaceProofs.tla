-------------------------- MODULE AddressSpaceProofs --------------------------
(***************************************************************************)
(* Proofs about AddressSpace: no access of the kernel goes astray, pointers  *)
(* to tables match directory entries, the kernel's part of the directories   *)
(* is shared, and no frame has two uses, for machines and page tables of any *)
(* size that main() fits in, and any number of processes.                   *)
(***************************************************************************)
EXTENDS AddressSpace, TLAPS, WellFoundedInduction

-----------------------------------------------------------------------------
(* The inductive invariant, in terms of a value n of m.  An operation is a      *)
(* composition of smaller ones, and every one of those keeps most of it.       *)

(* The first frame of those that setup_memory_manager puts on the stack.       *)
First    == FirstFree + 1 + StackPages
FreeKind == First .. M - 1

KWalk(n, v)   == Walk(n, Kernel, v)
Frames(n, h)  == KWalk(n, HeapPage(h))
InHeap(n)     == 0 .. n.heap - 1
Running(n)    == DOMAIN n.dir \cap Proc

Typed(n) ==
    /\ n \in [dir : {n.dir}, tab : {n.tab}, at : {n.at}, table : {n.table}, free : {n.free},
              heap : {n.heap}, idle : {n.idle}, active : {n.active}, stale : {n.stale}, wild : {FALSE}]
    /\ DOMAIN n.dir \subseteq Proc \cup {Kernel} /\ {Kernel, n.active} \subseteq DOMAIN n.dir
    /\ n.dir \in [DOMAIN n.dir -> [Dir -> Frame \cup {None}]]
    /\ n.tab \in [DOMAIN n.dir -> [Dir -> VPage \cup {Null}]]
    /\ n.at \in [DOMAIN n.dir -> [dir : VPage, tab : VPage, stack : VPage, phys : Frame]]
    /\ n.table \in [DOMAIN n.table -> [Slot -> Frame \cup {None, Junk}]]
    /\ DOMAIN n.table \subseteq Frame
    /\ n.free \in Seq(Frame)
    /\ n.heap \in 0 .. E /\ n.idle \subseteq InHeap(n)
    /\ n.stale \subseteq Dir \X Slot \X (Frame \cup {Junk})

(* The upper part of every directory is the kernel's.                         *)
Shared(n) ==
    \A s \in DOMAIN n.dir, d \in Dir \ {"low"} :
        n.dir[s][d] = n.dir[Kernel][d] /\ n.tab[s][d] = n.tab[Kernel][d]

(* A directory entry names a table, and a table belongs to one entry only.      *)
Known(n) == \A s \in DOMAIN n.dir, d \in Dir : n.dir[s][d] # None => n.dir[s][d] \in DOMAIN n.table
Apart(n) ==
    \A s, r \in DOMAIN n.dir, d, e \in Dir :
        n.dir[s][d] = n.dir[r][e] /\ n.dir[s][d] # None => d = e

(* The kernel's image and the four pages at the end of the window.            *)
Window(n) ==
    /\ n.dir[Kernel]["window"] = WindowFrame /\ n.tab[Kernel]["window"] = <<"window", E - 2>>
    /\ n.at[Kernel] = KernelTable
    /\ \A i \in 0 .. K + 4 : KWalk(n, <<"window", i>>) = B + i
    /\ \A i \in E - 4 .. E - 1 : KWalk(n, <<"window", i>>) = DirFrame + i - (E - 4)

(* Pages of the heap lead to frames of their own.                             *)
HeapApart(n) ==
    /\ \A h \in InHeap(n) : Frames(n, h) \in FreeKind
    /\ \A h, k \in InHeap(n) : Frames(n, h) = Frames(n, k) => h = k

(* So do those of the stack of free frames; and of the kernel's tables only the  *)
(* heap's has entries that nobody has cleared.                                *)
StackApart(n) ==
    /\ \A i \in Slot : KWalk(n, <<"stack", i>>) \in {None} \cup FirstFree + 1 .. First - 1
    /\ \A w \in VPage : KWalk(n, w) = Junk => w[1] \in {"low", "heap"}

(* Programs use frames that no other part has.                                *)
UserApart(n) ==
    \A s \in Running(n), i \in Slot :
        \/ Walk(n, s, <<"low", i>>) = None
        \/ /\ Walk(n, s, <<"low", i>>) \in FreeKind
           /\ \A h \in InHeap(n) : Frames(n, h) # Walk(n, s, <<"low", i>>)

(* The frames that are free.                                                  *)
FreeApart(n) ==
    /\ Len(n.free) <= M - First
    /\ \A i, k \in DOMAIN n.free : n.free[i] = n.free[k] => i = k
    /\ \A i \in DOMAIN n.free :
        /\ n.free[i] \in FreeKind /\ n.free[i] \notin DOMAIN n.table
        /\ \A h \in InHeap(n) : Frames(n, h) # n.free[i]
        /\ \A s \in Running(n), k \in Slot : Walk(n, s, <<"low", k>>) # n.free[i]

(* The table of d in space s is in page h of the heap.                         *)
InPage(n, s, d) ==
    \E h \in InHeap(n) : n.tab[s][d] = HeapPage(h) /\ Frames(n, h) = n.dir[s][d]

Pointers(n) ==
    /\ \A s \in DOMAIN n.dir, d \in Dir : n.dir[s][d] = None <=> n.tab[s][d] = Null
    /\ \A s \in DOMAIN n.dir :
        n.dir[s]["low"] # None =>
            InPage(n, s, "low") \/ (n.dir[s]["low"] = LowFrame /\ n.tab[s]["low"] = <<"window", E - 1>>)
    /\ n.dir[Kernel]["text"] # None => InPage(n, Kernel, "text")
    /\ n.dir[Kernel]["stack"] # None =>
        n.dir[Kernel]["stack"] = FirstFree /\ n.tab[Kernel]["stack"] = <<"window", K + 4>>
    /\ n.dir[Kernel]["heap"] # None =>
        /\ n.tab[Kernel]["heap"] = HeapTablePage
        /\ KWalk(n, HeapTablePage) = n.dir[Kernel]["heap"]
    /\ \A s \in Running(n) :
        /\ \A f \in {"dir", "tab", "stack"} : n.at[s][f] \in {HeapPage(h) : h \in InHeap(n)}
        /\ KWalk(n, n.at[s].dir) = n.at[s].phys

(* Only pages of programs, and pages that are not part of the heap yet, may be   *)
(* in the translation buffer with a frame they no longer have.                *)
Flushed(n) == \A x \in n.stale : x[1] = "low" \/ (x[1] = "heap" /\ x[2] >= n.heap)

Sound(n) ==
    /\ Typed(n) /\ Shared(n) /\ Known(n) /\ Apart(n) /\ Window(n)
    /\ HeapApart(n) /\ StackApart(n) /\ UserApart(n) /\ FreeApart(n)
    /\ Pointers(n) /\ Flushed(n)

(* A page of the heap is free, or it is part of one process, or a table.        *)
Owned(n) ==
    /\ \A h \in n.idle : Frames(n, h) \notin DOMAIN n.table
    /\ \A s \in Running(n), f \in {"dir", "tab", "stack"}, h \in InHeap(n) :
        n.at[s][f] = HeapPage(h) => h \notin n.idle /\ Frames(n, h) \notin DOMAIN n.table
    /\ \A s, r \in Running(n), f, g \in {"dir", "tab", "stack"} :
        n.at[s][f] = n.at[r][g] => s = r /\ f = g

(* What main() has set up.                                                    *)
HasStack(n, k) ==
    n.dir[Kernel]["stack"] # None
    /\ \A i \in 0 .. k - 1 : KWalk(n, <<"stack", StackSlot + i>>) \in Frame
HasHeap(n) == n.dir[Kernel]["heap"] # None
HasText(n) == KWalk(n, <<"text", 0>>) = TextFrame
HasLow(n)  ==
    /\ n.dir[Kernel]["low"] = LowFrame /\ KWalk(n, <<"low", TextFrame>>) = TextFrame
    /\ \A x \in n.stale : x[1] # "low"

(* The first pages of process s are mapped.                                   *)
HasPages(n, s, k) == \A i \in 0 .. k - 1 : Walk(n, s, <<"low", i>>) \in Frame

(* Page i leads to the same frame in the active space as in s.                  *)
Readable(n, s, i) ==
    /\ Walk(n, s, <<"low", i>>) \in Frame
    /\ Walk(n, n.active, <<"low", i>>) = Walk(n, s, <<"low", i>>)
    /\ <<"low", i>> \notin {<<x[1], x[2]>> : x \in n.stale}

Alone(n) == DOMAIN n.dir = {Kernel} /\ n.active = Kernel

(* Nothing has been taken from the heap, nor from the memory manager.          *)
Untouched(n) ==
    /\ n.dir[Kernel]["heap"] = None /\ n.dir[Kernel]["text"] = None /\ n.heap = 0
    /\ \A t \in DOMAIN n.table : t < First

(* Nothing is in the translation buffer but what the pages of the active         *)
(* process lead to.                                                           *)
Coherent(n) == \A x \in n.stale : x[1] = "low" => Walk(n, n.active, <<"low", x[2]>>) = x[3]

(* What holds before the heap is set up; from then on, with k frames and pages   *)
(* of the heap that are still to be had; while the program is loaded, with the  *)
(* first k pages of it mapped; and while processes run.                        *)
Bare(n) == Sound(n) /\ Owned(n) /\ Alone(n) /\ Untouched(n) /\ HasLow(n)

Ready(n, k) ==
    /\ Sound(n) /\ Owned(n)
    /\ HasStack(n, StackPages) /\ HasHeap(n) /\ HasText(n) /\ HasRoom(n, k)

Loads(n, p, k) ==
    /\ n.active = Kernel /\ Running(n) = {p}
    /\ \A i \in 0 .. k - 1 : Readable(n, p, i)

Going(n) ==
    /\ Sound(n) /\ Owned(n)
    /\ HasStack(n, StackPages) /\ HasHeap(n) /\ HasText(n)
    /\ \A s \in Running(n) : HasPages(n, s, Pages)
    /\ n.active # Kernel => Coherent(n)

OldText == {"stack table", "stack pages", "free frames", "heap", "map text", "set base"}

(* Frames, or pages of the heap, that main() takes from step k of a loop on.     *)
Brks(k)  == 8 + Kbrks - k + Pages
Loops(k) == IF k = 0 THEN 5 + Pages ELSE 3 + Pages - k

(* What main() is to find at c, after k steps of its loop.                      *)
TheApp(n) == CHOOSE p \in Proc : p \in DOMAIN n.dir

Phase(c, k, n) ==
    /\ c = "stack table" => Bare(n) /\ n.dir[Kernel]["stack"] = None /\ n.free = <<>>
    /\ c = "stack pages" => Bare(n) /\ HasStack(n, k) /\ n.free = <<>> /\ k <= StackPages
    /\ c = "free frames" =>
        /\ Bare(n) /\ HasStack(n, StackPages) /\ Len(n.free) = k /\ First + k <= M
        /\ \A i \in DOMAIN n.free : n.free[i] < First + k
    /\ c = "heap" => Bare(n) /\ HasStack(n, StackPages) /\ HasRoom(n, Brks(0) + 3)
    /\ c = "map text" =>
        /\ Sound(n) /\ Owned(n) /\ Alone(n) /\ HasLow(n) /\ HasStack(n, StackPages) /\ HasHeap(n)
        /\ n.dir[Kernel]["text"] = None /\ HasRoom(n, Brks(0) + 1)
    /\ c = "set base" => Ready(n, Brks(0)) /\ Alone(n) /\ HasLow(n)
    /\ c = "remove low" => Ready(n, Brks(0)) /\ Alone(n)
    /\ c = "brk" => Ready(n, Brks(k)) /\ Alone(n) /\ k <= Kbrks
    /\ c = "app" => Ready(n, Loops(0) + 3) /\ Alone(n)
    /\ c = "pages" => Ready(n, Loops(k)) /\ Loads(n, TheApp(n), k) /\ k <= Pages
    /\ c \in {"read", "fork"} => Ready(n, 3) /\ Loads(n, TheApp(n), Pages)
    /\ c = "run" => Going(n)
    /\ c = "over" => Sound(n)

Control ==
    /\ pc \in Pc /\ step \in 0 .. M
    /\ pc \notin {"stack pages", "free frames", "brk", "pages"} => step = 0
    /\ text = IF pc \in OldText THEN <<"low", TextFrame>> ELSE <<"text", 0>>

IInv == Control /\ Phase(pc, step, m)

-----------------------------------------------------------------------------
(* Accesses. *)

(* The numbers of frames and slots, for the provers.                          *)
LEMMA Sizes ==
    /\ E \in Nat /\ B \in Nat /\ K \in Nat /\ M \in Nat /\ Kbrks \in Nat /\ Pages \in Nat
    /\ StackSlot \in Nat /\ TempSlot \in Nat /\ TextFrame \in Nat /\ StackPages \in Nat
    /\ E > 0 /\ B > 0 /\ K > 0 /\ M > 0 /\ Kbrks > 0 /\ Pages > 0 /\ StackPages > 0
    /\ TextFrame < B /\ K + 4 < TempSlot /\ TempSlot < E - 5 /\ B < E /\ B + E <= M
    /\ Pages <= E /\ StackSlot + StackPages <= E
    /\ DirFrame = B + K /\ WindowFrame = B + K + 2 /\ LowFrame = B + K + 3 /\ FirstFree = B + K + 4
    /\ First = B + K + 5 + StackPages /\ First \in Nat
    /\ 11 + Kbrks + Pages <= E /\ First + 11 + Kbrks + Pages <= M
<1>1. M \div E \in Nat
    BY SizeAssumption
<1> QED
    BY <1>1, SizeAssumption, RoomAssumption
       DEF DirFrame, WindowFrame, LowFrame, FirstFree, First, StackPages

(* Frames that setup_memory_manager puts on the stack.                         *)
LEMMA KindFacts ==
    /\ \A f \in FreeKind : f \in Frame /\ f \in Nat /\ f >= First /\ f # None
    /\ \A f \in Frame : f \in Nat /\ f < M /\ f # None
<1>1. First \in Nat /\ M \in Nat
    BY Sizes
<1>2. \A f \in FreeKind : f \in Nat /\ f >= First /\ f < M
    BY <1>1 DEF FreeKind
<1>3. \A f \in Frame : f \in Nat /\ f < M
    BY <1>1 DEF Frame
<1>4. \A f \in Nat : f < M => f \in Frame
    BY <1>1 DEF Frame
<1>5. \A f \in Nat : f # None
    BY DEF None
<1> QED
    BY <1>2, <1>3, <1>4, <1>5

(* A page is a pair.                                                          *)
LEMMA PageFacts ==
    /\ \A d \in Dir, i \in Slot : <<d, i>> \in VPage /\ <<d, i>>[1] = d /\ <<d, i>>[2] = i
    /\ \A v \in VPage : v = <<v[1], v[2]>> /\ v[1] \in Dir /\ v[2] \in Slot /\ v # Null
    BY DEF VPage, Null

(* The slots of the pages of the heap.                                        *)
LEMMA HeapSlots ==
    ASSUME NEW n, Typed(n)
    PROVE  /\ n.heap \in Nat /\ n.heap <= E
           /\ \A h : h \in InHeap(n) <=> h \in Nat /\ h < n.heap
           /\ \A h \in InHeap(n) : h \in Slot /\ HeapPage(h) \in VPage
           /\ \A i \in Slot : i \in Nat /\ i < E
<1>1. n.heap \in Nat /\ n.heap <= E
    BY Sizes DEF Typed
<1>2. \A h : h \in InHeap(n) <=> h \in Nat /\ h < n.heap
    BY <1>1 DEF InHeap
<1>3. \A h \in InHeap(n) : h \in Slot
    BY <1>1, <1>2, Sizes DEF Slot
<1> QED
    BY <1>1, <1>2, <1>3, PageFacts, Sizes DEF HeapPage, Dir, Slot

(* A page of the kernel which all spaces share, and whose frame the processor   *)
(* knows.                                                                     *)
Fixed(n, v) ==
    /\ v \in VPage /\ v[1] # "low" /\ KWalk(n, v) \in Frame
    /\ v[1] = "heap" => v[2] < n.heap

(* An access that does not go astray changes nothing.                        *)
LEMMA SameWild == ASSUME NEW n, Typed(n), NEW w, w = FALSE PROVE [n EXCEPT !.wild = w] = n
    BY DEF Typed

(* A page that is not in the translation buffer can be invalidated for nothing. *)
LEMMA SameStale == ASSUME NEW n, Typed(n), NEW w, w = n.stale PROVE [n EXCEPT !.stale = w] = n
    BY DEF Typed

(* The walk in any space is that of the kernel, but for the lower part.        *)
LEMMA SharedWalk ==
    ASSUME NEW n, Typed(n), Shared(n), NEW s \in DOMAIN n.dir, NEW v \in VPage, v[1] # "low"
    PROVE  Walk(n, s, v) = KWalk(n, v)
    BY PageFacts DEF Shared, KWalk, Walk

(* A page that is fixed leads to the frame it has in the kernel's directory. *)
LEMMA FixedLeads ==
    ASSUME NEW n, Sound(n), NEW v, Fixed(n, v)
    PROVE  LeadsTo(n, v, KWalk(n, v)) /\ \A x \in n.stale : <<x[1], x[2]>> # v
<1>1. v \in VPage /\ v[1] # "low" /\ KWalk(n, v) \in Frame /\ (v[1] = "heap" => v[2] < n.heap)
    BY DEF Fixed
<1>2. n.active \in DOMAIN n.dir /\ Typed(n) /\ Shared(n) /\ Flushed(n)
    BY DEF Sound, Typed
<1>3. Walk(n, n.active, v) = KWalk(n, v)
    BY <1>1, <1>2, SharedWalk
<1>4. ASSUME NEW x \in n.stale PROVE <<x[1], x[2]>> # v
    <2>1. v[1] = "heap" => v[2] \in Nat /\ n.heap \in Nat /\ ~ v[2] >= n.heap
        BY <1>1, <1>2, PageFacts, HeapSlots
    <2>2. CASE <<x[1], x[2]>> = v
        <3>1. v[1] = x[1] /\ v[2] = x[2]
            BY <2>2
        <3> QED
            BY <1>1, <1>2, <2>1, <3>1 DEF Flushed
    <2> QED
        BY <2>2
<1> QED
    BY <1>1, <1>3, <1>4 DEF LeadsTo

(* Accesses to such pages do not go astray.                                  *)
LEMMA AccessFixed ==
    ASSUME NEW n, Sound(n), NEW vs, \A v \in vs : Fixed(n, v)
    PROVE  Access(n, vs) = n
<1>1. ASSUME NEW v \in vs PROVE v # Null /\ LeadsTo(n, v, Walk(n, Kernel, v))
    BY FixedLeads, PageFacts DEF Fixed, KWalk
<1>2. Typed(n) /\ n.wild = FALSE
    BY DEF Sound, Typed
<1>3. (n.wild \/ \E v \in vs : v = Null \/ ~ LeadsTo(n, v, Walk(n, Kernel, v))) = FALSE
    BY <1>1, <1>2
<1> QED
    BY <1>2, <1>3, SameWild DEF Access

(* To invalidate a page whose frame is known changes nothing.                 *)
LEMMA InvalidateFixed ==
    ASSUME NEW n, Sound(n), NEW vs, \A v \in vs : Fixed(n, v)
    PROVE  Invalidate(n, vs) = n
<1>1. \A x \in n.stale : <<x[1], x[2]>> \notin vs
    BY FixedLeads
<1>2. Typed(n) /\ {x \in n.stale : <<x[1], x[2]>> \notin vs} = n.stale
    BY <1>1 DEF Sound
<1> QED
    BY <1>2, SameStale DEF Invalidate

(* The pages of the window, of the heap, and of the structures of a process.    *)
LEMMA WindowFixed ==
    ASSUME NEW n, Sound(n), NEW i \in (0 .. K + 4) \cup (E - 4 .. E - 1)
    PROVE  Fixed(n, <<"window", i>>)
<1>1. i \in Slot /\ "window" \in Dir
    BY Sizes DEF Slot, Dir
<1>2. KWalk(n, <<"window", i>>) \in Frame
    <2>1. CASE i \in 0 .. K + 4
        BY <2>1, Sizes DEF Sound, Window, Frame
    <2>2. CASE i \in E - 4 .. E - 1
        BY <2>2, Sizes DEF Sound, Window, Frame
    <2> QED
        BY <2>1, <2>2
<1> QED
    BY <1>1, <1>2, PageFacts DEF Fixed

(* The pages of the heap are fixed.                                          *)
LEMMA HeapFixed ==
    ASSUME NEW n, Sound(n), NEW h \in InHeap(n)
    PROVE  Fixed(n, HeapPage(h)) /\ HeapPage(h) \in VPage
<1>1. h \in Slot /\ "heap" \in Dir /\ h < n.heap /\ HeapPage(h) \in VPage
    BY HeapSlots DEF Sound, Dir
<1>2. KWalk(n, HeapPage(h)) \in Frame
    BY Sizes DEF Sound, HeapApart, Frames, FreeKind, Frame
<1> QED
    BY <1>1, <1>2, PageFacts DEF Fixed, HeapPage

(* So are the pages of the structures of a process.                          *)
LEMMA StructuresFixed ==
    ASSUME NEW n, Sound(n), NEW s \in DOMAIN n.dir, NEW f \in {"dir", "tab", "stack"}
    PROVE  Fixed(n, n.at[s][f])
<1>1. CASE s = Kernel
    <2>1. /\ n.at[s] = KernelTable
          /\ KernelTable["dir"] = <<"window", E - 4>> /\ KernelTable["tab"] = <<"window", E - 3>>
          /\ KernelTable["stack"] = <<"window", K - 1>>
        BY <1>1 DEF Sound, Window, KernelTable
    <2>2. {E - 4, E - 3, K - 1} \subseteq (0 .. K + 4) \cup (E - 4 .. E - 1)
        BY Sizes
    <2> QED
        BY <2>1, <2>2, WindowFixed
<1>2. CASE s # Kernel
    <2>1. s \in Running(n)
        BY <1>2 DEF Running, Sound, Typed
    <2>2. PICK h \in InHeap(n) : n.at[s][f] = HeapPage(h)
        BY <2>1 DEF Sound, Pointers
    <2> QED
        BY <2>2, HeapFixed
<1> QED
    BY <1>1, <1>2

(* The pointer to a table leads to it.                                        *)
LEMMA TableFixed ==
    ASSUME NEW n, Sound(n), NEW s \in DOMAIN n.dir, NEW d \in Dir, n.dir[s][d] # None
    PROVE  Fixed(n, n.tab[s][d]) /\ KWalk(n, n.tab[s][d]) = n.dir[s][d]
<1>1. n.dir[s][d] \in Frame
    BY DEF Sound, Typed
<1>2. CASE d = "window"
    <2>1. n.tab[s][d] = <<"window", E - 2>> /\ n.dir[s][d] = WindowFrame
        BY <1>2 DEF Sound, Window, Shared
    <2>2. E - 2 \in E - 4 .. E - 1 /\ DirFrame + (E - 2) - (E - 4) = WindowFrame
        BY Sizes
    <2> QED
        BY <2>1, <2>2, WindowFixed DEF Sound, Window
<1>3. CASE d = "stack"
    <2>1. n.tab[s][d] = <<"window", K + 4>> /\ n.dir[s][d] = FirstFree
        BY <1>3 DEF Sound, Pointers, Shared
    <2>2. K + 4 \in 0 .. K + 4 /\ B + (K + 4) = FirstFree
        BY Sizes
    <2> QED
        BY <2>1, <2>2, WindowFixed DEF Sound, Window
<1>4. CASE d = "heap"
    <2>1. n.tab[s][d] = HeapTablePage /\ KWalk(n, HeapTablePage) = n.dir[s][d]
        BY <1>4 DEF Sound, Pointers, Shared
    <2>2. HeapTablePage \in VPage /\ HeapTablePage[1] = "window"
        BY Sizes DEF HeapTablePage, VPage, Dir, Slot
    <2> QED
        BY <1>1, <2>1, <2>2 DEF Fixed
<1>5. CASE d = "text"
    <2>1. InPage(n, Kernel, "text") /\ n.dir[s][d] = n.dir[Kernel][d] /\ n.tab[s][d] = n.tab[Kernel][d]
        BY <1>5 DEF Sound, Pointers, Shared
    <2> QED
        BY <1>5, <2>1, HeapFixed DEF InPage, Frames
<1>6. CASE d = "low"
    <2>1. CASE InPage(n, s, "low")
        BY <1>6, <2>1, HeapFixed DEF InPage, Frames
    <2>2. CASE n.dir[s]["low"] = LowFrame /\ n.tab[s]["low"] = <<"window", E - 1>>
        <3>1. E - 1 \in E - 4 .. E - 1 /\ DirFrame + (E - 1) - (E - 4) = LowFrame
            BY Sizes
        <3> QED
            BY <1>6, <2>2, <3>1, WindowFixed DEF Sound, Window
    <2> QED
        BY <1>6, <2>1, <2>2 DEF Sound, Pointers
<1> QED
    BY <1>2, <1>3, <1>4, <1>5, <1>6 DEF Dir

(* A table is reached through the pointer to it.                             *)
LEMMA AccessTableFixed ==
    ASSUME NEW n, Sound(n), NEW s \in DOMAIN n.dir, NEW d \in Dir, n.dir[s][d] # None
    PROVE  AccessTable(n, s, d) = n
<1>1. Fixed(n, n.at[s]["tab"])
    BY StructuresFixed
<1>2. Access(n, {n.at[s].tab}) = n
    BY <1>1, AccessFixed
<1>3. LeadsTo(n, n.tab[s][d], n.dir[s][d]) /\ n.tab[s][d] # Null
    BY TableFixed, FixedLeads, PageFacts DEF Fixed
<1>4. Typed(n) /\ n.wild = FALSE
    BY DEF Sound, Typed
<1>5. (n.wild \/ n.tab[s][d] = Null \/ ~ LeadsTo(n, n.tab[s][d], n.dir[s][d])) = FALSE
    BY <1>3, <1>4
<1> QED
    BY <1>2, <1>4, <1>5, SameWild DEF AccessTable

-----------------------------------------------------------------------------
(* Changes of a page table. *)

(* The fields of a value of m.                                                *)
IsRecord(n) ==
    n \in [dir : {n.dir}, tab : {n.tab}, at : {n.at}, table : {n.table}, free : {n.free},
           heap : {n.heap}, idle : {n.idle}, active : {n.active}, stale : {n.stale}, wild : {FALSE}]

(* r is n with f at page v of space s, and the translation buffer changed.      *)
Written(r, n, s, v, f) ==
    /\ Typed(r)
    /\ r.dir = n.dir /\ r.tab = n.tab /\ r.at = n.at /\ r.free = n.free
    /\ r.heap = n.heap /\ r.idle = n.idle /\ r.active = n.active
    /\ DOMAIN r.table = DOMAIN n.table
    /\ \A q \in DOMAIN n.dir, w \in VPage :
        Walk(r, q, w) = IF n.dir[q][w[1]] = n.dir[s][v[1]] /\ w[2] = v[2] THEN f ELSE Walk(n, q, w)

(* The same without anything of v in the translation buffer.                   *)
Mapped(r, n, s, v, f) ==
    /\ Written(r, n, s, v, f)
    /\ r.stale = {x \in n.stale : <<x[1], x[2]>> # v}

(* Writing an entry of a table.                                              *)
LEMMA StoreFacts ==
    ASSUME NEW n, Typed(n), Known(n), Apart(n), NEW s \in DOMAIN n.dir, NEW v \in VPage,
           n.dir[s][v[1]] # None, NEW f \in Frame \cup {None, Junk}
    PROVE  /\ Written(Store(n, s, v, f), n, s, v, f)
           /\ n.stale \subseteq Store(n, s, v, f).stale
           /\ \A x \in Store(n, s, v, f).stale : x \in n.stale \/ <<x[1], x[2]>> = v
<1> DEFINE t == n.dir[s][v[1]]
           i == v[2]
           old == n.table[t][i]
           more == {<<d, i, old>> : d \in {x \in Dir : n.dir[n.active][x] = t /\ old # None}}
           r == Store(n, s, v, f)
<1>1. v[1] \in Dir /\ i \in Slot /\ v = <<v[1], i>>
    BY PageFacts
<1>2. t \in DOMAIN n.table /\ t \in Frame /\ old \in Frame \cup {None, Junk}
    BY <1>1 DEF Known, Typed
<1>3. more \subseteq {<<v[1], i, old>>} /\ (more # {} => old # None)
    <2>1. \A x \in Dir : n.dir[n.active][x] = t => x = v[1]
        BY <1>1 DEF Apart, Typed
    <2> QED
        BY <2>1
<1>4. n.wild = FALSE /\ IsRecord(n)
    BY DEF Typed, IsRecord
<1>5. r = [n EXCEPT !.table[t][i] = f, !.stale = @ \cup more]
    BY <1>4 DEF Store
<1> HIDE DEF more, r
<1>6. /\ IsRecord(r)
      /\ r.dir = n.dir /\ r.tab = n.tab /\ r.at = n.at /\ r.free = n.free
      /\ r.heap = n.heap /\ r.idle = n.idle /\ r.active = n.active
      /\ r.table = [n.table EXCEPT ![t] = [n.table[t] EXCEPT ![i] = f]]
      /\ r.stale = n.stale \cup more
    BY <1>4, <1>5 DEF IsRecord
<1>7. r.stale \subseteq Dir \X Slot \X (Frame \cup {Junk})
    BY <1>1, <1>2, <1>3, <1>6 DEF Typed
<1>8. /\ r.table \in [DOMAIN r.table -> [Slot -> Frame \cup {None, Junk}]]
      /\ DOMAIN r.table = DOMAIN n.table
    BY <1>1, <1>2, <1>6 DEF Typed
<1>9. Typed(r)
    <2>1. /\ DOMAIN r.dir \subseteq Proc \cup {Kernel} /\ {Kernel, r.active} \subseteq DOMAIN r.dir
          /\ r.dir \in [DOMAIN r.dir -> [Dir -> Frame \cup {None}]]
          /\ r.tab \in [DOMAIN r.dir -> [Dir -> VPage \cup {Null}]]
          /\ r.at \in [DOMAIN r.dir -> [dir : VPage, tab : VPage, stack : VPage, phys : Frame]]
          /\ r.free \in Seq(Frame) /\ r.heap \in 0 .. E /\ r.idle \subseteq InHeap(r)
        BY <1>6 DEF Typed, InHeap
    <2>2. DOMAIN r.table \subseteq Frame
        BY <1>8 DEF Typed
    <2> QED
        BY <1>6, <1>7, <1>8, <2>1, <2>2 DEF Typed, IsRecord
<1>10. ASSUME NEW q \in DOMAIN n.dir, NEW w \in VPage
       PROVE  Walk(r, q, w) = IF n.dir[q][w[1]] = t /\ w[2] = i THEN f ELSE Walk(n, q, w)
    <2>1. w[1] \in Dir /\ w[2] \in Slot
        BY PageFacts
    <2>2. n.dir[q][w[1]] # None => n.dir[q][w[1]] \in DOMAIN n.table
        BY <2>1 DEF Known
    <2>3. n.table[t] \in [Slot -> Frame \cup {None, Junk}]
        BY <1>2 DEF Typed
    <2> QED
        BY <1>1, <1>2, <1>6, <2>1, <2>2, <2>3 DEF Walk
<1>11. \A x \in r.stale : x \in n.stale \/ <<x[1], x[2]>> = v
    BY <1>1, <1>3, <1>6
<1> QED
    BY <1>6, <1>9, <1>10, <1>11, <1>8 DEF Written, r

(* r is n after invlpg for page v.                                            *)
Flushes(r, n, v) ==
    /\ Typed(r)
    /\ r.dir = n.dir /\ r.tab = n.tab /\ r.at = n.at /\ r.free = n.free
    /\ r.heap = n.heap /\ r.idle = n.idle /\ r.active = n.active /\ r.table = n.table
    /\ r.stale = {x \in n.stale : <<x[1], x[2]>> # v}
    /\ \A q, w : Walk(r, q, w) = Walk(n, q, w)

(* invlpg.                                                                   *)
LEMMA InvalidateFacts ==
    ASSUME NEW n, Typed(n), NEW v
    PROVE  Flushes(Invalidate(n, {v}), n, v)
<1> DEFINE less == {x \in n.stale : <<x[1], x[2]>> \notin {v}}
           r == Invalidate(n, {v})
<1>1. IsRecord(n)
    BY DEF Typed, IsRecord
<1>2. r = [n EXCEPT !.stale = less]
    BY DEF Invalidate
<1>3. less = {x \in n.stale : <<x[1], x[2]>> # v}
    OBVIOUS
<1> HIDE DEF less, r
<1>4. /\ IsRecord(r)
      /\ r.dir = n.dir /\ r.tab = n.tab /\ r.at = n.at /\ r.free = n.free
      /\ r.heap = n.heap /\ r.idle = n.idle /\ r.active = n.active /\ r.table = n.table
      /\ r.stale = less
    BY <1>1, <1>2 DEF IsRecord
<1>5. Typed(r)
    BY <1>3, <1>4 DEF Typed, IsRecord, InHeap
<1> QED
    BY <1>3, <1>4, <1>5 DEF r, Walk, Flushes

(* A change of a table, and the page is invalidated.                          *)
LEMMA StoreInvalidates ==
    ASSUME NEW n, Typed(n), Known(n), Apart(n), NEW s \in DOMAIN n.dir, NEW v \in VPage,
           n.dir[s][v[1]] # None, NEW f \in Frame \cup {None, Junk}
    PROVE  Mapped(Invalidate(Store(n, s, v, f), {v}), n, s, v, f)
<1> DEFINE r == Store(n, s, v, f)
           o == Invalidate(r, {v})
<1>1. /\ Written(r, n, s, v, f) /\ n.stale \subseteq r.stale
      /\ \A x \in r.stale : x \in n.stale \/ <<x[1], x[2]>> = v
    BY StoreFacts
<1> HIDE DEF r
<1>2. Typed(r)
    BY <1>1 DEF Written
<1>9. Flushes(o, r, v)
    BY <1>2, InvalidateFacts
<1> HIDE DEF o
<1>3. /\ Typed(o)
      /\ o.dir = r.dir /\ o.tab = r.tab /\ o.at = r.at /\ o.free = r.free
      /\ o.heap = r.heap /\ o.idle = r.idle /\ o.active = r.active /\ o.table = r.table
      /\ o.stale = {x \in r.stale : <<x[1], x[2]>> # v}
      /\ \A q, w : Walk(o, q, w) = Walk(r, q, w)
    BY <1>9 DEF Flushes
<1>4. o.stale = {x \in n.stale : <<x[1], x[2]>> # v}
    BY <1>1, <1>3
<1>5. Written(o, n, s, v, f)
    BY <1>1, <1>3 DEF Written
<1> QED
    BY <1>4, <1>5 DEF Mapped, o, r

(* pg_map with a page table, and pg_unmap.                                    *)
LEMMA MapInFacts ==
    ASSUME NEW n, Sound(n), NEW s \in DOMAIN n.dir, NEW v \in VPage,
           n.dir[s][v[1]] # None, NEW f \in Frame
    PROVE  Mapped(MapIn(n, s, v, f), n, s, v, f)
<1>1. v[1] \in Dir
    BY PageFacts
<1>2. Fixed(n, n.at[s]["tab"]) /\ Fixed(n, n.tab[s][v[1]])
    BY <1>1, StructuresFixed, TableFixed
<1>3. Invalidate(n, {n.at[s].tab, n.tab[s][v[1]]}) = n
    BY <1>2, InvalidateFixed
<1>4. AccessTable(n, s, v[1]) = n
    BY <1>1, AccessTableFixed
<1>5. Mapped(Invalidate(Store(n, s, v, f), {v}), n, s, v, f)
    BY StoreInvalidates DEF Sound
<1> QED
    BY <1>3, <1>4, <1>5 DEF MapIn

(* pg_unmap writes an entry, and invalidates its page.                       *)
LEMMA UnmapFacts ==
    ASSUME NEW n, Sound(n), NEW s \in DOMAIN n.dir, NEW v \in VPage, n.dir[s][v[1]] # None
    PROVE  Mapped(PgUnmap(n, s, v), n, s, v, None)
<1>1. AccessTable(n, s, v[1]) = n
    BY PageFacts, AccessTableFixed
<1>2. Mapped(Invalidate(Store(n, s, v, None), {v}), n, s, v, None)
    BY StoreInvalidates DEF Sound
<1> QED
    BY <1>1, <1>2 DEF PgUnmap

-----------------------------------------------------------------------------
(* What a change of a table keeps. *)

(* A page that is mapped does not change what others lead to.                *)
LEMMA WalkElsewhere ==
    ASSUME NEW n, Apart(n), NEW s \in DOMAIN n.dir, NEW v \in VPage, NEW f, NEW r,
           n.dir[s][v[1]] # None, Written(r, n, s, v, f),
           NEW q \in DOMAIN n.dir, NEW w \in VPage, w # v
    PROVE  Walk(r, q, w) = Walk(n, q, w)
<1>1. v[1] \in Dir /\ w[1] \in Dir /\ v = <<v[1], v[2]>> /\ w = <<w[1], w[2]>>
    BY PageFacts
<1>2. n.dir[q][w[1]] = n.dir[s][v[1]] => w[1] = v[1]
    BY <1>1 DEF Apart
<1>3. ~ (n.dir[q][w[1]] = n.dir[s][v[1]] /\ w[2] = v[2])
    BY <1>1, <1>2
<1> QED
    BY <1>3 DEF Written

(* The pages the invariant does not speak of.                                 *)
Free(n, v) ==
    \/ v[1] = "stack" \/ v[1] = "text" \/ v = TempPage
    \/ v[1] = "heap" /\ v[2] >= n.heap

(* r has the directories, pointers and frames of n.                            *)
Alike(r, n) ==
    /\ r.dir = n.dir /\ r.tab = n.tab /\ r.at = n.at /\ r.free = n.free
    /\ r.heap = n.heap /\ r.idle = n.idle /\ r.active = n.active
    /\ DOMAIN r.table = DOMAIN n.table

(* What is sound stays sound when directories, heap and free frames stay.    *)
LEMMA AlikeKeeps ==
    ASSUME NEW n, Sound(n), NEW r, Typed(r), Alike(r, n), Flushed(r), StackApart(r),
           UserApart(r), FreeApart(r),
           \A w \in VPage : w[1] # "low" /\ ~ Free(n, w) => KWalk(r, w) = KWalk(n, w)
    PROVE  Sound(r) /\ (Owned(n) => Owned(r))
<1>1. Typed(n) /\ Kernel \in DOMAIN n.dir /\ Running(r) = Running(n) /\ Running(n) \subseteq DOMAIN n.dir
      /\ InHeap(r) = InHeap(n)
    BY DEF Sound, Typed, Running, Alike, InHeap
<1>3. ASSUME NEW h \in InHeap(n) PROVE Frames(r, h) = Frames(n, h)
    <2>1. HeapPage(h) \in VPage /\ HeapPage(h)[1] = "heap" /\ HeapPage(h)[2] = h /\ h < n.heap
          /\ h \in Nat /\ n.heap \in Nat
        BY <1>1, HeapSlots DEF HeapPage
    <2>2. ~ Free(n, HeapPage(h))
        BY <2>1 DEF Free, TempPage
    <2> QED
        BY <2>1, <2>2 DEF Frames
<1>5. ASSUME NEW i \in Slot, i # TempSlot
      PROVE  KWalk(r, <<"window", i>>) = KWalk(n, <<"window", i>>)
    <2>1. <<"window", i>> \in VPage /\ ~ Free(n, <<"window", i>>)
        BY <1>5 DEF VPage, Dir, Free, TempPage
    <2> QED
        BY <2>1
<1>6. Shared(r) /\ Known(r) /\ Apart(r)
    BY DEF Sound, Shared, Known, Apart, Alike
<1>7. Window(r)
    <2>1. \A i \in (0 .. K + 4) \cup (E - 4 .. E - 1) : i \in Slot /\ i # TempSlot
        BY Sizes DEF Slot
    <2>2. \A i \in (0 .. K + 4) \cup (E - 4 .. E - 1) :
              KWalk(r, <<"window", i>>) = KWalk(n, <<"window", i>>)
        BY <1>5, <2>1
    <2> QED
        BY <2>2 DEF Sound, Window, Alike
<1>8. HeapApart(r)
    BY <1>1, <1>3 DEF Sound, HeapApart
<1>11. Pointers(r)
    <2>1. ASSUME NEW s \in DOMAIN n.dir, NEW d \in Dir, InPage(n, s, d) PROVE InPage(r, s, d)
        BY <1>1, <1>3, <2>1 DEF InPage, Alike
    <2>2. KWalk(r, HeapTablePage) = KWalk(n, HeapTablePage)
        BY <1>5, Sizes DEF HeapTablePage, Slot
    <2>3. ASSUME NEW s \in Running(n)
          PROVE  /\ \A f \in {"dir", "tab", "stack"} : r.at[s][f] \in {HeapPage(h) : h \in InHeap(r)}
                 /\ KWalk(r, r.at[s].dir) = r.at[s].phys
        <3>1. \A f \in {"dir", "tab", "stack"} : n.at[s][f] \in {HeapPage(h) : h \in InHeap(n)}
            BY DEF Sound, Pointers
        <3>2. PICK h \in InHeap(n) : n.at[s]["dir"] = HeapPage(h)
            BY <3>1
        <3>3. KWalk(r, n.at[s].dir) = KWalk(n, n.at[s].dir)
            BY <1>3, <3>2 DEF Frames
        <3> QED
            BY <1>1, <3>1, <3>3 DEF Sound, Pointers, Alike
    <2>4. \A s \in DOMAIN n.dir, d \in Dir : r.dir[s][d] = n.dir[s][d] /\ r.tab[s][d] = n.tab[s][d]
        BY DEF Alike
    <2>5. /\ \A s \in DOMAIN n.dir, d \in Dir : r.dir[s][d] = None <=> r.tab[s][d] = Null
          /\ \A s \in DOMAIN n.dir :
                r.dir[s]["low"] # None =>
                    InPage(r, s, "low")
                    \/ (r.dir[s]["low"] = LowFrame /\ r.tab[s]["low"] = <<"window", E - 1>>)
        BY <2>1, <2>4 DEF Sound, Pointers, Dir
    <2>6. /\ r.dir[Kernel]["text"] # None => InPage(r, Kernel, "text")
          /\ r.dir[Kernel]["stack"] # None =>
                r.dir[Kernel]["stack"] = FirstFree /\ r.tab[Kernel]["stack"] = <<"window", K + 4>>
          /\ r.dir[Kernel]["heap"] # None =>
                /\ r.tab[Kernel]["heap"] = HeapTablePage
                /\ KWalk(r, HeapTablePage) = r.dir[Kernel]["heap"]
        BY <1>1, <2>1, <2>2, <2>4 DEF Sound, Pointers, Dir
    <2> QED
        BY <1>1, <2>3, <2>5, <2>6 DEF Pointers, Alike
<1>12. ASSUME Owned(n) PROVE Owned(r)
    <2>1. \A h \in r.idle : h \in InHeap(n) /\ Frames(r, h) = Frames(n, h)
        BY <1>1, <1>3 DEF Alike, Typed
    <2> QED
        BY <1>1, <1>3, <1>12, <2>1 DEF Owned, Alike
<1> QED
    BY <1>6, <1>7, <1>8, <1>11, <1>12 DEF Sound

(* The frames of programs, and the free ones, are the same, or one is new.      *)
LEMMA LowKeeps ==
    ASSUME NEW n, Sound(n), NEW r, Alike(r, n), NEW f,
           \A h \in InHeap(n) : Frames(r, h) = Frames(n, h),
           \/ f = None
           \/ /\ f \in FreeKind /\ \A h \in InHeap(n) : Frames(n, h) # f
              /\ \A i \in DOMAIN n.free : n.free[i] # f,
           \A q \in DOMAIN n.dir, i \in Slot :
              \/ Walk(r, q, <<"low", i>>) = Walk(n, q, <<"low", i>>)
              \/ Walk(r, q, <<"low", i>>) = f
    PROVE  UserApart(r) /\ FreeApart(r)
<1>1. Running(r) = Running(n) /\ Running(n) \subseteq DOMAIN n.dir /\ InHeap(r) = InHeap(n)
    BY DEF Running, Alike, InHeap
<1>2. UserApart(r)
    <2>1. ASSUME NEW q \in Running(n), NEW i \in Slot
          PROVE  \/ Walk(r, q, <<"low", i>>) = None
                 \/ /\ Walk(r, q, <<"low", i>>) \in FreeKind
                    /\ \A h \in InHeap(n) : Frames(r, h) # Walk(r, q, <<"low", i>>)
        <3>1. CASE Walk(r, q, <<"low", i>>) = f
            BY <3>1
        <3>2. CASE Walk(r, q, <<"low", i>>) = Walk(n, q, <<"low", i>>)
            BY <3>2 DEF Sound, UserApart
        <3> QED
            BY <1>1, <3>1, <3>2
    <2> QED
        BY <1>1, <2>1 DEF UserApart
<1>3. \A i \in DOMAIN n.free : n.free[i] # None
    BY Sizes DEF Sound, FreeApart, FreeKind, None
<1>4. FreeApart(r)
    BY <1>1, <1>3 DEF Sound, FreeApart, Alike
<1> QED
    BY <1>2, <1>4

(* A change of a page of its own for every kind of page but the heap's.         *)
LEMMA WrittenKeeps ==
    ASSUME NEW n, Sound(n), NEW s \in DOMAIN n.dir, NEW v \in VPage, n.dir[s][v[1]] # None,
           NEW f \in Frame \cup {None}, NEW r, Written(r, n, s, v, f), Flushed(r),
           Free(n, v) \/ v[1] = "low",
           v[1] = "stack" => f \in FirstFree + 1 .. First - 1,
           v[1] = "low" => \/ f = None
                           \/ /\ f \in FreeKind /\ \A h \in InHeap(n) : Frames(n, h) # f
                              /\ \A i \in DOMAIN n.free : n.free[i] # f
    PROVE  Sound(r) /\ (Owned(n) => Owned(r))
<1>1. Apart(n) /\ Typed(n) /\ Typed(r) /\ Alike(r, n) /\ Written(r, n, s, v, f)
      /\ Kernel \in DOMAIN n.dir
    BY DEF Sound, Written, Alike, Typed
<1>2. \A q \in DOMAIN n.dir, w \in VPage : w # v => Walk(r, q, w) = Walk(n, q, w)
    BY <1>1, WalkElsewhere
<1>3. \A q \in DOMAIN n.dir : Walk(r, q, v) = f \/ Walk(r, q, v) = Walk(n, q, v)
    BY <1>1 DEF Written
<1>4. \A w \in VPage : w[1] # "low" /\ ~ Free(n, w) => KWalk(r, w) = KWalk(n, w)
    BY <1>1, <1>2 DEF KWalk
<1>6. StackApart(r)
    <2>1. ASSUME NEW i \in Slot
          PROVE  KWalk(r, <<"stack", i>>) \in {None} \cup FirstFree + 1 .. First - 1
        <3>1. <<"stack", i>> \in VPage
            BY <1>1 DEF VPage, Dir
        <3>2. CASE v = <<"stack", i>>
            BY <1>1, <1>3, <3>1, <3>2 DEF KWalk, Sound, StackApart
        <3>3. CASE v # <<"stack", i>>
            BY <1>1, <1>2, <3>1, <3>3 DEF KWalk, Sound, StackApart
        <3> QED
            BY <3>2, <3>3
    <2>2. ASSUME NEW w \in VPage, KWalk(r, w) = Junk PROVE w[1] \in {"low", "heap"}
        <3>1. f # Junk
            BY Sizes DEF Frame, None, Junk
        <3>2. KWalk(n, w) = Junk
            BY <1>1, <1>2, <1>3, <2>2, <3>1 DEF KWalk
        <3> QED
            BY <3>2 DEF Sound, StackApart
    <2> QED
        BY <2>1, <2>2 DEF StackApart
<1>7. ASSUME NEW h \in InHeap(n) PROVE Frames(r, h) = Frames(n, h)
    <2>1. HeapPage(h) \in VPage /\ HeapPage(h)[1] = "heap" /\ HeapPage(h)[2] = h /\ h < n.heap
          /\ h \in Nat /\ n.heap \in Nat
        BY <1>1, HeapSlots DEF HeapPage
    <2>2. ~ Free(n, HeapPage(h))
        BY <2>1 DEF Free, TempPage
    <2> QED
        BY <1>4, <2>1, <2>2 DEF Frames
<1>8. UserApart(r) /\ FreeApart(r)
    <2> DEFINE g == IF v[1] = "low" THEN f ELSE None
    <2>1. ASSUME NEW q \in DOMAIN n.dir, NEW i \in Slot
          PROVE  \/ Walk(r, q, <<"low", i>>) = Walk(n, q, <<"low", i>>)
                 \/ Walk(r, q, <<"low", i>>) = g
        <3>1. <<"low", i>> \in VPage /\ <<"low", i>>[1] = "low"
            BY DEF VPage, Dir
        <3>2. CASE v = <<"low", i>>
            BY <1>3, <3>1, <3>2
        <3>3. CASE v # <<"low", i>>
            BY <1>2, <3>1, <3>3
        <3> QED
            BY <3>2, <3>3
    <2>2. \/ g = None
          \/ /\ g \in FreeKind /\ \A h \in InHeap(n) : Frames(n, h) # g
             /\ \A i \in DOMAIN n.free : n.free[i] # g
        OBVIOUS
    <2> HIDE DEF g
    <2> QED
        BY <1>1, <1>7, <2>1, <2>2, LowKeeps
<1> QED
    BY <1>1, <1>4, <1>6, <1>8, AlikeKeeps

(* The same when the page is invalidated.                                     *)
LEMMA MapKeeps ==
    ASSUME NEW n, Sound(n), NEW s \in DOMAIN n.dir, NEW v \in VPage, n.dir[s][v[1]] # None,
           NEW f \in Frame \cup {None}, NEW r, Mapped(r, n, s, v, f),
           Free(n, v) \/ v[1] = "low",
           v[1] = "stack" => f \in FirstFree + 1 .. First - 1,
           v[1] = "low" => \/ f = None
                           \/ /\ f \in FreeKind /\ \A h \in InHeap(n) : Frames(n, h) # f
                              /\ \A i \in DOMAIN n.free : n.free[i] # f
    PROVE  Sound(r) /\ (Owned(n) => Owned(r))
<1>1. Written(r, n, s, v, f) /\ Flushed(r)
    BY DEF Sound, Flushed, Mapped, Written
<1> QED
    BY <1>1, WrittenKeeps

-----------------------------------------------------------------------------
(* The memory manager. *)

(* The pages of the stack of free frames are enough for all frames.            *)
LEMMA StackPageSlot ==
    ASSUME NEW k \in 0 .. M
    PROVE  /\ k \div E \in 0 .. StackPages - 1
           /\ StackPage(k) = <<"stack", StackSlot + k \div E>>
           /\ StackPage(k) \in VPage /\ StackPage(k)[1] = "stack"
<1> DEFINE q == k \div E
           r == k % E
           u == M \div E
           v == M % E
<1>1. /\ q \in Nat /\ r \in Nat /\ r < E /\ k = E * q + r
      /\ u \in Nat /\ v \in Nat /\ v < E /\ M = E * u + v
    BY Sizes
<1>2. StackPages = u + 1
    BY DEF StackPages
<1> HIDE DEF q, r, u, v
<1>3. q <= u
    <2>1. CASE q >= u + 1
        <3>1. E * q >= E * (u + 1)
            BY <1>1, <2>1, Sizes
        <3>2. E * (u + 1) = E * u + E
            BY <1>1, Sizes
        <3> QED
            BY <1>1, <3>1, <3>2, Sizes
    <2> QED
        BY <1>1, <2>1
<1>4. q \in 0 .. StackPages - 1 /\ StackSlot + q \in Slot
    BY <1>1, <1>2, <1>3, Sizes DEF Slot
<1>5. StackPage(k) = <<"stack", StackSlot + q>> /\ "stack" \in Dir
    BY DEF StackPage, q, Dir
<1> QED
    BY <1>4, <1>5, PageFacts DEF q

(* They are mapped, and the processor knows their frames.                      *)
LEMMA StackPageFixed ==
    ASSUME NEW n, Sound(n), HasStack(n, StackPages), NEW k \in 0 .. M
    PROVE  Fixed(n, StackPage(k))
<1>1. /\ k \div E \in 0 .. StackPages - 1
      /\ StackPage(k) = <<"stack", StackSlot + k \div E>>
      /\ StackPage(k) \in VPage /\ StackPage(k)[1] = "stack"
    BY StackPageSlot
<1> DEFINE q == k \div E
<1> HIDE DEF q
<1> QED
    BY <1>1 DEF Fixed, HasStack

(* A frame that nobody uses, and that is not on the stack either.              *)
Spare(n, f) ==
    /\ f \in FreeKind /\ f \notin DOMAIN n.table
    /\ \A h \in InHeap(n) : Frames(n, h) # f
    /\ \A i \in DOMAIN n.free : n.free[i] # f
    /\ \A s \in Running(n), k \in Slot : Walk(n, s, <<"low", k>>) # f

(* r is n but for the stack of free frames.                                   *)
Alloc(r, n) ==
    /\ Typed(r)
    /\ r.dir = n.dir /\ r.tab = n.tab /\ r.at = n.at /\ r.table = n.table
    /\ r.heap = n.heap /\ r.idle = n.idle /\ r.active = n.active /\ r.stale = n.stale
    /\ \A q, w : Walk(r, q, w) = Walk(n, q, w)

(* The stack of free frames changes, and nothing else.                       *)
LEMMA StackChange ==
    ASSUME NEW n, Sound(n), NEW c \in Seq(Frame)
    PROVE  /\ Alloc([n EXCEPT !.free = c], n) /\ [n EXCEPT !.free = c].free = c
           /\ FreeApart([n EXCEPT !.free = c]) =>
                /\ Sound([n EXCEPT !.free = c])
                /\ Owned(n) => Owned([n EXCEPT !.free = c])
<1> DEFINE r == [n EXCEPT !.free = c]
<1>1. IsRecord(n) /\ Typed(n)
    BY DEF Sound, Typed, IsRecord
<1>2. /\ IsRecord(r) /\ r.free = c
      /\ r.dir = n.dir /\ r.tab = n.tab /\ r.at = n.at /\ r.table = n.table
      /\ r.heap = n.heap /\ r.idle = n.idle /\ r.active = n.active /\ r.stale = n.stale
    BY <1>1 DEF IsRecord
<1> HIDE DEF r
<1>3. Typed(r)
    BY <1>1, <1>2 DEF Typed, IsRecord, InHeap
<1>4. \A q, w : Walk(r, q, w) = Walk(n, q, w)
    BY <1>2 DEF Walk
<1>5. Alloc(r, n)
    BY <1>2, <1>3, <1>4 DEF Alloc
<1>6. /\ Running(r) = Running(n) /\ InHeap(r) = InHeap(n)
      /\ \A w : KWalk(r, w) = KWalk(n, w)
      /\ \A h : Frames(r, h) = Frames(n, h)
    BY <1>2, <1>4 DEF Running, InHeap, KWalk, Frames
<1>7. Shared(r) /\ Known(r) /\ Apart(r) /\ Window(r)
    BY <1>2, <1>6 DEF Sound, Shared, Known, Apart, Window
<1>8. HeapApart(r) /\ StackApart(r) /\ UserApart(r) /\ Flushed(r)
    BY <1>2, <1>4, <1>6 DEF Sound, HeapApart, StackApart, UserApart, Flushed
<1>9. Pointers(r)
    BY <1>2, <1>6 DEF Sound, Pointers, InPage
<1>10. Owned(n) => Owned(r)
    BY <1>2, <1>6 DEF Owned
<1> QED
    BY <1>2, <1>3, <1>5, <1>7, <1>8, <1>9, <1>10 DEF Sound, r

(* mm_page_allocate returns a frame that nobody uses.                          *)
LEMMA PoppedFacts ==
    ASSUME NEW n, Sound(n), HasStack(n, StackPages), Len(n.free) >= 1
    PROVE  /\ Sound(Popped(n)) /\ (Owned(n) => Owned(Popped(n))) /\ Alloc(Popped(n), n)
           /\ Spare(Popped(n), Top(n))
           /\ Len(Popped(n).free) = Len(n.free) - 1
           /\ \A f : Spare(n, f) => Spare(Popped(n), f) /\ f # Top(n)
<1> DEFINE l == Len(n.free)
           c == SubSeq(n.free, 1, l - 1)
           r == [n EXCEPT !.free = c]
<1>1. n.free \in Seq(Frame) /\ l \in Nat /\ l >= 1 /\ FreeApart(n)
      /\ DOMAIN n.free = 1 .. l /\ Kernel \in DOMAIN n.dir
    BY DEF Sound, Typed
<1>2. l - 1 \in 0 .. M /\ Fixed(n, StackPage(l - 1))
    <2>1. l - 1 \in 0 .. M
        BY <1>1, Sizes DEF FreeApart
    <2> QED
        BY <2>1, StackPageFixed
<1>3. Access(n, {StackPage(l - 1)}) = n
    BY <1>2, AccessFixed
<1>4. Popped(n) = r /\ Top(n) = n.free[l]
    BY <1>3 DEF Popped, Top
<1>5. /\ c \in Seq(Frame) /\ Len(c) = l - 1 /\ DOMAIN c = 1 .. l - 1
      /\ \A i \in 1 .. l - 1 : c[i] = n.free[i]
    BY <1>1
<1> HIDE DEF c, l
<1>6. Alloc(r, n) /\ r.free = c
    BY <1>5, StackChange
<1> HIDE DEF r
<1>7. /\ Running(r) = Running(n) /\ InHeap(r) = InHeap(n) /\ r.table = n.table
      /\ \A h : Frames(r, h) = Frames(n, h)
      /\ \A q, w : Walk(r, q, w) = Walk(n, q, w)
    BY <1>6 DEF Alloc, Running, InHeap, KWalk, Frames
<1>8. FreeApart(r)
    <2>1. /\ Len(n.free) <= M - First /\ \A i, k \in 1 .. l : n.free[i] = n.free[k] => i = k
          /\ \A i \in 1 .. l :
              /\ n.free[i] \in FreeKind /\ n.free[i] \notin DOMAIN n.table
              /\ \A h \in InHeap(n) : Frames(n, h) # n.free[i]
              /\ \A s \in Running(n), k \in Slot : Walk(n, s, <<"low", k>>) # n.free[i]
        BY <1>1 DEF FreeApart
    <2>2. Len(r.free) <= M - First /\ DOMAIN r.free = 1 .. l - 1
        BY <1>1, <1>5, <1>6, <2>1, Sizes DEF l
    <2>3. \A i \in DOMAIN r.free : i \in 1 .. l /\ r.free[i] = n.free[i]
        BY <1>1, <1>5, <1>6
    <2>4. \A i, k \in DOMAIN r.free : r.free[i] = r.free[k] => i = k
        BY <2>1, <2>3
    <2>5. \A i \in DOMAIN r.free :
              /\ r.free[i] \in FreeKind /\ r.free[i] \notin DOMAIN r.table
              /\ \A h \in InHeap(r) : Frames(r, h) # r.free[i]
              /\ \A s \in Running(r), k \in Slot : Walk(r, s, <<"low", k>>) # r.free[i]
        BY <1>7, <2>1, <2>3
    <2> QED
        BY <2>2, <2>4, <2>5 DEF FreeApart
<1>9. Spare(r, n.free[l])
    BY <1>1, <1>5, <1>6, <1>7 DEF FreeApart, Spare
<1>10. \A f : Spare(n, f) => Spare(r, f) /\ f # n.free[l]
    BY <1>1, <1>5, <1>6, <1>7 DEF Spare
<1> QED
    BY <1>4, <1>5, <1>6, <1>8, <1>9, <1>10, StackChange DEF l, r

(* mm_page_free puts a frame back that nobody uses.                            *)
LEMMA FreedFacts ==
    ASSUME NEW n, Sound(n), HasStack(n, StackPages), NEW f, Spare(n, f), Len(n.free) < M - First
    PROVE  /\ Sound(MmPageFree(n, f)) /\ (Owned(n) => Owned(MmPageFree(n, f)))
           /\ Alloc(MmPageFree(n, f), n)
           /\ MmPageFree(n, f).free = Append(n.free, f)
<1> DEFINE l == Len(n.free)
           c == Append(n.free, f)
           r == [n EXCEPT !.free = c]
<1>9. f \in Frame
    BY Sizes DEF Spare, FreeKind, Frame
<1>1. /\ n.free \in Seq(Frame) /\ l \in Nat /\ l < M - First /\ FreeApart(n)
      /\ DOMAIN n.free = 1 .. l /\ f \in Frame
    BY <1>9 DEF Sound, Typed
<1>2. l \in 0 .. M /\ Fixed(n, StackPage(l))
    <2>1. l \in 0 .. M
        BY <1>1, Sizes
    <2> QED
        BY <2>1, StackPageFixed
<1>3. Access(n, {StackPage(l)}) = n
    BY <1>2, AccessFixed
<1>4. MmPageFree(n, f) = r
    BY <1>3 DEF MmPageFree
<1>5. /\ c \in Seq(Frame) /\ Len(c) = l + 1 /\ DOMAIN c = 1 .. l + 1
      /\ \A i \in 1 .. l : c[i] = n.free[i]
      /\ c[l + 1] = f
    BY <1>1
<1> HIDE DEF c, l
<1>6. Alloc(r, n) /\ r.free = c
    BY <1>5, StackChange
<1> HIDE DEF r
<1>7. /\ Running(r) = Running(n) /\ InHeap(r) = InHeap(n) /\ r.table = n.table
      /\ \A h : Frames(r, h) = Frames(n, h)
      /\ \A q, w : Walk(r, q, w) = Walk(n, q, w)
    BY <1>6 DEF Alloc, Running, InHeap, KWalk, Frames
<1>8. FreeApart(r)
    <2>1. Len(r.free) <= M - First
        <3>1. Len(r.free) = l + 1 /\ M - First \in Int
            BY <1>5, <1>6, Sizes
        <3> QED
            BY <1>1, <3>1
    <2>2. \A i \in DOMAIN r.free :
            \/ i \in DOMAIN n.free /\ r.free[i] = n.free[i]
            \/ i = l + 1 /\ r.free[i] = f
        BY <1>1, <1>5, <1>6
    <2>3. \A i \in DOMAIN n.free : n.free[i] # f
        BY DEF Spare
    <2>4. \A i, k \in DOMAIN r.free : r.free[i] = r.free[k] => i = k
        BY <1>1, <2>2, <2>3 DEF FreeApart
    <2>5. ASSUME NEW i \in DOMAIN r.free
          PROVE  /\ r.free[i] \in FreeKind /\ r.free[i] \notin DOMAIN r.table
                 /\ \A h \in InHeap(r) : Frames(r, h) # r.free[i]
                 /\ \A s \in Running(r), k \in Slot : Walk(r, s, <<"low", k>>) # r.free[i]
        <3>1. CASE i \in DOMAIN n.free /\ r.free[i] = n.free[i]
            <4>1. /\ n.free[i] \in FreeKind /\ n.free[i] \notin DOMAIN n.table
                  /\ \A h \in InHeap(n) : Frames(n, h) # n.free[i]
                  /\ \A s \in Running(n), k \in Slot : Walk(n, s, <<"low", k>>) # n.free[i]
                BY <1>1, <3>1 DEF FreeApart
            <4> QED
                BY <1>7, <3>1, <4>1
        <3>2. CASE r.free[i] = f
            BY <1>7, <3>2 DEF Spare
        <3> QED
            BY <2>2, <3>1, <3>2
    <2> QED
        BY <2>1, <2>4, <2>5 DEF FreeApart
<1>10. Sound(r) /\ (Owned(n) => Owned(r))
    BY <1>5, <1>8, StackChange DEF r
<1> QED
    BY <1>4, <1>6, <1>10 DEF c

-----------------------------------------------------------------------------
(* The heap. *)

(* Every set of natural numbers has a least element.                          *)
LEMMA Least ==
    ASSUME NEW S \in SUBSET Nat, S # {} PROVE \E x \in S : \A y \in S : x <= y
<1> DEFINE R == OpToRel(<, Nat)
<1>1. IsWellFoundedOn(R, Nat)
    BY NatLessThanWellFounded
<1>2. \A x, y \in S : <<y, x>> \in R <=> y < x
    BY DEF OpToRel
<1> HIDE DEF R
<1>3. \E x \in S : \A y \in S : ~ (<<y, x>> \in R)
    BY <1>1, WFMin
<1>4. \E x \in S : \A y \in S : ~ (y < x)
    BY <1>2, <1>3
<1> QED
    BY <1>4

(* r is n but for the extent of the heap and its free pages.                   *)
Resized(r, n) ==
    /\ IsRecord(r)
    /\ r.dir = n.dir /\ r.tab = n.tab /\ r.at = n.at /\ r.table = n.table
    /\ r.free = n.free /\ r.active = n.active /\ r.stale = n.stale
    /\ \A q, w : Walk(r, q, w) = Walk(n, q, w)

(* The heap gets a page more, whose frame nobody uses, or none.                *)
Extended(r, n) ==
    \/ r.heap = n.heap
    \/ /\ r.heap = n.heap + 1 /\ n.heap < E /\ Spare(n, Frames(n, n.heap))
       /\ \A x \in n.stale : <<x[1], x[2]>> # HeapPage(n.heap)

(* The heap gets pages that lead to spare frames.                            *)
LEMMA ResizeKeeps ==
    ASSUME NEW n, Sound(n), NEW r, Resized(r, n), Extended(r, n), r.idle \subseteq InHeap(r)
    PROVE  /\ Sound(r)
           /\ Owned(n) /\ r.idle \subseteq n.idle \cup (InHeap(r) \ InHeap(n)) => Owned(r)
<1>1. Typed(n) /\ n.heap \in Nat /\ n.heap <= E /\ r.heap \in Nat /\ r.heap <= E
    BY Sizes, HeapSlots DEF Sound, Extended
<1>2. Typed(r)
    <2>1. r.heap \in 0 .. E
        BY <1>1, Sizes
    <2> QED
        BY <1>1, <2>1 DEF Resized, Typed, IsRecord
<1>3. /\ Running(r) = Running(n) /\ \A w : KWalk(r, w) = KWalk(n, w)
      /\ \A h : Frames(r, h) = Frames(n, h)
      /\ InHeap(n) \subseteq InHeap(r)
      /\ \A h \in InHeap(r) \ InHeap(n) : h = n.heap /\ r.heap = n.heap + 1
    BY <1>1 DEF Resized, Running, KWalk, Frames, InHeap, Extended
<1>4. ASSUME NEW h \in InHeap(r), h \notin InHeap(n) PROVE Spare(n, Frames(n, h))
    BY <1>1, <1>3, <1>4 DEF Extended
<1>5. Shared(r) /\ Known(r) /\ Apart(r) /\ Window(r) /\ StackApart(r)
    BY <1>3 DEF Sound, Shared, Known, Apart, Window, StackApart, Resized
<1>6. HeapApart(r)
    <2>1. \A h \in InHeap(r) : Frames(r, h) \in FreeKind
        BY <1>3, <1>4 DEF Sound, HeapApart, Spare
    <2>2. ASSUME NEW h \in InHeap(r), NEW k \in InHeap(r), Frames(r, h) = Frames(r, k) PROVE h = k
        <3>1. CASE h \in InHeap(n) /\ k \in InHeap(n)
            BY <1>3, <2>2, <3>1 DEF Sound, HeapApart
        <3>2. CASE h \notin InHeap(n) /\ k \notin InHeap(n)
            BY <1>3, <3>2
        <3>3. CASE h \in InHeap(n) /\ k \notin InHeap(n)
            BY <1>3, <1>4, <2>2, <3>3 DEF Spare
        <3>4. CASE h \notin InHeap(n) /\ k \in InHeap(n)
            BY <1>3, <1>4, <2>2, <3>4 DEF Spare
        <3> QED
            BY <3>1, <3>2, <3>3, <3>4
    <2> QED
        BY <2>1, <2>2 DEF HeapApart
<1>7. UserApart(r)
    <2>1. ASSUME NEW s \in Running(n), NEW i \in Slot
          PROVE  \/ Walk(r, s, <<"low", i>>) = None
                 \/ /\ Walk(r, s, <<"low", i>>) \in FreeKind
                    /\ \A h \in InHeap(r) : Frames(r, h) # Walk(r, s, <<"low", i>>)
        <3>1. Walk(r, s, <<"low", i>>) = Walk(n, s, <<"low", i>>)
            BY DEF Resized
        <3>2. \A h \in InHeap(r) \ InHeap(n) : Frames(n, h) # Walk(n, s, <<"low", i>>)
            BY <1>4 DEF Spare
        <3> QED
            BY <1>3, <3>1, <3>2 DEF Sound, UserApart
    <2> QED
        BY <1>3, <2>1 DEF UserApart
<1>8. FreeApart(r)
    <2>1. \A i \in DOMAIN n.free, h \in InHeap(r) : Frames(r, h) # n.free[i]
        BY <1>3, <1>4 DEF Sound, FreeApart, Spare
    <2>2. r.free = n.free /\ r.table = n.table /\ \A q, w : Walk(r, q, w) = Walk(n, q, w)
        BY DEF Resized
    <2>3. FreeApart(n)
        BY DEF Sound
    <2> QED
        BY <1>3, <2>1, <2>2, <2>3 DEF FreeApart
<1>9. Pointers(r)
    <2>1. \A s, d : InPage(n, s, d) => InPage(r, s, d)
        BY <1>3 DEF InPage, Resized
    <2>2. r.dir = n.dir /\ r.tab = n.tab /\ r.at = n.at
        BY DEF Resized
    <2>3. \A s \in Running(n), f \in {"dir", "tab", "stack"} : n.at[s][f] \in {HeapPage(h) : h \in InHeap(r)}
        BY <1>3 DEF Sound, Pointers
    <2> QED
        BY <1>3, <2>1, <2>2, <2>3 DEF Sound, Pointers
<1>10. Flushed(r)
    <2>1. ASSUME NEW x \in n.stale PROVE x[1] = "low" \/ (x[1] = "heap" /\ x[2] >= r.heap)
        <3>1. x[1] = "low" \/ (x[1] = "heap" /\ x[2] >= n.heap /\ x[2] \in Nat)
            BY <1>1, HeapSlots DEF Sound, Flushed, Typed
        <3>2. CASE r.heap = n.heap
            BY <3>1, <3>2
        <3>3. CASE r.heap = n.heap + 1 /\ <<x[1], x[2]>> # <<"heap", n.heap>>
            BY <1>1, <3>1, <3>3
        <3> QED
            BY <3>2, <3>3 DEF HeapPage, Extended
    <2> QED
        BY <2>1 DEF Flushed, Resized
<1>11. ASSUME Owned(n), r.idle \subseteq n.idle \cup (InHeap(r) \ InHeap(n)) PROVE Owned(r)
    <2>1. r.dir = n.dir /\ r.tab = n.tab /\ r.at = n.at /\ r.table = n.table
        BY DEF Resized
    <2>2. \A h \in r.idle : Frames(r, h) \notin DOMAIN r.table
        BY <1>3, <1>4, <1>11, <2>1 DEF Owned, Spare
    <2>3. ASSUME NEW s \in Running(n), NEW f \in {"dir", "tab", "stack"}, NEW h \in InHeap(r),
                 n.at[s][f] = HeapPage(h)
          PROVE  h \notin r.idle /\ Frames(r, h) \notin DOMAIN n.table
        <3>1. PICK k \in InHeap(n) : n.at[s][f] = HeapPage(k)
            BY DEF Sound, Pointers
        <3>2. k = h
            BY <2>3, <3>1 DEF HeapPage
        <3>3. h \notin n.idle /\ Frames(n, h) \notin DOMAIN n.table
            BY <1>11, <3>1, <3>2 DEF Owned
        <3> QED
            BY <1>3, <1>11, <3>1, <3>2, <3>3
    <2> QED
        BY <1>3, <1>11, <2>1, <2>2, <2>3 DEF Owned
<1> QED
    BY <1>2, <1>5, <1>6, <1>7, <1>8, <1>9, <1>10, <1>11 DEF Sound

(* From n to r the heap may have grown by up to k pages; else all is the same.   *)
Grown(r, n, k) ==
    /\ r.dir = n.dir /\ r.tab = n.tab /\ r.at = n.at /\ r.active = n.active
    /\ DOMAIN r.table = DOMAIN n.table
    /\ r.heap \in Nat /\ n.heap <= r.heap /\ r.heap <= n.heap + k
    /\ Len(r.free) >= Len(n.free) - k
    /\ \A q \in DOMAIN n.dir, w \in VPage :
        w[1] # "heap" \/ w[2] < n.heap => Walk(r, q, w) = Walk(n, q, w)
    /\ r.stale \subseteq n.stale /\ \A x \in n.stale : x[1] = "low" => x \in r.stale
    /\ \A f : Spare(n, f) => Spare(r, f)

(* A page of the heap is mapped that was not part of it.                       *)
LEMMA NewPageFacts ==
    ASSUME NEW n, Sound(n), HasStack(n, StackPages), HasHeap(n), HasRoom(n, 1)
    PROVE  LET r == MapIn(Popped(n), Kernel, HeapPage(n.heap), Top(n)) IN
           /\ Sound(r) /\ (Owned(n) => Owned(r)) /\ Spare(r, Frames(r, n.heap))
           /\ r.dir = n.dir /\ r.tab = n.tab /\ r.at = n.at /\ r.active = n.active
           /\ DOMAIN r.table = DOMAIN n.table /\ r.heap = n.heap /\ r.idle = n.idle
           /\ Len(r.free) = Len(n.free) - 1
           /\ \A q \in DOMAIN n.dir, w \in VPage : w # HeapPage(n.heap) => Walk(r, q, w) = Walk(n, q, w)
           /\ r.stale = {x \in n.stale : <<x[1], x[2]>> # HeapPage(n.heap)}
           /\ \A f : Spare(n, f) => Spare(r, f) /\ f # Frames(r, n.heap)
<1> DEFINE p == Popped(n)
           f == Top(n)
           v == HeapPage(n.heap)
           r == MapIn(p, Kernel, v, f)
<1>1. Typed(n) /\ n.heap \in Nat /\ n.heap + 1 <= E /\ Len(n.free) >= 1 /\ Kernel \in DOMAIN n.dir
    BY HeapSlots DEF Sound, HasRoom, Typed
<1>2. /\ Sound(p) /\ (Owned(n) => Owned(p)) /\ Alloc(p, n) /\ Spare(p, f)
      /\ Len(p.free) = Len(n.free) - 1
    BY <1>1, PoppedFacts
<1>3. v \in VPage /\ v[1] = "heap" /\ v[2] = n.heap
    <2>1. n.heap \in Slot /\ "heap" \in Dir
        BY <1>1, Sizes DEF Slot, Dir
    <2> QED
        BY <2>1, PageFacts DEF HeapPage
<1>4. /\ p.dir = n.dir /\ p.tab = n.tab /\ p.at = n.at /\ p.active = n.active /\ p.table = n.table
      /\ p.heap = n.heap /\ p.idle = n.idle /\ p.stale = n.stale
      /\ \A q, w : Walk(p, q, w) = Walk(n, q, w)
      /\ n.dir[Kernel]["heap"] # None /\ f \in Frame
    BY <1>2, Sizes DEF Alloc, HasHeap, Spare, FreeKind, Frame
<1>5. \A g : Spare(n, g) => Spare(p, g) /\ g # f
    BY <1>1, PoppedFacts
<1> HIDE DEF p, f, v
<1>7. Mapped(r, p, Kernel, v, f)
    BY <1>1, <1>2, <1>3, <1>4, MapInFacts
<1>8. Free(p, v)
    BY <1>1, <1>3, <1>4 DEF Free
<1> HIDE DEF r
<1>9. Sound(r) /\ (Owned(p) => Owned(r))
    BY <1>1, <1>2, <1>3, <1>4, <1>7, <1>8, MapKeeps
<1>10. KWalk(r, v) = f
    BY <1>1, <1>3, <1>4, <1>7 DEF Mapped, Written, KWalk
<1>11. \A q \in DOMAIN n.dir, w \in VPage : w # v => Walk(r, q, w) = Walk(n, q, w)
    BY <1>1, <1>2, <1>3, <1>4, <1>7, WalkElsewhere DEF Sound, Mapped
<1>12. /\ r.dir = n.dir /\ r.tab = n.tab /\ r.at = n.at /\ r.active = n.active
       /\ DOMAIN r.table = DOMAIN n.table /\ r.heap = n.heap /\ r.idle = n.idle
       /\ r.free = p.free /\ r.stale = {x \in n.stale : <<x[1], x[2]>> # v}
    BY <1>4, <1>7 DEF Mapped, Written
<1>13. ASSUME NEW h \in InHeap(n) PROVE Frames(r, h) = Frames(n, h)
    <2>1. HeapPage(h) \in VPage /\ h < n.heap /\ h \in Nat
        BY <1>1, HeapSlots
    <2>2. HeapPage(h) # v
        BY <1>1, <1>3, <2>1 DEF HeapPage
    <2> QED
        BY <1>1, <1>11, <2>1, <2>2 DEF Frames, KWalk
<1>14. ASSUME NEW q \in DOMAIN n.dir, NEW i \in Slot
       PROVE  Walk(r, q, <<"low", i>>) = Walk(n, q, <<"low", i>>)
    <2>1. <<"low", i>> \in VPage /\ <<"low", i>>[1] = "low"
        BY PageFacts DEF Dir
    <2> QED
        BY <1>3, <1>11, <2>1
<1>15. ASSUME NEW g, Spare(p, g) PROVE Spare(r, g)
    <2>1. InHeap(r) = InHeap(n) /\ Running(r) = Running(n) /\ Running(n) \subseteq DOMAIN n.dir
          /\ InHeap(p) = InHeap(n) /\ Running(p) = Running(n)
        BY <1>4, <1>12 DEF InHeap, Running
    <2>2. \A h \in InHeap(n) : Frames(p, h) = Frames(n, h)
        BY <1>4 DEF Frames, KWalk
    <2> QED
        BY <1>4, <1>12, <1>13, <1>14, <1>15, <2>1, <2>2 DEF Spare
<1>16. Frames(r, n.heap) = f
    BY <1>10 DEF Frames, v
<1> QED
    BY <1>2, <1>5, <1>9, <1>11, <1>12, <1>15, <1>16 DEF p, v, f, r

(* The extent of the heap and its free pages are set.                          *)
LEMMA ResizedFacts ==
    ASSUME NEW n, Typed(n), NEW r, r = [n EXCEPT !.heap = r.heap, !.idle = r.idle]
    PROVE  Resized(r, n)
<1>1. IsRecord(n)
    BY DEF Typed, IsRecord
<1>2. /\ IsRecord(r)
      /\ r.dir = n.dir /\ r.tab = n.tab /\ r.at = n.at /\ r.table = n.table
      /\ r.free = n.free /\ r.active = n.active /\ r.stale = n.stale
    BY <1>1 DEF IsRecord
<1>3. \A q, w : Walk(r, q, w) = Walk(n, q, w)
    BY <1>2 DEF Walk
<1> QED
    BY <1>2, <1>3 DEF Resized

(* What is spare stays so if the heap does not take it.                        *)
LEMMA ResizedSpare ==
    ASSUME NEW n, NEW r, Resized(r, n), NEW f, Spare(n, f),
           \A h \in InHeap(r) : h \notin InHeap(n) => Frames(n, h) # f
    PROVE  Spare(r, f)
<1>1. Running(r) = Running(n) /\ \A h : Frames(r, h) = Frames(n, h)
    BY DEF Resized, Running, Frames, KWalk
<1>2. r.table = n.table /\ r.free = n.free /\ \A q, w : Walk(r, q, w) = Walk(n, q, w)
    BY DEF Resized
<1> QED
    BY <1>1, <1>2 DEF Spare

(* The heap gets a page at its end, which is free afterwards or not.            *)
LEMMA ExtendFacts ==
    ASSUME NEW n, Sound(n), Owned(n), HasStack(n, StackPages), HasHeap(n), HasRoom(n, 1),
           NEW i, i \in {n.idle, n.idle \cup {n.heap}}, NEW r,
           r = [MapIn(Popped(n), Kernel, HeapPage(n.heap), Top(n)) EXCEPT !.heap = @ + 1, !.idle = i]
    PROVE  /\ Sound(r) /\ Owned(r) /\ Grown(r, n, 1)
           /\ r.heap = n.heap + 1 /\ r.idle = i
           /\ Frames(r, n.heap) \notin DOMAIN r.table
<1> DEFINE o == MapIn(Popped(n), Kernel, HeapPage(n.heap), Top(n))
<1>1. /\ Sound(o) /\ Owned(o) /\ Spare(o, Frames(o, n.heap))
      /\ o.dir = n.dir /\ o.tab = n.tab /\ o.at = n.at /\ o.active = n.active
      /\ DOMAIN o.table = DOMAIN n.table /\ o.heap = n.heap /\ o.idle = n.idle
      /\ Len(o.free) = Len(n.free) - 1
      /\ \A q \in DOMAIN n.dir, w \in VPage : w # HeapPage(n.heap) => Walk(o, q, w) = Walk(n, q, w)
      /\ o.stale = {x \in n.stale : <<x[1], x[2]>> # HeapPage(n.heap)}
      /\ \A f : Spare(n, f) => Spare(o, f) /\ f # Frames(o, n.heap)
    BY NewPageFacts
<1>2. r = [o EXCEPT !.heap = n.heap + 1, !.idle = i]
    BY <1>1
<1> HIDE DEF o
<1>3. Typed(n) /\ n.heap \in Nat /\ n.heap + 1 <= E /\ n.idle \subseteq InHeap(n)
    BY HeapSlots DEF Sound, HasRoom, Typed
<1>4. Typed(o)
    BY <1>1 DEF Sound
<1>5. Resized(r, o) /\ r.heap = n.heap + 1 /\ r.idle = i
    <2>1. r.heap = n.heap + 1 /\ r.idle = i
        BY <1>2, <1>4 DEF Typed
    <2> QED
        BY <1>2, <1>4, <2>1, ResizedFacts
<1>6. InHeap(o) = InHeap(n) /\ InHeap(r) = InHeap(n) \cup {n.heap} /\ n.heap \notin InHeap(n)
    BY <1>1, <1>3, <1>5 DEF InHeap
<1>7. r.idle \subseteq InHeap(r) /\ r.idle \subseteq o.idle \cup (InHeap(r) \ InHeap(o))
    BY <1>1, <1>3, <1>5, <1>6
<1>8. Sound(r) /\ Owned(r)
    <2>1. o.heap = n.heap /\ n.heap < E
        <3>1. o.heap = n.heap
            BY <1>1
        <3> QED
            BY <1>3, <3>1, Sizes
    <2>2. \A x \in o.stale : <<x[1], x[2]>> # HeapPage(o.heap)
        BY <1>1
    <2> QED
        <3>1. Sound(o) /\ Owned(o) /\ Spare(o, Frames(o, o.heap))
            BY <1>1, <2>1
        <3>2. Extended(r, o)
            BY <1>5, <2>1, <2>2, <3>1 DEF Extended
        <3>3. Sound(r) /\ (Owned(o) /\ r.idle \subseteq o.idle \cup (InHeap(r) \ InHeap(o)) => Owned(r))
            BY <1>5, <1>7, <3>1, <3>2, ResizeKeeps
        <3> QED
            BY <1>7, <3>1, <3>3
<1>9. ASSUME NEW q \in DOMAIN n.dir, NEW w \in VPage, w[1] # "heap" \/ w[2] < n.heap
      PROVE  Walk(r, q, w) = Walk(n, q, w)
    <2>1. w # HeapPage(n.heap)
        BY <1>3, <1>9 DEF HeapPage
    <2> QED
        BY <1>1, <1>5, <2>1 DEF Resized
<1>10. \A f : Spare(n, f) => Spare(r, f)
    BY <1>1, <1>5, <1>6, ResizedSpare
<1>11. Grown(r, n, 1)
    <2>1. r.stale \subseteq n.stale /\ \A x \in n.stale : x[1] = "low" => x \in r.stale
        BY <1>1, <1>5 DEF Resized, HeapPage
    <2>2. Len(r.free) >= Len(n.free) - 1
        <3>1. Len(n.free) \in Nat
            BY <1>3 DEF Typed
        <3> QED
            BY <1>1, <1>5, <3>1 DEF Resized
    <2> QED
        BY <1>1, <1>3, <1>5, <1>9, <1>10, <2>1, <2>2 DEF Grown, Resized
<1>12. Frames(r, n.heap) \notin DOMAIN r.table
    BY <1>1, <1>5 DEF Resized, Spare, Frames, KWalk
<1> QED
    BY <1>5, <1>8, <1>11, <1>12

(* What kalloc_page gives: a page nobody else has.                             *)
Given(r, n, h) ==
    /\ Sound(r) /\ Owned(r) /\ Grown(r, n, 1)
    /\ h \in InHeap(r) /\ h \notin r.idle /\ Frames(r, h) \notin DOMAIN r.table
    /\ h \in n.idle \/ h \notin InHeap(n)
    /\ r.idle \subseteq n.idle
    /\ \A s \in Running(r), f \in {"dir", "tab", "stack"} : r.at[s][f] # HeapPage(h)

(* kalloc_page gives a page to its caller.                                   *)
LEMMA KallocFacts ==
    ASSUME NEW n, Sound(n), Owned(n), HasStack(n, StackPages), HasHeap(n), HasRoom(n, 1)
    PROVE  Given(KallocPage(n), n, Fresh(n))
<1> DEFINE r == KallocPage(n)
           h == Fresh(n)
<1>1. Typed(n) /\ n.heap \in Nat /\ n.idle \subseteq InHeap(n) /\ IsRecord(n)
      /\ Running(n) \subseteq DOMAIN n.dir /\ Len(n.free) \in Nat
    <2>1. Typed(n)
        BY DEF Sound
    <2>2. IsRecord(n) /\ n.free \in Seq(Frame) /\ n.idle \subseteq InHeap(n)
        BY <2>1 DEF Typed, IsRecord
    <2> QED
        BY <2>1, <2>2, HeapSlots DEF Running
<1>2. CASE n.idle # {}
    <2>1. h \in n.idle
        <3>1. n.idle \in SUBSET Nat
            BY <1>1 DEF InHeap
        <3>2. \E x \in n.idle : \A y \in n.idle : x <= y
            BY <1>2, <3>1, Least
        <3> QED
            BY <1>2, <3>2 DEF Fresh
    <2>2. r = [n EXCEPT !.heap = n.heap, !.idle = n.idle \ {h}]
        BY <1>1, <1>2 DEF KallocPage, IsRecord
    <2> HIDE DEF r, h
    <2>3. Resized(r, n) /\ r.heap = n.heap /\ r.idle = n.idle \ {h}
        <3>1. r.heap = n.heap /\ r.idle = n.idle \ {h}
            BY <1>1, <2>2 DEF IsRecord
        <3> QED
            BY <1>1, <2>2, <3>1, ResizedFacts
    <2>4. InHeap(r) = InHeap(n) /\ h \in InHeap(n)
        BY <1>1, <2>1, <2>3 DEF InHeap
    <2>5. Sound(r) /\ Owned(r)
        BY <1>1, <2>3, <2>4, ResizeKeeps DEF Extended
    <2>6. Grown(r, n, 1)
        <3>1. \A f : Spare(n, f) => Spare(r, f)
            BY <2>3, <2>4, ResizedSpare
        <3> QED
            BY <1>1, <2>3, <3>1 DEF Grown, Resized
    <2>7. Running(r) = Running(n) /\ \A k : Frames(r, k) = Frames(n, k)
        BY <2>3 DEF Resized, Running, Frames, KWalk
    <2>8. Frames(r, h) \notin DOMAIN r.table
        BY <2>1, <2>3, <2>7 DEF Owned, Resized
    <2>9. \A s \in Running(r), f \in {"dir", "tab", "stack"} : r.at[s][f] # HeapPage(h)
        BY <2>1, <2>3, <2>4, <2>7 DEF Owned, Resized
    <2> QED
        BY <2>1, <2>3, <2>4, <2>5, <2>6, <2>8, <2>9 DEF Given, r, h
<1>3. CASE n.idle = {}
    <2>1. h = n.heap
        BY <1>3 DEF Fresh
    <2> DEFINE o == MapIn(Popped(n), Kernel, HeapPage(n.heap), Top(n))
    <2>9. IsRecord(o) /\ o.idle = n.idle
        BY NewPageFacts DEF Sound, Typed, IsRecord
    <2>2. r = [o EXCEPT !.heap = @ + 1, !.idle = n.idle]
        <3>1. r = [o EXCEPT !.heap = @ + 1]
            BY <1>3 DEF KallocPage
        <3> HIDE DEF r, o
        <3> QED
            BY <2>9, <3>1 DEF IsRecord
    <2> HIDE DEF r, h
    <2>3. /\ Sound(r) /\ Owned(r) /\ Grown(r, n, 1)
          /\ r.heap = n.heap + 1 /\ r.idle = n.idle
          /\ Frames(r, n.heap) \notin DOMAIN r.table
        BY <2>2, ExtendFacts
    <2>4. n.heap \in InHeap(r) /\ n.heap \notin InHeap(n) /\ n.heap \notin r.idle
        BY <1>1, <2>3 DEF InHeap
    <2>5. Running(r) = Running(n) /\ r.at = n.at
        BY <2>3 DEF Grown, Running
    <2>6. ASSUME NEW s \in Running(r), NEW f \in {"dir", "tab", "stack"} PROVE r.at[s][f] # HeapPage(h)
        <3>1. PICK k \in InHeap(n) : n.at[s][f] = HeapPage(k)
            BY <2>5 DEF Sound, Pointers
        <3> QED
            BY <2>1, <2>4, <2>5, <3>1 DEF HeapPage
    <2> QED
        BY <2>1, <2>3, <2>4, <2>6 DEF Given, r, h
<1> QED
    BY <1>2, <1>3

(* kbrk makes the heap larger.                                               *)
LEMMA BrkFacts ==
    ASSUME NEW n, Sound(n), Owned(n), HasStack(n, StackPages), HasHeap(n), HasRoom(n, 1)
    PROVE  Sound(Brk(n)) /\ Owned(Brk(n)) /\ Grown(Brk(n), n, 1)
<1> DEFINE o == MapIn(Popped(n), Kernel, HeapPage(n.heap), Top(n))
           r == [o EXCEPT !.heap = @ + 1, !.idle = n.idle \cup {n.heap}]
<1>1. IsRecord(o) /\ o.idle = n.idle
    BY NewPageFacts DEF Sound, Typed, IsRecord
<1>2. /\ Sound(r) /\ Owned(r) /\ Grown(r, n, 1)
      /\ r.heap = n.heap + 1 /\ r.idle = n.idle \cup {n.heap}
    BY ExtendFacts
<1>3. Brk(n) = Access(r, {HeapPage(n.heap)})
    <2>1. [o EXCEPT !.heap = @ + 1, !.idle = @ \cup {n.heap}] = r
        <3> HIDE DEF o
        <3> QED
            BY <1>1
    <2> QED
        BY <2>1 DEF Brk
<1> HIDE DEF r
<1>4. n.heap \in InHeap(r)
    BY <1>2, HeapSlots DEF InHeap, Sound
<1>5. Access(r, {HeapPage(n.heap)}) = r
    BY <1>2, <1>4, HeapFixed, AccessFixed
<1> QED
    BY <1>2, <1>3, <1>5

-----------------------------------------------------------------------------
(* New page tables. *)

(* r is n with an empty table in frame f and page p for entry d of space s, and  *)
(* page v invalidated.                                                        *)
Setup(r, n, s, d, p, f, v) ==
    /\ Typed(r)
    /\ r.dir = [n.dir EXCEPT ![s][d] = f] /\ r.tab = [n.tab EXCEPT ![s][d] = p]
    /\ r.at = n.at /\ r.free = n.free /\ r.heap = n.heap /\ r.idle = n.idle /\ r.active = n.active
    /\ DOMAIN r.table = DOMAIN n.table \cup {f}
    /\ r.stale = {x \in n.stale : <<x[1], x[2]>> # v}
    /\ \A q \in DOMAIN n.dir, w \in VPage :
        Walk(r, q, w) = IF q = s /\ w[1] = d THEN None ELSE Walk(n, q, w)

(* What the callers of pg_setup_pagetable pass: a page that leads to the frame,  *)
(* which is no table yet.                                                     *)
Passed(n, s, d, p, f) ==
    /\ s \in DOMAIN n.dir /\ d \in {"low", "text", "stack"} /\ n.dir[s][d] = None
    /\ d # "low" => s = Kernel /\ DOMAIN n.dir = {Kernel}
    /\ f \in Frame /\ \A q \in DOMAIN n.dir, e \in Dir : n.dir[q][e] # f
    /\ d = "stack" => p = <<"window", K + 4>> /\ f = FirstFree
    /\ d # "stack" => \E h \in InHeap(n) :
        /\ p = HeapPage(h) /\ f = Frames(n, h)
        /\ h \notin n.idle
        /\ \A q \in Running(n), e \in {"dir", "tab", "stack"} : n.at[q][e] # HeapPage(h)

(* The page is one of the kernel's.                                           *)
LEMMA PassedFixed ==
    ASSUME NEW n, Sound(n), NEW s, NEW d, NEW p, NEW f, Passed(n, s, d, p, f)
    PROVE  Fixed(n, p) /\ KWalk(n, p) = f /\ p[1] \in {"window", "heap"}
<1>1. CASE d = "stack"
    <2>1. p = <<"window", K + 4>> /\ f = FirstFree
        BY <1>1 DEF Passed
    <2>2. K + 4 \in 0 .. K + 4 /\ B + (K + 4) = FirstFree
        BY Sizes
    <2>3. KWalk(n, <<"window", K + 4>>) = B + (K + 4)
        BY <2>2 DEF Sound, Window
    <2> QED
        BY <2>1, <2>2, <2>3, WindowFixed
<1>2. CASE d # "stack"
    <2>1. PICK h \in InHeap(n) : p = HeapPage(h) /\ f = Frames(n, h)
        BY <1>2 DEF Passed
    <2>2. p[1] = "heap"
        BY <2>1 DEF HeapPage
    <2> QED
        BY <2>1, <2>2, HeapFixed DEF Frames
<1> QED
    BY <1>1, <1>2

(* The entry is filled in, and the table is not cleared yet.                    *)
Entered(r, n, s, d, p, f) ==
    /\ IsRecord(r)
    /\ r.dir = [n.dir EXCEPT ![s][d] = f] /\ r.tab = [n.tab EXCEPT ![s][d] = p]
    /\ r.at = n.at /\ r.free = n.free /\ r.heap = n.heap /\ r.idle = n.idle /\ r.active = n.active
    /\ r.table = n.table /\ r.stale = n.stale

(* The pages of the kernel lead where they did with another table.           *)
LEMMA EnteredLeads ==
    ASSUME NEW n, Sound(n), NEW s \in DOMAIN n.dir, NEW d \in {"low", "text", "stack"},
           NEW p, NEW f, NEW r, Entered(r, n, s, d, p, f),
           NEW v, Fixed(n, v), v[1] \in {"window", "heap"}
    PROVE  LeadsTo(r, v, KWalk(n, v)) /\ KWalk(r, v) = KWalk(n, v)
<1>1. /\ v \in VPage /\ LeadsTo(n, v, KWalk(n, v)) /\ n.active \in DOMAIN n.dir
      /\ Kernel \in DOMAIN n.dir
      /\ n.dir \in [DOMAIN n.dir -> [Dir -> Frame \cup {None}]]
    BY FixedLeads DEF Sound, Typed, Fixed
<1>2. ASSUME NEW q \in DOMAIN n.dir PROVE Walk(r, q, v) = Walk(n, q, v)
    <2>1. r.dir[q][v[1]] = n.dir[q][v[1]]
        BY <1>1, PageFacts DEF Entered
    <2> QED
        BY <2>1 DEF Walk, Entered
<1> QED
    BY <1>1, <1>2 DEF LeadsTo, Entered, KWalk

(* Directory entry and pointer are written.                                  *)
LEMMA EntryFacts ==
    ASSUME NEW n, Typed(n), NEW s \in DOMAIN n.dir, NEW d \in Dir, NEW p, NEW f,
           n.dir[s][d] = None
    PROVE  Entered([StoreDir(n, s, d, f) EXCEPT !.tab[s][d] = p], n, s, d, p, f)
<1> DEFINE more == {<<d, i, Walk(n, s, <<d, i>>)>> : i \in {k \in Slot :
                       s = n.active /\ Walk(n, s, <<d, k>>) # None}}
           r == [StoreDir(n, s, d, f) EXCEPT !.tab[s][d] = p]
<1>1. \A k : Walk(n, s, <<d, k>>) = None
    BY DEF Walk
<1>2. more = {}
    BY <1>1
<1>3. IsRecord(n)
    BY DEF Typed, IsRecord
<1>4. StoreDir(n, s, d, f) = [n EXCEPT !.dir[s][d] = f, !.stale = @ \cup more]
    BY DEF StoreDir
<1> HIDE DEF more
<1>5. n.stale \cup more = n.stale
    BY <1>2
<1> DEFINE o == StoreDir(n, s, d, f)
<1>6. /\ IsRecord(o) /\ o.dir = [n.dir EXCEPT ![s][d] = f]
      /\ o.at = n.at /\ o.free = n.free /\ o.heap = n.heap /\ o.idle = n.idle
      /\ o.active = n.active /\ o.tab = n.tab
      /\ o.table = n.table /\ o.stale = n.stale
    BY <1>3, <1>4, <1>5 DEF IsRecord
<1>7. r = [o EXCEPT !.tab[s][d] = p]
    OBVIOUS
<1> HIDE DEF o, r
<1>8. Entered(r, n, s, d, p, f)
    BY <1>6, <1>7 DEF IsRecord, Entered
<1> QED
    BY <1>8 DEF r

(* pg_setup_pagetable, when there is no table.                                *)
LEMMA SetupFacts ==
    ASSUME NEW n, Sound(n), NEW s, NEW v \in VPage, NEW p, NEW f, Passed(n, s, v[1], p, f)
    PROVE  Setup(SetupTable(n, s, v, p, f), n, s, v[1], p, f, v)
<1> DEFINE d == v[1]
           b == [StoreDir(n, s, d, f) EXCEPT !.tab[s][d] = p]
           c == AccessTable(Invalidate(b, {p}), s, d)
           zero == [i \in Slot |-> None]
           e == [b EXCEPT !.table = Put(n.table, f, zero)]
           r == Invalidate(e, {v})
<1>1. /\ s \in DOMAIN n.dir /\ d \in {"low", "text", "stack"} /\ n.dir[s][d] = None
      /\ n.tab[s][d] = Null /\ d \in Dir /\ v = <<d, v[2]>>
    BY PageFacts DEF Passed, Sound, Pointers
<1>2. Typed(n) /\ IsRecord(n) /\ \A q \in DOMAIN n.dir, x \in Dir : n.dir[q][x] # f
    BY DEF Sound, Typed, IsRecord, Passed
<1>3. Access(n, {n.at[s].dir, n.at[s].tab}) = n
    <2>1. \A x \in {n.at[s]["dir"], n.at[s]["tab"]} : Fixed(n, x)
        BY <1>1, StructuresFixed
    <2> QED
        BY <2>1, AccessFixed
<1>4. Entered(b, n, s, d, p, f)
    BY <1>1, <1>2, EntryFacts
<1>5. Fixed(n, p) /\ KWalk(n, p) = f /\ p[1] \in {"window", "heap"} /\ p # Null /\ f \in Frame /\ p \in VPage
    BY PassedFixed, PageFacts DEF Passed, Fixed
<1>14. SetupTable(n, s, v, p, f) =
         IF c.wild THEN c ELSE Invalidate([c EXCEPT !.table = Put(@, c.dir[s][d], zero)], {v})
    <2> DEFINE a == Access(n, {n.at[s].dir, n.at[s].tab})
               w == IF n.tab[s][d] # Null THEN a ELSE [StoreDir(a, s, d, f) EXCEPT !.tab[s][d] = p]
               y == AccessTable(Invalidate(w, {w.tab[s][d]}), s, d)
    <2>3. SetupTable(n, s, v, p, f) =
            IF y.wild THEN y ELSE Invalidate([y EXCEPT !.table = Put(@, y.dir[s][d], zero)], {v})
        BY DEF SetupTable
    <2>1. w = b
        BY <1>1, <1>3
    <2> HIDE DEF w, b, zero
    <2>2. b.tab[s][d] = p
        <3>1. n.tab \in [DOMAIN n.dir -> [Dir -> VPage \cup {Null}]]
            BY <1>2 DEF Typed
        <3> QED
            BY <1>1, <1>4, <3>1 DEF Entered
    <2> QED
        BY <2>1, <2>2, <2>3
<1> HIDE DEF b, d
<1>6. /\ IsRecord(b) /\ b.dir = [n.dir EXCEPT ![s][d] = f] /\ b.tab = [n.tab EXCEPT ![s][d] = p]
      /\ b.at = n.at /\ b.active = n.active /\ b.table = n.table /\ b.stale = n.stale
      /\ b.free = n.free /\ b.heap = n.heap /\ b.idle = n.idle
    BY <1>4 DEF Entered
<1>7. b.dir[s][d] = f /\ b.tab[s][d] = p
    <2>1. /\ n.dir \in [DOMAIN n.dir -> [Dir -> Frame \cup {None}]]
          /\ n.tab \in [DOMAIN n.dir -> [Dir -> VPage \cup {Null}]]
        BY <1>2 DEF Typed
    <2> QED
        BY <1>1, <1>6, <2>1
<1>12. b.wild = FALSE
    BY <1>6 DEF IsRecord
<1>8. Invalidate(b, {p}) = b
    <2>1. {x \in b.stale : <<x[1], x[2]>> \notin {p}} = b.stale
        BY <1>5, <1>6, FixedLeads
    <2> QED
        BY <1>6, <2>1 DEF Invalidate, IsRecord
<1>9. Access(b, {b.at[s].tab}) = b
    <2>1. Fixed(n, n.at[s]["tab"]) /\ n.at[s]["tab"][1] \in {"window", "heap"}
        <3>1. CASE s = Kernel
            BY <1>1, <3>1, StructuresFixed DEF Sound, Window, KernelTable
        <3>2. CASE s # Kernel
            <4>1. s \in Running(n)
                BY <1>1, <1>2, <3>2 DEF Running, Typed
            <4>2. PICK h \in InHeap(n) : n.at[s]["tab"] = HeapPage(h)
                BY <4>1 DEF Sound, Pointers
            <4> QED
                BY <1>1, <4>2, StructuresFixed DEF HeapPage
        <3> QED
            BY <3>1, <3>2
    <2>2. LeadsTo(b, n.at[s]["tab"], KWalk(b, n.at[s]["tab"])) /\ n.at[s]["tab"] # Null
        BY <1>1, <1>4, <2>1, EnteredLeads, PageFacts DEF Fixed
    <2>3. (b.wild \/ \E x \in {b.at[s].tab} : x = Null \/ ~ LeadsTo(b, x, Walk(b, Kernel, x))) = FALSE
        BY <1>6, <1>12, <2>2 DEF KWalk
    <2> QED
        BY <1>6, <2>3 DEF Access, IsRecord
<1>10. LeadsTo(b, p, f)
    BY <1>1, <1>4, <1>5, EnteredLeads
<1>11. c = b
    <2>1. (b.wild \/ b.tab[s][d] = Null \/ ~ LeadsTo(b, b.tab[s][d], b.dir[s][d])) = FALSE
        BY <1>5, <1>7, <1>10, <1>12
    <2> QED
        BY <1>6, <1>8, <1>9, <2>1 DEF AccessTable, IsRecord
<1>13. SetupTable(n, s, v, p, f) = r
    BY <1>6, <1>7, <1>11, <1>12, <1>14
<1> HIDE DEF e, c, zero
<1>15. /\ IsRecord(e) /\ e.dir = b.dir /\ e.tab = b.tab /\ e.at = n.at /\ e.active = n.active
       /\ e.stale = n.stale /\ e.free = n.free /\ e.heap = n.heap /\ e.idle = n.idle
       /\ e.table = Put(n.table, f, zero)
    BY <1>6 DEF e, IsRecord
<1>16. zero \in [Slot -> Frame \cup {None, Junk}] /\ \A i \in Slot : zero[i] = None
    BY DEF zero
<1>17. /\ DOMAIN e.table = DOMAIN n.table \cup {f}
       /\ e.table[f] = zero
       /\ \A t \in DOMAIN n.table : t # f => e.table[t] = n.table[t]
    BY <1>15 DEF Put
<1>18. Typed(e)
    <2>1. e.table \in [DOMAIN e.table -> [Slot -> Frame \cup {None, Junk}]] /\ DOMAIN e.table \subseteq Frame
        <3>1. n.table \in [DOMAIN n.table -> [Slot -> Frame \cup {None, Junk}]] /\ DOMAIN n.table \subseteq Frame
            BY <1>2 DEF Typed
        <3>2. \A t \in DOMAIN e.table : e.table[t] \in [Slot -> Frame \cup {None, Junk}]
            BY <1>16, <1>17, <3>1
        <3>3. e.table = [t \in DOMAIN e.table |-> e.table[t]]
            BY <1>15 DEF Put
        <3> QED
            BY <1>5, <1>17, <3>1, <3>2, <3>3
    <2>2. /\ DOMAIN e.dir = DOMAIN n.dir /\ e.dir \in [DOMAIN n.dir -> [Dir -> Frame \cup {None}]]
          /\ e.tab \in [DOMAIN n.dir -> [Dir -> VPage \cup {Null}]]
        BY <1>1, <1>2, <1>5, <1>6, <1>15 DEF Typed
    <2> QED
        BY <1>2, <1>15, <2>1, <2>2 DEF Typed, IsRecord, InHeap
<1>19. ASSUME NEW q \in DOMAIN n.dir, NEW w \in VPage
       PROVE  Walk(e, q, w) = IF q = s /\ w[1] = d THEN None ELSE Walk(n, q, w)
    <2>1. /\ w[1] \in Dir /\ w[2] \in Slot
          /\ n.dir \in [DOMAIN n.dir -> [Dir -> Frame \cup {None}]]
          /\ n.dir[q][w[1]] # None => n.dir[q][w[1]] \in DOMAIN n.table
          /\ n.dir[q][w[1]] # f
        BY <1>2, PageFacts DEF Sound, Known, Typed
    <2>2. e.dir[q][w[1]] = IF q = s /\ w[1] = d THEN f ELSE n.dir[q][w[1]]
        BY <1>1, <1>6, <1>15, <2>1
    <2>3. CASE q = s /\ w[1] = d
        BY <1>16, <1>17, <2>1, <2>2, <2>3 DEF Walk
    <2>4. CASE ~ (q = s /\ w[1] = d)
        BY <1>17, <2>1, <2>2, <2>4 DEF Walk
    <2> QED
        BY <2>3, <2>4
<1>20. Flushes(r, e, v)
    BY <1>18, InvalidateFacts
<1> HIDE DEF r
<1>21. Setup(r, n, s, d, p, f, v)
    BY <1>6, <1>15, <1>17, <1>19, <1>20 DEF Setup, Flushes
<1> QED
    BY <1>13, <1>21 DEF d

(* The new table keeps the invariant.                                         *)
LEMMA SetupKeeps ==
    ASSUME NEW n, Sound(n), Owned(n), NEW s, NEW v \in VPage, NEW d, NEW p, NEW f,
           Passed(n, s, d, p, f), NEW r, Setup(r, n, s, d, p, f, v)
    PROVE  /\ Sound(r) /\ Owned(r)
           /\ \A g : Spare(n, g) => Spare(r, g)
<1>1. /\ Typed(n) /\ s \in DOMAIN n.dir /\ d \in {"low", "text", "stack"} /\ d \in Dir
      /\ n.dir[s][d] = None /\ Kernel \in DOMAIN n.dir
      /\ n.dir \in [DOMAIN n.dir -> [Dir -> Frame \cup {None}]]
      /\ n.tab \in [DOMAIN n.dir -> [Dir -> VPage \cup {Null}]]
      /\ f \in Frame /\ f # None /\ p # Null /\ p \in VPage
    <2>1. f # None /\ f \in Frame
        BY Sizes DEF Passed, Frame, None
    <2>2. p \in VPage /\ p # Null
        BY PassedFixed, PageFacts DEF Fixed
    <2> QED
        BY <2>1, <2>2 DEF Sound, Typed, Passed, Dir
<1>2. /\ Typed(r) /\ DOMAIN r.dir = DOMAIN n.dir /\ r.at = n.at /\ r.free = n.free
      /\ r.heap = n.heap /\ r.idle = n.idle /\ r.active = n.active
      /\ DOMAIN r.table = DOMAIN n.table \cup {f}
      /\ r.stale = {x \in n.stale : <<x[1], x[2]>> # v}
    BY <1>1 DEF Setup
<1>3. \A q \in DOMAIN n.dir, e \in Dir :
         /\ r.dir[q][e] = IF q = s /\ e = d THEN f ELSE n.dir[q][e]
         /\ r.tab[q][e] = IF q = s /\ e = d THEN p ELSE n.tab[q][e]
    BY <1>1 DEF Setup
<1>4. \A q \in DOMAIN n.dir, w \in VPage : w[1] # d => Walk(r, q, w) = Walk(n, q, w)
    BY DEF Setup
<1>5. \A q \in DOMAIN n.dir, w \in VPage : Walk(r, q, w) \in {None, Walk(n, q, w)}
    BY DEF Setup
<1>6. InHeap(r) = InHeap(n) /\ Running(r) = Running(n) /\ Running(n) \subseteq DOMAIN n.dir
    BY <1>2 DEF InHeap, Running
<1>7. ASSUME NEW h \in InHeap(n) PROVE Frames(r, h) = Frames(n, h)
    <2>1. HeapPage(h) \in VPage /\ HeapPage(h)[1] = "heap"
        BY <1>1, HeapSlots DEF HeapPage
    <2> QED
        BY <1>1, <1>4, <2>1 DEF Frames, KWalk
<1>8. \A i \in Slot : KWalk(r, <<"window", i>>) = KWalk(n, <<"window", i>>)
    <2>1. \A i \in Slot : <<"window", i>> \in VPage /\ <<"window", i>>[1] = "window"
        BY PageFacts DEF Dir
    <2> QED
        BY <1>1, <1>4, <2>1 DEF KWalk
<1>9. Shared(r)
    <2>1. d # "low" => s = Kernel /\ DOMAIN n.dir = {Kernel}
        BY DEF Passed
    <2>2. ASSUME NEW q \in DOMAIN n.dir, NEW e \in Dir \ {"low"}
          PROVE  r.dir[q][e] = r.dir[Kernel][e] /\ r.tab[q][e] = r.tab[Kernel][e]
        <3>1. n.dir[q][e] = n.dir[Kernel][e] /\ n.tab[q][e] = n.tab[Kernel][e]
            BY DEF Sound, Shared
        <3>2. CASE d = "low"
            BY <1>1, <1>3, <3>1, <3>2
        <3>3. CASE d # "low"
            BY <1>1, <2>1, <3>3
        <3> QED
            BY <3>2, <3>3
    <2> QED
        BY <1>2, <2>2 DEF Shared
<1>10. Known(r)
    BY <1>2, <1>3 DEF Sound, Known
<1>11. Apart(r)
    <2>1. \A q \in DOMAIN n.dir, e \in Dir : n.dir[q][e] # f
        BY DEF Passed
    <2>2. ASSUME NEW q \in DOMAIN n.dir, NEW x \in DOMAIN n.dir, NEW e \in Dir, NEW g \in Dir,
                 r.dir[q][e] = r.dir[x][g], r.dir[q][e] # None
          PROVE  e = g
        <3>1. r.dir[q][e] = (IF q = s /\ e = d THEN f ELSE n.dir[q][e])
            BY <1>3
        <3>2. r.dir[x][g] = (IF x = s /\ g = d THEN f ELSE n.dir[x][g])
            BY <1>3
        <3>3. CASE q = s /\ e = d
            BY <2>1, <2>2, <3>1, <3>2, <3>3
        <3>4. CASE ~ (q = s /\ e = d)
            BY <2>1, <2>2, <3>1, <3>2, <3>4 DEF Sound, Apart
        <3> QED
            BY <3>3, <3>4
    <2> QED
        BY <1>2, <2>2 DEF Apart
<1>12. Window(r)
    <2>1. (0 .. K + 4) \cup (E - 4 .. E - 1) \subseteq Slot
        BY Sizes DEF Slot
    <2>2. r.dir[Kernel]["window"] = n.dir[Kernel]["window"] /\ r.tab[Kernel]["window"] = n.tab[Kernel]["window"]
        BY <1>1, <1>3 DEF Dir
    <2> QED
        BY <1>2, <1>8, <2>1, <2>2 DEF Sound, Window
<1>13. HeapApart(r)
    BY <1>6, <1>7 DEF Sound, HeapApart
<1>14. StackApart(r)
    <2>1. \A i \in Slot : <<"stack", i>> \in VPage
        BY PageFacts DEF Dir
    <2>2. \A w \in VPage : KWalk(r, w) \in {None, KWalk(n, w)} /\ None # Junk
        BY <1>1, <1>5 DEF KWalk, None, Junk
    <2>3. \A w \in VPage : KWalk(r, w) = Junk => w[1] \in {"low", "heap"}
        BY <2>2 DEF Sound, StackApart
    <2> QED
        BY <2>1, <2>2, <2>3 DEF Sound, StackApart
<1>15. \A q \in DOMAIN n.dir, i \in Slot : Walk(r, q, <<"low", i>>) \in {None, Walk(n, q, <<"low", i>>)}
    <2>1. \A i \in Slot : <<"low", i>> \in VPage
        BY PageFacts DEF Dir
    <2> QED
        BY <1>5, <2>1
<1>16. UserApart(r)
    <2>1. ASSUME NEW q \in Running(n), NEW i \in Slot
          PROVE  \/ Walk(r, q, <<"low", i>>) = None
                 \/ /\ Walk(r, q, <<"low", i>>) \in FreeKind
                    /\ \A h \in InHeap(n) : Frames(r, h) # Walk(r, q, <<"low", i>>)
        <3>1. CASE Walk(r, q, <<"low", i>>) = None
            BY <3>1
        <3>2. CASE Walk(r, q, <<"low", i>>) = Walk(n, q, <<"low", i>>)
            BY <1>7, <3>2 DEF Sound, UserApart
        <3> QED
            BY <1>6, <1>15, <3>1, <3>2
    <2> QED
        BY <1>6, <2>1 DEF UserApart
<1>17. f \notin FreeKind \/ \E h \in InHeap(n) : f = Frames(n, h)
    <2>1. CASE d = "stack"
        BY <2>1, Sizes DEF Passed, FreeKind
    <2> QED
        BY <2>1 DEF Passed
<1>18. ASSUME NEW g, Spare(n, g) PROVE Spare(r, g)
    <2>1. g # f
        BY <1>17, <1>18 DEF Spare
    <2>2. \A q \in Running(n), i \in Slot : Walk(r, q, <<"low", i>>) # g
        <3>1. g # None
            BY <1>18, Sizes DEF Spare, FreeKind, None
        <3> QED
            BY <1>6, <1>15, <1>18, <3>1 DEF Spare
    <2> QED
        BY <1>2, <1>6, <1>7, <1>18, <2>1, <2>2 DEF Spare
<1>19. FreeApart(r)
    <2>1. \A i \in DOMAIN n.free : n.free[i] # f /\ n.free[i] # None
        <3>1. \A i \in DOMAIN n.free : n.free[i] \in FreeKind /\ \A h \in InHeap(n) : Frames(n, h) # n.free[i]
            BY DEF Sound, FreeApart
        <3> QED
            BY <1>17, <3>1, KindFacts
    <2>2. ASSUME NEW i \in DOMAIN n.free, NEW q \in Running(n), NEW k \in Slot
          PROVE  Walk(r, q, <<"low", k>>) # n.free[i]
        <3>1. Walk(n, q, <<"low", k>>) # n.free[i]
            BY DEF Sound, FreeApart
        <3> QED
            BY <1>6, <1>15, <2>1, <3>1
    <2> QED
        BY <1>2, <1>6, <1>7, <2>1, <2>2 DEF Sound, FreeApart
<1>20. \A q \in DOMAIN n.dir, e \in Dir : InPage(n, q, e) /\ ~ (q = s /\ e = d) => InPage(r, q, e)
    <2> SUFFICES ASSUME NEW q \in DOMAIN n.dir, NEW e \in Dir, InPage(n, q, e), ~ (q = s /\ e = d)
                 PROVE  InPage(r, q, e)
        OBVIOUS
    <2>1. r.dir[q][e] = n.dir[q][e] /\ r.tab[q][e] = n.tab[q][e]
        BY <1>3
    <2>2. PICK h \in InHeap(n) : n.tab[q][e] = HeapPage(h) /\ Frames(n, h) = n.dir[q][e]
        BY DEF InPage
    <2>3. Frames(r, h) = n.dir[q][e]
        BY <1>7, <2>2
    <2> QED
        BY <1>6, <2>1, <2>2, <2>3 DEF InPage
<1>21. d # "stack" => InPage(r, s, d)
    <2> SUFFICES ASSUME d # "stack" PROVE InPage(r, s, d)
        OBVIOUS
    <2>1. PICK h \in InHeap(n) : p = HeapPage(h) /\ f = Frames(n, h)
        BY DEF Passed
    <2>2. r.dir[s][d] = f /\ r.tab[s][d] = p
        BY <1>1, <1>3
    <2>3. Frames(r, h) = f
        BY <1>7, <2>1
    <2> QED
        BY <1>6, <2>1, <2>2, <2>3 DEF InPage
<1>22. Pointers(r)
    <2>1. ASSUME NEW q \in DOMAIN r.dir, NEW e \in Dir
          PROVE  r.dir[q][e] = None <=> r.tab[q][e] = Null
        <3>1. n.dir[q][e] = None <=> n.tab[q][e] = Null
            BY <1>2 DEF Sound, Pointers
        <3>2. /\ r.dir[q][e] = IF q = s /\ e = d THEN f ELSE n.dir[q][e]
              /\ r.tab[q][e] = IF q = s /\ e = d THEN p ELSE n.tab[q][e]
            BY <1>2, <1>3
        <3> QED
            BY <1>1, <3>1, <3>2
    <2>2. ASSUME NEW q \in DOMAIN n.dir, r.dir[q]["low"] # None
          PROVE  InPage(r, q, "low") \/ (r.dir[q]["low"] = LowFrame /\ r.tab[q]["low"] = <<"window", E - 1>>)
        <3>1. CASE q = s /\ d = "low"
            BY <1>21, <3>1
        <3>2. CASE ~ (q = s /\ d = "low")
            <4>1. r.dir[q]["low"] = n.dir[q]["low"] /\ r.tab[q]["low"] = n.tab[q]["low"] /\ "low" \in Dir
                BY <1>3, <3>2 DEF Dir
            <4> QED
                BY <1>20, <2>2, <3>2, <4>1 DEF Sound, Pointers
        <3> QED
            BY <3>1, <3>2
    <2>3. r.dir[Kernel]["text"] # None => InPage(r, Kernel, "text")
        <3>1. CASE d = "text"
            BY <1>21, <3>1 DEF Passed
        <3>2. CASE d # "text"
            <4>1. r.dir[Kernel]["text"] = n.dir[Kernel]["text"] /\ "text" \in Dir
                BY <1>1, <1>3, <3>2 DEF Dir
            <4> QED
                BY <1>1, <1>20, <3>2, <4>1 DEF Sound, Pointers
        <3> QED
            BY <3>1, <3>2
    <2>4. r.dir[Kernel]["stack"] # None =>
            r.dir[Kernel]["stack"] = FirstFree /\ r.tab[Kernel]["stack"] = <<"window", K + 4>>
        <3>1. CASE d = "stack"
            BY <1>1, <1>3, <3>1 DEF Passed
        <3>2. CASE d # "stack"
            BY <1>1, <1>3, <3>2 DEF Sound, Pointers, Dir
        <3> QED
            BY <3>1, <3>2
    <2>5. r.dir[Kernel]["heap"] # None =>
            /\ r.tab[Kernel]["heap"] = HeapTablePage
            /\ KWalk(r, HeapTablePage) = r.dir[Kernel]["heap"]
        <3>1. r.dir[Kernel]["heap"] = n.dir[Kernel]["heap"] /\ r.tab[Kernel]["heap"] = n.tab[Kernel]["heap"]
            BY <1>1, <1>3 DEF Dir
        <3>2. E - 5 \in Slot
            BY Sizes DEF Slot
        <3>3. KWalk(r, HeapTablePage) = KWalk(n, HeapTablePage)
            BY <1>8, <3>2 DEF HeapTablePage
        <3> QED
            BY <3>1, <3>3 DEF Sound, Pointers
    <2>6. ASSUME NEW q \in Running(n)
          PROVE  /\ \A e \in {"dir", "tab", "stack"} : r.at[q][e] \in {HeapPage(h) : h \in InHeap(r)}
                 /\ KWalk(r, r.at[q].dir) = r.at[q].phys
        <3>1. /\ \A e \in {"dir", "tab", "stack"} : n.at[q][e] \in {HeapPage(h) : h \in InHeap(n)}
              /\ KWalk(n, n.at[q].dir) = n.at[q].phys
            BY DEF Sound, Pointers
        <3>2. PICK h \in InHeap(n) : n.at[q]["dir"] = HeapPage(h)
            BY <3>1
        <3>3. KWalk(r, n.at[q].dir) = KWalk(n, n.at[q].dir)
            BY <1>7, <3>2 DEF Frames
        <3> QED
            BY <1>2, <1>6, <3>1, <3>3
    <2> QED
        BY <1>2, <1>6, <2>1, <2>2, <2>3, <2>4, <2>5, <2>6 DEF Pointers
<1>23. Flushed(r)
    BY <1>2 DEF Sound, Flushed
<1>24. Owned(r)
    <2>1. ASSUME NEW h \in InHeap(n),
                 h \in n.idle \/ \E q \in Running(n), e \in {"dir", "tab", "stack"} : n.at[q][e] = HeapPage(h)
          PROVE  Frames(n, h) # f
        <3>1. CASE d = "stack"
            BY <1>17, <3>1, Sizes DEF Passed, Sound, HeapApart, FreeKind
        <3>2. CASE d # "stack"
            <4>1. PICK k \in InHeap(n) :
                    /\ f = Frames(n, k) /\ k \notin n.idle
                    /\ \A q \in Running(n), e \in {"dir", "tab", "stack"} : n.at[q][e] # HeapPage(k)
                BY <3>2 DEF Passed
            <4>2. h # k
                BY <2>1, <4>1
            <4> QED
                BY <4>1, <4>2 DEF Sound, HeapApart
        <3> QED
            BY <3>1, <3>2
    <2>2. \A h \in r.idle : Frames(r, h) \notin DOMAIN r.table
        <3>1. n.idle \subseteq InHeap(n)
            BY <1>1 DEF Typed
        <3> QED
            BY <1>2, <1>7, <2>1, <3>1 DEF Owned
    <2>3. \A q \in Running(n), e \in {"dir", "tab", "stack"}, h \in InHeap(n) :
            n.at[q][e] = HeapPage(h) => h \notin n.idle /\ Frames(r, h) \notin DOMAIN r.table
        BY <1>2, <1>7, <2>1 DEF Owned
    <2> QED
        BY <1>2, <1>6, <2>2, <2>3 DEF Owned
<1> QED
    BY <1>2, <1>9, <1>10, <1>11, <1>12, <1>13, <1>14, <1>16, <1>18, <1>19, <1>22, <1>23, <1>24 DEF Sound

(* A page table made in a page of the heap, for the entry of page v in space s.  *)
NewTable(r, n, s, v) ==
    /\ Sound(r) /\ Owned(r)
    /\ DOMAIN r.dir = DOMAIN n.dir /\ r.at = n.at /\ r.active = n.active
    /\ r.heap \in Nat /\ n.heap <= r.heap /\ r.heap <= n.heap + 1
    /\ Len(r.free) >= Len(n.free) - 1
    /\ r.dir[s][v[1]] # None
    /\ \A q \in DOMAIN n.dir, e \in Dir : ~ (q = s /\ e = v[1]) => r.dir[q][e] = n.dir[q][e]
    /\ \A q \in DOMAIN n.dir, w \in VPage :
        w[1] # "heap" \/ w[2] < n.heap =>
            Walk(r, q, w) = IF q = s /\ w[1] = v[1] THEN None ELSE Walk(n, q, w)
    /\ r.stale \subseteq n.stale /\ \A x \in r.stale : <<x[1], x[2]>> # v
    /\ \A x \in n.stale : x[1] = "low" /\ <<x[1], x[2]>> # v => x \in r.stale
    /\ \A g : Spare(n, g) => Spare(r, g)

(* pg_setup_pagetable with a table from the heap.                            *)
LEMMA NewTableFacts ==
    ASSUME NEW n, Sound(n), Owned(n), HasStack(n, StackPages), HasHeap(n), HasRoom(n, 1),
           NEW s \in DOMAIN n.dir, NEW v \in VPage, v[1] \in {"low", "text"}, n.dir[s][v[1]] = None,
           v[1] = "text" => s = Kernel /\ DOMAIN n.dir = {Kernel}
    PROVE  NewTable(SetupHeapTable(n, s, v), n, s, v)
<1> DEFINE a == KallocPage(n)
           h == Fresh(n)
           p == HeapPage(h)
           f == PgGetPhysical(a, p)
           d == v[1]
           r == SetupTable(a, s, v, p, f)
<1>1. n.tab[s][v[1]] = Null /\ v[1] \in Dir
    BY PageFacts DEF Sound, Pointers
<1>2. SetupHeapTable(n, s, v) = r
    BY <1>1 DEF SetupHeapTable
<1>3. Given(a, n, h)
    BY KallocFacts
<1> HIDE DEF a, h
<1>4. /\ Sound(a) /\ Owned(a) /\ h \in InHeap(a) /\ h \notin a.idle /\ Frames(a, h) \notin DOMAIN a.table
      /\ \A q \in Running(a), e \in {"dir", "tab", "stack"} : a.at[q][e] # HeapPage(h)
      /\ Grown(a, n, 1) /\ Typed(a)
    BY <1>3 DEF Given, Sound
<1>5. /\ a.dir = n.dir /\ a.tab = n.tab /\ a.at = n.at /\ a.active = n.active
      /\ a.heap \in Nat /\ n.heap <= a.heap /\ a.heap <= n.heap + 1
      /\ Len(a.free) >= Len(n.free) - 1
      /\ \A q \in DOMAIN n.dir, w \in VPage :
          w[1] # "heap" \/ w[2] < n.heap => Walk(a, q, w) = Walk(n, q, w)
      /\ a.stale \subseteq n.stale /\ \A x \in n.stale : x[1] = "low" => x \in a.stale
      /\ \A g : Spare(n, g) => Spare(a, g)
    BY <1>4 DEF Grown
<1>6. f = Frames(a, h) /\ f \in Frame
    <2>1. p \in VPage /\ p[1] = "heap" /\ a.active \in DOMAIN a.dir
        BY <1>4, HeapFixed DEF HeapPage, Typed
    <2>2. Walk(a, a.active, p) = KWalk(a, p)
        BY <1>4, <2>1, SharedWalk DEF Sound
    <2> QED
        BY <1>4, <2>2, HeapFixed DEF PgGetPhysical, Frames, Fixed
<1> HIDE DEF f
<1>7. Passed(a, s, d, p, f)
    <2>1. \A q \in DOMAIN a.dir, e \in Dir : a.dir[q][e] # f
        <3>1. f # None
            BY <1>6, Sizes DEF Frame, None
        <3> QED
            BY <1>4, <1>6, <3>1 DEF Sound, Known
    <2> QED
        BY <1>4, <1>5, <1>6, <2>1 DEF Passed
<1>8. Setup(r, a, s, d, p, f, v)
    BY <1>4, <1>7, SetupFacts
<1> HIDE DEF r, p, d
<1>9. Sound(r) /\ Owned(r) /\ \A g : Spare(a, g) => Spare(r, g)
    BY <1>4, <1>7, <1>8, SetupKeeps
<1>10. /\ r.dir = [a.dir EXCEPT ![s][d] = f] /\ r.at = a.at /\ r.free = a.free /\ r.heap = a.heap
       /\ r.active = a.active /\ r.stale = {x \in a.stale : <<x[1], x[2]>> # v}
       /\ \A q \in DOMAIN a.dir, w \in VPage :
            Walk(r, q, w) = IF q = s /\ w[1] = d THEN None ELSE Walk(a, q, w)
    BY <1>8 DEF Setup
<1>11. a.dir \in [DOMAIN a.dir -> [Dir -> Frame \cup {None}]] /\ f # None
    <2>1. f # None
        BY <1>6, Sizes DEF Frame, None
    <2> QED
        BY <1>4, <2>1 DEF Typed
<1>12. r.dir[s][v[1]] # None /\ DOMAIN r.dir = DOMAIN n.dir
       /\ \A q \in DOMAIN n.dir, e \in Dir : ~ (q = s /\ e = v[1]) => r.dir[q][e] = n.dir[q][e]
    BY <1>1, <1>5, <1>10, <1>11 DEF d
<1>13. \A q \in DOMAIN n.dir, w \in VPage :
         w[1] # "heap" \/ w[2] < n.heap =>
            Walk(r, q, w) = IF q = s /\ w[1] = v[1] THEN None ELSE Walk(n, q, w)
    BY <1>5, <1>10 DEF d
<1>14. NewTable(r, n, s, v)
    BY <1>5, <1>9, <1>10, <1>12, <1>13 DEF NewTable
<1> QED
    BY <1>2, <1>14

(* A frame that can be mapped in a program.                                   *)
Usable(n, f) ==
    /\ f \in FreeKind /\ \A h \in InHeap(n) : Frames(n, h) # f
    /\ \A i \in DOMAIN n.free : n.free[i] # f

(* Page v of space s leads to f now, in other spaces perhaps, too.              *)
PgMapped(r, n, s, v, f) ==
    /\ Sound(r) /\ Owned(r)
    /\ DOMAIN r.dir = DOMAIN n.dir /\ r.at = n.at /\ r.active = n.active
    /\ r.heap \in Nat /\ n.heap <= r.heap /\ r.heap <= n.heap + 1
    /\ Len(r.free) >= Len(n.free) - 1
    /\ n.dir[s][v[1]] # None => r.dir = n.dir /\ r.heap = n.heap /\ r.free = n.free
    /\ r.dir[s][v[1]] # None
    /\ \A q \in DOMAIN n.dir, e \in Dir : ~ (q = s /\ e = v[1]) => r.dir[q][e] = n.dir[q][e]
    /\ Walk(r, s, v) = f
    /\ \A q \in DOMAIN n.dir : Walk(r, q, v) \in {f, Walk(n, q, v)}
    /\ \A q \in DOMAIN n.dir, w \in VPage :
        w # v /\ (w[1] # "heap" \/ w[2] < n.heap) => Walk(r, q, w) = Walk(n, q, w)
    /\ r.stale \subseteq n.stale /\ \A x \in r.stale : <<x[1], x[2]>> # v

(* pg_map with a page table, for a page outside the heap.                      *)
LEMMA MapInKeeps ==
    ASSUME NEW n, Sound(n), Owned(n), NEW s \in DOMAIN n.dir, NEW v \in VPage, n.dir[s][v[1]] # None,
           NEW f \in Frame, v[1] \in {"low", "text", "stack"},
           v[1] = "stack" => f \in FirstFree + 1 .. First - 1,
           v[1] = "low" => Usable(n, f)
    PROVE  PgMapped(MapIn(n, s, v, f), n, s, v, f)
<1> DEFINE r == MapIn(n, s, v, f)
<1>1. Mapped(r, n, s, v, f)
    BY MapInFacts
<1> HIDE DEF r
<1>2. Sound(r) /\ Owned(r)
    <2>1. Free(n, v) \/ v[1] = "low"
        BY DEF Free
    <2> QED
        BY <1>1, <2>1, MapKeeps DEF Usable
<1>3. /\ Written(r, n, s, v, f) /\ r.dir = n.dir /\ r.at = n.at /\ r.active = n.active
      /\ r.heap = n.heap /\ r.free = n.free /\ r.stale = {x \in n.stale : <<x[1], x[2]>> # v}
    BY <1>1 DEF Mapped, Written
<1>4. Walk(r, s, v) = f /\ \A q \in DOMAIN n.dir : Walk(r, q, v) \in {f, Walk(n, q, v)}
    BY <1>3 DEF Written
<1>5. \A q \in DOMAIN n.dir, w \in VPage : w # v => Walk(r, q, w) = Walk(n, q, w)
    BY <1>3, WalkElsewhere DEF Sound
<1>6. n.heap \in Nat /\ Len(n.free) \in Nat
    BY HeapSlots DEF Sound, Typed
<1>7. PgMapped(r, n, s, v, f)
    BY <1>2, <1>3, <1>4, <1>5, <1>6 DEF PgMapped
<1> QED
    BY <1>7 DEF r

(* pg_map.                                                                    *)
LEMMA PgMapFacts ==
    ASSUME NEW n, Sound(n), Owned(n), NEW s \in DOMAIN n.dir, NEW v \in VPage, NEW f \in Frame,
           v[1] \in {"low", "text"},
           n.dir[s][v[1]] = None => HasStack(n, StackPages) /\ HasHeap(n) /\ HasRoom(n, 1),
           v[1] = "text" => s = Kernel /\ DOMAIN n.dir = {Kernel},
           v[1] = "low" =>
             \/ Spare(n, f)
             \/ \E q \in Running(n), i \in Slot : q # s /\ Walk(n, q, <<"low", i>>) = f
    PROVE  PgMapped(PgMap(n, s, v, f), n, s, v, f)
<1> DEFINE Fits(x) == v[1] = "low" => \/ Spare(x, f)
                                      \/ \E q \in Running(x), i \in Slot :
                                            q # s /\ Walk(x, q, <<"low", i>>) = f
<1>1. ASSUME NEW x, Sound(x), Fits(x) PROVE v[1] = "low" => Usable(x, f)
    <2>1. f # None
        BY Sizes DEF Frame, None
    <2>2. CASE Spare(x, f)
        BY <2>2 DEF Spare, Usable
    <2>3. ASSUME NEW q \in Running(x), NEW i \in Slot, Walk(x, q, <<"low", i>>) = f PROVE Usable(x, f)
        BY <1>1, <2>1, <2>3 DEF Sound, UserApart, FreeApart, Usable
    <2> QED
        BY <1>1, <2>2, <2>3
<1>2. CASE n.dir[s][v[1]] # None
    <2>1. PgMap(n, s, v, f) = MapIn(n, s, v, f)
        BY <1>2 DEF PgMap
    <2> QED
        BY <1>1, <1>2, <2>1, MapInKeeps
<1>3. CASE n.dir[s][v[1]] = None
    <2> DEFINE o == SetupHeapTable(n, s, v)
               r == MapIn(o, s, v, f)
    <2>1. PgMap(n, s, v, f) = r
        BY <1>3 DEF PgMap
    <2>2. NewTable(o, n, s, v)
        BY <1>3, NewTableFacts
    <2> HIDE DEF o
    <2>3. /\ Sound(o) /\ Owned(o)
          /\ DOMAIN o.dir = DOMAIN n.dir /\ o.at = n.at /\ o.active = n.active
          /\ o.heap \in Nat /\ n.heap <= o.heap /\ o.heap <= n.heap + 1
          /\ Len(o.free) >= Len(n.free) - 1
          /\ o.dir[s][v[1]] # None
          /\ \A q \in DOMAIN n.dir, e \in Dir : ~ (q = s /\ e = v[1]) => o.dir[q][e] = n.dir[q][e]
          /\ \A q \in DOMAIN n.dir, w \in VPage :
              w[1] # "heap" \/ w[2] < n.heap =>
                Walk(o, q, w) = IF q = s /\ w[1] = v[1] THEN None ELSE Walk(n, q, w)
          /\ o.stale \subseteq n.stale
          /\ \A g : Spare(n, g) => Spare(o, g)
        BY <2>2 DEF NewTable
    <2>4. Fits(o)
        <3>1. ASSUME NEW q \in Running(n), NEW i \in Slot, q # s
              PROVE  q \in Running(o) /\ Walk(o, q, <<"low", i>>) = Walk(n, q, <<"low", i>>)
            <4>1. <<"low", i>> \in VPage /\ <<"low", i>>[1] = "low" /\ q \in DOMAIN n.dir
                BY PageFacts DEF Dir, Running
            <4> QED
                BY <2>3, <3>1, <4>1 DEF Running
        <3> QED
            BY <2>3, <3>1
    <2> HIDE DEF Fits
    <2>5. v[1] = "low" => Usable(o, f)
        BY <1>1, <2>3, <2>4
    <2>6. PgMapped(r, o, s, v, f)
        BY <2>3, <2>5, MapInKeeps
    <2> HIDE DEF r
    <2>7. /\ Sound(r) /\ Owned(r)
          /\ DOMAIN r.dir = DOMAIN o.dir /\ r.at = o.at /\ r.active = o.active
          /\ r.dir = o.dir /\ r.heap = o.heap /\ r.free = o.free
          /\ Walk(r, s, v) = f
          /\ \A q \in DOMAIN o.dir : Walk(r, q, v) \in {f, Walk(o, q, v)}
          /\ \A q \in DOMAIN o.dir, w \in VPage :
              w # v /\ (w[1] # "heap" \/ w[2] < o.heap) => Walk(r, q, w) = Walk(o, q, w)
          /\ r.stale \subseteq o.stale /\ \A x \in r.stale : <<x[1], x[2]>> # v
        BY <2>3, <2>6 DEF PgMapped
    <2>8. ASSUME NEW q \in DOMAIN n.dir, NEW w \in VPage, w[1] # "heap" \/ w[2] < n.heap
          PROVE  Walk(o, q, w) = Walk(n, q, w)
        BY <1>3, <2>3, <2>8 DEF Walk
    <2>9. ASSUME NEW q \in DOMAIN n.dir, NEW w \in VPage, w # v, w[1] # "heap" \/ w[2] < n.heap
           PROVE  Walk(r, q, w) = Walk(n, q, w)
        <3>1. w[1] # "heap" \/ w[2] < o.heap
            <4>1. w[2] \in Nat /\ n.heap \in Nat
                BY HeapSlots, PageFacts DEF Sound
            <4> QED
                BY <2>3, <2>9, <4>1
        <3> QED
            BY <2>3, <2>7, <2>8, <2>9, <3>1
    <2>10. \A q \in DOMAIN n.dir : Walk(r, q, v) \in {f, Walk(n, q, v)}
        BY <2>3, <2>7, <2>8
    <2>11. PgMapped(r, n, s, v, f)
        BY <1>3, <2>3, <2>7, <2>9, <2>10 DEF PgMapped
    <2> QED
        BY <2>1, <2>11
<1> QED
    BY <1>2, <1>3

-----------------------------------------------------------------------------
(* New spaces. *)

(* The numbers of pages of the heap and of free frames.                        *)
LEMMA Counts ==
    ASSUME NEW n, Sound(n)
    PROVE  /\ Typed(n) /\ Kernel \in DOMAIN n.dir /\ n.active \in DOMAIN n.dir
           /\ n.heap \in Nat /\ Len(n.free) \in Nat
           /\ \A j, k \in Nat : j <= k /\ HasRoom(n, k) => HasRoom(n, j)
<1>1. Typed(n)
    BY DEF Sound
<1>2. n.heap \in Nat
    BY <1>1, HeapSlots
<1>3. n.free \in Seq(Frame) /\ Kernel \in DOMAIN n.dir /\ n.active \in DOMAIN n.dir
    BY <1>1 DEF Typed
<1>4. Len(n.free) \in Nat
    BY <1>3
<1>5. \A j, k \in Nat : j <= k /\ HasRoom(n, k) => HasRoom(n, j)
    BY <1>2, <1>4, Sizes DEF HasRoom
<1> QED
    BY <1>1, <1>2, <1>3, <1>4, <1>5

(* What the heap keeps when it grows.                                         *)
LEMMA GrownKeeps ==
    ASSUME NEW n, Sound(n), NEW r, NEW k \in Nat, Grown(r, n, k)
    PROVE  /\ HasStack(n, StackPages) => HasStack(r, StackPages)
           /\ HasHeap(n) => HasHeap(r)
           /\ \A j \in Nat : HasRoom(n, j + k) => HasRoom(r, j)
           /\ InHeap(n) \subseteq InHeap(r)
           /\ \A h \in InHeap(n) : Frames(r, h) = Frames(n, h)
<1>1. Typed(n) /\ Kernel \in DOMAIN n.dir /\ n.heap \in Nat /\ Len(n.free) \in Nat
    BY Counts
<1>2. /\ r.dir = n.dir /\ r.heap \in Nat /\ n.heap <= r.heap /\ r.heap <= n.heap + k
      /\ Len(r.free) >= Len(n.free) - k
      /\ \A q \in DOMAIN n.dir, w \in VPage :
          w[1] # "heap" \/ w[2] < n.heap => Walk(r, q, w) = Walk(n, q, w)
    BY DEF Grown
<1>3. ASSUME HasStack(n, StackPages) PROVE HasStack(r, StackPages)
    <2>1. \A i \in 0 .. StackPages - 1 : StackSlot + i \in Slot
        BY Sizes DEF Slot
    <2>2. \A i \in 0 .. StackPages - 1 :
            <<"stack", StackSlot + i>> \in VPage /\ <<"stack", StackSlot + i>>[1] = "stack"
        BY <2>1, PageFacts DEF Dir
    <2> QED
        BY <1>1, <1>2, <1>3, <2>2 DEF HasStack, KWalk
<1>4. ASSUME NEW j \in Nat, HasRoom(n, j + k) PROVE HasRoom(r, j)
    <2>1. Len(n.free) >= j + k /\ n.heap + (j + k) <= E
        BY <1>4 DEF HasRoom
    <2>2. r.heap + j <= E
        BY <1>1, <1>2, <2>1, Sizes
    <2>3. Len(r.free) >= j
        <3>1. Len(n.free) - k >= j
            BY <1>1, <2>1
        <3>2. Len(r.free) \in Nat \/ Len(r.free) >= j
            BY <1>1, <1>2, <3>1
        <3> QED
            BY <1>1, <1>2, <3>1, <3>2
    <2> QED
        BY <2>2, <2>3 DEF HasRoom
<1>5. InHeap(n) \subseteq InHeap(r)
    BY <1>1, <1>2 DEF InHeap
<1>6. ASSUME NEW h \in InHeap(n) PROVE Frames(r, h) = Frames(n, h)
    <2>1. HeapPage(h) \in VPage /\ HeapPage(h)[2] = h /\ h < n.heap
        BY <1>1, HeapSlots DEF HeapPage
    <2> QED
        BY <1>1, <1>2, <2>1 DEF Frames, KWalk
<1> QED
    BY <1>2, <1>3, <1>4, <1>5, <1>6 DEF HasHeap

(* The heap grows twice.                                                     *)
LEMMA GrownMore ==
    ASSUME NEW n, Sound(n), NEW a, Sound(a), NEW r, Sound(r), NEW j \in Nat, NEW k \in Nat,
           Grown(a, n, j), Grown(r, a, k)
    PROVE  Grown(r, n, j + k)
<1>1. /\ n.heap \in Nat /\ a.heap \in Nat /\ r.heap \in Nat
      /\ Len(n.free) \in Nat /\ Len(a.free) \in Nat /\ Len(r.free) \in Nat
    BY Counts
<1>2. /\ n.heap <= r.heap /\ r.heap <= n.heap + (j + k)
      /\ Len(r.free) >= Len(n.free) - (j + k)
    <2>1. /\ n.heap <= a.heap /\ a.heap <= n.heap + j /\ a.heap <= r.heap /\ r.heap <= a.heap + k
          /\ Len(a.free) >= Len(n.free) - j /\ Len(r.free) >= Len(a.free) - k
        BY DEF Grown
    <2>2. ASSUME NEW x \in Nat, NEW y \in Nat, NEW z \in Nat, y >= x - j, z >= y - k
          PROVE  z >= x - (j + k)
        BY <2>2
    <2>3. Len(r.free) >= Len(n.free) - (j + k)
        BY <1>1, <2>1, <2>2
    <2>4. n.heap <= r.heap /\ r.heap <= n.heap + (j + k)
        <3>1. ASSUME NEW x \in Nat, NEW y \in Nat, NEW z \in Nat, x <= y, y <= x + j, y <= z, z <= y + k
              PROVE  x <= z /\ z <= x + (j + k)
            BY <3>1
        <3> QED
            BY <1>1, <2>1, <3>1
    <2> QED
        BY <2>3, <2>4
<1>3. ASSUME NEW q \in DOMAIN n.dir, NEW w \in VPage, w[1] # "heap" \/ w[2] < n.heap
      PROVE  Walk(r, q, w) = Walk(n, q, w)
    <2>1. w[2] \in Nat /\ n.heap <= a.heap
        BY HeapSlots, PageFacts DEF Sound, Grown
    <2>2. w[1] # "heap" \/ w[2] < a.heap
        BY <1>1, <1>3, <2>1
    <2> QED
        BY <1>3, <2>2 DEF Grown
<1> QED
    BY <1>1, <1>2, <1>3 DEF Grown

(* A page of the heap that is neither free nor in use yet.                     *)
Vacant(n, h) ==
    /\ h \in InHeap(n) /\ h \notin n.idle /\ Frames(n, h) \notin DOMAIN n.table
    /\ \A s \in Running(n), f \in {"dir", "tab", "stack"} : n.at[s][f] # HeapPage(h)

(* A page that was given to a caller is not given to another one.            *)
LEMMA VacantKeeps ==
    ASSUME NEW n, Sound(n), NEW r, NEW k, Given(r, n, k)
    PROVE  Vacant(r, k) /\ \A h : Vacant(n, h) => Vacant(r, h) /\ h # k
<1>1. Grown(r, n, 1) /\ Running(r) = Running(n) /\ r.at = n.at /\ DOMAIN r.table = DOMAIN n.table
    BY DEF Given, Grown, Running
<1>2. InHeap(n) \subseteq InHeap(r) /\ \A h \in InHeap(n) : Frames(r, h) = Frames(n, h)
    BY <1>1, GrownKeeps
<1> QED
    BY <1>1, <1>2 DEF Given, Vacant

(* Three pages for a process.                                                 *)
Furnished(x, n) ==
    /\ Sound(x.n) /\ Owned(x.n) /\ Grown(x.n, n, 3)
    /\ \E h, i, j : /\ Vacant(x.n, h) /\ Vacant(x.n, i) /\ Vacant(x.n, j)
                    /\ h # i /\ h # j /\ i # j
                    /\ x.got = <<HeapPage(h), HeapPage(i), HeapPage(j)>>

(* The three pages of a new process are different ones.                      *)
LEMMA RoomFacts ==
    ASSUME NEW n, Sound(n), Owned(n), HasStack(n, StackPages), HasHeap(n), HasRoom(n, 3)
    PROVE  Furnished(Room(n), n)
<1> DEFINE a == KallocPage(n)
           b == KallocPage(a)
           c == KallocPage(b)
           x == Room(n)
<1>1. x.n = c /\ x.got = <<HeapPage(Fresh(n)), HeapPage(Fresh(a)), HeapPage(Fresh(b))>>
    BY DEF Room
<1> HIDE DEF x
<1>2. HasRoom(n, 2 + 1) /\ HasRoom(n, 1)
    BY Counts
<1>3. Given(a, n, Fresh(n))
    BY <1>2, KallocFacts
<1> HIDE DEF a
<1>4. Sound(a) /\ Owned(a) /\ Grown(a, n, 1)
    BY <1>3 DEF Given
<1>5. HasStack(a, StackPages) /\ HasHeap(a) /\ HasRoom(a, 1 + 1) /\ HasRoom(a, 1)
    <2>1. HasStack(a, StackPages) /\ HasHeap(a) /\ HasRoom(a, 2)
        BY <1>2, <1>4, GrownKeeps
    <2> QED
        BY <1>4, <2>1, Counts
<1>6. Given(b, a, Fresh(a))
    BY <1>4, <1>5, KallocFacts
<1> HIDE DEF b
<1>7. Sound(b) /\ Owned(b) /\ Grown(b, a, 1)
    BY <1>6 DEF Given
<1>8. HasStack(b, StackPages) /\ HasHeap(b) /\ HasRoom(b, 1)
    BY <1>4, <1>5, <1>7, GrownKeeps
<1>9. Given(c, b, Fresh(b))
    BY <1>7, <1>8, KallocFacts
<1> HIDE DEF c
<1>10. Sound(c) /\ Owned(c) /\ Grown(c, b, 1)
    BY <1>9 DEF Given
<1>11. Grown(b, n, 1 + 1)
    BY <1>4, <1>7, GrownMore
<1>12. Grown(c, n, 2 + 1)
    BY <1>7, <1>10, <1>11, GrownMore
<1>13. Vacant(a, Fresh(n))
    BY <1>3, VacantKeeps
<1>14. Vacant(b, Fresh(n)) /\ Vacant(b, Fresh(a)) /\ Fresh(n) # Fresh(a)
    BY <1>4, <1>6, <1>13, VacantKeeps
<1>15. /\ Vacant(c, Fresh(n)) /\ Vacant(c, Fresh(a)) /\ Vacant(c, Fresh(b))
       /\ Fresh(n) # Fresh(b) /\ Fresh(a) # Fresh(b)
    BY <1>7, <1>9, <1>14, VacantKeeps
<1>16. Furnished(x, n)
    BY <1>1, <1>10, <1>12, <1>14, <1>15 DEF Furnished
<1> QED
    BY <1>16 DEF x

(* The entries of a new directory: the kernel's, and in the lower part nothing   *)
(* or those of a process.                                                     *)
Inherited(n, dirs, tabs) ==
    /\ dirs \in [Dir -> Frame \cup {None}] /\ tabs \in [Dir -> VPage \cup {Null}]
    /\ \A e \in Dir \ {"low"} : dirs[e] = n.dir[Kernel][e] /\ tabs[e] = n.tab[Kernel][e]
    /\ \/ dirs["low"] = None /\ tabs["low"] = Null
       \/ \E q \in Running(n) : dirs["low"] = n.dir[q]["low"] /\ tabs["low"] = n.tab[q]["low"]

(* r is n with another space.                                                 *)
Spaced(r, n, c, dirs) ==
    /\ Sound(r) /\ Owned(r)
    /\ DOMAIN r.dir = DOMAIN n.dir \cup {c}
    /\ r.dir[c] = dirs /\ \A q \in DOMAIN n.dir : r.dir[q] = n.dir[q]
    /\ r.table = n.table /\ r.free = n.free /\ r.heap = n.heap
    /\ r.active = n.active /\ r.stale = n.stale
    /\ \A q \in DOMAIN n.dir : \A w : Walk(r, q, w) = Walk(n, q, w)

(* A space is added, made of three pages of the heap.                        *)
LEMMA SpaceFacts ==
    ASSUME NEW n, Sound(n), Owned(n), NEW c \in Proc, c \notin DOMAIN n.dir,
           NEW dirs, NEW tabs, Inherited(n, dirs, tabs),
           NEW h, NEW i, NEW j, Vacant(n, h), Vacant(n, i), Vacant(n, j), h # i, h # j, i # j,
           NEW at, at = [stack |-> HeapPage(h), dir |-> HeapPage(i), tab |-> HeapPage(j),
                         phys |-> Frames(n, i)],
           NEW r, r = [n EXCEPT !.dir = Put(@, c, dirs), !.tab = Put(@, c, tabs), !.at = Put(@, c, at)]
    PROVE  Spaced(r, n, c, dirs)
<1>1. IsRecord(n) /\ Typed(n) /\ Kernel \in DOMAIN n.dir /\ c # Kernel
      /\ DOMAIN n.tab = DOMAIN n.dir /\ DOMAIN n.at = DOMAIN n.dir
      /\ DOMAIN n.dir \subseteq Proc \cup {Kernel}
    BY DEF Sound, Typed, IsRecord
<1>2. /\ IsRecord(r)
      /\ r.dir = Put(n.dir, c, dirs) /\ r.tab = Put(n.tab, c, tabs) /\ r.at = Put(n.at, c, at)
      /\ r.table = n.table /\ r.free = n.free /\ r.heap = n.heap /\ r.idle = n.idle
      /\ r.active = n.active /\ r.stale = n.stale
    BY <1>1 DEF IsRecord
<1>3. /\ DOMAIN r.dir = DOMAIN n.dir \cup {c}
      /\ r.dir[c] = dirs /\ r.tab[c] = tabs /\ r.at[c] = at
      /\ \A q \in DOMAIN n.dir : r.dir[q] = n.dir[q] /\ r.tab[q] = n.tab[q] /\ r.at[q] = n.at[q]
    <2>1. DOMAIN r.dir = DOMAIN n.dir \cup {c}
          /\ r.dir[c] = dirs /\ \A q \in DOMAIN n.dir : r.dir[q] = n.dir[q]
        BY <1>2 DEF Put
    <2>2. r.tab[c] = tabs /\ \A q \in DOMAIN n.dir : r.tab[q] = n.tab[q]
        BY <1>1, <1>2 DEF Put
    <2>3. r.at[c] = at /\ \A q \in DOMAIN n.dir : r.at[q] = n.at[q]
        BY <1>1, <1>2 DEF Put
    <2> QED
        BY <2>1, <2>2, <2>3
<1>4. /\ at["stack"] = HeapPage(h) /\ at["dir"] = HeapPage(i) /\ at["tab"] = HeapPage(j)
      /\ at.dir = HeapPage(i) /\ at.phys = Frames(n, i)
    OBVIOUS
<1>5. h \in InHeap(n) /\ i \in InHeap(n) /\ j \in InHeap(n)
    BY DEF Vacant
<1>6. Typed(r)
    <2>1. at \in [dir : VPage, tab : VPage, stack : VPage, phys : Frame]
        BY <1>5, HeapFixed DEF Fixed, Frames
    <2>2. /\ r.dir \in [DOMAIN r.dir -> [Dir -> Frame \cup {None}]]
          /\ r.tab \in [DOMAIN r.dir -> [Dir -> VPage \cup {Null}]]
          /\ r.at \in [DOMAIN r.dir -> [dir : VPage, tab : VPage, stack : VPage, phys : Frame]]
        <3>1. /\ n.dir \in [DOMAIN n.dir -> [Dir -> Frame \cup {None}]]
              /\ n.tab \in [DOMAIN n.dir -> [Dir -> VPage \cup {Null}]]
              /\ n.at \in [DOMAIN n.dir -> [dir : VPage, tab : VPage, stack : VPage, phys : Frame]]
            BY <1>1 DEF Typed
        <3>2. dirs \in [Dir -> Frame \cup {None}] /\ tabs \in [Dir -> VPage \cup {Null}]
            BY DEF Inherited
        <3> QED
            BY <1>1, <1>2, <1>3, <2>1, <3>1, <3>2 DEF Put
    <2>3. /\ DOMAIN r.dir \subseteq Proc \cup {Kernel} /\ {Kernel, r.active} \subseteq DOMAIN r.dir
        BY <1>1, <1>2, <1>3 DEF Typed
    <2>4. /\ r.table \in [DOMAIN r.table -> [Slot -> Frame \cup {None, Junk}]]
          /\ DOMAIN r.table \subseteq Frame /\ r.free \in Seq(Frame)
          /\ r.heap \in 0 .. E /\ r.idle \subseteq InHeap(r)
          /\ r.stale \subseteq Dir \X Slot \X (Frame \cup {Junk})
        BY <1>1, <1>2 DEF Typed, InHeap
    <2> QED
        BY <1>2, <2>2, <2>3, <2>4 DEF Typed, IsRecord
<1>7. /\ \A q \in DOMAIN n.dir : \A w : Walk(r, q, w) = Walk(n, q, w)
      /\ \A k : Frames(r, k) = Frames(n, k) /\ \A w : KWalk(r, w) = KWalk(n, w)
      /\ Running(r) = Running(n) \cup {c} /\ Running(n) \subseteq DOMAIN n.dir
      /\ InHeap(r) = InHeap(n)
    <2>1. \A q \in DOMAIN n.dir : \A w : Walk(r, q, w) = Walk(n, q, w)
        BY <1>2, <1>3 DEF Walk
    <2>2. Running(r) = Running(n) \cup {c} /\ Running(n) \subseteq DOMAIN n.dir
        BY <1>3 DEF Running
    <2> QED
        BY <1>1, <1>2, <2>1, <2>2 DEF KWalk, Frames, InHeap
<1>8. \/ dirs["low"] = None /\ tabs["low"] = Null /\ \A k \in Slot : Walk(r, c, <<"low", k>>) = None
      \/ \E q \in Running(n) :
            /\ dirs["low"] = n.dir[q]["low"] /\ tabs["low"] = n.tab[q]["low"]
            /\ \A k \in Slot : Walk(r, c, <<"low", k>>) = Walk(n, q, <<"low", k>>)
    <2>1. CASE dirs["low"] = None /\ tabs["low"] = Null
        BY <1>3, <2>1 DEF Walk
    <2>2. ASSUME NEW q \in Running(n), dirs["low"] = n.dir[q]["low"], tabs["low"] = n.tab[q]["low"]
          PROVE  \A k \in Slot : Walk(r, c, <<"low", k>>) = Walk(n, q, <<"low", k>>)
        BY <1>2, <1>3, <2>2 DEF Walk
    <2> QED
        BY <2>1, <2>2 DEF Inherited
<1>9. \A e \in Dir : \/ dirs[e] = None /\ tabs[e] = Null
                     \/ \E q \in DOMAIN n.dir : dirs[e] = n.dir[q][e] /\ tabs[e] = n.tab[q][e]
    BY <1>1, <1>7, <1>8 DEF Inherited
<1>10. Shared(r)
    BY <1>1, <1>3 DEF Sound, Shared, Inherited
<1>11. Known(r)
    BY <1>2, <1>3, <1>9 DEF Sound, Known
<1>12. Apart(r)
    <2>1. \A s \in DOMAIN r.dir, e \in Dir : r.dir[s][e] # None =>
            \E q \in DOMAIN n.dir : r.dir[s][e] = n.dir[q][e]
        BY <1>3, <1>9
    <2>2. ASSUME NEW s \in DOMAIN r.dir, NEW t \in DOMAIN r.dir, NEW d \in Dir, NEW e \in Dir,
                 r.dir[s][d] = r.dir[t][e], r.dir[s][d] # None
          PROVE  d = e
        <3>1. PICK q \in DOMAIN n.dir : r.dir[s][d] = n.dir[q][d]
            BY <2>1, <2>2
        <3>2. PICK p \in DOMAIN n.dir : r.dir[t][e] = n.dir[p][e]
            BY <2>1, <2>2
        <3> QED
            BY <2>2, <3>1, <3>2 DEF Sound, Apart
    <2> QED
        BY <2>2 DEF Apart
<1>13. Window(r) /\ HeapApart(r) /\ StackApart(r) /\ Flushed(r)
    BY <1>1, <1>2, <1>3, <1>7 DEF Sound, Window, HeapApart, StackApart, Flushed
<1>14. UserApart(r)
    <2>1. ASSUME NEW q \in Running(r), NEW k \in Slot
          PROVE  \/ Walk(r, q, <<"low", k>>) = None
                 \/ \E p \in Running(n) : Walk(r, q, <<"low", k>>) = Walk(n, p, <<"low", k>>)
        BY <1>7, <1>8
    <2>2. \A p \in Running(n), k \in Slot :
            \/ Walk(n, p, <<"low", k>>) = None
            \/ /\ Walk(n, p, <<"low", k>>) \in FreeKind
               /\ \A x \in InHeap(r) : Frames(r, x) # Walk(n, p, <<"low", k>>)
        <3>1. UserApart(n)
            BY DEF Sound
        <3>2. \A x \in InHeap(r) : x \in InHeap(n) /\ Frames(r, x) = Frames(n, x)
            BY <1>7
        <3> QED
            BY <3>1, <3>2 DEF UserApart
    <2>3. ASSUME NEW q \in Running(r), NEW k \in Slot
          PROVE  \/ Walk(r, q, <<"low", k>>) = None
                 \/ /\ Walk(r, q, <<"low", k>>) \in FreeKind
                    /\ \A x \in InHeap(r) : Frames(r, x) # Walk(r, q, <<"low", k>>)
        BY <2>1, <2>2
    <2> QED
        BY <2>3 DEF UserApart
<1>15. FreeApart(r)
    <2>1. FreeApart(n) /\ \A k \in DOMAIN n.free : n.free[k] # None
        <3>1. FreeApart(n) /\ \A k \in DOMAIN n.free : n.free[k] \in FreeKind
            BY DEF Sound, FreeApart
        <3> QED
            BY <3>1, KindFacts
    <2>2. ASSUME NEW x \in DOMAIN n.free, NEW q \in Running(r), NEW k \in Slot
          PROVE  Walk(r, q, <<"low", k>>) # n.free[x]
        BY <1>7, <1>8, <2>1 DEF FreeApart
    <2> QED
        BY <1>2, <1>7, <2>1, <2>2 DEF FreeApart
<1>16. Pointers(r)
    <2>1. \A q \in DOMAIN n.dir, e \in Dir : InPage(n, q, e) => InPage(r, q, e)
        BY <1>3, <1>7 DEF InPage
    <2>2. \A s \in DOMAIN r.dir, d \in Dir : r.dir[s][d] = None <=> r.tab[s][d] = Null
        <3>1. \A s \in DOMAIN n.dir, d \in Dir : n.dir[s][d] = None <=> n.tab[s][d] = Null
            BY DEF Sound, Pointers
        <3> QED
            BY <1>3, <1>9, <3>1
    <2>3. ASSUME NEW s \in DOMAIN r.dir, r.dir[s]["low"] # None
          PROVE  InPage(r, s, "low") \/ (r.dir[s]["low"] = LowFrame /\ r.tab[s]["low"] = <<"window", E - 1>>)
        <3>1. PICK q \in DOMAIN n.dir : r.dir[s]["low"] = n.dir[q]["low"] /\ r.tab[s]["low"] = n.tab[q]["low"]
            BY <1>3, <1>7, <1>8, <2>3
        <3>2. InPage(n, q, "low") \/ (n.dir[q]["low"] = LowFrame /\ n.tab[q]["low"] = <<"window", E - 1>>)
            BY <2>3, <3>1 DEF Sound, Pointers
        <3>3. InPage(n, q, "low") => InPage(r, s, "low")
            BY <1>7, <3>1 DEF InPage
        <3> QED
            BY <3>1, <3>2, <3>3
    <2>4. /\ r.dir[Kernel]["text"] # None => InPage(r, Kernel, "text")
          /\ r.dir[Kernel]["stack"] # None =>
              r.dir[Kernel]["stack"] = FirstFree /\ r.tab[Kernel]["stack"] = <<"window", K + 4>>
          /\ r.dir[Kernel]["heap"] # None =>
              /\ r.tab[Kernel]["heap"] = HeapTablePage
              /\ KWalk(r, HeapTablePage) = r.dir[Kernel]["heap"]
        BY <1>1, <1>3, <1>7, <2>1 DEF Sound, Pointers, Dir
    <2>5. ASSUME NEW s \in Running(n)
          PROVE  /\ \A f \in {"dir", "tab", "stack"} : r.at[s][f] \in {HeapPage(k) : k \in InHeap(r)}
                 /\ KWalk(r, r.at[s].dir) = r.at[s].phys
        BY <1>3, <1>7 DEF Sound, Pointers
    <2>6. /\ \A f \in {"dir", "tab", "stack"} : r.at[c][f] \in {HeapPage(k) : k \in InHeap(r)}
          /\ KWalk(r, r.at[c].dir) = r.at[c].phys
        BY <1>3, <1>4, <1>5, <1>7 DEF Frames
    <2> QED
        BY <1>7, <2>2, <2>3, <2>4, <2>5, <2>6 DEF Pointers
<1>17. Owned(r)
    <2> DEFINE Parts == {"dir", "tab", "stack"}
    <2>1. \A f \in Parts : \E k \in {h, i, j} : r.at[c][f] = HeapPage(k) /\ Vacant(n, k)
        BY <1>3, <1>4
    <2>2. \A k \in r.idle : Frames(r, k) \notin DOMAIN r.table
        BY <1>2, <1>7 DEF Owned
    <2>3. ASSUME NEW s \in Running(r), NEW f \in Parts, NEW k \in InHeap(r), r.at[s][f] = HeapPage(k)
          PROVE  k \notin r.idle /\ Frames(r, k) \notin DOMAIN r.table
        <3>1. CASE s \in Running(n)
            <4>1. n.at[s][f] = HeapPage(k) /\ k \in InHeap(n)
                BY <1>3, <1>7, <2>3, <3>1
            <4>2. k \notin n.idle /\ Frames(n, k) \notin DOMAIN n.table
                BY <3>1, <4>1 DEF Owned
            <4> QED
                BY <1>2, <1>7, <4>2
        <3>2. CASE s = c
            <4>1. Vacant(n, k)
                BY <2>1, <2>3, <3>2 DEF HeapPage
            <4> QED
                BY <1>2, <1>7, <4>1 DEF Vacant
        <3> QED
            BY <1>7, <3>1, <3>2
    <2>4. ASSUME NEW s \in Running(r), NEW t \in Running(r), NEW f \in Parts, NEW g \in Parts,
                 r.at[s][f] = r.at[t][g]
          PROVE  s = t /\ f = g
        <3>1. CASE s \in Running(n) /\ t \in Running(n)
            BY <1>3, <1>7, <2>4, <3>1 DEF Owned
        <3>2. CASE s = c /\ t = c
            <4>1. at[f] = at[g]
                BY <1>3, <2>4, <3>2
            <4> QED
                BY <1>4, <3>2, <4>1 DEF HeapPage
        <3>3. CASE s = c /\ t \in Running(n)
            <4>1. PICK k \in {h, i, j} : n.at[t][g] = HeapPage(k) /\ Vacant(n, k)
                BY <1>3, <1>7, <2>1, <2>4, <3>3
            <4> QED
                BY <3>3, <4>1 DEF Vacant
        <3>4. CASE s \in Running(n) /\ t = c
            <4>1. PICK k \in {h, i, j} : n.at[s][f] = HeapPage(k) /\ Vacant(n, k)
                BY <1>3, <1>7, <2>1, <2>4, <3>4
            <4> QED
                BY <3>4, <4>1 DEF Vacant
        <3> QED
            BY <1>7, <3>1, <3>2, <3>3, <3>4
    <2> QED
        BY <2>2, <2>3, <2>4 DEF Owned
<1> QED
    BY <1>2, <1>3, <1>6, <1>7, <1>10, <1>11, <1>12, <1>13, <1>14, <1>15, <1>16, <1>17 DEF Sound, Spaced

(* What main() has set up is still there, and k frames less at most.            *)
Keeps(r, n, k) ==
    /\ HasStack(n, StackPages) => HasStack(r, StackPages)
    /\ HasHeap(n) => HasHeap(r)
    /\ HasText(n) => HasText(r)
    /\ \A j \in Nat : HasRoom(n, j + k) => HasRoom(r, j)

(* What main() has set up depends on the kernel's upper entries only.        *)
LEMMA KernelKeeps ==
    ASSUME NEW n, Sound(n), NEW r, Sound(r), NEW k \in Nat,
           r.dir[Kernel]["stack"] = n.dir[Kernel]["stack"], r.dir[Kernel]["heap"] = n.dir[Kernel]["heap"],
           \A w \in VPage : w[1] \in {"stack", "text"} => KWalk(r, w) = KWalk(n, w),
           r.heap <= n.heap + k, Len(r.free) >= Len(n.free) - k
    PROVE  Keeps(r, n, k)
<1>1. n.heap \in Nat /\ r.heap \in Nat /\ Len(n.free) \in Nat /\ Len(r.free) \in Nat
    BY Counts
<1>2. HasStack(n, StackPages) => HasStack(r, StackPages)
    <2>1. \A i \in 0 .. StackPages - 1 : StackSlot + i \in Slot
        BY Sizes DEF Slot
    <2>2. \A i \in 0 .. StackPages - 1 :
            <<"stack", StackSlot + i>> \in VPage /\ <<"stack", StackSlot + i>>[1] = "stack"
        BY <2>1, PageFacts DEF Dir
    <2> QED
        BY <2>2 DEF HasStack
<1>3. HasText(n) => HasText(r)
    <2>1. 0 \in Slot
        BY Sizes DEF Slot
    <2>2. <<"text", 0>> \in VPage /\ <<"text", 0>>[1] = "text"
        BY <2>1, PageFacts DEF Dir
    <2> QED
        BY <2>2 DEF HasText
<1>4. ASSUME NEW j \in Nat, HasRoom(n, j + k) PROVE HasRoom(r, j)
    <2>1. n.heap + (j + k) <= E /\ Len(n.free) >= j + k /\ E \in Nat
        BY <1>4, Sizes DEF HasRoom
    <2>2. r.heap + j <= E
        BY <1>1, <2>1
    <2>3. Len(r.free) >= j
        BY <1>1, <2>1
    <2> QED
        BY <2>2, <2>3 DEF HasRoom
<1> QED
    BY <1>2, <1>3, <1>4 DEF Keeps, HasHeap

(* r is n with another space, for which the heap has grown.                     *)
Created(r, n, c, dirs) ==
    /\ Sound(r) /\ Owned(r) /\ Keeps(r, n, 3)
    /\ DOMAIN r.dir = DOMAIN n.dir \cup {c}
    /\ r.dir[c] = dirs /\ \A q \in DOMAIN n.dir : r.dir[q] = n.dir[q]
    /\ r.active = n.active /\ r.stale \subseteq n.stale
    /\ \A q \in DOMAIN n.dir, i \in Slot : Walk(r, q, <<"low", i>>) = Walk(n, q, <<"low", i>>)
    /\ \A q \in DOMAIN n.dir, i \in Slot :
        dirs["low"] = n.dir[q]["low"] => Walk(r, c, <<"low", i>>) = Walk(n, q, <<"low", i>>)

(* A new space shares the upper part, and frames of the lower one.           *)
LEMMA NewSpaceFacts ==
    ASSUME NEW n, Sound(n), Owned(n), HasStack(n, StackPages), HasHeap(n), HasRoom(n, 3),
           NEW c \in Proc, c \notin DOMAIN n.dir, NEW dirs, NEW tabs, Inherited(n, dirs, tabs)
    PROVE  Created(NewSpace(Room(n), c, dirs, tabs), n, c, dirs)
<1> DEFINE x == Room(n)
           o == x.n
           a == Access(o, {x.got[1], x.got[2], x.got[3]})
           r == NewSpace(x, c, dirs, tabs)
<1>1. Furnished(x, n)
    BY RoomFacts
<1> DEFINE spot(y) == [stack |-> x.got[1], dir |-> x.got[2], tab |-> x.got[3],
                       phys |-> PgGetPhysical(y, x.got[2])]
<1>2. r = [a EXCEPT !.dir = Put(@, c, dirs), !.tab = Put(@, c, tabs), !.at = Put(@, c, spot(a))]
    BY DEF NewSpace
<1> HIDE DEF x, r, spot
<1>3. Sound(o) /\ Owned(o) /\ Grown(o, n, 3)
    BY <1>1 DEF Furnished
<1>4. PICK h, i, j :
        /\ Vacant(o, h) /\ Vacant(o, i) /\ Vacant(o, j) /\ h # i /\ h # j /\ i # j
        /\ x.got = <<HeapPage(h), HeapPage(i), HeapPage(j)>>
    BY <1>1 DEF Furnished
<1>5. x.got[1] = HeapPage(h) /\ x.got[2] = HeapPage(i) /\ x.got[3] = HeapPage(j)
    BY <1>4
<1>6. Fixed(o, HeapPage(h)) /\ Fixed(o, HeapPage(i)) /\ Fixed(o, HeapPage(j))
    BY <1>3, <1>4, HeapFixed DEF Vacant
<1>7. a = o
    BY <1>3, <1>5, <1>6, AccessFixed
<1>8. /\ o.dir = n.dir /\ o.tab = n.tab /\ o.active = n.active
      /\ DOMAIN o.table = DOMAIN n.table
      /\ o.heap \in Nat /\ n.heap <= o.heap /\ o.heap <= n.heap + 3
      /\ Len(o.free) >= Len(n.free) - 3
      /\ \A q \in DOMAIN n.dir, w \in VPage :
          w[1] # "heap" \/ w[2] < n.heap => Walk(o, q, w) = Walk(n, q, w)
      /\ o.stale \subseteq n.stale
    BY <1>3 DEF Grown
<1>9. PgGetPhysical(o, HeapPage(i)) = Frames(o, i)
    <2>1. HeapPage(i) \in VPage /\ HeapPage(i)[1] = "heap" /\ o.active \in DOMAIN o.dir /\ Typed(o) /\ Shared(o)
        BY <1>3, <1>6, Counts DEF Fixed, HeapPage, Sound
    <2>2. Walk(o, o.active, HeapPage(i)) = KWalk(o, HeapPage(i))
        BY <2>1, SharedWalk
    <2> QED
        BY <2>2 DEF PgGetPhysical, Frames
<1> DEFINE at == [stack |-> HeapPage(h), dir |-> HeapPage(i), tab |-> HeapPage(j), phys |-> Frames(o, i)]
<1>10. spot(o) = at
    BY <1>5, <1>9 DEF spot
<1> HIDE DEF o, a, at
<1>11. r = [o EXCEPT !.dir = Put(@, c, dirs), !.tab = Put(@, c, tabs), !.at = Put(@, c, at)]
    BY <1>2, <1>7, <1>10
<1>12. Inherited(o, dirs, tabs)
    BY <1>8 DEF Inherited, Running
<1>13. Spaced(r, o, c, dirs)
    BY <1>3, <1>4, <1>8, <1>11, <1>12, SpaceFacts DEF at
<1>14. /\ Sound(r) /\ Owned(r) /\ DOMAIN r.dir = DOMAIN o.dir \cup {c}
       /\ r.dir[c] = dirs /\ \A q \in DOMAIN o.dir : r.dir[q] = o.dir[q]
       /\ r.table = o.table /\ r.free = o.free /\ r.heap = o.heap
       /\ r.active = o.active /\ r.stale = o.stale
       /\ \A q \in DOMAIN o.dir : \A w : Walk(r, q, w) = Walk(o, q, w)
    BY <1>13 DEF Spaced
<1>15. Kernel \in DOMAIN n.dir
    BY Counts
<1>16. \A w \in VPage : w[1] \in {"stack", "text"} => KWalk(r, w) = KWalk(n, w)
    BY <1>8, <1>14, <1>15 DEF KWalk
<1>17. Keeps(r, n, 3)
    <2>1. r.dir[Kernel] = n.dir[Kernel]
        BY <1>8, <1>14, <1>15
    <2> QED
        BY <1>8, <1>14, <1>16, <2>1, KernelKeeps
<1>18. \A q \in DOMAIN n.dir, k \in Slot : Walk(r, q, <<"low", k>>) = Walk(n, q, <<"low", k>>)
    <2>1. \A k \in Slot : <<"low", k>> \in VPage /\ <<"low", k>>[1] = "low"
        BY PageFacts DEF Dir
    <2> QED
        BY <1>8, <1>14, <2>1
<1>19. ASSUME NEW q \in DOMAIN n.dir, NEW k \in Slot, dirs["low"] = n.dir[q]["low"]
       PROVE  Walk(r, c, <<"low", k>>) = Walk(n, q, <<"low", k>>)
    <2>1. r.dir[c]["low"] = r.dir[q]["low"]
        BY <1>8, <1>14, <1>19
    <2>2. Walk(r, c, <<"low", k>>) = Walk(r, q, <<"low", k>>)
        BY <2>1 DEF Walk
    <2> QED
        BY <1>18, <2>2
<1>20. Created(r, n, c, dirs)
    BY <1>8, <1>14, <1>17, <1>18, <1>19 DEF Created
<1> QED
    BY <1>20 DEF r, x

(* pg_create_user_page_directory.                                             *)
LEMMA CreateFacts ==
    ASSUME NEW n, Sound(n), Owned(n), HasStack(n, StackPages), HasHeap(n), HasRoom(n, 3),
           NEW c \in Proc, c \notin DOMAIN n.dir
    PROVE  Created(Create(n, c), n, c, [n.dir[Kernel] EXCEPT !["low"] = None])
<1> DEFINE dirs == [n.dir[Kernel] EXCEPT !["low"] = None]
           tabs == [n.tab[Kernel] EXCEPT !["low"] = Null]
<1>1. /\ n.dir[Kernel] \in [Dir -> Frame \cup {None}] /\ n.tab[Kernel] \in [Dir -> VPage \cup {Null}]
    BY DEF Sound, Typed
<1>2. Inherited(n, dirs, tabs)
    BY <1>1 DEF Inherited, Dir
<1> HIDE DEF dirs, tabs
<1>3. Created(NewSpace(Room(n), c, dirs, tabs), n, c, dirs)
    BY <1>2, NewSpaceFacts
<1> QED
    BY <1>3 DEF Create, dirs, tabs

(* pg_copy_user_page_directory.                                               *)
LEMMA CopyFacts ==
    ASSUME NEW n, Sound(n), Owned(n), HasStack(n, StackPages), HasHeap(n), HasRoom(n, 3),
           NEW c \in Proc, c \notin DOMAIN n.dir, NEW s \in Running(n)
    PROVE  Created(CopySpace(n, s, c), n, c, n.dir[s])
<1>1. s \in DOMAIN n.dir
    BY DEF Running
<1>2. \A x \in {n.at[s]["dir"], n.at[s]["tab"]} : Fixed(n, x)
    BY <1>1, StructuresFixed
<1>3. Access(n, {n.at[s].dir, n.at[s].tab}) = n
    BY <1>2, AccessFixed
<1>4. n.dir[s] \in [Dir -> Frame \cup {None}] /\ n.tab[s] \in [Dir -> VPage \cup {Null}]
    BY <1>1 DEF Sound, Typed
<1>5. Inherited(n, n.dir[s], n.tab[s])
    BY <1>1, <1>4 DEF Inherited, Sound, Shared
<1>6. Created(NewSpace(Room(n), c, n.dir[s], n.tab[s]), n, c, n.dir[s])
    BY <1>5, NewSpaceFacts
<1> QED
    BY <1>3, <1>6 DEF CopySpace

-----------------------------------------------------------------------------
(* Messages, and the change of the space. *)

(* The console writes to the screen.                                          *)
LEMMA SaysFacts ==
    ASSUME NEW n, Sound(n),
           \/ text = <<"text", 0>> /\ HasText(n)
           \/ text = <<"low", TextFrame>> /\ HasLow(n) /\ n.active = Kernel
    PROVE  Says(n) = n
<1>1. 0 \in Slot /\ TextFrame \in Slot /\ TextFrame \in Frame
    BY Sizes DEF Slot, Frame
<1>2. <<"text", 0>> \in VPage /\ <<"low", TextFrame>> \in VPage
    BY <1>1, PageFacts DEF Dir
<1>3. LeadsTo(n, text, TextFrame) /\ KWalk(n, text) = TextFrame /\ text # Null
    <2>1. CASE text = <<"text", 0>> /\ HasText(n)
        <3>1. Fixed(n, text) /\ KWalk(n, text) = TextFrame
            BY <1>1, <1>2, <2>1 DEF HasText, Fixed
        <3> QED
            BY <1>2, <2>1, <3>1, FixedLeads, PageFacts
    <2>2. CASE text = <<"low", TextFrame>> /\ HasLow(n) /\ n.active = Kernel
        <3>1. KWalk(n, text) = TextFrame /\ Walk(n, n.active, text) = TextFrame
            BY <2>2 DEF HasLow, KWalk
        <3>2. \A x \in n.stale : <<x[1], x[2]>> # text
            BY <2>2 DEF HasLow
        <3> QED
            BY <1>1, <1>2, <2>2, <3>1, <3>2, PageFacts DEF LeadsTo
    <2> QED
        BY <2>1, <2>2
<1>4. Typed(n) /\ n.wild = FALSE
    BY DEF Sound, Typed
<1>5. Access(n, {text}) = n
    <2>1. (n.wild \/ \E v \in {text} : v = Null \/ ~ LeadsTo(n, v, Walk(n, Kernel, v))) = FALSE
        BY <1>3, <1>4 DEF KWalk
    <2> QED
        BY <1>4, <2>1, SameWild DEF Access
<1>6. (n.wild \/ ~ LeadsTo(n, text, TextFrame)) = FALSE
    BY <1>3, <1>4
<1> QED
    BY <1>4, <1>5, <1>6, SameWild DEF Says

(* r is n with another space in force.                                        *)
Activated(r, n, q) ==
    /\ Sound(r) /\ (Owned(n) => Owned(r))
    /\ r.dir = n.dir /\ r.tab = n.tab /\ r.at = n.at /\ r.table = n.table /\ r.free = n.free
    /\ r.heap = n.heap /\ r.idle = n.idle
    /\ r.active = q /\ r.stale = (IF n.active = q THEN n.stale ELSE {})
    /\ \A s, w : Walk(r, s, w) = Walk(n, s, w)

(* pg_activate_table.                                                         *)
LEMMA ActivateFacts ==
    ASSUME NEW n, Sound(n), NEW q \in DOMAIN n.dir
    PROVE  Activated(Activate(n, q), n, q)
<1> DEFINE r == IF n.active = q THEN n ELSE [n EXCEPT !.active = q, !.stale = {}]
<1>1. IsRecord(n) /\ Typed(n)
    BY DEF Sound, Typed, IsRecord
<1>2. /\ IsRecord(r)
      /\ r.dir = n.dir /\ r.tab = n.tab /\ r.at = n.at /\ r.table = n.table /\ r.free = n.free
      /\ r.heap = n.heap /\ r.idle = n.idle
      /\ r.active = q /\ r.stale = (IF n.active = q THEN n.stale ELSE {})
    BY <1>1 DEF IsRecord
<1>3. Activate(n, q) = Access(r, {n.at[q].stack})
    BY DEF Activate
<1> HIDE DEF r
<1>4. Typed(r) /\ r.stale \subseteq n.stale
    BY <1>1, <1>2 DEF Typed, IsRecord, InHeap
<1>5. /\ \A s, w : Walk(r, s, w) = Walk(n, s, w)
      /\ \A w : KWalk(r, w) = KWalk(n, w)
      /\ \A h : Frames(r, h) = Frames(n, h)
      /\ InHeap(r) = InHeap(n) /\ Running(r) = Running(n)
    BY <1>2 DEF Walk, KWalk, Frames, InHeap, Running
<1>6. Shared(r) /\ Known(r) /\ Apart(r) /\ Window(r) /\ HeapApart(r) /\ StackApart(r)
    BY <1>2, <1>5 DEF Sound, Shared, Known, Apart, Window, HeapApart, StackApart
<1>7. UserApart(r) /\ FreeApart(r)
    BY <1>2, <1>5 DEF Sound, UserApart, FreeApart
<1>8. Pointers(r) /\ Flushed(r)
    BY <1>2, <1>4, <1>5 DEF Sound, Pointers, InPage, Flushed
<1>9. Owned(n) => Owned(r)
    BY <1>2, <1>5 DEF Owned
<1>10. Sound(r)
    BY <1>4, <1>6, <1>7, <1>8 DEF Sound
<1>11. Access(r, {n.at[q].stack}) = r
    <2>1. Fixed(r, r.at[q]["stack"])
        BY <1>2, <1>10, StructuresFixed
    <2> QED
        BY <1>2, <1>10, <2>1, AccessFixed
<1>12. Activated(r, n, q)
    BY <1>2, <1>5, <1>9, <1>10 DEF Activated
<1> QED
    BY <1>3, <1>11, <1>12

(* r is n without space p.                                                    *)
Dropped(r, n, p) ==
    /\ Sound(r) /\ Running(r) = Running(n) \ {p}
    /\ r.table = n.table /\ r.free = n.free /\ r.heap = n.heap /\ r.idle = n.idle
    /\ r.active = n.active /\ r.stale = n.stale
    /\ \A q \in Running(r) : r.dir[q] = n.dir[q] /\ r.at[q] = n.at[q]
    /\ \A q \in DOMAIN r.dir : \A w : Walk(r, q, w) = Walk(n, q, w)
    /\ r.dir[Kernel] = n.dir[Kernel]

(* A space that is not in force is given up.                                  *)
LEMMA DropFacts ==
    ASSUME NEW n, Sound(n), NEW p \in Proc, n.active # p
    PROVE  Dropped([n EXCEPT !.dir = Drop(@, p), !.tab = Drop(@, p), !.at = Drop(@, p)], n, p)
<1> DEFINE r == [n EXCEPT !.dir = Drop(@, p), !.tab = Drop(@, p), !.at = Drop(@, p)]
<1>1. IsRecord(n) /\ Typed(n) /\ p # Kernel /\ Kernel \in DOMAIN n.dir
      /\ DOMAIN n.tab = DOMAIN n.dir /\ DOMAIN n.at = DOMAIN n.dir
    BY KernelAssumption DEF Sound, Typed, IsRecord
<1>2. /\ IsRecord(r)
      /\ r.dir = Drop(n.dir, p) /\ r.tab = Drop(n.tab, p) /\ r.at = Drop(n.at, p)
      /\ r.table = n.table /\ r.free = n.free /\ r.heap = n.heap /\ r.idle = n.idle
      /\ r.active = n.active /\ r.stale = n.stale
    BY <1>1 DEF IsRecord
<1> HIDE DEF r
<1>3. /\ DOMAIN r.dir = DOMAIN n.dir \ {p}
      /\ \A q \in DOMAIN r.dir : r.dir[q] = n.dir[q] /\ r.tab[q] = n.tab[q] /\ r.at[q] = n.at[q]
      /\ Kernel \in DOMAIN r.dir
    BY <1>1, <1>2 DEF Drop
<1>4. Typed(r)
    <2>1. /\ r.dir \in [DOMAIN r.dir -> [Dir -> Frame \cup {None}]]
          /\ r.tab \in [DOMAIN r.dir -> [Dir -> VPage \cup {Null}]]
          /\ r.at \in [DOMAIN r.dir -> [dir : VPage, tab : VPage, stack : VPage, phys : Frame]]
        BY <1>1, <1>2, <1>3 DEF Typed, Drop
    <2> QED
        BY <1>1, <1>2, <1>3, <2>1 DEF Typed, IsRecord, InHeap
<1>5. /\ \A q \in DOMAIN r.dir : \A w : Walk(r, q, w) = Walk(n, q, w)
      /\ Running(r) = Running(n) \ {p} /\ Running(r) \subseteq DOMAIN r.dir
    BY <1>2, <1>3 DEF Walk, Running
<1>6. /\ \A w : KWalk(r, w) = KWalk(n, w) /\ \A h : Frames(r, h) = Frames(n, h)
      /\ InHeap(r) = InHeap(n)
    BY <1>2, <1>3, <1>5 DEF KWalk, Frames, InHeap
<1>7. Shared(r) /\ Known(r) /\ Window(r) /\ HeapApart(r) /\ StackApart(r)
    BY <1>2, <1>3, <1>6 DEF Sound, Shared, Known, Window, HeapApart, StackApart
<1>8. Apart(r)
    BY <1>3 DEF Sound, Apart
<1>9. UserApart(r) /\ FreeApart(r)
    BY <1>2, <1>5, <1>6 DEF Sound, UserApart, FreeApart
<1>10. Pointers(r) /\ Flushed(r)
    BY <1>2, <1>3, <1>5, <1>6 DEF Sound, Pointers, InPage, Flushed
<1>11. Dropped(r, n, p)
    BY <1>2, <1>3, <1>4, <1>5, <1>7, <1>8, <1>9, <1>10 DEF Sound, Dropped
<1> QED
    BY <1>11 DEF r

-----------------------------------------------------------------------------
(* The end of a process. *)

(* The pages of a process become free.                                        *)
Returned(o, n, p) ==
    /\ Sound(o) /\ Resized(o, n) /\ o.heap = n.heap
    /\ \A h \in o.idle : h \in n.idle \/ \E f \in {"dir", "tab", "stack"} : n.at[p][f] = HeapPage(h)

(* The pages of a process go back to the heap while it is still active.      *)
LEMMA TerminatedFacts ==
    ASSUME NEW n, Sound(n), NEW p \in Running(n), text = <<"text", 0>>, HasText(n)
    PROVE  Returned(Terminated(n, p), n, p)
<1> DEFINE i == n.idle \cup {n.at[p].tab[2], n.at[p].dir[2], n.at[p].stack[2]}
           o == [n EXCEPT !.idle = i]
<1>1. p \in DOMAIN n.dir /\ Typed(n) /\ IsRecord(n)
    BY DEF Running, Sound, Typed, IsRecord
<1>2. Access(n, {n.at[p].tab, n.at[p].dir, n.at[p].stack}) = n
    <2>1. \A x \in {n.at[p]["tab"], n.at[p]["dir"], n.at[p]["stack"]} : Fixed(n, x)
        BY <1>1, StructuresFixed
    <2> QED
        BY <2>1, AccessFixed
<1>3. Terminated(n, p) = Says(o)
    BY <1>2 DEF Terminated
<1>4. \A f \in {"dir", "tab", "stack"} : n.at[p][f] = HeapPage(n.at[p][f][2]) /\ n.at[p][f][2] \in InHeap(n)
    BY DEF Sound, Pointers, HeapPage
<1>5. /\ i \subseteq InHeap(n)
      /\ \A h \in i : h \in n.idle \/ \E f \in {"dir", "tab", "stack"} : n.at[p][f] = HeapPage(h)
    <2>1. n.idle \subseteq InHeap(n)
        BY <1>1 DEF Typed
    <2>2. i = n.idle \cup {n.at[p]["tab"][2], n.at[p]["dir"][2], n.at[p]["stack"][2]}
        OBVIOUS
    <2> HIDE DEF i
    <2> QED
        BY <1>4, <2>1, <2>2
<1> HIDE DEF i
<1>6. Resized(o, n) /\ o.heap = n.heap /\ o.idle = i
    <2>1. o.heap = n.heap /\ o.idle = i
        BY <1>1 DEF IsRecord
    <2>2. o = [n EXCEPT !.heap = o.heap, !.idle = o.idle]
        BY <1>1, <2>1 DEF IsRecord
    <2> HIDE DEF o
    <2> QED
        BY <1>1, <2>1, <2>2, ResizedFacts
<1> HIDE DEF o
<1>7. Sound(o)
    <2>1. InHeap(o) = InHeap(n)
        BY <1>6 DEF InHeap
    <2> QED
        BY <1>5, <1>6, <2>1, ResizeKeeps DEF Extended
<1>8. HasText(o)
    BY <1>6 DEF HasText, Resized, KWalk
<1>9. Says(o) = o
    BY <1>7, <1>8, SaysFacts
<1> QED
    BY <1>3, <1>5, <1>6, <1>7, <1>9 DEF Returned

(* pr_terminate, pr_schedule, and the space of the process is given up.          *)
Exited(r, n, p, q) ==
    /\ Sound(r) /\ Owned(r) /\ Keeps(r, n, 0)
    /\ Running(r) = Running(n) \ {p} /\ r.active = q /\ r.stale = {}
    /\ \A s \in Running(r), i \in Slot : Walk(r, s, <<"low", i>>) = Walk(n, s, <<"low", i>>)

(* pr_terminate, and pr_schedule after it.                                   *)
LEMMA ExitFacts ==
    ASSUME NEW n, Sound(n), Owned(n), text = <<"text", 0>>, HasText(n),
           NEW p \in Running(n), n.active = p, NEW q \in Running(n), q # p,
           NEW a, a = Activate(Terminated(n, p), q),
           NEW r, r = [a EXCEPT !.dir = Drop(@, p), !.tab = Drop(@, p), !.at = Drop(@, p)]
    PROVE  Exited(r, n, p, q)
<1> DEFINE o == Terminated(n, p)
<1>1. Returned(o, n, p)
    BY TerminatedFacts
<1> HIDE DEF o
<1>2. /\ Sound(o) /\ o.dir = n.dir /\ o.tab = n.tab /\ o.at = n.at /\ o.table = n.table
      /\ o.free = n.free /\ o.active = n.active /\ o.stale = n.stale /\ o.heap = n.heap
      /\ \A s, w : Walk(o, s, w) = Walk(n, s, w)
      /\ \A h \in o.idle : h \in n.idle \/ \E f \in {"dir", "tab", "stack"} : n.at[p][f] = HeapPage(h)
    BY <1>1 DEF Returned, Resized
<1>3. q \in DOMAIN o.dir
    BY <1>2 DEF Running
<1>4. Activated(a, o, q)
    BY <1>2, <1>3, ActivateFacts DEF o
<1>5. /\ Sound(a) /\ a.dir = n.dir /\ a.tab = n.tab /\ a.at = n.at /\ a.table = n.table
      /\ a.free = n.free /\ a.heap = n.heap /\ a.idle = o.idle /\ a.active = q /\ a.stale = {}
      /\ \A s, w : Walk(a, s, w) = Walk(n, s, w)
    BY <1>2, <1>4 DEF Activated
<1>6. p \in Proc /\ Running(a) = Running(n)
    BY <1>5 DEF Running
<1>7. /\ Sound(r) /\ Running(r) = Running(n) \ {p}
      /\ r.table = n.table /\ r.free = n.free /\ r.heap = n.heap /\ r.idle = o.idle
      /\ r.active = q /\ r.stale = {}
      /\ \A s \in Running(r) : r.at[s] = n.at[s]
      /\ \A s \in DOMAIN r.dir : \A w : Walk(r, s, w) = Walk(n, s, w)
      /\ r.dir[Kernel] = n.dir[Kernel]
    <2>1. a.active # p
        BY <1>5
    <2>2. Dropped([a EXCEPT !.dir = Drop(@, p), !.tab = Drop(@, p), !.at = Drop(@, p)], a, p)
        BY <1>5, <1>6, <2>1, DropFacts
    <2>3. Dropped(r, a, p)
        BY <2>2
    <2> QED
        BY <1>5, <1>6, <2>3 DEF Dropped
<1>8. Kernel \in DOMAIN r.dir
    BY <1>7, Counts
<1>9. /\ \A w : KWalk(r, w) = KWalk(n, w)
      /\ \A h : Frames(r, h) = Frames(n, h)
      /\ InHeap(r) = InHeap(n) /\ Running(r) \subseteq DOMAIN r.dir
    BY <1>7, <1>8 DEF KWalk, Frames, InHeap, Running
<1>10. Owned(r)
    <2> DEFINE Parts == {"dir", "tab", "stack"}
    <2>1. n.idle \subseteq InHeap(n)
        BY Counts DEF Typed
    <2>2. \A f \in Parts : n.at[p][f] \in {HeapPage(h) : h \in InHeap(n)}
        BY DEF Sound, Pointers
    <2>3. ASSUME NEW h \in r.idle PROVE Frames(r, h) \notin DOMAIN r.table
        <3>1. CASE h \in n.idle
            BY <1>7, <1>9, <3>1 DEF Owned
        <3>2. ASSUME NEW f \in Parts, n.at[p][f] = HeapPage(h) PROVE Frames(n, h) \notin DOMAIN n.table
            <4>1. h \in InHeap(n)
                BY <2>2, <3>2 DEF HeapPage
            <4> QED
                BY <3>2, <4>1 DEF Owned
        <3> QED
            BY <1>2, <1>7, <1>9, <3>1, <3>2
    <2>4. ASSUME NEW s \in Running(r), NEW f \in Parts, NEW h \in InHeap(r), r.at[s][f] = HeapPage(h)
          PROVE  h \notin r.idle /\ Frames(r, h) \notin DOMAIN r.table
        <3>1. n.at[s][f] = HeapPage(h) /\ s # p /\ s \in Running(n)
            BY <1>7, <2>4
        <3>2. h \notin n.idle /\ Frames(n, h) \notin DOMAIN n.table
            BY <1>9, <3>1 DEF Owned
        <3>3. \A g \in Parts : n.at[p][g] # HeapPage(h)
            BY <3>1 DEF Owned
        <3> QED
            BY <1>2, <1>7, <1>9, <3>2, <3>3
    <2>5. \A s, t \in Running(r), f, g \in Parts : r.at[s][f] = r.at[t][g] => s = t /\ f = g
        BY <1>7 DEF Owned
    <2> QED
        BY <2>3, <2>4, <2>5 DEF Owned
<1>11. Keeps(r, n, 0)
    <2>1. n.heap \in Nat /\ Len(n.free) \in Nat /\ r.heap = n.heap /\ r.free = n.free
        BY <1>7, Counts
    <2>2. r.heap <= n.heap + 0 /\ Len(r.free) >= Len(n.free) - 0
        BY <2>1
    <2> QED
        BY <1>7, <1>9, <2>2, KernelKeeps
<1> QED
    BY <1>7, <1>9, <1>10, <1>11 DEF Exited

-----------------------------------------------------------------------------
(* The lower part. *)

(* r is n without a table in the lower part of s.                               *)
Removed(r, n, s) ==
    /\ Sound(r) /\ (Owned(n) => Owned(r))
    /\ r.dir = [n.dir EXCEPT ![s]["low"] = None] /\ r.tab = [n.tab EXCEPT ![s]["low"] = Null]
    /\ r.at = n.at /\ r.table = n.table /\ r.free = n.free /\ r.heap = n.heap /\ r.idle = n.idle
    /\ r.active = n.active
    /\ \A q \in DOMAIN n.dir, w \in VPage :
        Walk(r, q, w) = IF q = s /\ w[1] = "low" THEN None ELSE Walk(n, q, w)
    /\ \A x \in r.stale : x \in n.stale \/ (x[1] = "low" /\ Walk(n, s, <<"low", x[2]>>) = x[3])

(* The lower part of a space loses its table.                                *)
LEMMA RemovedFacts ==
    ASSUME NEW n, Sound(n), NEW s \in DOMAIN n.dir,
           NEW r, r = [StoreDir(n, s, "low", None) EXCEPT !.tab[s]["low"] = Null]
    PROVE  Removed(r, n, s)
<1> DEFINE more == {<<"low", i, Walk(n, s, <<"low", i>>)>> : i \in {k \in Slot :
                       s = n.active /\ Walk(n, s, <<"low", k>>) # None}}
           o == StoreDir(n, s, "low", None)
<1>1. IsRecord(n) /\ Typed(n) /\ Kernel \in DOMAIN n.dir /\ "low" \in Dir
      /\ n.dir \in [DOMAIN n.dir -> [Dir -> Frame \cup {None}]]
      /\ n.tab \in [DOMAIN n.dir -> [Dir -> VPage \cup {Null}]]
    BY DEF Sound, Typed, IsRecord, Dir
<1>2. o = [n EXCEPT !.dir[s]["low"] = None, !.stale = @ \cup more]
    BY DEF StoreDir
<1>3. /\ more \subseteq Dir \X Slot \X (Frame \cup {Junk})
      /\ \A x \in more : x[1] = "low" /\ Walk(n, s, <<"low", x[2]>>) = x[3]
    <2>1. ASSUME NEW k \in Slot, Walk(n, s, <<"low", k>>) # None
          PROVE  Walk(n, s, <<"low", k>>) \in Frame \cup {Junk}
        <3>1. n.dir[s]["low"] # None /\ Walk(n, s, <<"low", k>>) = n.table[n.dir[s]["low"]][k]
            BY <2>1 DEF Walk
        <3>2. n.dir[s]["low"] \in DOMAIN n.table
            BY <1>1, <3>1 DEF Sound, Known
        <3>3. n.table[n.dir[s]["low"]] \in [Slot -> Frame \cup {None, Junk}]
            BY <1>1, <3>2 DEF Typed
        <3> QED
            BY <2>1, <3>1, <3>3
    <2>2. ASSUME NEW x \in more
          PROVE  x \in Dir \X Slot \X (Frame \cup {Junk}) /\ x[1] = "low" /\ Walk(n, s, <<"low", x[2]>>) = x[3]
        <3>1. PICK k \in Slot : Walk(n, s, <<"low", k>>) # None /\ x = <<"low", k, Walk(n, s, <<"low", k>>)>>
            OBVIOUS
        <3>2. Walk(n, s, <<"low", k>>) \in Frame \cup {Junk} /\ "low" \in Dir
            BY <1>1, <2>1, <3>1
        <3> QED
            BY <3>1, <3>2
    <2> HIDE DEF more
    <2> QED
        BY <2>2
<1> HIDE DEF more
<1>4. /\ IsRecord(o) /\ o.dir = [n.dir EXCEPT ![s]["low"] = None] /\ o.tab = n.tab
      /\ o.at = n.at /\ o.table = n.table /\ o.free = n.free /\ o.heap = n.heap /\ o.idle = n.idle
      /\ o.active = n.active /\ o.stale = n.stale \cup more
    BY <1>1, <1>2 DEF IsRecord
<1>5. r = [o EXCEPT !.tab[s]["low"] = Null]
    OBVIOUS
<1> HIDE DEF o
<1>6. /\ IsRecord(r)
      /\ r.dir = [n.dir EXCEPT ![s]["low"] = None] /\ r.tab = [n.tab EXCEPT ![s]["low"] = Null]
      /\ r.at = n.at /\ r.table = n.table /\ r.free = n.free /\ r.heap = n.heap /\ r.idle = n.idle
      /\ r.active = n.active /\ r.stale = n.stale \cup more
    BY <1>4, <1>5 DEF IsRecord
<1>7. DOMAIN r.dir = DOMAIN n.dir /\ \A q \in DOMAIN n.dir, d \in Dir :
        /\ r.dir[q][d] = IF q = s /\ d = "low" THEN None ELSE n.dir[q][d]
        /\ r.tab[q][d] = IF q = s /\ d = "low" THEN Null ELSE n.tab[q][d]
    BY <1>1, <1>6
<1>8. Typed(r)
    <2>1. /\ r.dir \in [DOMAIN r.dir -> [Dir -> Frame \cup {None}]]
          /\ r.tab \in [DOMAIN r.dir -> [Dir -> VPage \cup {Null}]]
        <3>1. [n.dir EXCEPT ![s]["low"] = None] \in [DOMAIN n.dir -> [Dir -> Frame \cup {None}]]
            BY <1>1
        <3>2. [n.tab EXCEPT ![s]["low"] = Null] \in [DOMAIN n.dir -> [Dir -> VPage \cup {Null}]]
            BY <1>1
        <3> QED
            BY <1>6, <1>7, <3>1, <3>2
    <2>2. r.stale \subseteq Dir \X Slot \X (Frame \cup {Junk})
        <3>1. n.stale \subseteq Dir \X Slot \X (Frame \cup {Junk})
            BY <1>1 DEF Typed
        <3> QED
            BY <1>3, <1>6, <3>1
    <2>3. {Kernel, r.active} \subseteq DOMAIN r.dir /\ DOMAIN r.dir \subseteq Proc \cup {Kernel}
          /\ r.at \in [DOMAIN r.dir -> [dir : VPage, tab : VPage, stack : VPage, phys : Frame]]
          /\ r.table \in [DOMAIN r.table -> [Slot -> Frame \cup {None, Junk}]]
          /\ DOMAIN r.table \subseteq Frame /\ r.free \in Seq(Frame)
          /\ r.heap \in 0 .. E /\ r.idle \subseteq InHeap(r)
        BY <1>1, <1>6, <1>7 DEF Typed, InHeap
    <2> QED
        BY <1>6, <2>1, <2>2, <2>3 DEF Typed, IsRecord
<1>9. ASSUME NEW q \in DOMAIN n.dir, NEW w \in VPage
      PROVE  Walk(r, q, w) = IF q = s /\ w[1] = "low" THEN None ELSE Walk(n, q, w)
    <2>1. w[1] \in Dir
        BY PageFacts
    <2> QED
        BY <1>6, <1>7, <2>1 DEF Walk
<1>10. \A i \in Slot, q \in DOMAIN n.dir : Walk(r, q, <<"low", i>>) \in {None, Walk(n, q, <<"low", i>>)}
    BY <1>9, PageFacts DEF Dir
<1>11. \A w \in VPage : w[1] # "low" => KWalk(r, w) = KWalk(n, w)
    BY <1>1, <1>9 DEF KWalk
<1>12. /\ InHeap(r) = InHeap(n) /\ Running(r) = Running(n) /\ Running(n) \subseteq DOMAIN n.dir
       /\ \A h \in InHeap(n) : Frames(r, h) = Frames(n, h)
    <2>1. \A h \in InHeap(n) : HeapPage(h) \in VPage /\ HeapPage(h)[1] = "heap"
        BY <1>1, HeapSlots DEF HeapPage
    <2> QED
        BY <1>6, <1>7, <1>11, <2>1 DEF InHeap, Running, Frames
<1>13. \A i \in Slot : KWalk(r, <<"window", i>>) = KWalk(n, <<"window", i>>)
                       /\ KWalk(r, <<"stack", i>>) = KWalk(n, <<"stack", i>>)
    <2>1. "window" \in Dir /\ "stack" \in Dir
        BY DEF Dir
    <2>2. \A i \in Slot : /\ <<"window", i>> \in VPage /\ <<"window", i>>[1] # "low"
                          /\ <<"stack", i>> \in VPage /\ <<"stack", i>>[1] # "low"
        BY <2>1, PageFacts
    <2> QED
        BY <1>11, <2>2
<1>14. Shared(r) /\ Known(r) /\ Apart(r)
    BY <1>1, <1>6, <1>7 DEF Sound, Shared, Known, Apart
<1>15. Window(r)
    <2>1. (0 .. K + 4) \cup (E - 4 .. E - 1) \subseteq Slot
        BY Sizes DEF Slot
    <2>2. r.dir[Kernel]["window"] = n.dir[Kernel]["window"] /\ r.tab[Kernel]["window"] = n.tab[Kernel]["window"]
        BY <1>1, <1>7 DEF Dir
    <2> QED
        BY <1>6, <1>13, <2>1, <2>2 DEF Sound, Window
<1>16. HeapApart(r) /\ StackApart(r)
    BY <1>11, <1>12, <1>13 DEF Sound, HeapApart, StackApart
<1>17. UserApart(r)
    <2>1. ASSUME NEW q \in Running(n), NEW i \in Slot
          PROVE  \/ Walk(r, q, <<"low", i>>) = None
                 \/ /\ Walk(r, q, <<"low", i>>) \in FreeKind
                    /\ \A h \in InHeap(n) : Frames(r, h) # Walk(r, q, <<"low", i>>)
        <3>1. CASE Walk(r, q, <<"low", i>>) = None
            BY <3>1
        <3>2. CASE Walk(r, q, <<"low", i>>) = Walk(n, q, <<"low", i>>)
            BY <1>12, <3>2 DEF Sound, UserApart
        <3> QED
            BY <1>10, <1>12, <3>1, <3>2
    <2> QED
        BY <1>12, <2>1 DEF UserApart
<1>18. FreeApart(r)
    <2>1. FreeApart(n) /\ \A k \in DOMAIN n.free : n.free[k] # None
        <3>1. FreeApart(n) /\ \A k \in DOMAIN n.free : n.free[k] \in FreeKind
            BY DEF Sound, FreeApart
        <3> QED
            BY <3>1, KindFacts
    <2>2. \A i \in DOMAIN n.free, q \in Running(n), k \in Slot : Walk(r, q, <<"low", k>>) # n.free[i]
        <3>1. ASSUME NEW i \in DOMAIN n.free, NEW q \in Running(n), NEW k \in Slot
              PROVE  Walk(r, q, <<"low", k>>) # n.free[i]
            <4>1. Walk(n, q, <<"low", k>>) # n.free[i] /\ n.free[i] # None
                BY <2>1 DEF FreeApart
            <4>2. Walk(r, q, <<"low", k>>) \in {None, Walk(n, q, <<"low", k>>)}
                BY <1>10, <1>12
            <4> QED
                BY <4>1, <4>2
        <3> QED
            BY <3>1
    <2> QED
        BY <1>6, <1>12, <2>1, <2>2 DEF FreeApart
<1>19. Pointers(r)
    <2>1. \A q \in DOMAIN n.dir, e \in Dir : InPage(n, q, e) /\ ~ (q = s /\ e = "low") => InPage(r, q, e)
        BY <1>7, <1>12 DEF InPage
    <2>2. /\ \A q \in DOMAIN r.dir, e \in Dir : r.dir[q][e] = None <=> r.tab[q][e] = Null
          /\ \A q \in DOMAIN r.dir : r.dir[q]["low"] # None =>
                InPage(r, q, "low") \/ (r.dir[q]["low"] = LowFrame /\ r.tab[q]["low"] = <<"window", E - 1>>)
        BY <1>7, <2>1 DEF Sound, Pointers, Dir
    <2>3. E - 5 \in Slot
        BY Sizes DEF Slot
    <2>4. /\ r.dir[Kernel]["text"] # None => InPage(r, Kernel, "text")
          /\ r.dir[Kernel]["stack"] # None =>
              r.dir[Kernel]["stack"] = FirstFree /\ r.tab[Kernel]["stack"] = <<"window", K + 4>>
          /\ r.dir[Kernel]["heap"] # None =>
              /\ r.tab[Kernel]["heap"] = HeapTablePage
              /\ KWalk(r, HeapTablePage) = r.dir[Kernel]["heap"]
        <3>1. \A d \in {"text", "stack", "heap"} :
                d \in Dir /\ r.dir[Kernel][d] = n.dir[Kernel][d] /\ r.tab[Kernel][d] = n.tab[Kernel][d]
            BY <1>1, <1>7 DEF Dir
        <3>2. InPage(n, Kernel, "text") => InPage(r, Kernel, "text")
            BY <1>1, <2>1, <3>1
        <3>3. KWalk(r, HeapTablePage) = KWalk(n, HeapTablePage)
            BY <1>13, <2>3 DEF HeapTablePage
        <3> QED
            BY <3>1, <3>2, <3>3 DEF Sound, Pointers
    <2>5. ASSUME NEW q \in Running(n)
          PROVE  /\ \A e \in {"dir", "tab", "stack"} : r.at[q][e] \in {HeapPage(h) : h \in InHeap(r)}
                 /\ KWalk(r, r.at[q].dir) = r.at[q].phys
        <3>1. /\ \A e \in {"dir", "tab", "stack"} : n.at[q][e] \in {HeapPage(h) : h \in InHeap(n)}
              /\ KWalk(n, n.at[q].dir) = n.at[q].phys
            BY DEF Sound, Pointers
        <3>2. PICK h \in InHeap(n) : n.at[q]["dir"] = HeapPage(h)
            BY <3>1
        <3>3. KWalk(r, n.at[q].dir) = KWalk(n, n.at[q].dir)
            BY <1>12, <3>2 DEF Frames
        <3> QED
            BY <1>6, <1>12, <3>1, <3>3
    <2> QED
        BY <1>12, <2>2, <2>4, <2>5 DEF Pointers
<1>20. Flushed(r)
    BY <1>3, <1>6 DEF Sound, Flushed
<1>21. Owned(n) => Owned(r)
    <2>1. n.idle \subseteq InHeap(n)
        BY <1>1 DEF Typed
    <2> QED
        BY <1>6, <1>12, <2>1 DEF Owned
<1>22. \A x \in r.stale : x \in n.stale \/ (x[1] = "low" /\ Walk(n, s, <<"low", x[2]>>) = x[3])
    BY <1>3, <1>6
<1> QED
    BY <1>6, <1>8, <1>9, <1>14, <1>15, <1>16, <1>17, <1>18, <1>19, <1>20, <1>21, <1>22
       DEF Removed, Sound

(* invlpg keeps the invariant.                                                *)
LEMMA FlushKeeps ==
    ASSUME NEW n, Sound(n), NEW v, NEW r, Flushes(r, n, v)
    PROVE  Sound(r) /\ (Owned(n) => Owned(r))
<1>1. Typed(r) /\ Alike(r, n) /\ \A q, w : Walk(r, q, w) = Walk(n, q, w)
    BY DEF Flushes, Alike
<1>2. Flushed(r)
    BY DEF Sound, Flushed, Flushes
<1>3. /\ Running(r) = Running(n) /\ InHeap(r) = InHeap(n) /\ \A w : KWalk(r, w) = KWalk(n, w)
      /\ \A h : Frames(r, h) = Frames(n, h)
    BY <1>1 DEF Alike, Running, InHeap, KWalk, Frames
<1>4. StackApart(r) /\ UserApart(r)
    BY <1>1, <1>3 DEF Sound, StackApart, UserApart
<1>5. FreeApart(r)
    BY <1>1, <1>3 DEF Sound, FreeApart, Alike
<1> QED
    BY <1>1, <1>2, <1>3, <1>4, <1>5, AlikeKeeps

(* pg_remove_pagetable of the kernel's lower part.                             *)
LowRemoved(r, n) ==
    /\ Sound(r) /\ (Owned(n) => Owned(r)) /\ Keeps(r, n, 0)
    /\ DOMAIN r.dir = DOMAIN n.dir /\ r.active = n.active

(* What main() has set up is still there without a table in the lower part.     *)
LEMMA RemovedKeeps ==
    ASSUME NEW n, Sound(n), NEW s \in DOMAIN n.dir, NEW r, Removed(r, n, s)
    PROVE  Keeps(r, n, 0) /\ DOMAIN r.dir = DOMAIN n.dir
<1>1. /\ Kernel \in DOMAIN n.dir /\ n.heap \in Nat /\ Len(n.free) \in Nat
      /\ n.dir \in [DOMAIN n.dir -> [Dir -> Frame \cup {None}]]
    BY Counts DEF Sound, Typed
<1>2. DOMAIN r.dir = DOMAIN n.dir /\ r.heap = n.heap /\ r.free = n.free
    BY <1>1 DEF Removed
<1>3. \A d \in Dir \ {"low"} : r.dir[Kernel][d] = n.dir[Kernel][d]
    BY <1>1 DEF Removed
<1>4. \A w \in VPage : w[1] \in {"stack", "text"} => KWalk(r, w) = KWalk(n, w)
    BY <1>1 DEF Removed, KWalk
<1>5. r.heap <= n.heap + 0 /\ Len(r.free) >= Len(n.free) - 0 /\ 0 \in Nat
    BY <1>1, <1>2
<1>6. r.dir[Kernel]["stack"] = n.dir[Kernel]["stack"] /\ r.dir[Kernel]["heap"] = n.dir[Kernel]["heap"]
    BY <1>3 DEF Dir
<1>7. Sound(r)
    BY DEF Removed
<1> QED
    BY <1>2, <1>4, <1>5, <1>6, <1>7, KernelKeeps

(* A change of the translation buffer does not matter to that.                 *)
LEMMA FlushedKeeps ==
    ASSUME NEW n, NEW v, NEW r, Flushes(r, n, v)
    PROVE  \A o, k : Keeps(n, o, k) => Keeps(r, o, k)
<1>1. /\ r.dir = n.dir /\ r.heap = n.heap /\ r.free = n.free /\ \A w : KWalk(r, w) = KWalk(n, w)
    BY DEF Flushes, KWalk
<1> QED
    BY <1>1 DEF Keeps, HasStack, HasHeap, HasText, HasRoom

(* pg_remove_pagetable.                                                      *)
LEMMA PgRemoveFacts ==
    ASSUME NEW n, Sound(n), NEW i
    PROVE  LowRemoved(PgRemove(n, Kernel, <<"low", i>>), n)
<1> DEFINE v == <<"low", i>>
           o == [StoreDir(n, Kernel, "low", None) EXCEPT !.tab[Kernel]["low"] = Null]
           r == Invalidate(o, {v})
<1>1. Kernel \in DOMAIN n.dir
    BY Counts
<1>2. PgRemove(n, Kernel, v) = r
    BY DEF PgRemove
<1>3. Removed(o, n, Kernel)
    BY <1>1, RemovedFacts
<1> HIDE DEF o
<1>4. Sound(o) /\ (Owned(n) => Owned(o)) /\ Typed(o) /\ o.active = n.active
    BY <1>3 DEF Removed, Sound
<1>5. Flushes(r, o, v)
    BY <1>4, InvalidateFacts
<1> HIDE DEF r, v
<1>6. Sound(r) /\ (Owned(o) => Owned(r))
    BY <1>4, <1>5, FlushKeeps
<1>7. Keeps(o, n, 0) /\ DOMAIN o.dir = DOMAIN n.dir
    BY <1>1, <1>3, RemovedKeeps
<1>8. Keeps(r, n, 0)
    BY <1>5, <1>7, FlushedKeeps
<1>9. r.dir = o.dir /\ r.active = o.active
    BY <1>5 DEF Flushes
<1>10. LowRemoved(r, n)
    BY <1>4, <1>6, <1>7, <1>8, <1>9 DEF LowRemoved
<1> QED
    BY <1>2, <1>10 DEF v

(* A process has a table of its own, with the entries of the one it shared; in  *)
(* the translation buffer is nothing that it has not been mapped to.            *)
TableCopied(r, n, p) ==
    /\ Sound(r) /\ Owned(r) /\ Keeps(r, n, 1)
    /\ DOMAIN r.dir = DOMAIN n.dir /\ r.active = n.active /\ r.dir[p]["low"] # None
    /\ \A i \in Slot :
        /\ Walk(r, p, <<"low", i>>) = Walk(n, p, <<"low", i>>)
        /\ \A q \in Running(n) :
            Walk(r, q, <<"low", i>>) \in {Walk(n, q, <<"low", i>>), Walk(n, p, <<"low", i>>)}
    /\ \A x \in r.stale : x \in n.stale \/ (x[1] = "low" /\ Walk(n, p, <<"low", x[2]>>) = x[3])

(* A table gets the entries of another one.                                    *)
LEMMA EntriesCopied ==
    ASSUME NEW n, Sound(n), Owned(n), NEW p \in Running(n), NEW o \in Running(n),
           n.dir[p]["low"] # None, n.dir[o]["low"] # None, NEW r,
           r = [n EXCEPT !.table[n.dir[p]["low"]] = n.table[n.dir[o]["low"]]]
    PROVE  /\ Sound(r) /\ Owned(r) /\ Alike(r, n) /\ r.stale = n.stale
           /\ \A w \in VPage : w[1] # "low" => KWalk(r, w) = KWalk(n, w)
           /\ \A i \in Slot :
                /\ Walk(r, p, <<"low", i>>) = Walk(n, o, <<"low", i>>)
                /\ \A q \in Running(n) :
                    Walk(r, q, <<"low", i>>) \in {Walk(n, q, <<"low", i>>), Walk(n, o, <<"low", i>>)}
<1> DEFINE t == n.dir[p]["low"]
           u == n.dir[o]["low"]
<1>1. Typed(n) /\ IsRecord(n) /\ Running(n) \subseteq DOMAIN n.dir /\ Kernel \in DOMAIN n.dir /\ "low" \in Dir
    BY DEF Sound, Typed, IsRecord, Running, Dir
<1>2. t \in DOMAIN n.table /\ u \in DOMAIN n.table /\ t # None /\ u # None
    BY <1>1 DEF Sound, Known
<1>3. n.table \in [DOMAIN n.table -> [Slot -> Frame \cup {None, Junk}]]
    BY <1>1 DEF Typed
<1> HIDE DEF t, u
<1>4. r = [n EXCEPT !.table[t] = n.table[u]]
    BY DEF t, u
<1>5. /\ IsRecord(r) /\ r.dir = n.dir /\ r.tab = n.tab /\ r.at = n.at /\ r.free = n.free
      /\ r.heap = n.heap /\ r.idle = n.idle /\ r.active = n.active /\ r.stale = n.stale
      /\ r.table = [n.table EXCEPT ![t] = n.table[u]]
    BY <1>1, <1>4 DEF IsRecord
<1>6. /\ r.table \in [DOMAIN n.table -> [Slot -> Frame \cup {None, Junk}]]
      /\ DOMAIN r.table = DOMAIN n.table
      /\ \A x \in DOMAIN n.table : r.table[x] = IF x = t THEN n.table[u] ELSE n.table[x]
    <2> DEFINE y == n.table[u]
    <2>1. y \in [Slot -> Frame \cup {None, Junk}]
        BY <1>2, <1>3
    <2>2. r.table = [n.table EXCEPT ![t] = y]
        BY <1>5
    <2> HIDE DEF y
    <2>4. r.table \in [DOMAIN n.table -> [Slot -> Frame \cup {None, Junk}]]
        BY <1>3, <2>1, <2>2
    <2>5. DOMAIN r.table = DOMAIN n.table
        BY <1>3, <2>2
    <2>3. \A x \in DOMAIN n.table : r.table[x] = IF x = t THEN y ELSE n.table[x]
        BY <1>2, <1>3, <2>2
    <2> QED
        BY <2>3, <2>4, <2>5 DEF y
<1>7. Typed(r) /\ Alike(r, n)
    BY <1>1, <1>5, <1>6 DEF Typed, IsRecord, InHeap, Alike
<1>8. ASSUME NEW q \in DOMAIN n.dir, NEW d \in Dir, NEW i
      PROVE  Walk(r, q, <<d, i>>) = IF n.dir[q][d] = t THEN n.table[u][i] ELSE Walk(n, q, <<d, i>>)
    <2>1. n.dir[q][d] # None => n.dir[q][d] \in DOMAIN n.table
        BY DEF Sound, Known
    <2> QED
        BY <1>2, <1>5, <1>6, <2>1 DEF Walk
<1>9. \A i : Walk(n, o, <<"low", i>>) = n.table[u][i]
    BY <1>2 DEF Walk, u
<1>10. ASSUME NEW w \in VPage, w[1] # "low", NEW q \in DOMAIN n.dir PROVE Walk(r, q, w) = Walk(n, q, w)
    <2>1. w = <<w[1], w[2]>> /\ w[1] \in Dir
        BY PageFacts
    <2>2. n.dir[q][w[1]] # t
        BY <1>1, <1>2, <1>10, <2>1 DEF Sound, Apart, t
    <2>3. Walk(r, q, <<w[1], w[2]>>) = Walk(n, q, <<w[1], w[2]>>)
        BY <1>8, <2>1, <2>2
    <2> QED
        BY <2>1, <2>3
<1>11. \A i, q : q \in DOMAIN n.dir =>
          Walk(r, q, <<"low", i>>) \in {Walk(n, q, <<"low", i>>), Walk(n, o, <<"low", i>>)}
    BY <1>1, <1>8, <1>9
<1>12. \A i : Walk(r, p, <<"low", i>>) = Walk(n, o, <<"low", i>>)
    BY <1>1, <1>8, <1>9 DEF t
<1>13. /\ Running(r) = Running(n) /\ InHeap(r) = InHeap(n)
       /\ \A w \in VPage : w[1] # "low" => KWalk(r, w) = KWalk(n, w)
       /\ \A h \in InHeap(n) : Frames(r, h) = Frames(n, h)
    <2>1. \A h \in InHeap(n) : HeapPage(h) \in VPage /\ HeapPage(h)[1] = "heap"
        BY <1>1, HeapSlots DEF HeapPage
    <2> QED
        BY <1>1, <1>5, <1>10, <2>1 DEF Running, InHeap, KWalk, Frames
<1> HIDE DEF t, u
<1>14. Flushed(r) /\ StackApart(r)
    <2>1. \A i \in Slot : <<"stack", i>> \in VPage /\ <<"stack", i>>[1] = "stack"
        BY PageFacts DEF Dir
    <2> QED
        BY <1>5, <1>13, <2>1 DEF Sound, Flushed, StackApart
<1>15. UserApart(r)
    <2>1. ASSUME NEW q \in Running(n), NEW i \in Slot
          PROVE  \/ Walk(r, q, <<"low", i>>) = None
                 \/ /\ Walk(r, q, <<"low", i>>) \in FreeKind
                    /\ \A h \in InHeap(n) : Frames(r, h) # Walk(r, q, <<"low", i>>)
        <3>1. PICK x \in Running(n) : Walk(r, q, <<"low", i>>) = Walk(n, x, <<"low", i>>)
            BY <1>1, <1>11
        <3>2. UserApart(n)
            BY DEF Sound
        <3>3. \/ Walk(n, x, <<"low", i>>) = None
              \/ /\ Walk(n, x, <<"low", i>>) \in FreeKind
                 /\ \A h \in InHeap(n) : Frames(n, h) # Walk(n, x, <<"low", i>>)
            BY <3>2 DEF UserApart
        <3> QED
            BY <1>13, <3>1, <3>3
    <2>2. ASSUME NEW q \in Running(r), NEW i \in Slot
          PROVE  \/ Walk(r, q, <<"low", i>>) = None
                 \/ /\ Walk(r, q, <<"low", i>>) \in FreeKind
                    /\ \A h \in InHeap(r) : Frames(r, h) # Walk(r, q, <<"low", i>>)
        <3>1. q \in Running(n) /\ InHeap(r) = InHeap(n)
            BY <1>13
        <3> QED
            BY <2>1, <3>1
    <2> QED
        BY <2>2 DEF UserApart
<1>16. FreeApart(r)
    <2>1. \A i \in DOMAIN n.free, q \in Running(n), k \in Slot : Walk(r, q, <<"low", k>>) # n.free[i]
        <3>1. ASSUME NEW q \in Running(n), NEW k \in Slot
              PROVE  \E x \in Running(n) : Walk(r, q, <<"low", k>>) = Walk(n, x, <<"low", k>>)
            <4>1. Walk(r, q, <<"low", k>>) \in {Walk(n, q, <<"low", k>>), Walk(n, o, <<"low", k>>)}
                BY <1>1, <1>11
            <4> QED
                BY <4>1
        <3>2. \A i \in DOMAIN n.free, x \in Running(n), k \in Slot : Walk(n, x, <<"low", k>>) # n.free[i]
            BY DEF Sound, FreeApart
        <3>3. ASSUME NEW i \in DOMAIN n.free, NEW q \in Running(n), NEW k \in Slot
              PROVE  Walk(r, q, <<"low", k>>) # n.free[i]
            <4>1. PICK x \in Running(n) : Walk(r, q, <<"low", k>>) = Walk(n, x, <<"low", k>>)
                BY <3>1
            <4> QED
                BY <3>2, <4>1
        <3> QED
            BY <3>3
    <2> QED
        <3>1. FreeApart(n)
            BY DEF Sound
        <3> QED
            <4>1. /\ Len(r.free) <= M - First
                  /\ \A i, k \in DOMAIN r.free : r.free[i] = r.free[k] => i = k
                BY <1>5, <3>1 DEF FreeApart
            <4>2. ASSUME NEW i \in DOMAIN r.free
                  PROVE  /\ r.free[i] \in FreeKind /\ r.free[i] \notin DOMAIN r.table
                         /\ \A h \in InHeap(r) : Frames(r, h) # r.free[i]
                         /\ \A q \in Running(r), k \in Slot : Walk(r, q, <<"low", k>>) # r.free[i]
                <5>1. /\ n.free[i] \in FreeKind /\ n.free[i] \notin DOMAIN n.table
                      /\ \A h \in InHeap(n) : Frames(n, h) # n.free[i]
                    BY <1>5, <3>1, <4>2 DEF FreeApart
                <5>2. \A h \in InHeap(r) : Frames(r, h) # n.free[i]
                    BY <1>13, <5>1
                <5>3. \A q \in Running(r), k \in Slot : Walk(r, q, <<"low", k>>) # n.free[i]
                    BY <1>5, <1>13, <2>1, <4>2
                <5> QED
                    BY <1>5, <1>6, <5>1, <5>2, <5>3
            <4> QED
                BY <4>1, <4>2 DEF FreeApart
<1>17. Sound(r) /\ Owned(r)
    BY <1>7, <1>13, <1>14, <1>15, <1>16, AlikeKeeps
<1> QED
    BY <1>1, <1>5, <1>7, <1>11, <1>12, <1>13, <1>17

(* What pg_resolve_fault reads of all processes can be read.                     *)
LEMMA SearchFacts ==
    ASSUME NEW n, Sound(n)
    PROVE  /\ ReadEntry(n) = n /\ ReadEntries(n) = n
           /\ (\A q \in Running(n) : n.dir[q]["low"] # None) => ReadTables(n) = n
<1>1. n.active \in DOMAIN n.dir /\ Programs(n) = Running(n) /\ Running(n) \subseteq DOMAIN n.dir /\ Typed(n)
    BY DEF Sound, Typed, Programs, Running
<1>2. \A q \in DOMAIN n.dir : Fixed(n, n.at[q]["stack"]) /\ Fixed(n, n.at[q]["dir"]) /\ Fixed(n, n.at[q]["tab"])
    BY StructuresFixed
<1>3. ReadEntry(n) = n
    <2>1. \A v \in {n.at[n.active].stack, n.at[n.active].dir, n.at[n.active].tab} : Fixed(n, v)
        BY <1>1, <1>2
    <2> QED
        BY <2>1, AccessFixed DEF ReadEntry
<1>4. ReadEntries(n) = n
    <2>1. \A v \in UNION {{n.at[q].stack, n.at[q].dir} : q \in Programs(n)} : Fixed(n, v)
        BY <1>1, <1>2
    <2> QED
        BY <2>1, AccessFixed DEF ReadEntries
<1>5. ASSUME \A q \in Running(n) : n.dir[q]["low"] # None PROVE ReadTables(n) = n
    <2>1. \A q \in Programs(n) : AccessTable(n, q, "low") = n
        BY <1>1, <1>5, AccessTableFixed DEF Dir
    <2>2. n.wild = FALSE
        BY <1>1 DEF Typed
    <2>3. (n.wild \/ \E q \in Programs(n) : AccessTable(ReadEntries(n), q, "low").wild) = FALSE
        BY <1>4, <2>1, <2>2
    <2> QED
        BY <1>1, <2>3, SameWild DEF ReadTables
<1> QED
    BY <1>3, <1>4, <1>5

(* The first part of pg_resolve_fault, on a shared table.                       *)
LEMMA CopyTableFacts ==
    ASSUME NEW n, Sound(n), Owned(n), HasStack(n, StackPages), HasHeap(n), HasRoom(n, 1),
           NEW i \in Slot, NEW last \in Running(n), n.active \in Running(n), last # n.active,
           n.dir[last]["low"] = n.dir[n.active]["low"], n.dir[last]["low"] # None
    PROVE  TableCopied(CopyTable(n, <<"low", i>>, last), n, n.active)
<1> DEFINE p == n.active
           v == <<"low", i>>
           o == [StoreDir(n, p, "low", None) EXCEPT !.tab[p]["low"] = Null]
           a == SetupHeapTable(o, p, v)
           r == [a EXCEPT !.table[a.dir[p]["low"]] = a.table[a.dir[last]["low"]]]
<1>1. /\ p \in Running(n) /\ p \in DOMAIN n.dir /\ last \in DOMAIN n.dir /\ "low" \in Dir
      /\ Kernel \in DOMAIN n.dir /\ p # Kernel /\ last # Kernel
      /\ n.heap \in Nat /\ Len(n.free) \in Nat
      /\ n.dir \in [DOMAIN n.dir -> [Dir -> Frame \cup {None}]]
    BY KernelAssumption, Counts DEF Running, Dir, Sound, Typed
<1>2. v \in VPage /\ v[1] = "low" /\ v[2] = i
    BY <1>1, PageFacts
<1>3. CopyTable(n, v, last) =
        LET b == AccessTable(AccessTable(a, last, "low"), p, "low") IN
        IF b.wild THEN b ELSE [b EXCEPT !.table[b.dir[p]["low"]] = b.table[b.dir[last]["low"]]]
    <2>1. ReadEntries(n) = n
        BY SearchFacts
    <2> QED
        BY <2>1 DEF CopyTable
<1>4. Removed(o, n, p)
    BY <1>1, RemovedFacts
<1> HIDE DEF o
<1>5. /\ Sound(o) /\ Owned(o) /\ o.active = n.active /\ DOMAIN o.dir = DOMAIN n.dir
      /\ o.dir[p]["low"] = None /\ o.dir[last]["low"] = n.dir[last]["low"]
      /\ \A e \in Dir \ {"low"} : o.dir[Kernel][e] = n.dir[Kernel][e]
      /\ o.heap = n.heap /\ o.free = n.free
      /\ \A q \in DOMAIN n.dir, w \in VPage :
            Walk(o, q, w) = IF q = p /\ w[1] = "low" THEN None ELSE Walk(n, q, w)
      /\ \A x \in o.stale : x \in n.stale \/ (x[1] = "low" /\ Walk(n, p, <<"low", x[2]>>) = x[3])
    BY <1>1, <1>4 DEF Removed
<1>6. HasStack(o, StackPages) /\ HasHeap(o) /\ HasRoom(o, 1)
    <2>1. Keeps(o, n, 0)
        BY <1>1, <1>4, RemovedKeeps
    <2> QED
        BY <1>5, <2>1 DEF Keeps, HasRoom
<1>7. NewTable(a, o, p, v)
    BY <1>1, <1>2, <1>5, <1>6, NewTableFacts
<1> HIDE DEF a, v
<1>8. /\ Sound(a) /\ Owned(a) /\ Typed(a)
      /\ DOMAIN a.dir = DOMAIN n.dir /\ a.active = n.active
      /\ a.heap \in Nat /\ n.heap <= a.heap /\ a.heap <= n.heap + 1
      /\ Len(a.free) >= Len(n.free) - 1
      /\ a.dir[p]["low"] # None /\ a.dir[last]["low"] # None
      /\ \A e \in Dir \ {"low"} : a.dir[Kernel][e] = n.dir[Kernel][e]
      /\ \A q \in DOMAIN n.dir, w \in VPage :
           w[1] # "heap" =>
              Walk(a, q, w) = IF q = p /\ w[1] = "low" THEN None ELSE Walk(n, q, w)
      /\ \A x \in a.stale : x \in n.stale \/ (x[1] = "low" /\ Walk(n, p, <<"low", x[2]>>) = x[3])
    BY <1>1, <1>2, <1>5, <1>7 DEF NewTable, Sound
<1>9. AccessTable(AccessTable(a, last, "low"), p, "low") = a /\ a.wild = FALSE
    <2>1. AccessTable(a, last, "low") = a /\ AccessTable(a, p, "low") = a
        BY <1>1, <1>8, AccessTableFixed
    <2> QED
        BY <1>8, <2>1 DEF Typed
<1>10. CopyTable(n, v, last) = r
    BY <1>3, <1>9
<1> HIDE DEF r
<1>11. Running(a) = Running(n)
    BY <1>8 DEF Running
<1>12. /\ Sound(r) /\ Owned(r) /\ Alike(r, a) /\ r.stale = a.stale
       /\ \A w \in VPage : w[1] # "low" => KWalk(r, w) = KWalk(a, w)
       /\ \A j \in Slot :
            /\ Walk(r, p, <<"low", j>>) = Walk(a, last, <<"low", j>>)
            /\ \A q \in Running(n) :
                Walk(r, q, <<"low", j>>) \in {Walk(a, q, <<"low", j>>), Walk(a, last, <<"low", j>>)}
    BY <1>1, <1>8, <1>11, EntriesCopied DEF r
<1>13. ASSUME NEW j \in Slot
       PROVE  /\ Walk(a, last, <<"low", j>>) = Walk(n, p, <<"low", j>>)
              /\ \A q \in Running(n) : q # p => Walk(a, q, <<"low", j>>) = Walk(n, q, <<"low", j>>)
              /\ Walk(r, p, <<"low", j>>) = Walk(n, p, <<"low", j>>)
              /\ \A q \in Running(n) :
                    Walk(r, q, <<"low", j>>) \in {Walk(n, q, <<"low", j>>), Walk(n, p, <<"low", j>>)}
    <2>1. <<"low", j>> \in VPage /\ <<"low", j>>[1] = "low" /\ <<"low", j>>[1] # "heap"
        BY <1>1, PageFacts
    <2>2. Walk(n, last, <<"low", j>>) = Walk(n, p, <<"low", j>>)
        BY DEF Walk
    <2>3. \A q \in Running(n) : q # p => Walk(a, q, <<"low", j>>) = Walk(n, q, <<"low", j>>)
        BY <1>8, <2>1 DEF Running
    <2>4. Walk(a, last, <<"low", j>>) = Walk(n, p, <<"low", j>>)
        BY <2>2, <2>3
    <2>5. Walk(r, p, <<"low", j>>) = Walk(n, p, <<"low", j>>)
        BY <1>12, <2>4
    <2> QED
        BY <1>12, <2>3, <2>4, <2>5
<1>14. Keeps(r, n, 1)
    <2>1. \A w \in VPage : w[1] \in {"stack", "text"} => KWalk(r, w) = KWalk(n, w)
        BY <1>1, <1>8, <1>12 DEF KWalk
    <2>2. r.dir = a.dir /\ r.heap = a.heap /\ r.free = a.free
        BY <1>12 DEF Alike
    <2>3. r.dir[Kernel]["stack"] = n.dir[Kernel]["stack"] /\ r.dir[Kernel]["heap"] = n.dir[Kernel]["heap"]
        BY <1>8, <2>2 DEF Dir
    <2> QED
        BY <1>8, <1>12, <2>1, <2>2, <2>3, KernelKeeps
<1>15. TableCopied(r, n, p)
    BY <1>8, <1>12, <1>13, <1>14 DEF TableCopied, Alike
<1> QED
    BY <1>10, <1>15 DEF v

(* A spare frame stays spare when a page outside the heap changes.              *)
LEMMA WrittenSpare ==
    ASSUME NEW n, Sound(n), NEW s \in DOMAIN n.dir, NEW v \in VPage, n.dir[s][v[1]] # None, v[1] # "heap",
           NEW f, NEW r, Written(r, n, s, v, f), NEW g, Spare(n, g), v[1] = "low" => f # g
    PROVE  Spare(r, g)
<1>1. /\ Running(r) = Running(n) /\ InHeap(r) = InHeap(n) /\ Running(n) \subseteq DOMAIN n.dir
      /\ Kernel \in DOMAIN n.dir /\ DOMAIN r.table = DOMAIN n.table /\ r.free = n.free /\ Typed(n)
    BY Counts DEF Written, Running, InHeap
<1>2. \A q \in DOMAIN n.dir, w \in VPage : w # v => Walk(r, q, w) = Walk(n, q, w)
    BY WalkElsewhere DEF Sound
<1>3. ASSUME NEW h \in InHeap(n) PROVE Frames(r, h) = Frames(n, h)
    <2>1. HeapPage(h) \in VPage /\ HeapPage(h) # v
        BY <1>1, HeapSlots DEF HeapPage
    <2> QED
        BY <1>1, <1>2, <2>1 DEF Frames, KWalk
<1>4. ASSUME NEW q \in Running(n), NEW i \in Slot PROVE Walk(r, q, <<"low", i>>) # g
    <2>1. <<"low", i>> \in VPage /\ <<"low", i>>[1] = "low" /\ q \in DOMAIN n.dir
        BY <1>1, PageFacts DEF Dir
    <2>2. Walk(n, q, <<"low", i>>) # g
        BY DEF Spare
    <2>3. CASE <<"low", i>> = v
        BY <2>1, <2>2, <2>3 DEF Written
    <2>4. CASE <<"low", i>> # v
        BY <1>2, <2>1, <2>2, <2>4
    <2> QED
        BY <2>3, <2>4
<1> QED
    BY <1>1, <1>3, <1>4 DEF Spare

(* Page v of the active process leads to another frame.                        *)
PageCopied(r, n, v) ==
    /\ Sound(r) /\ Owned(r) /\ Keeps(r, n, 1) /\ Coherent(r)
    /\ DOMAIN r.dir = DOMAIN n.dir /\ r.active = n.active
    /\ \A q \in DOMAIN n.dir, i \in Slot :
        Walk(r, q, <<"low", i>>) = Walk(n, q, <<"low", i>>) \/ Walk(r, q, <<"low", i>>) \in Frame

(* The second part of pg_resolve_fault.                                       *)
LEMMA CopyPageFacts ==
    ASSUME NEW n, Sound(n), Owned(n), HasStack(n, StackPages), Len(n.free) >= 1, Coherent(n),
           NEW i \in Slot, Walk(n, n.active, <<"low", i>>) \in Frame,
           \A q \in Running(n) : n.dir[q]["low"] # None
    PROVE  PageCopied(CopyPage(n, <<"low", i>>), n, <<"low", i>>)
<1> DEFINE p == n.active
           v == <<"low", i>>
           f == Top(n)
           o == Popped(n)
           a == MapIn(o, p, TempPage, f)
           b == PgUnmap(a, p, TempPage)
           c == PgUnmap(b, p, v)
           r == MapIn(c, p, v, f)
<1>1. /\ p \in DOMAIN n.dir /\ Kernel \in DOMAIN n.dir /\ Typed(n) /\ n.heap \in Nat /\ Len(n.free) \in Nat
      /\ n.stale \subseteq Dir \X Slot \X (Frame \cup {Junk})
    BY Counts DEF Typed
<1>2. v \in VPage /\ v[1] = "low" /\ v[2] = i
    BY PageFacts DEF Dir
<1>3. TempPage \in VPage /\ TempPage[1] = "window" /\ \A w \in VPage : w[1] # "window" => w # TempPage
    <2>1. TempSlot \in Slot
        BY Sizes DEF Slot
    <2> QED
        BY <2>1, PageFacts DEF TempPage, Dir
<1>4. /\ Sound(o) /\ Owned(o) /\ Alloc(o, n) /\ Spare(o, f) /\ Len(o.free) = Len(n.free) - 1
    BY PoppedFacts
<1> HIDE DEF o, f
<1>5. /\ o.dir = n.dir /\ o.active = n.active /\ o.stale = n.stale /\ o.heap = n.heap
      /\ \A q, w : Walk(o, q, w) = Walk(n, q, w)
      /\ f \in Frame /\ f # None
    <2>1. f \in Frame /\ f # None
        <3>1. f \in FreeKind
            BY <1>4 DEF Spare
        <3> QED
            BY <3>1, Sizes DEF FreeKind, Frame, None
    <2> QED
        BY <1>4, <2>1 DEF Alloc
<1>6. n.dir[p]["window"] # None /\ n.dir[p]["low"] # None
    <2>1. n.dir[p]["window"] = WindowFrame
        BY <1>1 DEF Sound, Shared, Window, Dir
    <2>2. n.dir[p]["low"] = None => Walk(n, p, v) = None
        BY <1>2 DEF Walk
    <2> QED
        BY <2>1, <2>2, Sizes DEF Frame, None
<1>7. Mapped(a, o, p, TempPage, f)
    BY <1>1, <1>3, <1>4, <1>5, <1>6, MapInFacts
<1> HIDE DEF a
<1>8. /\ Sound(a) /\ Owned(a) /\ Spare(a, f) /\ a.dir = n.dir /\ a.active = p /\ a.free = o.free
      /\ a.heap = n.heap /\ a.stale \subseteq n.stale /\ Typed(a) /\ KWalk(a, TempPage) = f
      /\ \A q \in DOMAIN n.dir, w \in VPage : w # TempPage => Walk(a, q, w) = Walk(n, q, w)
    <2>1. Free(o, TempPage) /\ TempPage[1] # "stack" /\ TempPage[1] # "low" /\ TempPage[1] # "heap"
        BY <1>3 DEF Free
    <2>2. Sound(a) /\ Owned(a)
        BY <1>1, <1>3, <1>4, <1>5, <1>6, <1>7, <2>1, MapKeeps
    <2>3. Written(a, o, p, TempPage, f) /\ a.stale \subseteq o.stale
        BY <1>7 DEF Mapped
    <2>4. Spare(a, f)
        BY <1>1, <1>3, <1>4, <1>5, <1>6, <2>1, <2>3, WrittenSpare
    <2>5. \A q \in DOMAIN n.dir, w \in VPage : w # TempPage => Walk(a, q, w) = Walk(n, q, w)
        BY <1>1, <1>3, <1>4, <1>5, <1>6, <2>3, WalkElsewhere DEF Sound
    <2>6. KWalk(a, TempPage) = f
        <3>1. n.dir[Kernel]["window"] = n.dir[p]["window"]
            BY <1>1 DEF Sound, Shared, Dir
        <3> QED
            BY <1>1, <1>3, <1>5, <2>3, <3>1 DEF Written, KWalk
    <2> QED
        BY <1>5, <2>2, <2>3, <2>4, <2>5, <2>6 DEF Written
<1>9. Access(a, {TempPage}) = a
    <2>1. Fixed(a, TempPage)
        BY <1>3, <1>5, <1>8 DEF Fixed
    <2> QED
        BY <1>8, <2>1, AccessFixed
<1>10. LeadsTo(a, v, Walk(n, p, v))
    <2>1. Walk(a, p, v) = Walk(n, p, v)
        BY <1>1, <1>2, <1>3, <1>8
    <2>2. ASSUME NEW x \in a.stale, <<x[1], x[2]>> = v PROVE x[3] = Walk(n, p, v)
        BY <1>2, <1>8, <2>2 DEF Coherent
    <2> QED
        BY <1>2, <1>8, <2>1, <2>2 DEF LeadsTo
<1>11. Walk(n, p, v) = Walk(o, p, v) /\ a.wild = FALSE
    BY <1>5, <1>8 DEF Typed
<1>12. [a EXCEPT !.wild = @ \/ ~ LeadsTo(a, v, Walk(n, p, v))] = a
    <2>1. (a.wild \/ ~ LeadsTo(a, v, Walk(n, p, v))) = FALSE
        BY <1>10, <1>11
    <2> QED
        BY <1>8, <2>1, SameWild
<1>13. CopyPage(n, v) = r
    BY <1>9, <1>12, SearchFacts DEF CopyPage, o, f, a
<1>14. Mapped(b, a, p, TempPage, None)
    BY <1>1, <1>3, <1>6, <1>8, UnmapFacts
<1> HIDE DEF b
<1>15. /\ Sound(b) /\ Owned(b) /\ Spare(b, f) /\ b.dir = n.dir /\ b.active = p /\ b.free = o.free
       /\ b.heap = n.heap /\ b.stale \subseteq n.stale
       /\ \A q \in DOMAIN n.dir, w \in VPage : w # TempPage => Walk(b, q, w) = Walk(n, q, w)
    <2>1. Free(a, TempPage) /\ TempPage[1] # "stack" /\ TempPage[1] # "low" /\ TempPage[1] # "heap"
        BY <1>3 DEF Free
    <2>2. Sound(b) /\ Owned(b)
        BY <1>1, <1>3, <1>6, <1>8, <1>14, <2>1, MapKeeps
    <2>3. Written(b, a, p, TempPage, None) /\ b.stale \subseteq a.stale
        BY <1>14 DEF Mapped
    <2>4. Spare(b, f)
        BY <1>1, <1>3, <1>6, <1>8, <2>1, <2>3, WrittenSpare
    <2>5. \A q \in DOMAIN n.dir, w \in VPage : w # TempPage => Walk(b, q, w) = Walk(a, q, w)
        BY <1>1, <1>3, <1>6, <1>8, <2>3, WalkElsewhere DEF Sound
    <2> QED
        BY <1>8, <2>2, <2>3, <2>4, <2>5 DEF Written
<1>16. Mapped(c, b, p, v, None)
    BY <1>1, <1>2, <1>6, <1>15, UnmapFacts
<1> HIDE DEF c
<1>17. /\ Sound(c) /\ Owned(c) /\ Spare(c, f) /\ c.dir = n.dir /\ c.active = p /\ c.free = o.free
       /\ c.heap = n.heap /\ c.stale \subseteq n.stale
       /\ \A q \in DOMAIN n.dir, w \in VPage : w # TempPage /\ w # v => Walk(c, q, w) = Walk(n, q, w)
       /\ \A q \in DOMAIN n.dir : n.dir[q]["low"] # n.dir[p]["low"] => Walk(c, q, v) = Walk(n, q, v)
    <2>1. Sound(c) /\ Owned(c)
        BY <1>1, <1>2, <1>6, <1>15, <1>16, MapKeeps
    <2>3. Written(c, b, p, v, None) /\ c.stale \subseteq b.stale
        BY <1>16 DEF Mapped
    <2>4. Spare(c, f)
        BY <1>1, <1>2, <1>5, <1>6, <1>15, <2>3, WrittenSpare
    <2>5. \A q \in DOMAIN n.dir, w \in VPage : w # v => Walk(c, q, w) = Walk(b, q, w)
        BY <1>1, <1>2, <1>6, <1>15, <2>3, WalkElsewhere DEF Sound
    <2>6. \A q \in DOMAIN n.dir : n.dir[q]["low"] # n.dir[p]["low"] => Walk(c, q, v) = Walk(n, q, v)
        BY <1>2, <1>3, <1>15, <2>3 DEF Written
    <2> QED
        BY <1>15, <2>1, <2>3, <2>4, <2>5, <2>6 DEF Written
<1>18. Mapped(r, c, p, v, f)
    BY <1>1, <1>2, <1>5, <1>6, <1>17, MapInFacts
<1> HIDE DEF r
<1>19. Sound(r) /\ Owned(r)
    <2>1. f \in FreeKind /\ (\A h \in InHeap(c) : Frames(c, h) # f) /\ \A k \in DOMAIN c.free : c.free[k] # f
        BY <1>17 DEF Spare
    <2> QED
        BY <1>1, <1>2, <1>5, <1>6, <1>17, <1>18, <2>1, MapKeeps
<1>20. /\ Written(r, c, p, v, f) /\ r.dir = n.dir /\ r.active = p /\ r.heap = n.heap /\ r.free = o.free
       /\ r.stale \subseteq n.stale /\ \A x \in r.stale : <<x[1], x[2]>> # v
    BY <1>17, <1>18 DEF Mapped, Written
<1>21. \A q \in DOMAIN n.dir, w \in VPage : w # TempPage /\ w # v => Walk(r, q, w) = Walk(n, q, w)
    <2>1. \A q \in DOMAIN n.dir, w \in VPage : w # v => Walk(r, q, w) = Walk(c, q, w)
        BY <1>1, <1>2, <1>6, <1>17, <1>20, WalkElsewhere DEF Sound
    <2> QED
        BY <1>17, <2>1
<1>22. \A q \in DOMAIN n.dir : Walk(r, q, v) \in Frame \/ Walk(r, q, v) = Walk(n, q, v)
    BY <1>2, <1>5, <1>17, <1>20 DEF Written
<1>23. ASSUME NEW q \in DOMAIN n.dir, NEW j \in Slot
       PROVE  /\ j # i => Walk(r, q, <<"low", j>>) = Walk(n, q, <<"low", j>>)
              /\ Walk(r, q, <<"low", j>>) = Walk(n, q, <<"low", j>>) \/ Walk(r, q, <<"low", j>>) \in Frame
    <2>1. <<"low", j>> \in VPage /\ <<"low", j>>[1] = "low" /\ <<"low", j>>[1] # "window" /\ <<"low", j>>[2] = j
        BY PageFacts DEF Dir
    <2> QED
        BY <1>2, <1>3, <1>21, <1>22, <2>1
<1>24. Coherent(r)
    <2>1. ASSUME NEW x \in r.stale, x[1] = "low" PROVE Walk(r, p, <<"low", x[2]>>) = x[3]
        <3>1. x \in n.stale /\ x[2] \in Slot
            BY <1>1, <1>20
        <3>2. x[2] # i
            BY <1>20, <2>1
        <3> QED
            BY <1>1, <1>23, <2>1, <3>1, <3>2 DEF Coherent
    <2> QED
        BY <1>20, <2>1 DEF Coherent
<1>25. Keeps(r, n, 1)
    <2>1. \A w \in VPage : w[1] \in {"stack", "text"} => KWalk(r, w) = KWalk(n, w)
        BY <1>1, <1>2, <1>3, <1>21 DEF KWalk
    <2>2. r.heap <= n.heap + 1 /\ Len(r.free) >= Len(n.free) - 1
        BY <1>1, <1>4, <1>20
    <2> QED
        BY <1>19, <1>20, <2>1, <2>2, KernelKeeps
<1>26. PageCopied(r, n, v)
    BY <1>19, <1>20, <1>23, <1>24, <1>25 DEF PageCopied
<1> QED
    BY <1>13, <1>26 DEF v

-----------------------------------------------------------------------------
(* The heap is set up. *)

(* r is n with a table for the heap that nobody has cleared.                   *)
HeapEntered(r, n, f) ==
    /\ Typed(r)
    /\ r.dir = [n.dir EXCEPT ![Kernel]["heap"] = f]
    /\ r.tab = [n.tab EXCEPT ![Kernel]["heap"] = HeapTablePage]
    /\ r.at = n.at /\ r.free = n.free /\ r.heap = n.heap /\ r.idle = n.idle /\ r.active = n.active
    /\ DOMAIN r.table = DOMAIN n.table \cup {f}
    /\ r.stale \subseteq n.stale
    /\ KWalk(r, HeapTablePage) = f
    /\ \A w \in VPage : w[1] # "heap" /\ w # HeapTablePage => KWalk(r, w) = KWalk(n, w)

(* The table of the heap, not cleared, is sound.                             *)
LEMMA HeapEnteredKeeps ==
    ASSUME NEW n, Sound(n), Alone(n), Untouched(n), HasLow(n), NEW f, Spare(n, f),
           NEW r, HeapEntered(r, n, f)
    PROVE  Sound(r) /\ Owned(r)
<1>1. /\ Typed(n) /\ DOMAIN n.dir = {Kernel} /\ n.heap = 0 /\ n.idle = {}
      /\ n.dir \in [{Kernel} -> [Dir -> Frame \cup {None}]]
      /\ n.tab \in [{Kernel} -> [Dir -> VPage \cup {Null}]]
      /\ "heap" \in Dir /\ n.dir[Kernel]["heap"] = None
    <2>1. Typed(n) /\ DOMAIN n.dir = {Kernel} /\ n.heap = 0 /\ "heap" \in Dir /\ n.dir[Kernel]["heap"] = None
        BY DEF Sound, Alone, Untouched, Dir
    <2>2. n.idle = {}
        <3>1. n.idle \subseteq InHeap(n) /\ \A h : h \in InHeap(n) <=> h \in Nat /\ h < n.heap
            BY <2>1, HeapSlots DEF Typed
        <3> QED
            BY <2>1, <3>1
    <2>3. /\ n.dir \in [DOMAIN n.dir -> [Dir -> Frame \cup {None}]]
          /\ n.tab \in [DOMAIN n.dir -> [Dir -> VPage \cup {Null}]]
        BY <2>1 DEF Typed
    <2> QED
        BY <2>1, <2>2, <2>3
<1>2. /\ Typed(r) /\ DOMAIN r.dir = {Kernel} /\ r.heap = 0 /\ r.idle = {} /\ r.free = n.free
      /\ r.at = n.at /\ r.active = n.active
      /\ DOMAIN r.table = DOMAIN n.table \cup {f}
      /\ \A d \in Dir :
          /\ r.dir[Kernel][d] = IF d = "heap" THEN f ELSE n.dir[Kernel][d]
          /\ r.tab[Kernel][d] = IF d = "heap" THEN HeapTablePage ELSE n.tab[Kernel][d]
    BY <1>1 DEF HeapEntered
<1>3. InHeap(n) = {} /\ InHeap(r) = {} /\ Running(n) = {} /\ Running(r) = {}
    BY <1>1, <1>2, KernelAssumption DEF InHeap, Running
<1>4. f \in FreeKind /\ f \notin DOMAIN n.table /\ f # None /\ \A i \in DOMAIN n.free : n.free[i] # f
    <2>1. f \in FreeKind /\ f \notin DOMAIN n.table /\ \A i \in DOMAIN n.free : n.free[i] # f
        BY DEF Spare
    <2> QED
        BY <2>1, Sizes DEF FreeKind, None
<1>5. \A d \in Dir : n.dir[Kernel][d] # None => n.dir[Kernel][d] \in DOMAIN n.table /\ n.dir[Kernel][d] # f
    BY <1>1, <1>4 DEF Sound, Known
<1>6. Shared(r) /\ Known(r)
    BY <1>2, <1>5 DEF Shared, Known
<1>7. Apart(r)
    BY <1>1, <1>2, <1>5 DEF Sound, Apart
<1>8. \A i \in Slot : KWalk(r, <<"stack", i>>) = KWalk(n, <<"stack", i>>)
                      /\ (i # E - 5 => KWalk(r, <<"window", i>>) = KWalk(n, <<"window", i>>))
    <2>1. ASSUME NEW i \in Slot, NEW d \in {"stack", "window"}, d = "window" => i # E - 5
          PROVE  KWalk(r, <<d, i>>) = KWalk(n, <<d, i>>)
        <3>1. <<d, i>> \in VPage /\ <<d, i>>[1] # "heap" /\ <<d, i>> # HeapTablePage
            BY <2>1, PageFacts DEF Dir, HeapTablePage
        <3> QED
            BY <3>1 DEF HeapEntered
    <2> QED
        BY <2>1
<1>9. Window(r)
    <2>1. \A i \in (0 .. K + 4) \cup (E - 4 .. E - 1) : i \in Slot /\ i # E - 5
        BY Sizes DEF Slot
    <2>2. r.dir[Kernel]["window"] = n.dir[Kernel]["window"] /\ r.tab[Kernel]["window"] = n.tab[Kernel]["window"]
        BY <1>2 DEF Dir
    <2> QED
        BY <1>2, <1>8, <2>1, <2>2 DEF Sound, Window
<1>10. HeapApart(r) /\ StackApart(r) /\ UserApart(r)
    <2>1. f # Junk
        BY <1>4, Sizes DEF FreeKind, Junk
    <2>2. \A w \in VPage : KWalk(r, w) = Junk => w[1] \in {"low", "heap"}
        BY <2>1 DEF HeapEntered, Sound, StackApart
    <2> QED
        BY <1>3, <1>8, <2>2 DEF Sound, HeapApart, StackApart, UserApart
<1>11. FreeApart(r)
    BY <1>2, <1>3, <1>4 DEF Sound, FreeApart
<1>12. Pointers(r)
    <2>1. \A d \in Dir : r.dir[Kernel][d] = None <=> r.tab[Kernel][d] = Null
        <3>1. \A d \in Dir : n.dir[Kernel][d] = None <=> n.tab[Kernel][d] = Null
            BY <1>1 DEF Sound, Pointers
        <3>2. HeapTablePage # Null
            BY DEF HeapTablePage, Null
        <3> QED
            BY <1>2, <1>4, <3>1, <3>2
    <2>2. r.dir[Kernel]["low"] = LowFrame /\ r.tab[Kernel]["low"] = <<"window", E - 1>>
        <3>1. n.dir[Kernel]["low"] = LowFrame /\ LowFrame # None
            BY Sizes DEF HasLow, None
        <3>2. n.tab[Kernel]["low"] = <<"window", E - 1>>
            BY <1>1, <1>3, <3>1 DEF Sound, Pointers, InPage
        <3> QED
            BY <1>2, <3>1, <3>2 DEF Dir
    <2>3. r.dir[Kernel]["text"] = None
        BY <1>2 DEF Untouched, Dir
    <2>4. r.dir[Kernel]["stack"] # None =>
            r.dir[Kernel]["stack"] = FirstFree /\ r.tab[Kernel]["stack"] = <<"window", K + 4>>
        BY <1>2 DEF Sound, Pointers, Dir
    <2>5. r.tab[Kernel]["heap"] = HeapTablePage /\ KWalk(r, HeapTablePage) = r.dir[Kernel]["heap"]
        BY <1>1, <1>2 DEF HeapEntered
    <2> QED
        BY <1>2, <1>3, <2>1, <2>2, <2>3, <2>4, <2>5 DEF Pointers
<1>13. Flushed(r)
    BY <1>1, <1>2 DEF Sound, Flushed, HeapEntered
<1>14. Owned(r)
    BY <1>2, <1>3 DEF Owned
<1> QED
    BY <1>2, <1>6, <1>7, <1>9, <1>10, <1>11, <1>12, <1>13, <1>14 DEF Sound

(* The directory entry, the pointer, and the table as it was found.             *)
HeapEntry(n) ==
    LET f == Top(n)
        a == Store(AccessTable(Popped(n), Kernel, "window"), Kernel, HeapTablePage, f)
    IN  [StoreDir(a, Kernel, "heap", f) EXCEPT
            !.tab[Kernel]["heap"] = HeapTablePage,
            !.table = Put(@, f, [i \in Slot |-> Junk])]

(* setup_heap enters it first, and takes its frame.                          *)
LEMMA HeapEntryFacts ==
    ASSUME NEW n, Sound(n), HasStack(n, StackPages), Len(n.free) >= 1, Untouched(n), Alone(n)
    PROVE  /\ HeapEntered(Invalidate(HeapEntry(n), {HeapTablePage}), Popped(n), Top(n))
           /\ Invalidate(HeapEntry(n), {HeapTablePage}).free = HeapEntry(n).free
<1> DEFINE f == Top(n)
           o == Popped(n)
           a == Store(o, Kernel, HeapTablePage, f)
           d == StoreDir(a, Kernel, "heap", f)
           e == [d EXCEPT !.tab[Kernel]["heap"] = HeapTablePage]
           junk == [i \in Slot |-> Junk]
           b == [e EXCEPT !.table = Put(@, f, junk)]
           r == Invalidate(b, {HeapTablePage})
<1>1. /\ Sound(o) /\ Alloc(o, n) /\ Spare(o, f)
    BY PoppedFacts
<1> HIDE DEF o, f
<1>2. /\ o.dir = n.dir /\ Typed(o) /\ Kernel \in DOMAIN o.dir
      /\ "heap" \in Dir /\ "window" \in Dir /\ o.heap = n.heap /\ n.heap = 0 /\ DOMAIN o.dir = {Kernel}
      /\ n.dir[Kernel]["heap"] = None
    BY <1>1, Counts DEF Alloc, Sound, Dir, Untouched, Alone
<1>3. f \in FreeKind /\ f \in Frame /\ f # None /\ f \notin DOMAIN o.table
    <2>1. f \in FreeKind /\ f \notin DOMAIN o.table
        BY <1>1 DEF Spare
    <2> QED
        BY <2>1, KindFacts
<1>4. HeapTablePage \in VPage /\ HeapTablePage[1] = "window"
    <2>1. E - 5 \in Slot
        BY Sizes DEF Slot
    <2> QED
        BY <2>1, PageFacts DEF HeapTablePage, Dir
<1>5. o.dir[Kernel]["window"] # None
    <2>1. o.dir[Kernel]["window"] = WindowFrame
        BY <1>1 DEF Sound, Window
    <2> QED
        BY <2>1, Sizes DEF None
<1>6. AccessTable(o, Kernel, "window") = o
    BY <1>1, <1>2, <1>5, AccessTableFixed
<1>7. /\ Written(a, o, Kernel, HeapTablePage, f)
      /\ \A x \in a.stale : x \in o.stale \/ <<x[1], x[2]>> = HeapTablePage
    BY <1>1, <1>2, <1>3, <1>4, <1>5, StoreFacts DEF Sound
<1>8. HeapEntry(n) = b
    <2>1. HeapEntry(n) =
            [StoreDir(Store(AccessTable(o, Kernel, "window"), Kernel, HeapTablePage, f), Kernel, "heap", f)
                EXCEPT !.tab[Kernel]["heap"] = HeapTablePage, !.table = Put(@, f, junk)]
        BY DEF HeapEntry, o, f
    <2>2. [d EXCEPT !.tab[Kernel]["heap"] = HeapTablePage, !.table = Put(@, f, junk)] = b
        OBVIOUS
    <2> HIDE DEF b
    <2> QED
        BY <1>6, <2>1, <2>2
<1> HIDE DEF a
<1>9. /\ Typed(a) /\ a.dir = o.dir /\ a.tab = o.tab /\ a.at = o.at /\ a.free = o.free
      /\ a.heap = o.heap /\ a.idle = o.idle /\ a.active = o.active /\ DOMAIN a.table = DOMAIN o.table
      /\ \A w \in VPage :
          KWalk(a, w) = IF o.dir[Kernel][w[1]] = o.dir[Kernel]["window"] /\ w[2] = HeapTablePage[2]
                        THEN f ELSE KWalk(o, w)
    BY <1>2, <1>4, <1>7 DEF Written, KWalk
<1>10. Entered(e, a, Kernel, "heap", HeapTablePage, f)
    BY <1>2, <1>9, EntryFacts
<1> HIDE DEF e, d, junk
<1>11. /\ IsRecord(e) /\ e.dir = [o.dir EXCEPT ![Kernel]["heap"] = f]
       /\ e.tab = [o.tab EXCEPT ![Kernel]["heap"] = HeapTablePage]
       /\ e.at = o.at /\ e.free = o.free /\ e.heap = o.heap /\ e.idle = o.idle /\ e.active = o.active
       /\ e.table = a.table /\ e.stale = a.stale
    BY <1>9, <1>10 DEF Entered
<1>12. /\ IsRecord(b) /\ b.dir = e.dir /\ b.tab = e.tab /\ b.at = e.at /\ b.free = e.free /\ b.heap = e.heap
       /\ b.idle = e.idle /\ b.active = e.active /\ b.stale = a.stale /\ b.table = Put(a.table, f, junk)
    BY <1>11 DEF IsRecord
<1> HIDE DEF b
<1>13. junk \in [Slot -> Frame \cup {None, Junk}]
    BY DEF junk
<1>14. Typed(b)
    <2>1. /\ b.table \in [DOMAIN b.table -> [Slot -> Frame \cup {None, Junk}]] /\ DOMAIN b.table \subseteq Frame
        <3>1. a.table \in [DOMAIN a.table -> [Slot -> Frame \cup {None, Junk}]] /\ DOMAIN a.table \subseteq Frame
            BY <1>9 DEF Typed
        <3> QED
            BY <1>3, <1>12, <1>13, <3>1 DEF Put
    <2>2. /\ DOMAIN b.dir = DOMAIN o.dir /\ b.dir \in [DOMAIN o.dir -> [Dir -> Frame \cup {None}]]
          /\ b.tab \in [DOMAIN o.dir -> [Dir -> VPage \cup {Null}]]
        <3>1. /\ o.dir \in [DOMAIN o.dir -> [Dir -> Frame \cup {None}]]
              /\ o.tab \in [DOMAIN o.dir -> [Dir -> VPage \cup {Null}]]
            BY <1>2 DEF Typed
        <3>2. [o.dir EXCEPT ![Kernel]["heap"] = f] \in [DOMAIN o.dir -> [Dir -> Frame \cup {None}]]
            BY <1>2, <1>3, <3>1
        <3>3. [o.tab EXCEPT ![Kernel]["heap"] = HeapTablePage] \in [DOMAIN o.dir -> [Dir -> VPage \cup {Null}]]
            BY <1>2, <1>4, <3>1
        <3> QED
            BY <1>2, <1>11, <1>12, <3>2, <3>3
    <2>3. /\ {Kernel, b.active} \subseteq DOMAIN b.dir /\ DOMAIN b.dir \subseteq Proc \cup {Kernel}
          /\ b.at \in [DOMAIN b.dir -> [dir : VPage, tab : VPage, stack : VPage, phys : Frame]]
          /\ b.free \in Seq(Frame) /\ b.heap \in 0 .. E /\ b.idle \subseteq InHeap(b)
        BY <1>2, <1>11, <1>12, <2>2 DEF Typed, InHeap
    <2>4. b.stale \subseteq Dir \X Slot \X (Frame \cup {Junk})
        BY <1>9, <1>12 DEF Typed
    <2> QED
        BY <1>12, <2>1, <2>2, <2>3, <2>4 DEF Typed, IsRecord
<1>15. Flushes(r, b, HeapTablePage)
    BY <1>14, InvalidateFacts
<1> HIDE DEF r
<1>16. ASSUME NEW w \in VPage, w[1] # "heap"
       PROVE  KWalk(b, w) = IF w = HeapTablePage THEN f ELSE KWalk(o, w)
    <2>1. w[1] \in Dir /\ w[2] \in Slot /\ w = <<w[1], w[2]>> /\ HeapTablePage = <<HeapTablePage[1], HeapTablePage[2]>>
        BY <1>4, PageFacts
    <2>2. b.dir[Kernel][w[1]] = o.dir[Kernel][w[1]]
        <3>1. o.dir \in [DOMAIN o.dir -> [Dir -> Frame \cup {None}]]
            BY <1>2 DEF Typed
        <3> QED
            BY <1>2, <1>11, <1>12, <1>16, <2>1, <3>1
    <2>3. o.dir[Kernel][w[1]] # None => o.dir[Kernel][w[1]] \in DOMAIN o.table
        BY <1>1, <1>2, <2>1 DEF Sound, Known
    <2>4. KWalk(b, w) = KWalk(a, w)
        BY <1>3, <1>9, <1>12, <2>2, <2>3 DEF KWalk, Walk, Put
    <2>5. o.dir[Kernel][w[1]] = o.dir[Kernel]["window"] => w[1] = "window"
        BY <1>1, <1>2, <1>5, <2>1 DEF Sound, Apart
    <2> QED
        BY <1>4, <1>9, <2>1, <2>4, <2>5
<1>17. \A w : KWalk(r, w) = KWalk(b, w)
    BY <1>15 DEF Flushes, KWalk
<1>18. DOMAIN b.table = DOMAIN o.table \cup {f}
    BY <1>9, <1>12 DEF Put
<1>19. r.stale \subseteq o.stale
    <2>1. r.stale = {x \in a.stale : <<x[1], x[2]>> # HeapTablePage}
        BY <1>12, <1>15 DEF Flushes
    <2> QED
        BY <1>7, <2>1
<1>20. HeapEntered(r, o, f)
    BY <1>4, <1>11, <1>12, <1>15, <1>16, <1>17, <1>18, <1>19 DEF HeapEntered, Flushes
<1>21. r.free = b.free
    BY <1>15 DEF Flushes
<1> QED
    BY <1>8, <1>20, <1>21 DEF o, f, r

(* r is n after setup_heap.                                                   *)
HeapSet(r, n) ==
    /\ Sound(r) /\ Owned(r) /\ Alone(r) /\ HasLow(r) /\ HasStack(r, StackPages) /\ HasHeap(r)
    /\ r.dir[Kernel]["text"] = None
    /\ \A j \in Nat : HasRoom(n, j + 2) => HasRoom(r, j)

(* setup_heap.                                                               *)
LEMMA SetHeapTableFacts ==
    ASSUME NEW n, Sound(n), Alone(n), Untouched(n), HasLow(n), HasStack(n, StackPages), Len(n.free) >= 2
    PROVE  HeapSet(SetHeapTable(n), n)
<1> DEFINE f == Top(n)
           o == Popped(n)
           b == HeapEntry(n)
           c == Invalidate(b, {HeapTablePage})
           g == Top(c)
           d == Popped(c)
           r == Store(d, Kernel, HeapPage(0), g)
<1>1. Typed(n) /\ Kernel \in DOMAIN n.dir /\ n.heap \in Nat /\ Len(n.free) \in Nat /\ Len(n.free) >= 1
    BY Counts
<1>2. /\ Sound(o) /\ Alloc(o, n) /\ Spare(o, f) /\ Len(o.free) = Len(n.free) - 1
    BY <1>1, PoppedFacts
<1>3. HeapEntered(c, o, f) /\ c.free = b.free
    BY <1>1, HeapEntryFacts
<1>4. SetHeapTable(n) = Store(AccessTable(Popped(c), Kernel, "heap"), Kernel, HeapPage(0), Top(b))
    BY DEF SetHeapTable, HeapEntry
<1>5. Top(b) = Top(c)
    BY <1>3 DEF Top
<1> HIDE DEF o, f, b, c
<1>6. /\ o.dir = n.dir /\ o.table = n.table /\ o.heap = n.heap /\ o.stale = n.stale /\ o.active = n.active
      /\ \A w : KWalk(o, w) = KWalk(n, w)
    BY <1>2 DEF Alloc, KWalk
<1>7. Alone(o) /\ Untouched(o) /\ HasLow(o)
    BY <1>6 DEF Alone, Untouched, HasLow
<1>8. Sound(c) /\ Owned(c)
    BY <1>2, <1>3, <1>7, HeapEnteredKeeps
<1>9. /\ Typed(o) /\ o.dir \in [DOMAIN o.dir -> [Dir -> Frame \cup {None}]] /\ DOMAIN o.dir = {Kernel}
      /\ "heap" \in Dir /\ "low" \in Dir /\ "text" \in Dir /\ "stack" \in Dir
    BY <1>2, <1>7 DEF Sound, Typed, Alone, Dir
<1>10. /\ DOMAIN c.dir = {Kernel} /\ c.dir[Kernel]["heap"] = f
       /\ c.dir[Kernel]["low"] = n.dir[Kernel]["low"] /\ c.dir[Kernel]["text"] = n.dir[Kernel]["text"]
       /\ c.dir[Kernel]["stack"] = n.dir[Kernel]["stack"]
       /\ c.free = o.free /\ c.heap = n.heap /\ c.active = n.active /\ c.stale \subseteq n.stale
    BY <1>3, <1>6, <1>9 DEF HeapEntered
<1>11. \A w \in VPage : w[1] \in {"low", "stack"} => KWalk(c, w) = KWalk(n, w)
    <2>1. \A w \in VPage : w[1] \in {"low", "stack"} => w # HeapTablePage /\ w[1] # "heap"
        BY DEF HeapTablePage
    <2> QED
        BY <1>3, <1>6, <2>1 DEF HeapEntered
<1>12. \A i \in Slot : <<"stack", i>> \in VPage /\ <<"low", i>> \in VPage
                       /\ <<"stack", i>>[1] = "stack" /\ <<"low", i>>[1] = "low"
    BY <1>9, PageFacts
<1>13. HasStack(c, StackPages)
    <2>1. \A i \in 0 .. StackPages - 1 : StackSlot + i \in Slot
        BY Sizes DEF Slot
    <2> QED
        BY <1>10, <1>11, <1>12, <2>1 DEF HasStack
<1>14. Len(c.free) = Len(n.free) - 1 /\ Len(c.free) >= 1
    BY <1>1, <1>2, <1>10
<1>15. Sound(d) /\ Owned(d) /\ Alloc(d, c) /\ Spare(d, g) /\ Len(d.free) = Len(n.free) - 2
    <2>1. /\ Sound(d) /\ Owned(d) /\ Alloc(d, c) /\ Spare(d, g) /\ Len(d.free) = Len(c.free) - 1
        BY <1>8, <1>13, <1>14, PoppedFacts
    <2> QED
        BY <1>1, <1>14, <2>1
<1> HIDE DEF d, g
<1>16. /\ d.dir = c.dir /\ d.heap = n.heap /\ d.active = n.active /\ d.stale \subseteq n.stale
       /\ \A w : KWalk(d, w) = KWalk(c, w)
       /\ Typed(d) /\ Kernel \in DOMAIN d.dir
    BY <1>8, <1>10, <1>15 DEF Alloc, KWalk, Sound
<1>17. g \in Frame /\ f # None
    <2>1. g \in FreeKind /\ f \in FreeKind
        BY <1>2, <1>15 DEF Spare
    <2> QED
        BY <2>1, KindFacts
<1>18. AccessTable(d, Kernel, "heap") = d
    BY <1>9, <1>10, <1>15, <1>16, <1>17, AccessTableFixed
<1>19. SetHeapTable(n) = r
    BY <1>4, <1>5, <1>18 DEF d, g
<1>20. HeapPage(0) \in VPage /\ HeapPage(0)[1] = "heap" /\ HeapPage(0)[2] = 0
    <2>1. 0 \in Slot
        BY Sizes DEF Slot
    <2> QED
        BY <1>9, <2>1, PageFacts DEF HeapPage
<1>21. /\ Written(r, d, Kernel, HeapPage(0), g)
       /\ \A x \in r.stale : x \in d.stale \/ <<x[1], x[2]>> = HeapPage(0)
    BY <1>10, <1>15, <1>16, <1>17, <1>20, StoreFacts DEF Sound
<1> HIDE DEF r
<1>22. d.heap = 0
    BY <1>16 DEF Untouched
<1>23. r.dir = d.dir /\ r.free = d.free /\ r.heap = d.heap /\ r.active = d.active
    BY <1>21 DEF Written
<1>24. Flushed(r)
    <2>1. ASSUME NEW x \in r.stale PROVE x[1] = "low" \/ (x[1] = "heap" /\ x[2] >= 0)
        <3>1. CASE x \in d.stale
            BY <1>15, <1>22, <3>1 DEF Sound, Flushed
        <3>2. CASE <<x[1], x[2]>> = HeapPage(0)
            BY <3>2 DEF HeapPage
        <3> QED
            BY <1>21, <3>1, <3>2
    <2> QED
        BY <1>22, <1>23, <2>1 DEF Flushed
<1>25. Sound(r) /\ Owned(r)
    <2>1. Free(d, HeapPage(0))
        BY <1>20, <1>22 DEF Free
    <2>2. d.dir[Kernel][HeapPage(0)[1]] # None
        BY <1>10, <1>16, <1>17, <1>20
    <2> QED
        BY <1>15, <1>16, <1>17, <1>20, <1>21, <1>24, <2>1, <2>2, WrittenKeeps
<1>26. \A w \in VPage : w[1] \in {"low", "stack"} => KWalk(r, w) = KWalk(n, w)
    <2>1. \A w \in VPage : w # HeapPage(0) => KWalk(r, w) = KWalk(d, w)
        BY <1>10, <1>15, <1>16, <1>17, <1>20, <1>21, WalkElsewhere DEF Sound, KWalk
    <2> QED
        BY <1>11, <1>16, <1>20, <2>1
<1>27. Alone(r) /\ HasHeap(r) /\ r.dir[Kernel]["text"] = None
    BY <1>10, <1>16, <1>17, <1>23 DEF Alone, HasHeap, Untouched
<1>28. HasLow(r)
    <2>1. TextFrame \in Slot
        BY Sizes DEF Slot
    <2>2. \A x \in r.stale : x[1] # "low"
        BY <1>16, <1>20, <1>21 DEF HasLow
    <2> QED
        BY <1>10, <1>12, <1>16, <1>23, <1>26, <2>1, <2>2 DEF HasLow
<1>29. HasStack(r, StackPages)
    <2>1. \A i \in 0 .. StackPages - 1 : StackSlot + i \in Slot
        BY Sizes DEF Slot
    <2> QED
        BY <1>10, <1>12, <1>16, <1>23, <1>26, <2>1 DEF HasStack
<1>30. \A j \in Nat : HasRoom(n, j + 2) => HasRoom(r, j)
    <2>1. r.heap = n.heap /\ Len(r.free) = Len(n.free) - 2
        BY <1>15, <1>16, <1>23
    <2> HIDE DEF r
    <2>2. ASSUME NEW j \in Nat, n.heap + (j + 2) <= E, Len(n.free) >= j + 2
          PROVE  n.heap + j <= E /\ Len(n.free) - 2 >= j
        BY <1>1, <2>2, Sizes
    <2> QED
        BY <2>1, <2>2 DEF HasRoom
<1>31. HeapSet(r, n)
    BY <1>25, <1>27, <1>28, <1>29, <1>30 DEF HeapSet
<1> QED
    BY <1>19, <1>31

-----------------------------------------------------------------------------
(* The other steps of main(). *)

(* The heap has grown by k pages at most, and as many frames are gone.           *)
LEMMA Rooms ==
    ASSUME NEW n, Sound(n), NEW r, Sound(r), NEW k \in Nat,
           r.heap <= n.heap + k, Len(r.free) >= Len(n.free) - k
    PROVE  \A j \in Nat : HasRoom(n, j + k) => HasRoom(r, j)
<1>1. n.heap \in Nat /\ Len(n.free) \in Nat /\ r.heap \in Nat /\ Len(r.free) \in Nat
    BY Counts
<1>2. ASSUME NEW j \in Nat, n.heap + (j + k) <= E, Len(n.free) >= j + k
      PROVE  r.heap + j <= E /\ Len(r.free) >= j
    <2>1. r.heap + j <= E
        BY <1>1, <1>2, Sizes
    <2>2. Len(r.free) >= j
        BY <1>1, <1>2
    <2> QED
        BY <2>1, <2>2
<1> QED
    BY <1>2 DEF HasRoom

(* What the heap keeps of what main() has set up.                              *)
LEMMA GrownKernel ==
    ASSUME NEW n, Sound(n), NEW r, Sound(r), NEW k \in Nat, Grown(r, n, k)
    PROVE  Keeps(r, n, k)
<1>1. Kernel \in DOMAIN n.dir
    BY Counts
<1>2. \A w \in VPage : w[1] \in {"stack", "text"} => KWalk(r, w) = KWalk(n, w)
    BY <1>1 DEF Grown, KWalk
<1>3. r.dir = n.dir /\ r.heap <= n.heap + k /\ Len(r.free) >= Len(n.free) - k
    BY DEF Grown
<1> QED
    BY <1>2, <1>3, KernelKeeps

(* The memory manager gets a table for its stack.                              *)
StackEntered(r) ==
    /\ Sound(r) /\ Owned(r) /\ Alone(r) /\ Untouched(r) /\ HasLow(r) /\ HasStack(r, 0)
    /\ r.free = <<>>

(* setup_memory_manager gets the frame after those of bootstrap.s.           *)
LEMMA StackTableFacts ==
    ASSUME NEW n, Sound(n), Owned(n), Alone(n), Untouched(n), HasLow(n),
           n.dir[Kernel]["stack"] = None, n.free = <<>>
    PROVE  StackEntered(SetupTable(n, Kernel, StackPage(0), <<"window", FirstFree - B>>, FirstFree))
<1> DEFINE v == StackPage(0)
           p == <<"window", FirstFree - B>>
           r == SetupTable(n, Kernel, v, p, FirstFree)
<1>1. /\ Typed(n) /\ DOMAIN n.dir = {Kernel} /\ n.active = Kernel
      /\ n.dir \in [{Kernel} -> [Dir -> Frame \cup {None}]]
    BY DEF Sound, Alone, Typed
<1>2. v \in VPage /\ v[1] = "stack"
    <2>1. 0 \in 0 .. M
        BY Sizes
    <2> QED
        BY <2>1, StackPageSlot
<1>3. p = <<"window", K + 4>>
    BY Sizes
<1>4. FirstFree \in Frame /\ FirstFree # None /\ FirstFree < First
      /\ FirstFree # WindowFrame /\ FirstFree # LowFrame
    BY Sizes DEF Frame, None
<1>5. \A e \in Dir : n.dir[Kernel][e] # FirstFree
    <2>1. n.dir[Kernel]["low"] = LowFrame /\ n.dir[Kernel]["window"] = WindowFrame
        BY DEF HasLow, Sound, Window
    <2> QED
        BY <1>4, <2>1 DEF Dir, Untouched
<1>6. Passed(n, Kernel, "stack", p, FirstFree)
    BY <1>1, <1>3, <1>4, <1>5 DEF Passed
<1>7. Setup(r, n, Kernel, "stack", p, FirstFree, v)
    BY <1>2, <1>6, SetupFacts
<1> HIDE DEF r, p, v
<1>8. Sound(r) /\ Owned(r)
    BY <1>2, <1>6, <1>7, SetupKeeps
<1>9. /\ DOMAIN r.dir = {Kernel} /\ r.active = Kernel /\ r.free = n.free /\ r.heap = n.heap
      /\ DOMAIN r.table = DOMAIN n.table \cup {FirstFree} /\ r.stale \subseteq n.stale
      /\ r.dir[Kernel]["stack"] = FirstFree
      /\ \A e \in {"low", "heap", "text"} : r.dir[Kernel][e] = n.dir[Kernel][e]
      /\ \A w \in VPage : w[1] = "low" => KWalk(r, w) = KWalk(n, w)
    <2>1. /\ r.dir = [n.dir EXCEPT ![Kernel]["stack"] = FirstFree]
          /\ r.active = Kernel /\ r.free = n.free /\ r.heap = n.heap
          /\ DOMAIN r.table = DOMAIN n.table \cup {FirstFree} /\ r.stale \subseteq n.stale
        BY <1>1, <1>7 DEF Setup
    <2>2. \A w \in VPage : w[1] = "low" => KWalk(r, w) = KWalk(n, w)
        BY <1>1, <1>7 DEF Setup, KWalk
    <2>3. /\ DOMAIN r.dir = {Kernel} /\ r.dir[Kernel]["stack"] = FirstFree
          /\ \A e \in {"low", "heap", "text"} : r.dir[Kernel][e] = n.dir[Kernel][e]
        BY <1>1, <2>1 DEF Dir
    <2> QED
        BY <2>1, <2>2, <2>3
<1>10. Alone(r) /\ Untouched(r)
    BY <1>4, <1>9 DEF Alone, Untouched
<1>11. HasLow(r)
    <2>1. TextFrame \in Slot /\ "low" \in Dir
        BY Sizes DEF Slot, Dir
    <2>2. <<"low", TextFrame>> \in VPage /\ <<"low", TextFrame>>[1] = "low"
        BY <2>1, PageFacts
    <2> QED
        BY <1>9, <2>2 DEF HasLow
<1>12. HasStack(r, 0)
    BY <1>4, <1>9 DEF HasStack
<1>13. StackEntered(r)
    BY <1>8, <1>9, <1>10, <1>11, <1>12 DEF StackEntered
<1> QED
    BY <1>13 DEF r, p, v

(* Another page of the stack of free frames.                                   *)
LEMMA MapStackFacts ==
    ASSUME NEW n, Sound(n), Owned(n), Alone(n), Untouched(n), HasLow(n), n.free = <<>>,
           NEW i \in 0 .. StackPages - 1, HasStack(n, i), NEW r, r = MapStackPage(n, i)
    PROVE  /\ Sound(r) /\ Owned(r) /\ Alone(r) /\ Untouched(r) /\ HasLow(r) /\ r.free = <<>>
           /\ HasStack(r, i + 1)
<1> DEFINE v == <<"stack", StackSlot + i>>
           f == FirstFree + 1 + i
<1>1. Kernel \in DOMAIN n.dir /\ n.dir[Kernel]["stack"] # None /\ i \in Nat
    BY Counts, Sizes DEF HasStack
<1>2. \A k \in 0 .. i : StackSlot + k \in Slot
    <2>1. StackSlot \in Nat /\ E \in Nat /\ StackPages \in Nat /\ StackSlot + StackPages <= E
        BY Sizes
    <2>2. i < StackPages
        BY <2>1
    <2> QED
        BY <1>1, <2>1, <2>2 DEF Slot
<1>3. \A k \in 0 .. i : <<"stack", StackSlot + k>> \in VPage
    BY <1>2, PageFacts DEF Dir
<1>4. v \in VPage /\ v[1] = "stack" /\ v[2] = StackSlot + i
    BY <1>1, <1>3
<1>5. f \in FirstFree + 1 .. First - 1 /\ f \in Frame
    BY Sizes DEF Frame
<1>6. r = MapIn(n, Kernel, v, f)
    BY <1>1, <1>4 DEF MapStackPage, PgMap
<1> HIDE DEF v, f
<1>7. Mapped(r, n, Kernel, v, f)
    BY <1>1, <1>4, <1>5, <1>6, MapInFacts
<1>8. Sound(r) /\ Owned(r)
    <2>1. Free(n, v)
        BY <1>4 DEF Free
    <2> QED
        BY <1>1, <1>4, <1>5, <1>7, <2>1, MapKeeps
<1>9. /\ Written(r, n, Kernel, v, f) /\ r.dir = n.dir /\ r.active = n.active /\ r.heap = n.heap
      /\ r.free = n.free /\ DOMAIN r.table = DOMAIN n.table /\ r.stale \subseteq n.stale
    BY <1>7 DEF Mapped, Written
<1>10. \A w \in VPage : w # v => KWalk(r, w) = KWalk(n, w)
    BY <1>1, <1>4, <1>9, WalkElsewhere DEF Sound, KWalk
<1>11. KWalk(r, v) = f
    BY <1>1, <1>4, <1>9 DEF Written, KWalk
<1>12. Alone(r) /\ Untouched(r)
    BY <1>9 DEF Alone, Untouched
<1>13. HasLow(r)
    <2>1. TextFrame \in Slot /\ "low" \in Dir
        BY Sizes DEF Slot, Dir
    <2>2. <<"low", TextFrame>> \in VPage /\ <<"low", TextFrame>> # v
        BY <1>4, <2>1, PageFacts
    <2> QED
        BY <1>9, <1>10, <2>2 DEF HasLow
<1>14. HasStack(r, i + 1)
    <2>1. ASSUME NEW k \in 0 .. (i + 1) - 1 PROVE KWalk(r, <<"stack", StackSlot + k>>) \in Frame
        <3>1. k \in 0 .. i /\ (k # i => k \in 0 .. i - 1)
            BY <1>1
        <3>2. CASE k = i
            BY <1>5, <1>11, <3>2 DEF v
        <3>3. CASE k # i
            <4>1. <<"stack", StackSlot + k>> # v
                BY <1>1, <1>4, <3>1, <3>3, Sizes
            <4> QED
                BY <1>3, <1>10, <3>1, <3>3, <4>1 DEF HasStack
        <3> QED
            BY <3>2, <3>3
    <2> QED
        BY <1>1, <1>9, <2>1 DEF HasStack
<1> QED
    BY <1>8, <1>9, <1>12, <1>13, <1>14

(* r is n with the screen at its second address.                               *)
TextMapped(r, n) ==
    /\ Sound(r) /\ Owned(r) /\ Alone(r) /\ HasLow(r) /\ HasStack(r, StackPages) /\ HasHeap(r) /\ HasText(r)
    /\ \A j \in Nat : HasRoom(n, j + 1) => HasRoom(r, j)

(* The screen is mapped; a frame for the table is all it takes.              *)
LEMMA MapTextFacts ==
    ASSUME NEW n, Sound(n), Owned(n), Alone(n), HasLow(n), HasStack(n, StackPages), HasHeap(n),
           n.dir[Kernel]["text"] = None, HasRoom(n, 1)
    PROVE  TextMapped(PgMap(n, Kernel, <<"text", 0>>, TextFrame), n)
<1> DEFINE v == <<"text", 0>>
           r == PgMap(n, Kernel, v, TextFrame)
<1>1. /\ Kernel \in DOMAIN n.dir /\ DOMAIN n.dir = {Kernel} /\ TextFrame \in Frame /\ 0 \in Slot
      /\ TextFrame \in Slot /\ \A i \in 0 .. StackPages - 1 : StackSlot + i \in Slot
    BY Sizes DEF Alone, Frame, Slot
<1>2. /\ v \in VPage /\ v[1] = "text" /\ <<"low", TextFrame>> \in VPage
      /\ \A i \in 0 .. StackPages - 1 : <<"stack", StackSlot + i>> \in VPage
    BY <1>1, PageFacts DEF Dir
<1>3. PgMapped(r, n, Kernel, v, TextFrame)
    BY <1>1, <1>2, PgMapFacts
<1> HIDE DEF r
<1>4. /\ Sound(r) /\ Owned(r) /\ DOMAIN r.dir = DOMAIN n.dir /\ r.active = n.active
      /\ r.heap <= n.heap + 1 /\ Len(r.free) >= Len(n.free) - 1
      /\ \A e \in Dir : e # "text" => r.dir[Kernel][e] = n.dir[Kernel][e]
      /\ KWalk(r, v) = TextFrame
      /\ \A w \in VPage : w # v /\ w[1] # "heap" => KWalk(r, w) = KWalk(n, w)
      /\ r.stale \subseteq n.stale
    BY <1>1, <1>2, <1>3 DEF PgMapped, KWalk
<1>5. Alone(r) /\ HasHeap(r) /\ HasText(r)
    BY <1>4 DEF Alone, HasHeap, HasText, Dir
<1>6. HasLow(r)
    BY <1>2, <1>4 DEF HasLow, Dir
<1>7. HasStack(r, StackPages)
    BY <1>2, <1>4 DEF HasStack, Dir
<1>8. \A j \in Nat : HasRoom(n, j + 1) => HasRoom(r, j)
    BY <1>4, Rooms
<1> QED
    BY <1>4, <1>5, <1>6, <1>7, <1>8 DEF TextMapped, r, v

(* Page i of program p is mapped, in the kernel's space too.                    *)
AppMapped(r, n, p, i, k) ==
    /\ Sound(r) /\ Owned(r) /\ Keeps(r, n, k)
    /\ DOMAIN r.dir = DOMAIN n.dir /\ r.active = n.active
    /\ Readable(r, p, i) /\ \A j \in Slot : j # i /\ Readable(n, p, j) => Readable(r, p, j)

(* Three frames are enough for that, or one if there are tables.                *)
LEMMA AppPageFacts ==
    ASSUME NEW n, Sound(n), Owned(n), HasStack(n, StackPages), HasHeap(n), n.active = Kernel,
           NEW p \in Running(n), NEW i \in Slot, NEW k \in {1, 3}, HasRoom(n, k),
           k = 1 => n.dir[p]["low"] # None /\ n.dir[Kernel]["low"] # None
    PROVE  AppMapped(PgMap(PgMap(Popped(n), p, <<"low", i>>, Top(n)), Kernel, <<"low", i>>, Top(n)), n, p, i, k)
<1> DEFINE v == <<"low", i>>
           f == Top(n)
           o == Popped(n)
           a == PgMap(o, p, v, f)
           r == PgMap(a, Kernel, v, f)
<1>1. /\ Kernel \in DOMAIN n.dir /\ p \in DOMAIN n.dir /\ p # Kernel /\ n.heap \in Nat /\ Len(n.free) \in Nat
      /\ n.heap + k <= E /\ Len(n.free) >= k
    BY Counts, KernelAssumption DEF Running, HasRoom
<1>2. v \in VPage /\ v[1] = "low" /\ "low" \in Dir /\ "stack" \in Dir /\ "heap" \in Dir
    BY PageFacts DEF Dir
<1>3. /\ Sound(o) /\ Owned(o) /\ Alloc(o, n) /\ Spare(o, f) /\ Len(o.free) = Len(n.free) - 1
    <2>1. Len(n.free) >= 1
        BY <1>1
    <2> QED
        BY <2>1, PoppedFacts
<1> HIDE DEF o, f
<1>4. /\ o.dir = n.dir /\ o.active = n.active /\ o.stale = n.stale /\ o.heap = n.heap
      /\ \A q, w : Walk(o, q, w) = Walk(n, q, w)
      /\ f \in Frame
    <2>1. f \in FreeKind
        BY <1>3 DEF Spare
    <2>2. f \in Frame
        BY <2>1, KindFacts
    <2> QED
        BY <1>3, <2>2 DEF Alloc
<1>5. HasStack(o, StackPages) /\ HasHeap(o)
    BY <1>4 DEF HasStack, HasHeap, KWalk
<1>6. k = 3 => HasRoom(o, 1)
    <2>1. k = 3 => n.heap + 1 <= E /\ Len(n.free) - 1 >= 1
        BY <1>1, Sizes
    <2> QED
        BY <1>3, <1>4, <2>1 DEF HasRoom
<1>7. PgMapped(a, o, p, v, f)
    BY <1>1, <1>2, <1>3, <1>4, <1>5, <1>6, PgMapFacts
<1> HIDE DEF a, v
<1>8. /\ Sound(a) /\ Owned(a) /\ DOMAIN a.dir = DOMAIN n.dir /\ a.active = n.active
      /\ a.heap \in Nat /\ n.heap <= a.heap /\ a.heap <= n.heap + 1
      /\ Len(a.free) >= Len(n.free) - 2
      /\ k = 1 => a.dir = n.dir /\ a.heap = n.heap /\ a.free = o.free
      /\ \A e \in Dir \ {"low"} : a.dir[Kernel][e] = n.dir[Kernel][e]
      /\ a.dir[Kernel]["low"] = n.dir[Kernel]["low"]
      /\ Walk(a, p, v) = f
      /\ \A q \in DOMAIN n.dir, w \in VPage : w # v /\ w[1] # "heap" => Walk(a, q, w) = Walk(n, q, w)
      /\ a.stale \subseteq n.stale
    <2>1. /\ Sound(a) /\ Owned(a) /\ DOMAIN a.dir = DOMAIN o.dir /\ a.active = o.active
          /\ a.heap \in Nat /\ o.heap <= a.heap /\ a.heap <= o.heap + 1
          /\ Len(a.free) >= Len(o.free) - 1
          /\ o.dir[p][v[1]] # None => a.dir = o.dir /\ a.heap = o.heap /\ a.free = o.free
          /\ \A q \in DOMAIN o.dir, e \in Dir : ~ (q = p /\ e = v[1]) => a.dir[q][e] = o.dir[q][e]
          /\ Walk(a, p, v) = f
          /\ \A q \in DOMAIN o.dir, w \in VPage : w # v /\ w[1] # "heap" => Walk(a, q, w) = Walk(o, q, w)
          /\ a.stale \subseteq o.stale
        BY <1>7 DEF PgMapped
    <2>2. Len(a.free) \in Nat
        BY <2>1, Counts
    <2>3. Len(a.free) >= Len(n.free) - 2
        BY <1>1, <1>3, <2>1, <2>2
    <2> QED
        BY <1>1, <1>2, <1>4, <2>1, <2>3
<1>9. \E q \in Running(a), j \in Slot : q # Kernel /\ Walk(a, q, <<"low", j>>) = f
    BY <1>1, <1>8 DEF Running, v
<1>10. HasStack(a, StackPages) /\ HasHeap(a)
    <2>1. \A j \in 0 .. StackPages - 1 : StackSlot + j \in Slot
        BY Sizes DEF Slot
    <2>2. \A j \in 0 .. StackPages - 1 :
            <<"stack", StackSlot + j>> \in VPage /\ <<"stack", StackSlot + j>> # v
        BY <1>2, <2>1, PageFacts
    <2>3. \A j \in 0 .. StackPages - 1 :
            KWalk(a, <<"stack", StackSlot + j>>) = KWalk(n, <<"stack", StackSlot + j>>)
        BY <1>1, <1>8, <2>2 DEF KWalk
    <2> QED
        BY <1>2, <1>8, <2>3 DEF HasStack, HasHeap
<1>11. k = 3 => HasRoom(a, 1)
    <2>1. Len(a.free) \in Nat
        BY <1>8, Counts
    <2>2. k = 3 => a.heap + 1 <= E /\ Len(a.free) >= 1
        BY <1>1, <1>8, <2>1, Sizes
    <2> QED
        BY <2>2 DEF HasRoom
<1>12. PgMapped(r, a, Kernel, v, f)
    <2>1. k = 1 => a.dir[Kernel][v[1]] # None
        BY <1>2, <1>8
    <2> QED
        BY <1>1, <1>2, <1>4, <1>8, <1>9, <1>10, <1>11, <2>1, PgMapFacts
<1> HIDE DEF r
<1>13. /\ Sound(r) /\ Owned(r) /\ DOMAIN r.dir = DOMAIN n.dir /\ r.active = Kernel
       /\ r.heap <= n.heap + k /\ Len(r.free) >= Len(n.free) - k
       /\ \A e \in Dir \ {"low"} : r.dir[Kernel][e] = n.dir[Kernel][e]
       /\ Walk(r, p, v) = f /\ Walk(r, Kernel, v) = f
       /\ \A q \in DOMAIN n.dir, w \in VPage : w # v /\ w[1] # "heap" => Walk(r, q, w) = Walk(n, q, w)
       /\ r.stale \subseteq n.stale /\ \A x \in r.stale : <<x[1], x[2]>> # v
    <2>1. /\ Sound(r) /\ Owned(r) /\ DOMAIN r.dir = DOMAIN a.dir /\ r.active = a.active
          /\ r.heap \in Nat /\ r.heap <= a.heap + 1
          /\ Len(r.free) >= Len(a.free) - 1
          /\ a.dir[Kernel][v[1]] # None => r.heap = a.heap /\ r.free = a.free
          /\ \A q \in DOMAIN a.dir, e \in Dir : ~ (q = Kernel /\ e = v[1]) => r.dir[q][e] = a.dir[q][e]
          /\ Walk(r, Kernel, v) = f
          /\ \A q \in DOMAIN a.dir : Walk(r, q, v) \in {f, Walk(a, q, v)}
          /\ \A q \in DOMAIN a.dir, w \in VPage : w # v /\ w[1] # "heap" => Walk(r, q, w) = Walk(a, q, w)
          /\ r.stale \subseteq a.stale /\ \A x \in r.stale : <<x[1], x[2]>> # v
        BY <1>12 DEF PgMapped
    <2>2. Len(r.free) \in Nat /\ Len(a.free) \in Nat
        BY <1>8, <2>1, Counts
    <2>3. r.heap <= n.heap + k /\ Len(r.free) >= Len(n.free) - k
        <3>1. CASE k = 1
            BY <1>1, <1>2, <1>3, <1>8, <2>1, <3>1
        <3>2. CASE k = 3
            <4>1. r.heap \in Nat /\ a.heap \in Nat /\ n.heap \in Nat /\ Len(n.free) \in Nat
                  /\ r.heap <= a.heap + 1 /\ a.heap <= n.heap + 1
                  /\ Len(r.free) >= Len(a.free) - 1 /\ Len(a.free) >= Len(n.free) - 2
                BY <1>1, <1>8, <2>1
            <4>2. \A x, y, z \in Nat : x <= y + 1 /\ y <= z + 1 => x <= z + 3
                OBVIOUS
            <4>3. \A x, y, z \in Nat : x >= y - 1 /\ y >= z - 2 => x >= z - 3
                OBVIOUS
            <4>4. r.heap <= n.heap + 3
                BY <4>1, <4>2
            <4>5. Len(r.free) >= Len(n.free) - 3
                BY <2>2, <4>1, <4>3
            <4> QED
                BY <3>2, <4>4, <4>5
        <3> QED
            BY <3>1, <3>2
    <2>4. Walk(r, p, v) = f
        BY <1>1, <1>8, <2>1
    <2>5. \A e \in Dir \ {"low"} : r.dir[Kernel][e] = n.dir[Kernel][e]
        BY <1>1, <1>2, <1>8, <2>1
    <2> QED
        BY <1>8, <2>1, <2>3, <2>4, <2>5
<1>14. Keeps(r, n, k)
    <2>1. \A w \in VPage : w[1] \in {"stack", "text"} => KWalk(r, w) = KWalk(n, w)
        BY <1>1, <1>2, <1>13 DEF KWalk
    <2>2. r.dir[Kernel]["stack"] = n.dir[Kernel]["stack"] /\ r.dir[Kernel]["heap"] = n.dir[Kernel]["heap"]
        BY <1>2, <1>13
    <2> QED
        BY <1>13, <2>1, <2>2, KernelKeeps
<1>15. Readable(r, p, i)
    BY <1>4, <1>13 DEF Readable, v
<1>16. ASSUME NEW j \in Slot, j # i, Readable(n, p, j) PROVE Readable(r, p, j)
    <2>1. <<"low", j>> \in VPage /\ <<"low", j>> # v /\ <<"low", j>>[1] # "heap"
        BY <1>2, <1>16, PageFacts DEF v
    <2>2. Walk(r, p, <<"low", j>>) = Walk(n, p, <<"low", j>>)
          /\ Walk(r, Kernel, <<"low", j>>) = Walk(n, Kernel, <<"low", j>>)
        BY <1>1, <1>13, <2>1
    <2> QED
        BY <1>13, <1>16, <2>2 DEF Readable
<1>17. AppMapped(r, n, p, i, k)
    BY <1>13, <1>14, <1>15, <1>16 DEF AppMapped
<1> QED
    BY <1>17 DEF r, a, o, f, v

(* ata_read reaches the pages of the program.                                   *)
LEMMA ReadFacts ==
    ASSUME NEW n, Sound(n), NEW p, \A i \in 0 .. Pages - 1 : Readable(n, p, i)
    PROVE  [n EXCEPT !.wild = @ \/ \E i \in 0 .. Pages - 1 :
                ~ LeadsTo(n, <<"low", i>>, Walk(n, p, <<"low", i>>))] = n
<1>1. ASSUME NEW i \in 0 .. Pages - 1 PROVE LeadsTo(n, <<"low", i>>, Walk(n, p, <<"low", i>>))
    <2>1. i \in Slot
        BY Sizes DEF Slot
    <2>2. <<"low", i>> \in VPage
        BY <2>1, PageFacts DEF Dir
    <2>3. Readable(n, p, i)
        OBVIOUS
    <2>4. \A x \in n.stale : <<x[1], x[2]>> # <<"low", i>>
        BY <2>3 DEF Readable
    <2> QED
        BY <2>2, <2>3, <2>4 DEF LeadsTo, Readable
<1>2. n.wild = FALSE /\ Typed(n)
    BY DEF Sound, Typed
<1>3. (n.wild \/ \E i \in 0 .. Pages - 1 : ~ LeadsTo(n, <<"low", i>>, Walk(n, p, <<"low", i>>))) = FALSE
    BY <1>1, <1>2
<1> QED
    BY <1>2, <1>3, SameWild

-----------------------------------------------------------------------------
(* Processes run. *)

(* The pages of a program.                                                    *)
LEMMA PageSlots == \A i \in 0 .. Pages - 1 : i \in Slot
    BY Sizes DEF Slot

(* What main() has set up, from one operation to the next.                      *)
LEMMA GoingKeeps ==
    ASSUME NEW n, Sound(n), HasStack(n, StackPages), HasHeap(n), HasText(n), NEW r, NEW k \in Nat, Keeps(r, n, k)
    PROVE  HasStack(r, StackPages) /\ HasHeap(r) /\ HasText(r)
    BY DEF Keeps

(* The heap grows.                                                            *)
LEMMA GrowGoing ==
    ASSUME NEW n, Going(n), HasRoom(n, 1) PROVE Going(Brk(n))
<1> DEFINE r == Brk(n)
<1>1. Sound(n) /\ Owned(n) /\ HasStack(n, StackPages) /\ HasHeap(n) /\ HasText(n) /\ n.active \in DOMAIN n.dir
    BY Counts DEF Going
<1>2. Sound(r) /\ Owned(r) /\ Grown(r, n, 1)
    BY <1>1, BrkFacts
<1> HIDE DEF r
<1>3. Keeps(r, n, 1)
    BY <1>1, <1>2, GrownKernel
<1>4. /\ r.dir = n.dir /\ r.active = n.active /\ r.stale \subseteq n.stale
      /\ \A q \in DOMAIN n.dir, w \in VPage : w[1] # "heap" => Walk(r, q, w) = Walk(n, q, w)
    BY <1>2 DEF Grown
<1>5. \A q \in DOMAIN n.dir, i \in Slot : Walk(r, q, <<"low", i>>) = Walk(n, q, <<"low", i>>)
    <2>1. \A i \in Slot : <<"low", i>> \in VPage /\ <<"low", i>>[1] # "heap"
        BY PageFacts DEF Dir
    <2> QED
        BY <1>4, <2>1
<1>6. \A s \in Running(r) : HasPages(r, s, Pages)
    BY <1>4, <1>5, PageSlots DEF Going, Running, HasPages
<1>7. r.active # Kernel => Coherent(r)
    <2>1. \A x \in n.stale : x[2] \in Slot
        BY <1>1 DEF Sound, Typed
    <2> QED
        BY <1>1, <1>4, <1>5, <2>1 DEF Going, Coherent
<1>8. Going(r)
    BY <1>1, <1>2, <1>3, <1>6, <1>7, GoingKeeps DEF Going
<1> QED
    BY <1>8 DEF r

(* Another process goes on.                                                   *)
LEMMA SwitchGoing ==
    ASSUME NEW n, Going(n), NEW q \in Running(n), q # n.active PROVE Going(Activate(n, q))
<1> DEFINE r == Activate(n, q)
<1>1. Sound(n) /\ q \in DOMAIN n.dir
    BY DEF Going, Running
<1>2. Activated(r, n, q)
    BY <1>1, ActivateFacts
<1> HIDE DEF r
<1>3. /\ Sound(r) /\ (Owned(n) => Owned(r)) /\ r.dir = n.dir /\ r.stale = {}
      /\ \A s, w : Walk(r, s, w) = Walk(n, s, w)
    BY <1>2 DEF Activated
<1>4. HasStack(r, StackPages) /\ HasHeap(r) /\ HasText(r)
    BY <1>3 DEF Going, HasStack, HasHeap, HasText, KWalk
<1>5. (\A s \in Running(r) : HasPages(r, s, Pages)) /\ Coherent(r)
    BY <1>3 DEF Going, Running, HasPages, Coherent
<1>6. Going(r)
    BY <1>3, <1>4, <1>5 DEF Going
<1> QED
    BY <1>6 DEF r

(* A process is copied; the copy has the pages of its parent.                   *)
LEMMA CopyGoing ==
    ASSUME NEW n, Sound(n), Owned(n), HasStack(n, StackPages), HasHeap(n), HasText(n), HasRoom(n, 3),
           \A s \in Running(n) : HasPages(n, s, Pages),
           NEW p \in Running(n), NEW c \in Proc, c \notin DOMAIN n.dir
    PROVE  LET r == CopySpace(n, p, c) IN
           /\ Sound(r) /\ Owned(r) /\ HasStack(r, StackPages) /\ HasHeap(r) /\ HasText(r)
           /\ \A s \in Running(r) : HasPages(r, s, Pages)
           /\ r.active = n.active /\ c \in Running(r)
<1> DEFINE r == CopySpace(n, p, c)
<1>1. Created(r, n, c, n.dir[p])
    BY CopyFacts
<1> HIDE DEF r
<1>2. /\ Sound(r) /\ Owned(r) /\ Keeps(r, n, 3) /\ DOMAIN r.dir = DOMAIN n.dir \cup {c} /\ r.active = n.active
      /\ \A q \in DOMAIN n.dir, i \in Slot : Walk(r, q, <<"low", i>>) = Walk(n, q, <<"low", i>>)
      /\ \A i \in Slot : Walk(r, c, <<"low", i>>) = Walk(n, p, <<"low", i>>)
    BY <1>1 DEF Created, Running
<1>3. ASSUME NEW s \in Running(r) PROVE HasPages(r, s, Pages)
    <2>1. CASE s \in Running(n)
        BY <1>2, <2>1, PageSlots DEF Running, HasPages
    <2>2. CASE s = c
        BY <1>2, <2>2, PageSlots DEF HasPages
    <2> QED
        BY <1>2, <2>1, <2>2 DEF Running
<1>4. c \in Running(r)
    BY <1>2 DEF Running
<1> QED
    BY <1>2, <1>3, <1>4, GoingKeeps DEF r

(* A process forks, and the child goes on.                                     *)
LEMMA ForkGoing ==
    ASSUME NEW n, Going(n), HasRoom(n, 3), n.active \in Running(n), text = <<"text", 0>>,
           NEW c \in Proc, c \notin DOMAIN n.dir
    PROVE  Going(Activate(Says(CopySpace(n, n.active, c)), c))
<1> DEFINE a == CopySpace(n, n.active, c)
           r == Activate(a, c)
<1>1. /\ Sound(a) /\ Owned(a) /\ HasStack(a, StackPages) /\ HasHeap(a) /\ HasText(a)
      /\ \A s \in Running(a) : HasPages(a, s, Pages)
      /\ a.active = n.active /\ c \in Running(a)
    BY CopyGoing DEF Going
<1> HIDE DEF a
<1>2. Says(a) = a
    BY <1>1, SaysFacts
<1>3. Activated(r, a, c)
    BY <1>1, ActivateFacts DEF Running
<1> HIDE DEF r
<1>4. c # n.active
    BY DEF Running
<1>5. /\ Sound(r) /\ Owned(r) /\ r.dir = a.dir /\ r.stale = {} /\ \A s, w : Walk(r, s, w) = Walk(a, s, w)
    BY <1>1, <1>3, <1>4 DEF Activated
<1>6. HasStack(r, StackPages) /\ HasHeap(r) /\ HasText(r)
    BY <1>1, <1>5 DEF HasStack, HasHeap, HasText, KWalk
<1>7. (\A s \in Running(r) : HasPages(r, s, Pages)) /\ Coherent(r)
    BY <1>1, <1>5 DEF Running, HasPages, Coherent
<1>8. Going(r)
    BY <1>5, <1>6, <1>7 DEF Going
<1> QED
    BY <1>2, <1>8 DEF r, a

(* Every program has a table.                                                 *)
LEMMA HasTables ==
    ASSUME NEW n, Going(n)
    PROVE  \A q \in Running(n) : n.dir[q]["low"] # None
<1> SUFFICES ASSUME NEW q \in Running(n) PROVE n.dir[q]["low"] # None
    OBVIOUS
<1>1. 0 \in 0 .. Pages - 1
    BY Sizes
<1>2. Walk(n, q, <<"low", 0>>) \in Frame
    BY <1>1 DEF Going, HasPages
<1> QED
    BY <1>2, Sizes DEF Walk, Frame, None

(* A write to a shared page is resolved.                                       *)
LEMMA CopyPageGoing ==
    ASSUME NEW n, Going(n), Len(n.free) >= 1, n.active \in Running(n), NEW i \in 0 .. Pages - 1
    PROVE  Going(CopyPage(n, <<"low", i>>))
<1> DEFINE v == <<"low", i>>
           r == CopyPage(n, v)
<1>1. /\ Sound(n) /\ Owned(n) /\ HasStack(n, StackPages) /\ HasHeap(n) /\ HasText(n) /\ Coherent(n)
      /\ i \in Slot /\ Walk(n, n.active, v) \in Frame
    BY KernelAssumption, PageSlots DEF Going, Running, HasPages
<1>2. PageCopied(r, n, v)
    BY <1>1, HasTables, CopyPageFacts
<1> HIDE DEF r, v
<1>3. Sound(r) /\ Owned(r) /\ Keeps(r, n, 1) /\ Coherent(r)
    BY <1>2 DEF PageCopied
<1>4. ASSUME NEW s \in Running(r) PROVE HasPages(r, s, Pages)
    <2>1. s \in Running(n) /\ s \in DOMAIN n.dir
        BY <1>2 DEF PageCopied, Running
    <2> QED
        BY <1>2, <2>1, PageSlots DEF PageCopied, Going, HasPages
<1>5. Going(r)
    BY <1>1, <1>3, <1>4, GoingKeeps DEF Going
<1> QED
    BY <1>5 DEF r, v

(* So is one in a shared table.                                               *)
LEMMA TableGoing ==
    ASSUME NEW n, Going(n), HasRoom(n, 2), n.active \in Running(n), NEW i \in Slot, NEW last \in Sharers(n),
           NEW r, r = CopyTable(n, <<"low", i>>, last)
    PROVE  Going(r) /\ HasRoom(r, 1) /\ r.active = n.active /\ Running(r) = Running(n)
<1> DEFINE p == n.active
           c == CopyTable(n, <<"low", i>>, last)
<1>1. /\ Sound(n) /\ Owned(n) /\ HasStack(n, StackPages) /\ HasHeap(n) /\ HasText(n) /\ Coherent(n)
      /\ n.dir[p]["low"] # None
    BY HasTables, KernelAssumption DEF Going, Running
<1>2. last \in Running(n) /\ last # p /\ n.dir[last]["low"] = n.dir[p]["low"]
    BY DEF Sharers, Programs, Running
<1>3. HasRoom(n, 1)
    BY <1>1, Counts
<1>4. TableCopied(c, n, p)
    BY <1>1, <1>2, <1>3, CopyTableFacts
<1> HIDE DEF c
<1>5. /\ Sound(c) /\ Owned(c) /\ Keeps(c, n, 1) /\ DOMAIN c.dir = DOMAIN n.dir /\ c.active = p
    BY <1>4 DEF TableCopied
<1>6. ASSUME NEW s \in Running(c) PROVE HasPages(c, s, Pages)
    <2>1. s \in Running(n)
        BY <1>5 DEF Running
    <2> QED
        BY <1>4, <2>1, PageSlots DEF TableCopied, Going, HasPages
<1>7. Coherent(c)
    <2>1. ASSUME NEW x \in c.stale, x[1] = "low" PROVE Walk(c, p, <<"low", x[2]>>) = x[3]
        <3>1. x[2] \in Slot
            BY <1>5 DEF Sound, Typed
        <3>2. Walk(n, p, <<"low", x[2]>>) = x[3]
            BY <1>1, <1>4, <2>1 DEF TableCopied, Coherent
        <3> QED
            BY <1>4, <3>1, <3>2 DEF TableCopied
    <2> QED
        BY <1>5, <2>1 DEF Coherent
<1>8. Going(c)
    BY <1>1, <1>5, <1>6, <1>7, GoingKeeps DEF Going
<1>9. HasRoom(c, 1) /\ Running(c) = Running(n)
    <2>1. 1 \in Nat /\ HasRoom(n, 1 + 1)
        OBVIOUS
    <2>2. HasRoom(c, 1)
        BY <1>5, <2>1 DEF Keeps
    <2> QED
        BY <1>5, <2>2 DEF Running
<1> QED
    BY <1>5, <1>8, <1>9 DEF c

(* The word looked up for a stray access is read where the kernel means to read   *)
(* it, or, without a table, in page 0 of the program.                         *)
LEMMA WordFacts ==
    ASSUME NEW n, Going(n), n.active \in Running(n), NEW v \in Strays
    PROVE  /\ ReadWord(n, v) = n
           /\ v[1] \in Dir => v \in VPage /\ ~ NoTable(n, v)
<1>1. /\ Sound(n) /\ Typed(n) /\ HasStack(n, StackPages) /\ HasHeap(n) /\ HasText(n) /\ Coherent(n)
      /\ Kernel \in DOMAIN n.dir /\ n.active \in DOMAIN n.dir
    BY Counts, KernelAssumption DEF Going, Running
<1>2. v \in (Dir \cup {"other"}) \X Slot
    BY StrayAssumption
<1>3. ASSUME v[1] \in Dir PROVE v \in VPage /\ ~ NoTable(n, v) /\ n.dir[n.active][v[1]] # None
    <2>1. v \in VPage
        BY <1>2, <1>3 DEF VPage
    <2>2. n.dir[n.active]["low"] # None
        BY HasTables
    <2>3. n.dir[Kernel]["window"] # None
        BY <1>1, Sizes DEF Sound, Window, None
    <2>4. n.dir[Kernel]["stack"] # None /\ n.dir[Kernel]["heap"] # None
        BY <1>1 DEF HasStack, HasHeap
    <2>5. n.dir[Kernel]["text"] # None
        BY <1>1, Sizes DEF HasText, KWalk, Walk, None
    <2>6. n.dir[n.active][v[1]] # None
        BY <1>1, <1>3, <2>2, <2>3, <2>4, <2>5 DEF Sound, Shared, Dir
    <2> QED
        BY <1>1, <1>3, <2>1, <2>6 DEF NoTable, Sound, Pointers
<1>4. CASE v[1] \in Dir
    <2>1. ReadWord(n, v) = n
        BY <1>1, <1>3, <1>4, AccessTableFixed DEF ReadWord
    <2> QED
        BY <1>3, <1>4, <2>1
<1>5. CASE v[1] \notin Dir
    <2>1. NoTable(n, v)
        BY <1>5 DEF NoTable
    <2>2. <<"low", 0>> \in VPage /\ Walk(n, n.active, <<"low", 0>>) \in Frame
        <3>1. 0 \in 0 .. Pages - 1
            BY Sizes
        <3> QED
            BY <3>1, PageSlots, PageFacts DEF Going, HasPages, Dir
    <2>3. LeadsTo(n, <<"low", 0>>, Walk(n, n.active, <<"low", 0>>))
        BY <1>1, <2>2 DEF LeadsTo, Coherent
    <2>4. (n.wild \/ ~ LeadsTo(n, <<"low", 0>>, Walk(n, n.active, <<"low", 0>>))) = FALSE
        BY <1>1, <2>3 DEF Typed
    <2> QED
        BY <1>1, <1>5, <2>1, <2>4, SameWild DEF ReadWord
<1> QED
    BY <1>4, <1>5

(* Entries that nobody has cleared are those of the heap's table, above the heap. *)
LEMMA UnclearedFacts ==
    ASSUME NEW n, Sound(n), n.active \in Running(n), NEW v \in VPage, Walk(n, n.active, v) = Junk
    PROVE  v[1] = "heap" /\ v[2] >= n.heap
<1>1. v = <<v[1], v[2]>> /\ v[2] \in Slot /\ Junk \notin FreeKind /\ Junk # None /\ n.active \in DOMAIN n.dir
    BY PageFacts, Sizes DEF FreeKind, Junk, None, Running
<1>2. v[1] # "low"
    BY <1>1 DEF Sound, UserApart
<1>3. KWalk(n, v) = Junk
    BY <1>1, <1>2, SharedWalk DEF Sound
<1>4. v[1] = "heap"
    BY <1>2, <1>3 DEF Sound, StackApart
<1>5. ASSUME ~ v[2] >= n.heap PROVE FALSE
    <2>1. v[2] \in InHeap(n)
        BY <1>1, <1>5, HeapSlots DEF Sound
    <2>2. Frames(n, v[2]) = Junk
        BY <1>1, <1>3, <1>4 DEF Frames, HeapPage
    <2> QED
        BY <1>1, <2>1, <2>2 DEF Sound, HeapApart
<1> QED
    BY <1>4, <1>5

(* A process ends, and another one goes on.                                     *)
LEMMA ExitGoing ==
    ASSUME NEW n, Going(n), n.active \in Running(n), text = <<"text", 0>>,
           NEW q \in Running(n), q # n.active, NEW a, a = Activate(Terminated(n, n.active), q), NEW r,
           r = [a EXCEPT !.dir = Drop(@, n.active), !.tab = Drop(@, n.active), !.at = Drop(@, n.active)]
    PROVE  Going(r)
<1>1. Sound(n) /\ Owned(n) /\ HasStack(n, StackPages) /\ HasHeap(n) /\ HasText(n)
    BY DEF Going
<1>2. Exited(r, n, n.active, q)
    BY <1>1, ExitFacts
<1>3. Sound(r) /\ Owned(r) /\ Keeps(r, n, 0) /\ Coherent(r)
    BY <1>2 DEF Exited, Coherent
<1>4. ASSUME NEW s \in Running(r) PROVE HasPages(r, s, Pages)
    BY <1>2, PageSlots DEF Exited, Going, HasPages
<1> QED
    BY <1>1, <1>3, <1>4, GoingKeeps DEF Going

(* The last process ends.                                                     *)
LEMMA LastExit ==
    ASSUME NEW n, Going(n), n.active \in Running(n), text = <<"text", 0>>
    PROVE  Sound(Terminated(n, n.active))
    BY TerminatedFacts DEF Going, Returned

-----------------------------------------------------------------------------
(* Every action keeps the invariant. *)

(* The invariant after a step is the invariant of the values after it.          *)
LEMMA Arrive ==
    ASSUME IInv, pc' \in Pc, step' \in 0 .. M,
           pc' \notin {"stack pages", "free frames", "brk", "pages"} => step' = 0,
           text' = IF pc' \in OldText THEN <<"low", TextFrame>> ELSE <<"text", 0>>,
           Phase(pc', step', m')
    PROVE  IInv'
<1>1. Control'
    BY DEF Control
<1> QED
    BY <1>1 DEF IInv

(* setup_memory_manager: the table of the stack of free frames.                *)
LEMMA StackTableStep == ASSUME IInv, StackTable PROVE IInv'
<1> DEFINE r == SetupTable(m, Kernel, StackPage(0), <<"window", FirstFree - B>>, FirstFree)
<1>1. pc = "stack table" /\ pc' = "stack pages" /\ m' = Says(r) /\ step' = step /\ text' = text
    BY DEF StackTable, Main
<1> HIDE DEF r
<1>2. step = 0 /\ text = <<"low", TextFrame>>
    BY <1>1 DEF IInv, Control, OldText
<1>3. /\ Sound(m) /\ Owned(m) /\ Alone(m) /\ Untouched(m) /\ HasLow(m)
      /\ m.dir[Kernel]["stack"] = None /\ m.free = <<>>
    BY <1>1 DEF IInv, Phase, Bare
<1>4. StackEntered(r)
    BY <1>3, StackTableFacts DEF r
<1>5. Says(r) = r
    BY <1>2, <1>4, SaysFacts DEF StackEntered, Alone
<1>6. Bare(m') /\ HasStack(m', 0) /\ m'.free = <<>>
    BY <1>1, <1>4, <1>5 DEF StackEntered, Bare
<1>7. Phase("stack pages", 0, m')
    BY <1>6, Sizes DEF Phase
<1> QED
    BY <1>1, <1>2, <1>7, Arrive DEF Pc, OldText, IInv, Control

(* setup_memory_manager: its pages.                                           *)
LEMMA MapStackStep == ASSUME IInv, MapStack PROVE IInv'
<1>1. pc = "stack pages"
    BY DEF MapStack
<1>2. text = <<"low", TextFrame>> /\ step \in 0 .. M
    BY <1>1 DEF IInv, Control, OldText
<1>3. /\ Sound(m) /\ Owned(m) /\ Alone(m) /\ Untouched(m) /\ HasLow(m)
      /\ HasStack(m, step) /\ m.free = <<>> /\ step <= StackPages
    BY <1>1 DEF IInv, Phase, Bare
<1>4. step \in Nat
    BY <1>2, Sizes
<1>5. CASE step = StackPages
    <2>1. pc' = "free frames" /\ step' = 0 /\ m' = m /\ text' = text
        BY <1>5 DEF MapStack, Goto
    <2>2. First + 0 <= M /\ Len(m.free) = 0 /\ \A i \in DOMAIN m.free : m.free[i] < First + 0
        <3>1. First + 0 <= M
            BY Sizes
        <3>2. Len(m.free) = 0
            BY <1>3
        <3>3. \A i \in DOMAIN m.free : FALSE
            BY <1>3
        <3> QED
            BY <3>1, <3>2, <3>3
    <2>3. Phase("free frames", 0, m)
        BY <1>3, <1>5, <2>2 DEF Phase, Bare
    <2>4. 0 \in 0 .. M
        BY Sizes
    <2> QED
        BY <1>2, <2>1, <2>3, <2>4, Arrive DEF Pc, OldText
<1>6. CASE step # StackPages
    <2>1. pc' = pc /\ step' = step + 1 /\ m' = MapStackPage(m, step) /\ text' = text
        BY <1>6 DEF MapStack
    <2>2. step \in 0 .. StackPages - 1 /\ step + 1 <= StackPages /\ step + 1 \in 0 .. M
        BY <1>3, <1>4, <1>6, Sizes
    <2>3. Bare(m') /\ m'.free = <<>> /\ HasStack(m', step + 1)
        BY <1>3, <2>1, <2>2, MapStackFacts DEF Bare
    <2>4. Phase("stack pages", step + 1, m')
        BY <2>2, <2>3 DEF Phase
    <2> QED
        BY <1>1, <1>2, <2>1, <2>2, <2>4, Arrive DEF Pc, OldText
<1> QED
    BY <1>5, <1>6

(* A frame beyond those that are free already is spare.                        *)
LEMMA NextSpare ==
    ASSUME NEW n, Alone(n), Untouched(n), Sound(n), NEW k \in Nat, First + k < M,
           \A i \in DOMAIN n.free : n.free[i] < First + k
    PROVE  Spare(n, First + k)
<1>1. Running(n) = {} /\ InHeap(n) = {}
    BY KernelAssumption DEF Running, InHeap, Alone, Untouched
<1>2. First + k \in FreeKind
    BY Sizes DEF FreeKind
<1>3. \A t \in DOMAIN n.table : t < First /\ t \in Nat
    <2>1. DOMAIN n.table \subseteq Frame
        BY DEF Sound, Typed
    <2> QED
        BY <2>1, Sizes DEF Untouched, Frame
<1>4. First + k \notin DOMAIN n.table
    BY <1>3, Sizes
<1>5. \A i \in DOMAIN n.free : n.free[i] # First + k
    <2>1. \A i \in DOMAIN n.free : n.free[i] \in FreeKind
        BY DEF Sound, FreeApart
    <2> QED
        BY <2>1, Sizes DEF FreeKind
<1> QED
    BY <1>1, <1>2, <1>4, <1>5 DEF Spare

(* setup_memory_manager: all the frames it leaves alone are free.               *)
LEMMA FreeFramesStep == ASSUME IInv, FreeFrames PROVE IInv'
<1> DEFINE f == FirstFree + 1 + StackPages + step
<1>1. pc = "free frames"
    BY DEF FreeFrames
<1>2. text = <<"low", TextFrame>> /\ step \in 0 .. M /\ step \in Nat
    <2>1. text = <<"low", TextFrame>> /\ step \in 0 .. M
        BY <1>1 DEF IInv, Control, OldText
    <2> QED
        BY <2>1, Sizes
<1>3. /\ Sound(m) /\ Owned(m) /\ Alone(m) /\ Untouched(m) /\ HasLow(m)
      /\ HasStack(m, StackPages) /\ Len(m.free) = step /\ First + step <= M
      /\ \A i \in DOMAIN m.free : m.free[i] < First + step
    BY <1>1 DEF IInv, Phase, Bare
<1>4. f = First + step
    BY <1>2, Sizes DEF First
<1> HIDE DEF f
<1>5. CASE f >= M
    <2>1. pc' = "heap" /\ step' = 0 /\ m' = m /\ text' = text
        BY <1>5 DEF FreeFrames, Goto, f
    <2>2. HasRoom(m, Brks(0) + 3)
        <3>1. Brks(0) + 3 = 11 + Kbrks + Pages
            BY Sizes DEF Brks
        <3>2. m.heap = 0 /\ step >= 11 + Kbrks + Pages
            BY <1>2, <1>3, <1>4, <1>5, Sizes DEF Untouched
        <3> QED
            BY <1>3, <3>1, <3>2, Sizes DEF HasRoom
    <2>3. Phase("heap", 0, m)
        BY <1>3, <2>2 DEF Phase, Bare
    <2>4. 0 \in 0 .. M
        BY Sizes
    <2> QED
        BY <1>2, <2>1, <2>3, <2>4, Arrive DEF Pc, OldText
<1>6. CASE ~ f >= M
    <2> DEFINE r == MmPageFree(m, f)
    <2>1. pc' = pc /\ step' = step + 1 /\ m' = r /\ text' = text
        BY <1>6 DEF FreeFrames, f
    <2>2. First + step < M /\ step < M - First /\ step + 1 \in 0 .. M /\ First + (step + 1) <= M
        BY <1>2, <1>4, <1>6, Sizes
    <2>3. Spare(m, f)
        BY <1>2, <1>3, <1>4, <2>2, NextSpare
    <2>4. Sound(r) /\ Owned(r) /\ Alloc(r, m) /\ r.free = Append(m.free, f)
        BY <1>3, <2>2, <2>3, FreedFacts
    <2> HIDE DEF r
    <2>5. Alone(r) /\ Untouched(r) /\ HasLow(r) /\ HasStack(r, StackPages)
        <3>1. /\ r.dir = m.dir /\ r.table = m.table /\ r.heap = m.heap /\ r.active = m.active
              /\ r.stale = m.stale /\ \A w : KWalk(r, w) = KWalk(m, w)
            BY <2>4 DEF Alloc, KWalk
        <3> QED
            BY <1>3, <3>1 DEF Alone, Untouched, HasLow, HasStack
    <2>6. m.free \in Seq(Frame) /\ f \in Frame
        <3>1. f \in FreeKind
            BY <2>3 DEF Spare
        <3>2. f \in Frame
            BY <3>1, KindFacts
        <3> QED
            BY <1>3, <3>2 DEF Sound, Typed
    <2>7. Len(r.free) = step + 1
        BY <1>3, <2>4, <2>6
    <2>8. \A i \in DOMAIN r.free : r.free[i] < First + (step + 1)
        <3>1. ASSUME NEW i \in DOMAIN r.free PROVE i \in DOMAIN m.free \/ r.free[i] = f
            BY <1>3, <2>4, <2>6, <2>7
        <3>2. ASSUME NEW i \in DOMAIN m.free PROVE r.free[i] = m.free[i] /\ m.free[i] \in Nat
            BY <2>4, <2>6, Sizes DEF Frame
        <3>3. \A x \in Nat : x < First + step => x < First + (step + 1)
            BY <1>2, Sizes
        <3>4. f < First + (step + 1)
            BY <1>2, <1>4, Sizes
        <3> QED
            BY <1>3, <3>1, <3>2, <3>3, <3>4
    <2>9. Phase("free frames", step + 1, r)
        BY <2>2, <2>4, <2>5, <2>7, <2>8 DEF Phase, Bare
    <2> QED
        BY <1>1, <1>2, <2>1, <2>2, <2>9, Arrive DEF Pc, OldText
<1> QED
    BY <1>5, <1>6

(* What main() takes in one step, and what it leaves.                           *)
LEMMA Amounts ==
    /\ Brks(0) \in Nat /\ Loops(0) \in Nat /\ Brks(0) >= 1
    /\ Brks(0) + 3 = (Brks(0) + 1) + 2
    /\ \A k \in Nat : k <= Kbrks => Brks(k) \in Nat
    /\ \A k \in Nat : k < Kbrks => Brks(k) = Brks(k + 1) + 1
    /\ Brks(Kbrks) = Loops(0) + 3
    /\ \A k \in Nat : k <= Pages => Loops(k) \in Nat
    /\ Loops(0) = Loops(1) + 3
    /\ \A k \in Nat : 0 < k /\ k < Pages => Loops(k) = Loops(k + 1) + 1
    /\ Loops(Pages) = 3
    BY Sizes DEF Brks, Loops

(* setup_heap.                                                                *)
LEMMA SetupHeapStep == ASSUME IInv, SetupHeap PROVE IInv'
<1> DEFINE r == SetHeapTable(m)
<1>1. pc = "heap" /\ pc' = "map text" /\ m' = Says(r) /\ step' = step /\ text' = text
    BY DEF SetupHeap, Main
<1> HIDE DEF r
<1>2. step = 0 /\ text = <<"low", TextFrame>> /\ 0 \in 0 .. M
    <2>1. step = 0 /\ text = <<"low", TextFrame>>
        BY <1>1 DEF IInv, Control, OldText
    <2> QED
        BY <2>1, Sizes
<1>3. /\ Sound(m) /\ Alone(m) /\ Untouched(m) /\ HasLow(m) /\ HasStack(m, StackPages)
      /\ HasRoom(m, Brks(0) + 3)
    BY <1>1 DEF IInv, Phase, Bare
<1>4. Len(m.free) >= 2
    <2>1. Len(m.free) \in Nat
        BY <1>3, Counts
    <2> QED
        BY <1>3, <2>1, Amounts DEF HasRoom
<1>5. HeapSet(r, m)
    BY <1>3, <1>4, SetHeapTableFacts DEF r
<1>6. Says(r) = r
    BY <1>2, <1>5, SaysFacts DEF HeapSet, Alone
<1>7. HasRoom(r, Brks(0) + 1)
    <2>1. Brks(0) + 1 \in Nat /\ HasRoom(m, (Brks(0) + 1) + 2)
        BY <1>3, Amounts
    <2> QED
        BY <1>5, <2>1 DEF HeapSet
<1>8. Phase("map text", 0, r)
    BY <1>5, <1>7 DEF HeapSet, Phase
<1> QED
    BY <1>1, <1>2, <1>6, <1>8, Arrive DEF Pc, OldText

(* main() maps the screen at its second address.                               *)
LEMMA MapTextStep == ASSUME IInv, MapText PROVE IInv'
<1> DEFINE r == PgMap(m, Kernel, <<"text", 0>>, TextFrame)
<1>1. pc = "map text" /\ pc' = "set base" /\ m' = Says(r) /\ step' = step /\ text' = text
    BY DEF MapText, Main
<1> HIDE DEF r
<1>2. step = 0 /\ text = <<"low", TextFrame>> /\ 0 \in 0 .. M
    <2>1. step = 0 /\ text = <<"low", TextFrame>>
        BY <1>1 DEF IInv, Control, OldText
    <2> QED
        BY <2>1, Sizes
<1>3. /\ Sound(m) /\ Owned(m) /\ Alone(m) /\ HasLow(m) /\ HasStack(m, StackPages) /\ HasHeap(m)
      /\ m.dir[Kernel]["text"] = None /\ HasRoom(m, Brks(0) + 1)
    BY <1>1 DEF IInv, Phase
<1>4. HasRoom(m, 1)
    <2>1. 1 \in Nat /\ Brks(0) + 1 \in Nat /\ 1 <= Brks(0) + 1
        BY Amounts
    <2> QED
        BY <1>3, <2>1, Counts
<1>5. TextMapped(r, m)
    BY <1>3, <1>4, MapTextFacts DEF r
<1>6. Says(r) = r
    BY <1>2, <1>5, SaysFacts DEF TextMapped, Alone
<1>7. HasRoom(r, Brks(0))
    BY <1>3, <1>5, Amounts DEF TextMapped
<1>8. Phase("set base", 0, r)
    BY <1>5, <1>7 DEF TextMapped, Phase, Ready
<1> QED
    BY <1>1, <1>2, <1>6, <1>8, Arrive DEF Pc, OldText

(* main() makes the console use it.                                            *)
LEMMA SetBaseStep == ASSUME IInv, SetBase PROVE IInv'
<1>1. /\ pc = "set base" /\ pc' = "remove low" /\ m' = Access(m, {<<"text", 0>>}) /\ step' = step
      /\ text' = <<"text", 0>>
    BY DEF SetBase
<1>2. step = 0 /\ 0 \in 0 .. M
    <2>1. step = 0
        BY <1>1 DEF IInv, Control
    <2> QED
        BY <2>1, Sizes
<1>3. Ready(m, Brks(0)) /\ Alone(m)
    BY <1>1 DEF IInv, Phase
<1>4. Access(m, {<<"text", 0>>}) = m
    <2>1. 0 \in Slot /\ TextFrame \in Frame
        BY Sizes DEF Slot, Frame
    <2>2. Fixed(m, <<"text", 0>>)
        BY <1>3, <2>1, PageFacts DEF Fixed, Ready, HasText, Dir
    <2> QED
        BY <1>3, <2>2, AccessFixed DEF Ready
<1>5. Phase("remove low", 0, m)
    BY <1>3 DEF Phase
<1> QED
    BY <1>1, <1>2, <1>4, <1>5, Arrive DEF Pc, OldText

(* What is left after some has been taken.                                     *)
LEMMA ReadyKeeps ==
    ASSUME NEW n, NEW j \in Nat, NEW k \in Nat, Ready(n, j + k),
           NEW r, Sound(r), Owned(r), Keeps(r, n, k)
    PROVE  Ready(r, j)
    BY DEF Ready, Keeps

(* main() removes the identity map.                                            *)
LEMMA RemoveLowStep == ASSUME IInv, RemoveLow PROVE IInv'
<1> DEFINE r == PgRemove(m, Kernel, <<"low", 0>>)
<1>1. pc = "remove low" /\ pc' = "brk" /\ m' = Says(r) /\ step' = step /\ text' = text
    BY DEF RemoveLow, Main
<1>2. LowRemoved(r, m)
    BY <1>1, PgRemoveFacts DEF IInv, Phase, Ready
<1> HIDE DEF r
<1>3. step = 0 /\ text = <<"text", 0>> /\ 0 \in 0 .. M
    <2>1. step = 0 /\ text = <<"text", 0>>
        BY <1>1 DEF IInv, Control, OldText
    <2> QED
        BY <2>1, Sizes
<1>4. Ready(m, Brks(0)) /\ Alone(m)
    BY <1>1 DEF IInv, Phase
<1>5. Ready(r, Brks(0)) /\ Alone(r)
    <2>1. Brks(0) \in Nat /\ 0 \in Nat /\ Brks(0) = Brks(0) + 0
        BY Amounts
    <2>2. Ready(m, Brks(0) + 0)
        BY <1>4, <2>1
    <2>3. Owned(m)
        BY <1>4 DEF Ready
    <2>4. Ready(r, Brks(0))
        BY <1>2, <2>1, <2>2, <2>3, ReadyKeeps DEF LowRemoved
    <2> QED
        BY <1>2, <1>4, <2>4 DEF LowRemoved, Alone
<1>6. Says(r) = r
    BY <1>3, <1>5, SaysFacts DEF Ready
<1>7. Phase("brk", 0, r)
    BY <1>5, Sizes DEF Phase
<1> QED
    BY <1>1, <1>3, <1>6, <1>7, Arrive DEF Pc, OldText

(* main() calls kbrk.                                                         *)
LEMMA CallKbrkStep == ASSUME IInv, CallKbrk PROVE IInv'
<1>1. pc = "brk"
    BY DEF CallKbrk
<1>2. text = <<"text", 0>> /\ step \in 0 .. M
    BY <1>1 DEF IInv, Control, OldText
<1>3. Ready(m, Brks(step)) /\ Alone(m) /\ step <= Kbrks
    BY <1>1 DEF IInv, Phase
<1>4. step \in Nat /\ 0 \in 0 .. M
    BY <1>2, Sizes
<1>5. CASE step = Kbrks
    <2>1. pc' = "app" /\ step' = 0 /\ m' = m /\ text' = text
        BY <1>5 DEF CallKbrk, Goto
    <2>2. Phase("app", 0, m)
        BY <1>3, <1>5, Amounts DEF Phase
    <2> QED
        BY <1>2, <1>4, <2>1, <2>2, Arrive DEF Pc, OldText
<1>6. CASE step # Kbrks
    <2> DEFINE r == Brk(m)
    <2>1. pc' = pc /\ step' = step + 1 /\ m' = r /\ text' = text
        BY <1>6 DEF CallKbrk
    <2>2. step < Kbrks /\ step + 1 \in Nat /\ step + 1 <= Kbrks /\ step + 1 \in 0 .. M
        BY <1>3, <1>4, <1>6, Sizes
    <2>3. Brks(step + 1) \in Nat /\ Brks(step) = Brks(step + 1) + 1
        BY <1>4, <2>2, Amounts
    <2>4. Ready(m, Brks(step + 1) + 1)
        BY <1>3, <2>3
    <2>5. HasRoom(m, 1)
        <3>1. 1 \in Nat /\ Brks(step + 1) + 1 \in Nat /\ 1 <= Brks(step + 1) + 1
            BY <2>3
        <3> QED
            BY <2>4, <3>1, Counts DEF Ready
    <2>6. Sound(r) /\ Owned(r) /\ Grown(r, m, 1)
        BY <2>4, <2>5, BrkFacts DEF Ready
    <2> HIDE DEF r
    <2>7. Keeps(r, m, 1)
        BY <2>4, <2>6, GrownKernel DEF Ready
    <2>8. Ready(r, Brks(step + 1))
        BY <2>3, <2>4, <2>6, <2>7, ReadyKeeps
    <2>9. Alone(r)
        BY <1>3, <2>6 DEF Alone, Grown
    <2>10. Phase("brk", step + 1, r)
        BY <2>2, <2>8, <2>9 DEF Phase
    <2> QED
        BY <1>1, <1>2, <2>1, <2>2, <2>10, Arrive DEF Pc, OldText
<1> QED
    BY <1>5, <1>6

(* The program is the only process.                                           *)
LEMMA TheAppFacts ==
    ASSUME NEW n, NEW p \in Proc, Running(n) = {p}
    PROVE  TheApp(n) = p
<1>1. \A q \in Proc : q \in DOMAIN n.dir <=> q = p
    BY DEF Running
<1> QED
    BY <1>1 DEF TheApp

(* main() makes the first process.                                            *)
LEMMA CreateAppStep == ASSUME IInv, CreateApp PROVE IInv'
<1>1. PICK p \in Proc :
        pc = "app" /\ pc' = "pages" /\ m' = Says(Create(m, p)) /\ step' = step /\ text' = text
    BY DEF CreateApp, Main
<1> DEFINE r == Create(m, p)
<1>2. step = 0 /\ text = <<"text", 0>> /\ 0 \in 0 .. M
    <2>1. step = 0 /\ text = <<"text", 0>>
        BY <1>1 DEF IInv, Control, OldText
    <2> QED
        BY <2>1, Sizes
<1>3. Ready(m, Loops(0) + 3) /\ Alone(m)
    BY <1>1 DEF IInv, Phase
<1>4. HasRoom(m, 3)
    <2>1. 3 \in Nat /\ Loops(0) + 3 \in Nat /\ 3 <= Loops(0) + 3
        BY Amounts
    <2> QED
        BY <1>3, <2>1, Counts DEF Ready
<1>5. p \notin DOMAIN m.dir
    BY <1>3, KernelAssumption DEF Alone
<1>6. Created(r, m, p, [m.dir[Kernel] EXCEPT !["low"] = None])
    BY <1>3, <1>4, <1>5, CreateFacts DEF Ready
<1> HIDE DEF r
<1>7. Ready(r, Loops(0))
    BY <1>3, <1>6, Amounts, ReadyKeeps DEF Created
<1>8. Running(r) = {p} /\ r.active = Kernel
    BY <1>3, <1>6, KernelAssumption DEF Created, Running, Alone
<1>9. Loads(r, TheApp(r), 0)
    <2>1. TheApp(r) = p
        BY <1>8, TheAppFacts
    <2>2. \A i \in 0 .. 0 - 1 : FALSE
        OBVIOUS
    <2> QED
        BY <1>8, <2>1, <2>2 DEF Loads
<1>10. Says(r) = r
    BY <1>2, <1>7, SaysFacts DEF Ready
<1>11. Phase("pages", 0, r)
    BY <1>7, <1>9, Sizes DEF Phase
<1> QED
    BY <1>1, <1>2, <1>10, <1>11, Arrive DEF Pc, OldText, r

(* main() gives it a page.                                                    *)
LEMMA MapAppPageStep == ASSUME IInv, MapAppPage PROVE IInv'
<1>1. pc = "pages"
    BY DEF MapAppPage
<1>2. text = <<"text", 0>> /\ step \in 0 .. M
    BY <1>1 DEF IInv, Control, OldText
<1>3. Ready(m, Loops(step)) /\ Loads(m, TheApp(m), step) /\ step <= Pages
    BY <1>1 DEF IInv, Phase
<1>4. step \in Nat /\ 0 \in 0 .. M
    BY <1>2, Sizes
<1>5. CASE step = Pages
    <2>1. pc' = "read" /\ step' = 0 /\ m' = m /\ text' = text
        BY <1>5 DEF MapAppPage, Goto
    <2>2. Phase("read", 0, m)
        BY <1>3, <1>5, Amounts DEF Phase
    <2> QED
        BY <1>2, <1>4, <2>1, <2>2, Arrive DEF Pc, OldText
<1>6. CASE step # Pages
    <2> DEFINE p == TheApp(m)
               k == IF step = 0 THEN 3 ELSE 1
               v == <<"low", step>>
               r == PgMap(PgMap(Popped(m), p, v, Top(m)), Kernel, v, Top(m))
    <2>1. pc' = pc /\ step' = step + 1 /\ m' = r /\ text' = text
        BY <1>6 DEF MapAppPage, App, TheApp, Spaces
    <2>2. step < Pages /\ step + 1 \in Nat /\ step + 1 <= Pages /\ step + 1 \in 0 .. M /\ step \in Slot
        BY <1>3, <1>4, <1>6, Sizes DEF Slot
    <2>3. Running(m) = {p} /\ p \in Proc /\ m.active = Kernel /\ \A i \in 0 .. step - 1 : Readable(m, p, i)
        BY <1>3 DEF Loads, Running
    <2> HIDE DEF p
    <2>4. k \in {1, 3} /\ Loops(step + 1) \in Nat /\ Loops(step) = Loops(step + 1) + k
        BY <1>4, <2>2, Amounts
    <2>5. HasRoom(m, k)
        <3>1. k \in Nat /\ Loops(step) \in Nat /\ k <= Loops(step)
            BY <2>4
        <3> QED
            BY <1>3, <3>1, Counts DEF Ready
    <2>6. k = 1 => m.dir[p]["low"] # None /\ m.dir[Kernel]["low"] # None
        <3>1. ASSUME step # 0 PROVE m.dir[p]["low"] # None /\ m.dir[Kernel]["low"] # None
            <4>1. 0 \in 0 .. step - 1
                BY <1>4, <3>1
            <4>2. Walk(m, p, <<"low", 0>>) \in Frame /\ Walk(m, Kernel, <<"low", 0>>) \in Frame
                BY <2>3, <4>1 DEF Readable
            <4>3. None \notin Frame
                BY Sizes DEF Frame, None
            <4> QED
                BY <4>2, <4>3 DEF Walk
        <3> QED
            BY <3>1
    <2> HIDE DEF k
    <2>7. AppMapped(r, m, p, step, k)
        BY <1>3, <2>2, <2>3, <2>4, <2>5, <2>6, AppPageFacts DEF Ready
    <2> HIDE DEF r
    <2>8. Ready(r, Loops(step + 1))
        BY <1>3, <2>4, <2>7, ReadyKeeps DEF AppMapped
    <2>9. Loads(r, TheApp(r), step + 1)
        <3>1. Running(r) = {p} /\ r.active = Kernel
            BY <2>3, <2>7 DEF AppMapped, Running
        <3>2. TheApp(r) = p
            BY <2>3, <3>1, TheAppFacts
        <3>3. ASSUME NEW i \in 0 .. (step + 1) - 1 PROVE Readable(r, p, i)
            <4>1. i \in Slot /\ (i # step => i \in 0 .. step - 1)
                BY <1>4, <2>2, Sizes DEF Slot
            <4> QED
                BY <2>3, <2>7, <4>1 DEF AppMapped
        <3> QED
            BY <3>1, <3>2, <3>3 DEF Loads
    <2>10. Phase("pages", step + 1, r)
        BY <2>2, <2>8, <2>9 DEF Phase
    <2> QED
        BY <1>1, <1>2, <2>1, <2>2, <2>10, Arrive DEF Pc, OldText
<1> QED
    BY <1>5, <1>6

(* main() reads it from disk.                                                  *)
LEMMA ReadAppStep == ASSUME IInv, ReadApp PROVE IInv'
<1> DEFINE p == TheApp(m)
           r == [m EXCEPT !.wild = @ \/ \E i \in 0 .. Pages - 1 :
                    ~ LeadsTo(m, <<"low", i>>, Walk(m, p, <<"low", i>>))]
<1>1. pc = "read" /\ pc' = "fork" /\ m' = Says(r) /\ step' = step /\ text' = text
    BY DEF ReadApp, Main, App, TheApp, Spaces
<1>2. step = 0 /\ text = <<"text", 0>> /\ 0 \in 0 .. M
    <2>1. step = 0 /\ text = <<"text", 0>>
        BY <1>1 DEF IInv, Control, OldText
    <2> QED
        BY <2>1, Sizes
<1>3. Ready(m, 3) /\ Loads(m, p, Pages)
    BY <1>1 DEF IInv, Phase
<1>4. r = m
    BY <1>3, ReadFacts DEF Ready, Loads
<1> HIDE DEF r, p
<1>5. Says(m) = m
    BY <1>2, <1>3, SaysFacts DEF Ready
<1>6. Phase("fork", 0, m)
    BY <1>3 DEF Phase, p
<1> QED
    BY <1>1, <1>2, <1>4, <1>5, <1>6, Arrive DEF Pc, OldText

(* main() makes the second process.                                           *)
LEMMA ForkAppStep == ASSUME IInv, ForkApp PROVE IInv'
<1> DEFINE p == TheApp(m)
<1>1. PICK c \in Proc \ DOMAIN m.dir :
        pc = "fork" /\ pc' = "run" /\ m' = Says(CopySpace(m, p, c)) /\ step' = step /\ text' = text
    BY DEF ForkApp, Main, App, TheApp, Spaces
<1> DEFINE r == CopySpace(m, p, c)
<1>2. step = 0 /\ text = <<"text", 0>> /\ 0 \in 0 .. M
    <2>1. step = 0 /\ text = <<"text", 0>>
        BY <1>1 DEF IInv, Control, OldText
    <2> QED
        BY <2>1, Sizes
<1>3. Ready(m, 3) /\ Loads(m, p, Pages)
    BY <1>1 DEF IInv, Phase
<1> HIDE DEF p
<1>4. m.active = Kernel /\ Running(m) = {p} /\ \A s \in Running(m) : HasPages(m, s, Pages)
    BY <1>3 DEF Loads, HasPages, Readable
<1>5. /\ Sound(r) /\ Owned(r) /\ HasStack(r, StackPages) /\ HasHeap(r) /\ HasText(r)
      /\ \A s \in Running(r) : HasPages(r, s, Pages)
      /\ r.active = m.active
    BY <1>1, <1>3, <1>4, CopyGoing DEF Ready
<1> HIDE DEF r
<1>6. Going(r)
    BY <1>4, <1>5 DEF Going
<1>7. Says(r) = r
    BY <1>2, <1>5, SaysFacts
<1>8. Phase("run", 0, r)
    BY <1>6 DEF Phase
<1> QED
    BY <1>1, <1>2, <1>7, <1>8, Arrive DEF Pc, OldText, r

(* While processes run.                                                       *)
LEMMA Runs ==
    ASSUME IInv, pc = "run"
    PROVE  /\ Going(m) /\ step = 0 /\ text = <<"text", 0>> /\ 0 \in 0 .. M
           /\ m.active # Kernel => m.active \in Running(m)
<1>1. step = 0 /\ text = <<"text", 0>>
    BY DEF IInv, Control, OldText
<1>2. Going(m)
    BY DEF IInv, Phase
<1>3. m.active \in DOMAIN m.dir /\ DOMAIN m.dir \subseteq Proc \cup {Kernel}
    BY <1>2 DEF Going, Sound, Typed
<1>4. 0 \in 0 .. M
    BY Sizes
<1> QED
    BY <1>1, <1>2, <1>3, <1>4 DEF Running

(* And they go on after a step that leaves things as they were.                 *)
LEMMA RunsOn ==
    ASSUME IInv, pc = "run", pc' = pc, step' = step, text' = text, Going(m')
    PROVE  IInv'
<1>1. Phase("run", 0, m')
    BY DEF Phase
<1> QED
    BY <1>1, Runs, Arrive DEF Pc, OldText

(* A timer interrupt.                                                         *)
LEMMA SwitchStep == ASSUME IInv, Switch PROVE IInv'
<1>1. PICK q \in Others : m' = Activate(m, q)
    BY DEF Switch
<1>2. pc = "run" /\ pc' = pc /\ step' = step /\ text' = text
    BY DEF Switch
<1>3. Going(m) /\ q \in Running(m) /\ q # m.active
    BY <1>2, Runs DEF Others, Spaces, Running
<1>4. Going(m')
    BY <1>1, <1>3, SwitchGoing
<1> QED
    BY <1>2, <1>4, RunsOn

(* fork.                                                                      *)
LEMMA ForkStep == ASSUME IInv, Fork PROVE IInv'
<1>1. PICK c \in Proc \ DOMAIN m.dir : m' = Activate(Says(CopySpace(m, m.active, c)), c)
    BY DEF Fork, Spaces
<1>2. pc = "run" /\ pc' = pc /\ step' = step /\ text' = text /\ HasRoom(m, 3) /\ m.active # Kernel
    BY DEF Fork, InProcess
<1>3. Going(m) /\ m.active \in Running(m) /\ text = <<"text", 0>>
    BY <1>2, Runs
<1>4. Going(m')
    BY <1>1, <1>2, <1>3, ForkGoing
<1> QED
    BY <1>2, <1>4, RunsOn

(* What the first part of pg_resolve_fault leaves.                            *)
LEMMA StageFacts ==
    ASSUME IInv, InProcess, HasRoom(m, 2), NEW v \in Own \cup Strays, NEW n \in TableStage(v)
    PROVE  /\ Going(n) /\ HasRoom(n, 1) /\ n.active = m.active /\ n.active \in Running(n)
           /\ Running(n) = Running(m)
<1>1. Going(m) /\ Sound(m) /\ m.active \in Running(m)
    BY Runs DEF InProcess, Going
<1>2. ReadEntry(m) = m /\ HasRoom(m, 1)
    BY <1>1, SearchFacts, Counts
<1>3. CASE n = ReadEntry(m)
    BY <1>1, <1>2, <1>3
<1>4. ASSUME Bears(v), NEW last \in Sharers(m), n = CopyTable(ReadEntry(m), v, last)
      PROVE  /\ Going(n) /\ HasRoom(n, 1) /\ n.active = m.active /\ n.active \in Running(n)
             /\ Running(n) = Running(m)
    <2>1. v \in (Dir \cup {"other"}) \X Slot
        BY PageSlots, StrayAssumption DEF Own, Dir
    <2>2. v = <<"low", v[2]>> /\ v[2] \in Slot
        BY <1>4, <2>1 DEF Bears
    <2> QED
        BY <1>1, <1>2, <1>4, <2>2, TableGoing
<1> QED
    BY <1>3, <1>4 DEF TableStage

(* A page fault.                                                              *)
LEMMA FaultStep == ASSUME IInv, Fault PROVE IInv'
<1>1. PICK v \in Own \cup Strays :
        (\E n \in TableStage(v) : Resolve(n, v) \/ Refuse(n, v) \/ Mistake(n, v)) \/ Unset(v)
    BY DEF Fault
<1>2. pc = "run" /\ step' = step /\ text' = text /\ HasRoom(m, 2) /\ InProcess
    BY DEF Fault, InProcess
<1>3. /\ Going(m) /\ m.active \in Running(m) /\ text = <<"text", 0>> /\ step = 0 /\ 0 \in 0 .. M
    BY <1>2, Runs DEF InProcess
<1>4. ASSUME NEW n \in TableStage(v), Resolve(n, v) PROVE IInv'
    <2>1. PICK i \in 0 .. Pages - 1 : v = <<"low", i>>
        BY <1>4 DEF Resolve, Own
    <2>2. Going(n) /\ HasRoom(n, 1) /\ n.active \in Running(n)
        BY <1>2, StageFacts
    <2>3. Going(CopyPage(n, v))
        BY <2>1, <2>2, CopyPageGoing DEF HasRoom
    <2> QED
        BY <1>2, <1>4, <2>3, RunsOn DEF Resolve
<1>5. ASSUME NEW n \in TableStage(v), Refuse(n, v) PROVE IInv'
    <2>1. Going(n) /\ n.active = m.active /\ n.active \in Running(n) /\ v \in Strays
        BY <1>2, <1>5, StageFacts DEF Refuse
    <2>2. Says(ReadWord(n, v)) = n
        BY <1>3, <2>1, WordFacts, SaysFacts DEF Going
    <2>3. ASSUME NEW q \in Others, m' = Activate(n, q), pc' = pc PROVE IInv'
        <3>1. q \in Running(m) /\ q # n.active
            BY <2>1 DEF Others, Spaces, Running
        <3>2. q \in Running(n)
            BY <1>2, <3>1, StageFacts
        <3>3. Going(m')
            BY <2>1, <2>3, <3>1, <3>2, SwitchGoing
        <3> QED
            BY <1>2, <2>3, <3>3, RunsOn
    <2>4. CASE m' = n /\ pc' = "over"
        <3>1. Phase("over", 0, n)
            BY <2>1 DEF Phase, Going
        <3> QED
            BY <1>2, <1>3, <2>4, <3>1, Arrive DEF Pc, OldText
    <2> QED
        BY <1>5, <2>2, <2>3, <2>4 DEF Refuse
<1>6. ASSUME NEW n \in TableStage(v), Mistake(n, v) PROVE IInv'
    <2>1. Going(n) /\ n.active \in Running(n) /\ v \in Strays
        BY <1>2, <1>6, StageFacts DEF Mistake
    <2>2. m' = n /\ pc' = pc
        BY <1>6, <2>1, WordFacts DEF Mistake
    <2> QED
        BY <1>2, <2>1, <2>2, RunsOn
<1>7. CASE Unset(v)
    <2>1. m' = m /\ pc' = pc
        BY <1>3, <1>7, SearchFacts DEF Unset, Going
    <2> QED
        BY <1>2, <1>3, <2>1, RunsOn
<1> QED
    BY <1>1, <1>4, <1>5, <1>6, <1>7

(* pr_terminate.                                                              *)
LEMMA ExitStep == ASSUME IInv, Exit PROVE IInv'
<1> DEFINE p == m.active
           n == Terminated(m, p)
<1>1. pc = "run" /\ step' = step /\ text' = text /\ p # Kernel
    BY DEF Exit, InProcess
<1>2. Going(m) /\ p \in Running(m) /\ text = <<"text", 0>> /\ step = 0 /\ 0 \in 0 .. M
    BY <1>1, Runs
<1>3. ASSUME NEW q \in Others, NEW a, a = Activate(n, q), pc' = pc,
             m' = [a EXCEPT !.dir = Drop(@, p), !.tab = Drop(@, p), !.at = Drop(@, p)]
      PROVE  IInv'
    <2>1. q \in Running(m) /\ q # p
        BY DEF Others, Spaces, Running
    <2>2. Going(m')
        BY <1>2, <1>3, <2>1, ExitGoing
    <2> QED
        BY <1>1, <1>3, <2>2, RunsOn
<1>4. CASE m' = n /\ pc' = "over"
    <2>1. Sound(n)
        BY <1>2, LastExit
    <2> HIDE DEF n
    <2>2. Phase("over", 0, n)
        BY <2>1 DEF Phase
    <2> QED
        BY <1>1, <1>2, <1>4, <2>2, Arrive DEF Pc, OldText
<1>5. \/ \E q \in Others :
            LET a == Activate(n, q) IN
            /\ m' = [a EXCEPT !.dir = Drop(@, p), !.tab = Drop(@, p), !.at = Drop(@, p)]
            /\ UNCHANGED pc
      \/ m' = n /\ pc' = "over"
    BY DEF Exit
<1> QED
    BY <1>3, <1>4, <1>5

(* kbrk, while processes run.                                                  *)
LEMMA GrowStep == ASSUME IInv, Grow PROVE IInv'
<1>1. pc = "run" /\ pc' = pc /\ step' = step /\ text' = text /\ HasRoom(m, 1) /\ m' = Brk(m)
    BY DEF Grow
<1>2. Going(m')
    BY <1>1, Runs, GrowGoing
<1> QED
    BY <1>1, <1>2, RunsOn

-----------------------------------------------------------------------------
(* The start. *)

(* bootstrap.s has set up the directory of the kernel, a table for the window,   *)
(* and one that maps the first 4 MB to themselves.                             *)
LEMMA Start == Init => IInv
<1> SUFFICES ASSUME Init PROVE IInv
    OBVIOUS
<1>1. /\ pc = "stack table" /\ step = 0 /\ text = <<"low", TextFrame>> /\ 0 \in 0 .. M
      /\ pc \in Pc /\ pc \in OldText
    <2>1. 0 \in 0 .. M
        BY Sizes
    <2> QED
        BY <2>1 DEF Init, Pc, OldText
<1>2. /\ m \in [dir : {m.dir}, tab : {m.tab}, at : {m.at}, table : {m.table}, free : {m.free},
                heap : {m.heap}, idle : {m.idle}, active : {m.active}, stale : {m.stale}, wild : {FALSE}]
      /\ m.dir = [s \in {Kernel} |-> [d \in Dir |->
            IF d = "low" THEN LowFrame ELSE IF d = "window" THEN WindowFrame ELSE None]]
      /\ m.tab = [s \in {Kernel} |-> [d \in Dir |->
            IF d = "low" THEN <<"window", E - 1>>
            ELSE IF d = "window" THEN <<"window", E - 2>> ELSE Null]]
      /\ m.at = [s \in {Kernel} |-> KernelTable]
      /\ m.table = [t \in {WindowFrame, LowFrame} |-> [i \in Slot |->
            IF t = LowFrame THEN i ELSE IF i >= E - 4 THEN DirFrame + i - (E - 4) ELSE B + i]]
      /\ m.free = <<>> /\ m.heap = 0 /\ m.idle = {} /\ m.active = Kernel /\ m.stale = {}
    BY DEF Init
<1>3. /\ DOMAIN m.dir = {Kernel} /\ DOMAIN m.table = {WindowFrame, LowFrame}
      /\ m.dir[Kernel]["low"] = LowFrame /\ m.dir[Kernel]["window"] = WindowFrame
      /\ m.dir[Kernel]["stack"] = None /\ m.dir[Kernel]["heap"] = None /\ m.dir[Kernel]["text"] = None
      /\ m.tab[Kernel]["low"] = <<"window", E - 1>> /\ m.tab[Kernel]["window"] = <<"window", E - 2>>
      /\ m.tab[Kernel]["stack"] = Null /\ m.tab[Kernel]["heap"] = Null /\ m.tab[Kernel]["text"] = Null
      /\ m.at[Kernel] = KernelTable
    BY <1>2 DEF Dir
<1>4. /\ WindowFrame \in Frame /\ LowFrame \in Frame /\ WindowFrame # LowFrame /\ None \notin Frame
      /\ DirFrame \in Frame /\ WindowFrame < First /\ LowFrame < First
      /\ \A i \in Slot : i \in Nat /\ i < E /\ i \in Frame
      /\ \A i \in (0 .. K + 4) \cup (E - 4 .. E - 1) \cup {K - 1, E - 1, E - 2, E - 3, E - 4, TextFrame} : i \in Slot
    BY Sizes DEF Frame, None, Slot
<1>5. Running(m) = {} /\ InHeap(m) = {} /\ DOMAIN m.free = {}
    <2>1. Running(m) = {}
        BY <1>3, KernelAssumption DEF Running
    <2>2. InHeap(m) = {}
        BY <1>2 DEF InHeap
    <2>3. DOMAIN m.free = {}
        BY <1>2
    <2> QED
        BY <2>1, <2>2, <2>3
<1>6. Typed(m)
    <2>1. \A i \in Slot, d \in Dir : <<d, i>> \in VPage
        BY PageFacts
    <2>2. /\ KernelTable.dir \in VPage /\ KernelTable.tab \in VPage /\ KernelTable.stack \in VPage
          /\ <<"window", E - 1>> \in VPage /\ <<"window", E - 2>> \in VPage
        BY <1>4, <2>1 DEF KernelTable, Dir
    <2>3. KernelTable \in [dir : VPage, tab : VPage, stack : VPage, phys : Frame]
        BY <1>4, <2>2 DEF KernelTable
    <2>4. m.dir \in [{Kernel} -> [Dir -> Frame \cup {None}]]
        BY <1>2, <1>4
    <2>5. m.tab \in [{Kernel} -> [Dir -> VPage \cup {Null}]]
        BY <1>2, <2>2
    <2>6. m.at \in [{Kernel} -> [dir : VPage, tab : VPage, stack : VPage, phys : Frame]]
        BY <1>2, <2>3
    <2>7. \A t \in {WindowFrame, LowFrame}, i \in Slot :
            (IF t = LowFrame THEN i ELSE IF i >= E - 4 THEN DirFrame + i - (E - 4) ELSE B + i) \in Frame
        BY Sizes DEF Slot, Frame
    <2>8. m.table \in [{WindowFrame, LowFrame} -> [Slot -> Frame \cup {None, Junk}]]
        BY <1>2, <2>7
    <2>9. m.free \in Seq(Frame) /\ m.heap \in 0 .. E /\ m.idle \subseteq InHeap(m)
          /\ m.stale \subseteq Dir \X Slot \X (Frame \cup {Junk})
        <3>1. m.free \in Seq(Frame)
            BY <1>2
        <3> QED
            BY <1>2, <3>1, Sizes
    <2> QED
        BY <1>2, <1>3, <1>4, <2>4, <2>5, <2>6, <2>8, <2>9 DEF Typed
<1>7. Window(m)
    <2>1. \A i \in Slot : KWalk(m, <<"window", i>>) = IF i >= E - 4 THEN DirFrame + i - (E - 4) ELSE B + i
        <3>1. \A i \in Slot : KWalk(m, <<"window", i>>) = m.table[WindowFrame][i]
            BY <1>3, <1>4 DEF KWalk, Walk
        <3>2. \A i \in Slot : m.table[WindowFrame][i] = IF i >= E - 4 THEN DirFrame + i - (E - 4) ELSE B + i
            BY <1>2, <1>4
        <3> QED
            BY <3>1, <3>2
    <2>2. ASSUME NEW i \in 0 .. K + 4 PROVE KWalk(m, <<"window", i>>) = B + i
        <3>1. i \in Slot /\ ~ i >= E - 4
            BY Sizes DEF Slot
        <3> QED
            BY <2>1, <3>1
    <2>3. ASSUME NEW i \in E - 4 .. E - 1 PROVE KWalk(m, <<"window", i>>) = DirFrame + i - (E - 4)
        <3>1. i \in Slot /\ i >= E - 4
            BY Sizes DEF Slot
        <3> QED
            BY <2>1, <3>1
    <2> QED
        BY <1>3, <2>2, <2>3 DEF Window
<1>8. Pointers(m)
    <2>1. \A d \in Dir : m.dir[Kernel][d] = None <=> m.tab[Kernel][d] = Null
        <3>1. <<"window", E - 1>> # Null /\ <<"window", E - 2>> # Null
            BY DEF Null
        <3> QED
            BY <1>3, <1>4, <3>1 DEF Dir
    <2> QED
        BY <1>3, <1>5, <2>1 DEF Pointers
<1>9. Apart(m) /\ Known(m) /\ Shared(m)
    BY <1>3, <1>4 DEF Apart, Known, Shared, Dir
<1>10. StackApart(m)
    <2>1. \A i \in Slot : KWalk(m, <<"stack", i>>) = None
        BY <1>3 DEF KWalk, Walk
    <2>2. ASSUME NEW w \in VPage, KWalk(m, w) = Junk PROVE w[1] \in {"low", "heap"}
        <3>1. w[1] \in Dir /\ w[2] \in Slot
            BY PageFacts
        <3>2. m.dir[Kernel][w[1]] # None
            BY <2>2 DEF KWalk, Walk, Junk, None
        <3>3. w[1] \in {"low", "window"}
            BY <1>3, <3>1, <3>2 DEF Dir
        <3>4. w[1] = "window" => m.table[WindowFrame][w[2]] = Junk
            BY <1>3, <2>2, <3>2 DEF KWalk, Walk
        <3>5. m.table[WindowFrame][w[2]] = IF w[2] >= E - 4 THEN DirFrame + w[2] - (E - 4) ELSE B + w[2]
            BY <1>2, <1>4, <3>1
        <3>6. m.table[WindowFrame][w[2]] # Junk
            BY <1>4, <3>1, <3>5, Sizes DEF Junk
        <3> QED
            BY <3>3, <3>4, <3>6
    <2> QED
        BY <2>1, <2>2 DEF StackApart
<1>11. HeapApart(m) /\ UserApart(m) /\ FreeApart(m) /\ Flushed(m)
    <2>1. Len(m.free) = 0 /\ 0 <= M - First
        <3>1. 0 <= M - First
            BY Sizes
        <3>2. Len(m.free) = 0
            BY <1>2
        <3> QED
            BY <3>1, <3>2
    <2> QED
        BY <1>2, <1>5, <2>1 DEF HeapApart, UserApart, FreeApart, Flushed
<1>12. Sound(m)
    BY <1>6, <1>7, <1>8, <1>9, <1>10, <1>11 DEF Sound
<1>13. Owned(m) /\ Alone(m)
    BY <1>2, <1>3, <1>5 DEF Owned, Alone
<1>14. Untouched(m)
    BY <1>2, <1>3, <1>4 DEF Untouched
<1>15. HasLow(m)
    <2>1. KWalk(m, <<"low", TextFrame>>) = TextFrame
        <3>1. KWalk(m, <<"low", TextFrame>>) = m.table[LowFrame][TextFrame]
            BY <1>3, <1>4 DEF KWalk, Walk
        <3>2. m.table[LowFrame][TextFrame] = TextFrame
            BY <1>2, <1>4
        <3> QED
            BY <3>1, <3>2
    <2> QED
        BY <1>2, <1>3, <2>1 DEF HasLow
<1>16. Phase("stack table", 0, m)
    BY <1>2, <1>3, <1>12, <1>13, <1>14, <1>15 DEF Phase, Bare
<1> QED
    BY <1>1, <1>16 DEF IInv, Control

-----------------------------------------------------------------------------
(* The invariant of the specification, and what follows from it. *)

(* Whatever main() and the handlers do, in whatever order interrupts come, the    *)
(* invariant holds.                                                           *)
THEOREM Invariance == Spec => []IInv
<1>1. Init => IInv
    BY Start
<1>2. IInv /\ [Next]_vars => IInv'
    <2> SUFFICES ASSUME IInv, [Next]_vars PROVE IInv'
        OBVIOUS
    <2>1. CASE Boot
        BY <2>1, StackTableStep, MapStackStep, FreeFramesStep, SetupHeapStep, MapTextStep, SetBaseStep,
           RemoveLowStep, CallKbrkStep, CreateAppStep, MapAppPageStep, ReadAppStep, ForkAppStep DEF Boot
    <2>2. CASE Switch
        BY <2>2, SwitchStep
    <2>3. CASE Fork
        BY <2>3, ForkStep
    <2>4. CASE Fault
        BY <2>4, FaultStep
    <2>5. CASE Exit
        BY <2>5, ExitStep
    <2>6. CASE Grow
        BY <2>6, GrowStep
    <2>7. CASE UNCHANGED vars
        <3>1. pc' = pc /\ step' = step /\ text' = text /\ m' = m
            BY <2>7 DEF vars
        <3> QED
            BY <3>1, Arrive DEF IInv, Control
    <2> QED
        BY <2>1, <2>2, <2>3, <2>4, <2>5, <2>6, <2>7 DEF Next
<1> QED
    BY <1>1, <1>2, PTL DEF Spec

(* At every step of main() what memory holds is sound.                          *)
LEMMA AlwaysSound == IInv => Sound(m)
<1> SUFFICES ASSUME IInv PROVE Sound(m)
    OBVIOUS
<1>1. pc \in Pc /\ Phase(pc, step, m)
    BY DEF IInv, Control
<1> QED
    BY <1>1 DEF Phase, Pc, Bare, Ready, Going

(* Processes bear marks, and whatever misleads the kernel is one of three things. *)
Marks ==
    /\ marked \subseteq Proc /\ suspended \subseteq Proc /\ misled \in Own \cup Strays \cup {Null}
    /\ misled # Null =>
        \/ misled[1] \notin Dir
        \/ misled[1] = "heap" /\ misled[2] >= m.heap
        \/ misled[1] = "low" /\ m.active \in marked /\ Sharers(m) = {}

(* A page fault misleads the kernel in no other way.                           *)
LEMMA FaultMarks == ASSUME IInv, Marks, misled = Null, Fault PROVE Marks'
<1>1. PICK v \in Own \cup Strays :
        (\E n \in TableStage(v) : Resolve(n, v) \/ Refuse(n, v) \/ Mistake(n, v)) \/ Unset(v)
    BY DEF Fault
<1>2. InProcess /\ HasRoom(m, 2) /\ Going(m) /\ m.active \in Running(m) /\ m.active \in Proc
    BY Runs DEF Fault, InProcess, Running
<1>3. ASSUME Unmark(v) PROVE marked' \subseteq Proc
    BY <1>3 DEF Unmark, Marks
<1>4. ASSUME NEW n \in TableStage(v), Resolve(n, v) \/ Refuse(n, v) PROVE Marks'
    <2>1. misled' = Null /\ Unmark(v) /\ suspended' \subseteq Proc
        BY <1>2, <1>4 DEF Resolve, Refuse, Marks
    <2> QED
        BY <1>3, <2>1 DEF Marks
<1>5. ASSUME NEW n \in TableStage(v), Mistake(n, v) PROVE Marks'
    <2>1. Going(n) /\ n.active \in Running(n) /\ v \in Strays
        BY <1>2, <1>5, StageFacts DEF Mistake
    <2>2. m' = n /\ misled' = v /\ suspended' = suspended /\ Unmark(v)
        BY <1>5, <2>1, WordFacts DEF Mistake
    <2>3. v[1] \in Dir => v[1] = "heap" /\ v[2] >= n.heap
        <3> SUFFICES ASSUME v[1] \in Dir PROVE v[1] = "heap" /\ v[2] >= n.heap
            OBVIOUS
        <3>1. v \in VPage /\ Walk(n, n.active, v) = Junk
            BY <1>5, <2>1, WordFacts DEF Mistake
        <3> QED
            BY <2>1, <3>1, UnclearedFacts DEF Going
    <2>4. misled'[1] \notin Dir \/ (misled'[1] = "heap" /\ misled'[2] >= m'.heap)
        BY <2>2, <2>3
    <2> QED
        BY <1>3, <2>1, <2>2, <2>4 DEF Marks
<1>6. CASE Unset(v)
    <2>1. m' = m /\ misled' = v /\ marked' = marked /\ suspended' = suspended
        BY <1>2, <1>6, SearchFacts DEF Unset, Going
    <2>2. v[1] = "low" /\ m.active \in marked /\ Sharers(m) = {}
        BY <1>6 DEF Unset, Bears
    <2>3. Sharers(m') = {} /\ m'.active = m.active
        BY <2>1, <2>2
    <2> QED
        BY <2>1, <2>2, <2>3 DEF Marks
<1> QED
    BY <1>1, <1>4, <1>5, <1>6

(* Only a fault can mislead the kernel.                                       *)
LEMMA AlwaysMarks == Spec => []Marks
<1>1. Init => Marks
    BY DEF Init, Marks
<1>2. IInv /\ Marks /\ [Next]_vars => Marks'
    <2> SUFFICES ASSUME IInv, Marks, [Next]_vars PROVE Marks'
        OBVIOUS
    <2>1. CASE UNCHANGED vars
        <3>1. misled' = misled /\ marked' = marked /\ suspended' = suspended /\ m' = m
            BY <2>1 DEF vars
        <3>2. Sharers(m') = Sharers(m)
            BY <3>1
        <3> QED
            BY <3>1, <3>2 DEF Marks
    <2>2. CASE misled = Null /\ Fault
        BY <2>2, FaultMarks
    <2>3. ASSUME misled' = Null, suspended' = suspended, marked' \subseteq Proc PROVE Marks'
        BY <2>3 DEF Marks
    <2>4. CASE misled = Null /\ (Boot \/ Switch \/ Grow \/ Exit)
        <3>1. misled' = Null /\ suspended' = suspended
            BY <2>4 DEF Boot, Switch, Grow, Exit, ForkApp
        <3>2. CASE ForkApp
            <4>1. PICK c \in Proc \ Spaces : marked' = {App, c} /\ pc = "fork"
                BY <3>2 DEF ForkApp, Main
            <4>2. \E p \in Proc : p \in Spaces
                <5>1. Running(m) # {}
                    BY <4>1 DEF IInv, Phase, Loads
                <5> QED
                    BY <5>1 DEF Running, Spaces
            <4>3. App \in Proc
                BY <4>2 DEF App
            <4> QED
                BY <2>3, <3>1, <4>1, <4>3
        <3>3. CASE ~ ForkApp
            <4>1. marked' \subseteq marked
                BY <2>4, <3>3 DEF Boot, Switch, Grow, Exit
            <4> QED
                BY <2>3, <3>1, <4>1 DEF Marks
        <3> QED
            BY <3>2, <3>3
    <2>5. CASE misled = Null /\ Fork
        <3>1. m.active \in Proc
            BY <2>5, Runs DEF Fork, InProcess, Running
        <3>2. misled' = Null /\ suspended' = suspended
              /\ \E c \in Proc \ Spaces : marked' = marked \cup {m.active, c}
            BY <2>5 DEF Fork
        <3> QED
            BY <2>3, <3>1, <3>2 DEF Marks
    <2> QED
        BY <2>1, <2>2, <2>4, <2>5 DEF Next
<1> QED
    BY <1>1, <1>2, Invariance, PTL DEF Spec

(* Directories, tables and the stack of free frames hold frames of the machine.  *)
THEOREM TypeCorrect == Spec => []TypeOK
<1>1. IInv /\ Marks => TypeOK
    <2> SUFFICES ASSUME IInv, Marks PROVE TypeOK
        OBVIOUS
    <2>1. Sound(m) /\ pc \in Pc /\ step \in 0 .. M
        BY AlwaysSound DEF IInv, Control
    <2>2. text \in VPage
        <3>1. TextFrame \in Slot /\ 0 \in Slot
            BY Sizes DEF Slot
        <3>2. <<"low", TextFrame>> \in VPage /\ <<"text", 0>> \in VPage
            BY <3>1, PageFacts DEF Dir
        <3> QED
            BY <3>2 DEF IInv, Control
    <2>3. m.wild \in BOOLEAN
        BY <2>1 DEF Sound, Typed
    <2> QED
        BY <2>1, <2>2, <2>3 DEF TypeOK, Sound, Typed, Spaces, InHeap, Marks
<1> QED
    BY <1>1, Invariance, AlwaysMarks, PTL

(* No access of the kernel goes astray: not between two steps of main(), not   *)
(* after a switch, not in a page fault, and not through the translation buffer. *)
(* It goes by an entry that nobody has set in three faults only: of an address   *)
(* that no directory has a table for, of a page above the heap, and of a lower   *)
(* part that is marked though it is no longer shared.                         *)
THEOREM AccessCorrect == Spec => []NoAccessAstray
<1>1. IInv /\ Marks => NoAccessAstray
    BY AlwaysSound DEF Sound, Typed, NoAccessAstray, Marks
<1> QED
    BY <1>1, Invariance, AlwaysMarks, PTL

(* Pointers to tables match the entries of directories, in every space.        *)
THEOREM PointersCorrect == Spec => []PointersMatchEntries
<1>1. IInv => PointersMatchEntries
    <2> SUFFICES ASSUME IInv, NEW s \in DOMAIN m.dir
                 PROVE  /\ \A d \in Dir :
                            IF m.dir[s][d] = None THEN m.tab[s][d] = Null
                            ELSE /\ m.tab[s][d] # Null
                                 /\ Walk(m, Kernel, m.tab[s][d]) = m.dir[s][d]
                        /\ Walk(m, Kernel, m.at[s].dir) = m.at[s].phys
        BY DEF PointersMatchEntries, Spaces
    <2>1. Sound(m)
        BY AlwaysSound
    <2>2. \A d \in Dir : m.dir[s][d] = None <=> m.tab[s][d] = Null
        BY <2>1 DEF Sound, Pointers
    <2>3. \A d \in Dir : m.dir[s][d] # None => Walk(m, Kernel, m.tab[s][d]) = m.dir[s][d]
        BY <2>1, TableFixed DEF KWalk
    <2>4. Walk(m, Kernel, m.at[s].dir) = m.at[s].phys
        <3>1. CASE s = Kernel
            <4>1. m.at[s] = KernelTable /\ E - 4 \in E - 4 .. E - 1
                BY <2>1, <3>1, Sizes DEF Sound, Window
            <4>2. KWalk(m, <<"window", E - 4>>) = DirFrame
                BY <2>1, <4>1, Sizes DEF Sound, Window
            <4> QED
                BY <4>1, <4>2 DEF KWalk, KernelTable
        <3>2. CASE s # Kernel
            <4>1. s \in Running(m)
                BY <2>1, <3>2 DEF Sound, Typed, Running
            <4> QED
                BY <2>1, <4>1 DEF Sound, Pointers, KWalk
        <3> QED
            BY <3>1, <3>2
    <2> QED
        BY <2>2, <2>3, <2>4
<1> QED
    BY <1>1, Invariance, PTL

(* The kernel's part of every directory is the same.                           *)
THEOREM SharedCorrect == Spec => []KernelIsShared
<1>1. IInv => KernelIsShared
    BY AlwaysSound DEF Sound, Shared, KernelIsShared, Spaces
<1> QED
    BY <1>1, Invariance, PTL

(* No frame has two uses.                                                     *)
THEOREM FramesCorrect == Spec => []NoFrameHasTwoUses
<1>1. IInv => NoFrameHasTwoUses
    <2> SUFFICES ASSUME IInv PROVE NoFrameHasTwoUses
        OBVIOUS
    <2>1. HeapApart(m) /\ StackApart(m) /\ UserApart(m) /\ FreeApart(m)
        BY AlwaysSound DEF Sound
    <2>2. /\ \A f \in FreeKind : f # None /\ f \notin FirstFree + 1 .. First - 1 /\ f \notin 0 .. FirstFree - 1
        BY Sizes DEF FreeKind, None
    <2>3. \A h : HeapFrame(h) = Frames(m, h)
        BY DEF HeapFrame, Frames, KWalk
    <2>4. \A f \in FreeKind : f \notin StackFrames
        BY <2>1, <2>2 DEF StackFrames, StackApart, KWalk
    <2>5. ASSUME NEW f \in UserFrames
          PROVE  f # None /\ \E s \in Running(m), j \in Slot : f = Walk(m, s, <<"low", j>>)
        <3>1. DOMAIN m.dir \cap Proc = Spaces \cap Proc
            BY DEF Spaces
        <3>2. f # None /\ \E s \in Spaces \cap Proc, j \in Slot : f = Walk(m, s, <<"low", j>>)
            BY <2>5 DEF UserFrames
        <3> QED
            BY <3>1, <3>2 DEF Running
    <2>6. \A i, k \in DOMAIN m.free : m.free[i] = m.free[k] => i = k
        BY <2>1 DEF FreeApart
    <2>7. ASSUME NEW i \in DOMAIN m.free PROVE m.free[i] \notin FramesInUse
        <3>1. m.free[i] \in FreeKind /\ m.free[i] \notin DOMAIN m.table
              /\ \A h \in 0 .. m.heap - 1 : HeapFrame(h) # m.free[i]
            BY <2>1, <2>3 DEF FreeApart, InHeap
        <3>2. m.free[i] \notin UserFrames
            <4>1. \A s \in Running(m), j \in Slot : Walk(m, s, <<"low", j>>) # m.free[i]
                BY <2>1 DEF FreeApart
            <4> QED
                BY <2>5, <4>1
        <3>3. m.free[i] \notin StackFrames /\ m.free[i] \notin 0 .. FirstFree - 1
            BY <2>2, <2>4, <3>1
        <3>4. m.free[i] \notin {HeapFrame(h) : h \in 0 .. m.heap - 1}
            BY <3>1
        <3> QED
            BY <3>1, <3>2, <3>3, <3>4 DEF FramesInUse
    <2>8. \A h, k \in 0 .. m.heap - 1 : HeapFrame(h) = HeapFrame(k) => h = k
        BY <2>1, <2>3 DEF HeapApart, InHeap
    <2>9. ASSUME NEW h \in 0 .. m.heap - 1 PROVE HeapFrame(h) \notin UserFrames \cup StackFrames
        <3>1. HeapFrame(h) \in FreeKind
            BY <2>1, <2>3 DEF HeapApart, InHeap
        <3>2. HeapFrame(h) \notin UserFrames
            BY <2>1, <2>3, <2>5 DEF UserApart, InHeap
        <3> QED
            BY <2>4, <3>1, <3>2
    <2> QED
        BY <2>6, <2>7, <2>8, <2>9 DEF NoFrameHasTwoUses
<1> QED
    BY <1>1, Invariance, PTL

=============================================================================
