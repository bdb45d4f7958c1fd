----------------------------- MODULE AddressSpace -----------------------------
(***************************************************************************)
(* The address spaces of the kernel, from bootstrap.s to running programs:  *)
(* directories and tables as the processor walks them (physical addresses), *)
(* and the pointers by which the kernel reaches the same tables (virtual    *)
(* addresses, which must be mapped in whatever space is active).            *)
(*                                                                         *)
(* A virtual page is <<d, i>>: directory entry d and slot i of its table.   *)
(* The directory entries the kernel uses have names:                        *)
(*   low    0x00000000  identity map, later the pages of a program          *)
(*   window 0xC0000000  the kernel, linear from physical address 1 MB       *)
(*   stack  0xC1500000  the stack of free frames     text 0xC2000000        *)
(*   heap   0xD0000000  the kernel heap                                     *)
(* Every other entry is empty in every space, with a NULL pointer: "other".   *)
(* A step is an operation of main() or a handler; both run with interrupts  *)
(* off or without a scheduler, so that operations do not overlap.           *)
(* Permissions and the marks of pages are the matter of Paging.             *)
(***************************************************************************)
EXTENDS Integers, Sequences

CONSTANTS
    E,          \* entries of a table: 1024
    B,          \* frames below 1 MB: 256
    K,          \* pages of the kernel image, the page up to kernel_last_page included
    M,          \* frames of the machine main() assumes: 4096
    TextFrame,  \* 0xB8, the frame of the screen
    StackSlot,  \* 0x100, slot of 0xC1500000 in its table
    TempSlot,   \* 0x3E0, slot of 0xC03E0000 in its table
    Kbrks,      \* calls of kbrk in main(): 30
    Pages,      \* pages of a program: 2
    Strays,     \* pages not its own that a program touches
    Proc, Kernel

ASSUME SizeAssumption ==
    /\ {E, B, K, M, Kbrks, Pages} \subseteq Nat \ {0} /\ {StackSlot, TempSlot} \subseteq Nat
    /\ TextFrame \in 0 .. B - 1
    /\ K + 4 < TempSlot /\ TempSlot < E - 5     \* kernel, tables, stack table, pager
    /\ B < E /\ B + E <= M
    /\ Pages <= E /\ StackSlot + M \div E < E
ASSUME KernelAssumption == Kernel \notin Proc

(* main() looks neither for free frames nor for the end of the heap's first     *)
(* page table: it takes eight pages of the heap besides those of kbrk, two     *)
(* frames for the table of the heap and its page 0, one for that of the text,  *)
(* and those of the program.                                                  *)
ASSUME RoomAssumption ==
    11 + Kbrks + Pages <= E /\ B + K + 5 + M \div E + 1 + 11 + Kbrks + Pages <= M

Dir   == {"low", "window", "stack", "text", "heap"}
Slot  == 0 .. E - 1
VPage == Dir \X Slot
Null  == <<>>
Own   == {<<"low", i>> : i \in 0 .. Pages - 1}
ASSUME StrayAssumption == Strays \subseteq ((Dir \cup {"other"}) \X Slot) \ Own

Frame == 0 .. M - 1
None  == -1     \* an entry without pte_present
Junk  == -2     \* an entry of a table nobody has cleared

(* Frames in the order of bootstrap.s and setup_memory_manager.              *)
DirFrame    == B + K
WindowFrame == B + K + 2
LowFrame    == B + K + 3
FirstFree   == B + K + 4
StackPages  == M \div E + 1

Put(f, s, x) == [q \in DOMAIN f \cup {s} |-> IF q = s THEN x ELSE f[q]]
Drop(f, s)   == [q \in DOMAIN f \ {s} |-> f[q]]

VARIABLES
    pc,     \* where main() is; "run" in the endless loop, "over" see Exit and Refuse
    step,   \* iterations of the loop main() is in
    text,   \* text_base of the console
    m,      \* memory, and what the paging code keeps in it: see Init
    marked,     \* processes whose entry for the lower part is marked copy-on-write
    suspended,  \* processes that never run again
    misled      \* history: the page whose fault made the kernel go by what nobody has set

vars == <<pc, step, text, m, marked, suspended, misled>>

Spaces == DOMAIN m.dir

-----------------------------------------------------------------------------
(* The processor. *)

(* The walk through directory and table of a space.                          *)
Walk(n, s, v) == IF n.dir[s][v[1]] = None THEN None ELSE n.table[n.dir[s][v[1]]][v[2]]

(* The translation buffer may hold what a page was mapped to at any time since *)
(* the page was last invalidated, or CR3 loaded; the entry v \o <<f>> of stale   *)
(* says that v was mapped to f.                                               *)
Invalidate(n, vs) == [n EXCEPT !.stale = {x \in @ : <<x[1], x[2]>> \notin vs}]

(* What v leads to in the active space: one frame, and not another one before. *)
LeadsTo(n, v, f) ==
    /\ v \in VPage /\ f \in Frame
    /\ Walk(n, n.active, v) = f
    /\ \A x \in n.stale : <<x[1], x[2]>> = v => x[3] = f

(* The kernel accesses pages of its own: they must lead to the frames they    *)
(* have in the kernel's directory.                                            *)
Access(n, vs) ==
    [n EXCEPT !.wild = @ \/ \E v \in vs : v = Null \/ ~ LeadsTo(n, v, Walk(n, Kernel, v))]

(* It accesses the table for d of space s, through the pointer to it.         *)
AccessTable(n, s, d) ==
    LET a == Access(n, {n.at[s].tab}) IN
    [a EXCEPT !.wild = @ \/ n.tab[s][d] = Null \/ ~ LeadsTo(n, n.tab[s][d], n.dir[s][d])]

(* An entry of a table changes, or one of a directory: what was mapped there   *)
(* may still be in the translation buffer.                                    *)
Store(n, s, v, f) ==
    LET t == n.dir[s][v[1]] IN
    IF n.wild THEN n
    ELSE [n EXCEPT !.table[t][v[2]] = f,
                   !.stale = @ \cup {<<d, v[2], n.table[t][v[2]]>> : d \in {x \in Dir :
                       n.dir[n.active][x] = t /\ n.table[t][v[2]] # None}}]

StoreDir(n, s, d, f) ==
    [n EXCEPT !.dir[s][d] = f,
              !.stale = @ \cup {<<d, i, Walk(n, s, <<d, i>>)>> : i \in {k \in Slot :
                  s = n.active /\ Walk(n, s, <<d, k>>) # None}}]

-----------------------------------------------------------------------------
(* memory.cpp: the stack of free frames, which lives in pages of its own.     *)

StackPage(k) == <<"stack", StackSlot + k \div E>>

MmPageFree(n, f) == [Access(n, {StackPage(Len(n.free))}) EXCEPT !.free = Append(@, f)]

(* mm_page_allocate; a caller takes Top first.                                *)
Top(n)    == n.free[Len(n.free)]
Popped(n) == [Access(n, {StackPage(Len(n.free) - 1)}) EXCEPT
                 !.free = SubSeq(@, 1, Len(@) - 1)]

-----------------------------------------------------------------------------
(* paging.cpp and the heap below it. *)

(* Mutant: the page that is mapped is not invalidated.                        *)
MapInUnflushed(n, s, v, f) ==
    Store(AccessTable(Invalidate(n, {n.at[s].tab, n.tab[s][v[1]]}), s, v[1]), s, v, f)

(* pg_map, when there is a page table.                                        *)
MapIn(n, s, v, f) ==
    LET u == Invalidate(n, {n.at[s].tab, n.tab[s][v[1]]})
    IN  Invalidate(Store(AccessTable(u, s, v[1]), s, v, f), {v})

HeapPage(h) == <<"heap", h>>

(* Two bounds: the heap fits its first page table, and frames do not run out  *)
(* before an operation that takes k of them at most.                          *)
HasRoom(n, k) == n.heap + k <= E /\ Len(n.free) >= k

(* kalloc_page takes a page that is free, or else another frame at the end.   *)
(* The pages of the heap are interchangeable here, so that it may as well be   *)
(* the lowest; which one it really is, is a matter of KernelHeap.             *)
Fresh(n) == IF n.idle = {} THEN n.heap ELSE CHOOSE h \in n.idle : \A k \in n.idle : h <= k

KallocPage(n) ==
    IF n.idle # {} THEN [n EXCEPT !.idle = @ \ {Fresh(n)}]
    ELSE [MapIn(Popped(n), Kernel, HeapPage(n.heap), Top(n)) EXCEPT !.heap = @ + 1]

(* Mutant: kernel_heap_alloc is not counted up.                               *)
BrkUncounted(n) == Access([MapIn(Popped(n), Kernel, HeapPage(n.heap), Top(n)) EXCEPT
                              !.idle = @ \cup {n.heap}], {HeapPage(n.heap)})

(* kbrk adds a page to the free ones.                                         *)
Brk(n) == Access([MapIn(Popped(n), Kernel, HeapPage(n.heap), Top(n)) EXCEPT
                     !.heap = @ + 1, !.idle = @ \cup {n.heap}], {HeapPage(n.heap)})

PgGetPhysical(n, v) == Walk(n, n.active, v)

(* Both pg_setup_pagetable: the table is p, in frame f, unless there is one.   *)
SetupTable(n, s, v, p, f) ==
    LET d == v[1]
        a == Access(n, {n.at[s].dir, n.at[s].tab})
        b == IF n.tab[s][d] # Null THEN a
             ELSE [StoreDir(a, s, d, f) EXCEPT !.tab[s][d] = p]
        c == AccessTable(Invalidate(b, {b.tab[s][d]}), s, d)
    IN  IF c.wild THEN c
        ELSE Invalidate([c EXCEPT !.table = Put(@, c.dir[s][d], [i \in Slot |-> None])], {v})

SetupHeapTable(n, s, v) ==
    LET a == IF n.tab[s][v[1]] = Null THEN KallocPage(n) ELSE n
        p == HeapPage(Fresh(n))
    IN  SetupTable(a, s, v, p, PgGetPhysical(a, p))

PgMap(n, s, v, f) ==
    MapIn(IF n.dir[s][v[1]] = None THEN SetupHeapTable(n, s, v) ELSE n, s, v, f)

PgUnmap(n, s, v) == Invalidate(Store(AccessTable(n, s, v[1]), s, v, None), {v})

(* Mutant: the pointer to the table stays.                                    *)
PgRemoveEntry(n, s, v) == Invalidate(StoreDir(n, s, v[1], None), {v})

(* pg_remove_pagetable invalidates one page, not all the table mapped.        *)
PgRemove(n, s, v) ==
    Invalidate([StoreDir(n, s, v[1], None) EXCEPT !.tab[s][v[1]] = Null], {v})

-----------------------------------------------------------------------------
(* main(): each step goes on to print a message. *)

Says(n) ==
    LET a == Access(n, {text}) IN
    [a EXCEPT !.wild = @ \/ ~ LeadsTo(n, text, TextFrame)]

(* setup_paging: struct pg_table_t of the kernel, and the page of its stack.    *)
KernelTable ==
    [dir |-> <<"window", E - 4>>, tab |-> <<"window", E - 3>>, phys |-> DirFrame,
     stack |-> <<"window", K - 1>>]

Init ==
    /\ pc = "stack table" /\ step = 0
    /\ text = <<"low", TextFrame>>
    /\ m = [dir    |-> [s \in {Kernel} |-> [d \in Dir |->
                          IF d = "low" THEN LowFrame ELSE IF d = "window" THEN WindowFrame ELSE None]],
            tab    |-> [s \in {Kernel} |-> [d \in Dir |->
                          IF d = "low" THEN <<"window", E - 1>>
                          ELSE IF d = "window" THEN <<"window", E - 2>> ELSE Null]],
            at     |-> [s \in {Kernel} |-> KernelTable],
            table  |-> [t \in {WindowFrame, LowFrame} |-> [i \in Slot |->
                          IF t = LowFrame THEN i
                          ELSE IF i >= E - 4 THEN DirFrame + i - (E - 4) ELSE B + i]],
            free   |-> <<>>,    \* the stack of free frames
            heap   |-> 0,       \* kernel_heap_alloc
            idle   |-> {},      \* pages of the heap that are free
            active |-> Kernel,  \* pg_active, and the directory in CR3
            stale  |-> {},      \* translations of the past the processor may still use
            wild   |-> FALSE]   \* an access went astray: history, not in the code
    /\ marked = {} /\ suspended = {} /\ misled = Null

Main(from, to, n) == pc = from /\ pc' = to /\ m' = Says(n)

Goto(to) == step' = 0 /\ pc' = to /\ UNCHANGED <<text, m>>

(* setup_memory_manager *)
StackTable ==
    /\ Main("stack table", "stack pages",
            SetupTable(m, Kernel, StackPage(0), <<"window", FirstFree - B>>, FirstFree))
    /\ UNCHANGED <<step, text>>

MapStackPage(n, i) == PgMap(n, Kernel, <<"stack", StackSlot + i>>, FirstFree + 1 + i)

MapStack ==
    /\ pc = "stack pages"
    /\ IF step = StackPages THEN Goto("free frames")
       ELSE /\ m' = MapStackPage(m, step)
            /\ step' = step + 1 /\ UNCHANGED <<pc, text>>

(* Mutant: first_free_page is one too low. *)
FreeFramesEarly ==
    /\ pc = "free frames"
    /\ LET f == FirstFree + StackPages + step IN
       IF f >= M THEN Goto("heap")
       ELSE m' = MmPageFree(m, f) /\ step' = step + 1 /\ UNCHANGED <<pc, text>>

FreeFrames ==
    /\ pc = "free frames"
    /\ LET f == FirstFree + 1 + StackPages + step IN
       IF f >= M THEN Goto("heap")
       ELSE m' = MmPageFree(m, f) /\ step' = step + 1 /\ UNCHANGED <<pc, text>>

(* The table of the heap is not cleared, and its pointer is in a page of the   *)
(* window.  The page it maps is mapped anew by the first kalloc_page.         *)
HeapTablePage == <<"window", E - 5>>

SetHeapTable(n) ==
    LET f == Top(n)
        a == Store(AccessTable(Popped(n), Kernel, "window"), Kernel, HeapTablePage, f)
        b == [StoreDir(a, Kernel, "heap", f) EXCEPT
                 !.tab[Kernel]["heap"] = HeapTablePage,
                 !.table = Put(@, f, [i \in Slot |-> Junk])]
        c == Popped(Invalidate(b, {HeapTablePage}))
    IN  Store(AccessTable(c, Kernel, "heap"), Kernel, HeapPage(0), Top(b))

SetupHeap == Main("heap", "map text", SetHeapTable(m)) /\ UNCHANGED <<step, text>>

MapText ==
    /\ Main("map text", "set base", PgMap(m, Kernel, <<"text", 0>>, TextFrame))
    /\ UNCHANGED <<step, text>>

SetBase ==
    /\ pc = "set base" /\ pc' = "remove low"
    /\ text' = <<"text", 0>>
    /\ m' = Access(m, {<<"text", 0>>})
    /\ UNCHANGED step

RemoveLow ==
    /\ Main("remove low", "brk", PgRemove(m, Kernel, <<"low", 0>>))
    /\ UNCHANGED <<step, text>>

CallKbrk ==
    /\ pc = "brk"
    /\ IF step = Kbrks THEN Goto("app")
       ELSE m' = Brk(m) /\ step' = step + 1 /\ UNCHANGED <<pc, text>>

-----------------------------------------------------------------------------
(* Processes. *)

(* kalloc for the structures and the kernel stack of a process (taken as one   *)
(* page), and kalloc_page for its directory and its pointers to tables.       *)
Room(n) ==
    LET a == KallocPage(n)
        b == KallocPage(a)
    IN  [n |-> KallocPage(b), got |-> <<HeapPage(Fresh(n)), HeapPage(Fresh(a)), HeapPage(Fresh(b))>>]

(* A new space is filled through its pages in the active one.                 *)
NewSpace(x, c, dirs, tabs) ==
    LET a  == Access(x.n, {x.got[1], x.got[2], x.got[3]})
        at == [stack |-> x.got[1], dir |-> x.got[2], tab |-> x.got[3],
               phys  |-> PgGetPhysical(a, x.got[2])]
    IN  [a EXCEPT !.dir = Put(@, c, dirs), !.tab = Put(@, c, tabs), !.at = Put(@, c, at)]

(* Mutant: the copy starts one entry too late. *)
CreateLate(n, c) ==
    NewSpace(Room(n), c, [n.dir[Kernel] EXCEPT !["low"] = None, !["window"] = None],
                         [n.tab[Kernel] EXCEPT !["low"] = Null, !["window"] = Null])

(* pg_create_user_page_directory: the lower part is empty.                    *)
Create(n, c) ==
    NewSpace(Room(n), c, [n.dir[Kernel] EXCEPT !["low"] = None],
                         [n.tab[Kernel] EXCEPT !["low"] = Null])

(* pg_copy_user_page_directory: everything is copied, the lower part shared.  *)
CopySpace(n, src, c) ==
    NewSpace(Room(Access(n, {n.at[src].dir, n.at[src].tab})), c, n.dir[src], n.tab[src])

(* main() *)
CreateApp ==
    \E app \in Proc :
        /\ Main("app", "pages", Create(m, app))
        /\ UNCHANGED <<step, text>>

App == CHOOSE p \in Proc : p \in Spaces

(* Each page of the program is mapped in app1 and, for ata_read, here.        *)
MapAppPage ==
    /\ pc = "pages"
    /\ IF step = Pages THEN Goto("read")
       ELSE /\ LET a == PgMap(Popped(m), App, <<"low", step>>, Top(m)) IN
               m' = PgMap(a, Kernel, <<"low", step>>, Top(m))
            /\ step' = step + 1 /\ UNCHANGED <<pc, text>>

(* ata_read(0, 0x0, 0, appSize) fills the pages of app1.                      *)
ReadApp ==
    /\ Main("read", "fork",
            [m EXCEPT !.wild = @ \/ \E i \in 0 .. Pages - 1 :
                ~ LeadsTo(m, <<"low", i>>, Walk(m, App, <<"low", i>>))])
    /\ UNCHANGED <<step, text>>

ForkApp ==
    \E c \in Proc \ Spaces :
        /\ Main("fork", "run", CopySpace(m, App, c))
        /\ marked' = {App, c}
        /\ UNCHANGED <<step, text, suspended, misled>>

(* pg_activate_table and the end of pr_resume, on the kernel stack of q.      *)
Activate(n, q) ==
    Access(IF n.active = q THEN n ELSE [n EXCEPT !.active = q, !.stale = {}], {n.at[q].stack})

Others == (Spaces \cap Proc) \ ({m.active} \cup suspended)

(* A timer interrupt, also the first one, which leaves main().                *)
Switch ==
    /\ pc = "run"
    /\ \E q \in Others : m' = Activate(m, q)
    /\ UNCHANGED <<pc, step, text, marked, suspended, misled>>

InProcess == pc = "run" /\ m.active # Kernel

Fork ==
    /\ InProcess /\ HasRoom(m, 3)
    /\ \E c \in Proc \ Spaces :
        /\ m' = Activate(Says(CopySpace(m, m.active, c)), c)
        /\ marked' = marked \cup {m.active, c}
    /\ UNCHANGED <<pc, step, text, suspended, misled>>

-----------------------------------------------------------------------------
(* A page fault on v, and pg_resolve_fault. *)

Programs(n)    == Proc \cap DOMAIN n.dir
Sharers(n)     == {q \in Programs(n) : q # n.active /\ n.dir[q]["low"] = n.dir[n.active]["low"]}
ReadEntry(n)   == Access(n, {n.at[n.active].stack, n.at[n.active].dir, n.at[n.active].tab})

(* It searches the entries of all processes, and their tables.                *)
ReadEntries(n) == Access(n, UNION {{n.at[q].stack, n.at[q].dir} : q \in Programs(n)})
ReadTables(n)  ==
    [n EXCEPT !.wild = @ \/ \E q \in Programs(n) : AccessTable(ReadEntries(n), q, "low").wild]

(* If the entry is marked the process gets a new table, filled with the entries *)
(* of another process that shares the old one.                                *)
CopyTable(n, v, last) ==
    LET p == n.active
        a == SetupHeapTable([StoreDir(ReadEntries(n), p, "low", None) EXCEPT !.tab[p]["low"] = Null], p, v)
        b == AccessTable(AccessTable(a, last, "low"), p, "low")
    IN  IF b.wild THEN b
        ELSE [b EXCEPT !.table[b.dir[p]["low"]] = b.table[b.dir[last]["low"]]]

Bears(v) == v[1] = "low" /\ m.active \in marked

TableStage(v) == IF Bears(v) THEN {CopyTable(ReadEntry(m), v, last) : last \in Sharers(m)} ELSE {ReadEntry(m)}

(* A single sharer loses the mark too.                                        *)
Unmark(v) == marked' = IF Bears(v) THEN {q \in marked \ {m.active} : Sharers(m) # {q}} ELSE marked

TempPage == <<"window", TempSlot>>

(* The page is copied through the mapping at 0xC03E0000.                      *)
CopyPage(n, v) ==
    LET p == n.active
        f == Top(n)
        a == Access(MapIn(Popped(ReadTables(n)), p, TempPage, f), {TempPage})
        b == PgUnmap(PgUnmap([a EXCEPT !.wild = @ \/ ~ LeadsTo(a, v, Walk(n, p, v))], p, TempPage), p, v)
    IN  MapIn(b, p, v, f)

Resolve(n, v) ==
    /\ v \in Own /\ m' = CopyPage(n, v)
    /\ Unmark(v) /\ UNCHANGED <<pc, suspended, misled>>

(* Without a table the pointer is NULL, and the word looked up is one in page 0 *)
(* of the program.                                                            *)
NoTable(n, v) == v[1] \notin Dir \/ n.tab[n.active][v[1]] = Null

ReadWord(n, v) ==
    IF NoTable(n, v)
    THEN [n EXCEPT !.wild = @ \/ ~ LeadsTo(n, <<"low", 0>>, Walk(n, n.active, <<"low", 0>>))]
    ELSE AccessTable(n, n.active, v[1])

(* The word is not that of a page marked copy-on-write: the process is         *)
(* suspended, and if no other can run the CPU halts.                          *)
Refuse(n, v) ==
    /\ v \in Strays /\ suspended' = suspended \cup {m.active}
    /\ LET a == Says(ReadWord(n, v)) IN
       \/ \E q \in Others : m' = Activate(a, q) /\ UNCHANGED pc
       \/ Others = {} /\ m' = a /\ pc' = "over"
    /\ Unmark(v) /\ UNCHANGED misled

(* A word that is no entry, or one nobody has cleared, may look like that of    *)
(* such a page; the kernel goes on to copy a page that is not there.           *)
Mistake(n, v) ==
    /\ v \in Strays /\ (~ NoTable(n, v) => Walk(n, n.active, v) = Junk)
    /\ m' = ReadWord(n, v) /\ misled' = v
    /\ Unmark(v) /\ UNCHANGED <<pc, suspended>>

(* The entry is marked, but nobody shares the table any more: last is not set.  *)
Unset(v) ==
    /\ Bears(v) /\ Sharers(m) = {}
    /\ m' = ReadEntries(ReadEntry(m)) /\ misled' = v
    /\ UNCHANGED <<pc, marked, suspended>>

Fault ==
    /\ InProcess /\ HasRoom(m, 2)
    /\ \E v \in Own \cup Strays :
        \/ \E n \in TableStage(v) : Resolve(n, v) \/ Refuse(n, v) \/ Mistake(n, v)
        \/ Unset(v)
    /\ UNCHANGED <<step, text>>

-----------------------------------------------------------------------------
(* pr_terminate frees the structures and the directory, which stays in CR3    *)
(* until pr_schedule has found another process; tables and frames are lost.   *)
Terminated(n, p) ==
    LET a == Access(n, {n.at[p].tab, n.at[p].dir, n.at[p].stack})
    IN  Says([a EXCEPT !.idle = @ \cup {n.at[p].tab[2], n.at[p].dir[2], n.at[p].stack[2]}])

(* If no other process can run, this one goes on in what it has freed: "over".  *)
Exit ==
    /\ InProcess
    /\ LET p == m.active
           n == Terminated(m, p) IN
       /\ \/ \E q \in Others :
                LET a == Activate(n, q) IN
                /\ m' = [a EXCEPT !.dir = Drop(@, p), !.tab = Drop(@, p), !.at = Drop(@, p)]
                /\ UNCHANGED pc
          \/ Others = {} /\ m' = n /\ pc' = "over"
       /\ marked' = marked \ {p}
    /\ UNCHANGED <<step, text, suspended, misled>>

(* kalloc calls kbrk when a block is missing.                                 *)
Grow ==
    /\ pc = "run" /\ HasRoom(m, 1)
    /\ m' = Brk(m)
    /\ UNCHANGED <<pc, step, text, marked, suspended, misled>>

Boot ==
    \/ /\ \/ StackTable \/ MapStack \/ FreeFrames \/ SetupHeap \/ MapText \/ SetBase
          \/ RemoveLow \/ CallKbrk \/ CreateApp \/ MapAppPage \/ ReadApp
       /\ UNCHANGED <<marked, suspended, misled>>
    \/ ForkApp

(* After an access that went astray nothing can be said of the machine.       *)
Next == ~ m.wild /\ misled = Null /\ (Boot \/ Switch \/ Fork \/ Fault \/ Exit \/ Grow)

Spec == Init /\ [][Next]_vars

-----------------------------------------------------------------------------
(* Properties. *)

Pc == {"stack table", "stack pages", "free frames", "heap", "map text", "set base",
       "remove low", "brk", "app", "pages", "read", "fork", "run", "over"}

TypeOK ==
    /\ pc \in Pc /\ step \in 0 .. M
    /\ text \in VPage
    /\ Spaces \subseteq Proc \cup {Kernel} /\ {Kernel, m.active} \subseteq Spaces
    /\ m.dir \in [Spaces -> [Dir -> Frame \cup {None}]]
    /\ m.tab \in [Spaces -> [Dir -> VPage \cup {Null}]]
    /\ m.at \in [Spaces -> [dir : VPage, tab : VPage, stack : VPage, phys : Frame]]
    /\ m.table \in [DOMAIN m.table -> [Slot -> Frame \cup {None, Junk}]]
    /\ m.free \in Seq(Frame)
    /\ m.heap \in 0 .. E /\ m.idle \subseteq 0 .. m.heap - 1
    /\ m.stale \subseteq Dir \X Slot \X (Frame \cup {Junk}) /\ m.wild \in BOOLEAN
    /\ marked \subseteq Proc /\ suspended \subseteq Proc /\ misled \in Own \cup Strays \cup {Null}

(* Every access the kernel makes, from bootstrap to the exit of a process,    *)
(* reaches the frame it is meant for: through the directory in force, and not *)
(* through a translation the processor may have cached before a change.  The  *)
(* order of main() matters (text base before the identity map is removed,      *)
(* memory manager before the heap), and so does every invlpg.  A page fault    *)
(* alone makes it go by something nobody has set, of a program that            *)
(*   touches an address for which no table was ever made: the kernel follows   *)
(*   the NULL pointer, and takes a word in page 0 of the program for an entry;  *)
(*   touches a page above the heap, whose entry was never cleared;            *)
(*   or writes to a lower part which bears the mark after its last sharer left. *)
(* In the first case even that word is read in the program's page.             *)
NoAccessAstray ==
    /\ ~ m.wild
    /\ misled # Null =>
        \/ misled[1] \notin Dir
        \/ misled[1] = "heap" /\ misled[2] >= m.heap
        \/ misled[1] = "low" /\ m.active \in marked /\ Sharers(m) = {}

(* What the kernel believes and what the processor uses agree: a directory    *)
(* entry is empty exactly if the pointer to its table is NULL (pg_map looks   *)
(* at the one, pg_setup_pagetable at the other), the pointer leads to the     *)
(* frame in the entry, and the address for CR3 is that of the directory.      *)
PointersMatchEntries ==
    \A s \in Spaces :
        /\ \A d \in Dir :
            IF m.dir[s][d] = None THEN m.tab[s][d] = Null
            ELSE /\ m.tab[s][d] # Null
                 /\ Walk(m, Kernel, m.tab[s][d]) = m.dir[s][d]
        /\ Walk(m, Kernel, m.at[s].dir) = m.at[s].phys

(* The upper part of every directory is the kernel's, also for what the       *)
(* kernel maps after the directory was made: handlers run in any space.       *)
KernelIsShared ==
    \A s \in Spaces, d \in Dir \ {"low"} :
        m.dir[s][d] = m.dir[Kernel][d] /\ m.tab[s][d] = m.tab[Kernel][d]

(* No frame has two uses: free frames are not mapped, not tables and not the  *)
(* kernel's; pages of the heap have frames of their own, and programs do not   *)
(* get frames of the heap.                                                    *)
HeapFrame(h)  == Walk(m, Kernel, HeapPage(h))
UserFrames    == {Walk(m, s, <<"low", i>>) : s \in Spaces \cap Proc, i \in Slot} \ {None}
StackFrames   == {Walk(m, Kernel, <<"stack", i>>) : i \in Slot} \ {None}
FramesInUse   == UserFrames \cup StackFrames \cup DOMAIN m.table \cup 0 .. FirstFree - 1
                 \cup {HeapFrame(h) : h \in 0 .. m.heap - 1}

NoFrameHasTwoUses ==
    /\ \A i, k \in DOMAIN m.free : m.free[i] = m.free[k] => i = k
    /\ \A i \in DOMAIN m.free : m.free[i] \notin FramesInUse
    /\ \A h, k \in 0 .. m.heap - 1 : HeapFrame(h) = HeapFrame(k) => h = k
    /\ \A h \in 0 .. m.heap - 1 : HeapFrame(h) \notin UserFrames \cup StackFrames

=============================================================================
