-------------------------------- MODULE Paging --------------------------------
(***************************************************************************)
(* User memory (paging.cpp): page directories, page tables shared by copy   *)
(* on write, page frames, and the processor's translation buffer (TLB).     *)
(* The programs of this kernel live in the first 4 MB, so a process has one *)
(* page directory entry for user memory, and one page table behind it.      *)
(*                                                                         *)
(* A step is a handler, which runs with interrupts off, or an access of the *)
(* program the CPU executes.  The model starts where main() has created two *)
(* processes, the second by pg_copy_user_page_directory from the first.     *)
(* Which process gets the CPU is the matter of Process: here it is any.     *)
(***************************************************************************)
EXTENDS Integers, Sequences

CONSTANTS
    Proc, NoProc,   \* process structures, and NULL
    Page,           \* virtual pages of a program that are mapped
    Hole,           \* a virtual page that is not
    Value,          \* contents of a page
    None,           \* no cached translation, no page
    Tables,         \* bound: page tables the kernel heap has room for
    Frames          \* page frames mm_page_allocate can give

ASSUME ProcAssumption == NoProc \notin Proc
ASSUME PageAssumption == Hole \notin Page /\ None \notin Page \cup {Hole}
ASSUME SizeAssumption == Tables \in Nat \ {0} /\ Frames \in Nat

(* Page tables and frames are never given back (pg_free_user_page_directory   *)
(* and pg_unmap say FIXME), so that they are numbered in the order they were  *)
(* given out.  Frame 0 is the one at physical address 0, which is not in the  *)
(* pool: mm_page_allocate returns 0 for want of a frame.                      *)
Zero == 0

VARIABLES
    procs,      \* the process list
    current,    \* the process the CPU runs: pr_current, its directory in CR3
    dir,        \* the directory entry: table, pde_writable, pde_copyonwrite
    pt,         \* page tables: frame, pte_writable, pte_copyonwrite
    mem,        \* page frames: those given out, and frame 0
    stage,      \* the page whose fault is in its second stage, or None
    tlb,        \* translations the processor has cached
    broken      \* how the code left its own rules: history, not in the code

vars == <<procs, current, dir, pt, mem, stage, tlb, broken>>

Frame       == 0 .. Frames
DirEntry    == [tbl : 1 .. Tables, w : BOOLEAN, cow : BOOLEAN]
TableEntry  == [frame : Frame, w : BOOLEAN, cow : BOOLEAN]
Translation == [frame : Frame, w : BOOLEAN]

Given == DOMAIN mem \ {Zero}

TypeOK ==
    /\ procs \subseteq Proc
    /\ current \in procs \cup {NoProc}
    /\ dir \in [procs -> DirEntry]
    /\ pt \in Seq([Page -> TableEntry]) /\ Len(pt) <= Tables
    /\ \E n \in Frame : mem \in [0 .. n -> Value]
    /\ stage \in Page \cup {Hole, None}
    /\ tlb \in [Page -> Translation \cup {None}]
    /\ broken \in {"none", "uninit", "oom"}

-----------------------------------------------------------------------------
(* Translation. *)

(* The walk through directory and table; both must allow a write. *)
Entry(q, v) == pt[dir[q].tbl][v]
Walk(q, v)  == [frame |-> Entry(q, v).frame, w |-> dir[q].w /\ Entry(q, v).w]

(* What the processor uses for the running program: the cached translation.   *)
Used(v) == IF tlb[v] = None THEN Walk(current, v) ELSE tlb[v]

Flushed == [v \in Page |-> None]

(* Mutant: pg_invalidate_tlb_entry is not called. *)
WithoutNone(v) == tlb

Without(v) == [u \in Page |-> IF u = v THEN None ELSE tlb[u]]

(* Mutants: an entry is protected and not marked; it is left writable.        *)
Protected(d) == [d EXCEPT !.w = FALSE]
Unprotected(e) == e

(* Copy on write is set on an entry, or on one that is writable, and removed. *)
Shared(d)   == [d EXCEPT !.w = FALSE, !.cow = TRUE]
Marked(e)   == IF e.w THEN Shared(e) ELSE e
Unmarked(e) == IF e.cow THEN [e EXCEPT !.w = TRUE, !.cow = FALSE] ELSE e

(* main() maps the pages of the program into app1 and forks app2 from it. *)
Init ==
    \E a, b \in Proc, n \in Frame, f \in [Page -> Frame \ {Zero}] :
        /\ a # b
        /\ \A u, v \in Page : f[u] = f[v] => u = v
        /\ {f[v] : v \in Page} = 1 .. n
        /\ procs = {a, b}
        /\ current = a
        /\ dir = [q \in {a, b} |-> [tbl |-> 1, w |-> FALSE, cow |-> TRUE]]
        /\ pt = << [v \in Page |-> [frame |-> f[v], w |-> TRUE, cow |-> FALSE]] >>
        /\ mem \in [0 .. n -> Value]
        /\ stage = None
        /\ tlb = Flushed
        /\ broken = "none"

-----------------------------------------------------------------------------
(* The program and the processor. *)

Running == current # NoProc /\ stage = None

(* The processor caches a translation, for a read or of its own accord, and   *)
(* drops one when it likes.                                                   *)
Cache(v) ==
    /\ Running
    /\ tlb[v] = None
    /\ tlb' = [tlb EXCEPT ![v] = Walk(current, v)]
    /\ UNCHANGED <<procs, current, dir, pt, mem, stage, broken>>

Evict(v) ==
    /\ Running
    /\ tlb[v] # None
    /\ tlb' = Without(v)
    /\ UNCHANGED <<procs, current, dir, pt, mem, stage, broken>>

Write(v, x) ==
    /\ Running
    /\ Used(v).w
    /\ mem' = [mem EXCEPT ![Used(v).frame] = x]
    /\ UNCHANGED <<procs, current, dir, pt, stage, tlb, broken>>

-----------------------------------------------------------------------------
(* pg_resolve_fault: two stages one after the other, with interrupts off.     *)

(* The directory entry is marked copy on write: the table is shared.  The     *)
(* process gets a copy of its own, and a single other sharer becomes the      *)
(* owner of the table.  Without another sharer the variable last is           *)
(* uninitialized: table entries are read from, and written to, wherever it    *)
(* points, and the model ends.                                                *)
CopyTable ==
    LET d       == dir[current]
        sharers == {q \in procs \ {current} : dir[q].tbl = d.tbl}
        copy    == [v \in Page |-> Marked(pt[d.tbl][v])]
    IN
    /\ Len(pt) < Tables
    /\ IF sharers = {} THEN broken' = "uninit" /\ UNCHANGED <<dir, pt>>
       ELSE /\ dir' = [q \in procs |->
                 IF q = current THEN [tbl |-> Len(pt) + 1, w |-> TRUE, cow |-> FALSE]
                 ELSE IF sharers = {q} THEN Unmarked(dir[q]) ELSE dir[q]]
            /\ pt' = Append([pt EXCEPT ![d.tbl] = copy], copy)
            /\ UNCHANGED broken

(* A write the translation does not allow, or any access to the hole.         *)
TableStage(v) ==
    /\ Running
    /\ v \in {u \in Page : ~ Used(u).w} \cup {Hole}
    /\ IF ~ dir[current].w /\ dir[current].cow
       THEN CopyTable ELSE UNCHANGED <<dir, pt, broken>>
    /\ stage' = v
    /\ tlb' = Without(v)
    /\ UNCHANGED <<procs, current, mem>>

(* The table entry is marked copy on write: the process gets a copy of the    *)
(* frame, and a single other process that maps the frame may write to it      *)
(* again.  When mm_page_allocate has no frame left its answer 0 is taken for  *)
(* one.                                                                       *)
CopyPage ==
    LET v       == stage
        e       == Entry(current, v)
        sharers == {q \in procs \ {current} : Entry(q, v).frame = e.frame}
        owners  == {dir[q].tbl : q \in {r \in sharers : sharers = {r}}}
        g       == IF DOMAIN mem = Frame THEN Zero ELSE CHOOSE n \in Frame : DOMAIN mem = 0 .. n - 1
    IN
    /\ mem' = [n \in DOMAIN mem \cup {g} |-> IF n = g THEN mem[Used(v).frame] ELSE mem[n]]
    /\ pt' = [t \in DOMAIN pt |-> [pt[t] EXCEPT ![v] =
                 IF t = dir[current].tbl THEN [frame |-> g, w |-> TRUE, cow |-> FALSE]
                 ELSE IF t \in owners THEN Unmarked(@) ELSE @]]
    /\ tlb' = Without(v)
    /\ broken' = IF g = Zero THEN "oom" ELSE broken
    /\ UNCHANGED <<procs, current, dir>>

(* Mutants: pr_current is not set; CR3 is not loaded. *)
ResumeNobody(q)  == current' = current /\ tlb' = Flushed
ResumeNoFlush(q) == current' = q /\ UNCHANGED tlb

(* pr_resume(q) loads the directory of q into CR3; or the CPU halts. *)
Resume(q) == current' = q /\ tlb' = Flushed

(* Anything else is not a matter of copy on write: pr_suspend, pr_schedule.   *)
Refuse ==
    /\ \E q \in (procs \ {current}) \cup {NoProc} : Resume(q)
    /\ UNCHANGED <<procs, dir, pt, mem, broken>>

PageStage ==
    /\ stage # None
    /\ IF stage \in Page /\ ~ Entry(current, stage).w /\ Entry(current, stage).cow
       THEN CopyPage ELSE Refuse
    /\ stage' = None

-----------------------------------------------------------------------------
(* pr_resume, pr_fork_process and pr_terminate, as far as memory goes. *)

(* The timer interrupt gives the CPU to another process. *)
Switch ==
    /\ Running
    /\ \E q \in procs \ {current} : Resume(q)
    /\ UNCHANGED <<procs, dir, pt, mem, stage, broken>>

(* pg_copy_user_page_directory: parent and child share the table from now on. *)
Fork(c) ==
    /\ Running
    /\ c \notin procs
    /\ procs' = procs \cup {c}
    /\ dir' = [q \in procs' |-> IF q \in {current, c} THEN Shared(dir[current]) ELSE dir[q]]
    /\ Resume(c)
    /\ UNCHANGED <<pt, mem, stage, broken>>

(* pg_free_user_page_directory frees the directory, but not what it maps.     *)
Exit ==
    /\ Running
    /\ procs' = procs \ {current}
    /\ dir' = [q \in procs' |-> dir[q]]
    /\ \E q \in procs' \cup {NoProc} : Resume(q)
    /\ UNCHANGED <<pt, mem, stage, broken>>

Access    == \E v \in Page : Cache(v) \/ Evict(v) \/ \E x \in Value : Write(v, x)

Fault     == (\E v \in Page \cup {Hole} : TableStage(v)) \/ PageStage
Switching == Switch \/ Exit \/ \E c \in Proc : Fork(c)

(* Nothing can be said of the machine once last was used uninitialized. *)
Next == broken # "uninit" /\ (Access \/ Fault \/ Switching)

Spec == Init /\ [][Next]_vars

-----------------------------------------------------------------------------
(* Properties. *)

(* A frame that some process may write to is mapped nowhere else: neither by  *)
(* another process nor by another page of the same one.  Copy on write keeps   *)
(* this through every order of forks, faults and exits.                       *)
WritableIsPrivate ==
    broken = "none" =>
        \A q, r \in procs, u, v \in Page :
            Walk(q, u).w /\ <<q, u>> # <<r, v>> => Entry(r, v).frame # Entry(q, u).frame

(* A cached translation is never more permissive than the tables, and leads   *)
(* to the same frame: the code flushes what it must (invlpg, CR3), though it  *)
(* changes entries of the running process and of others.                      *)
CacheIsCoherent ==
    broken = "none" /\ current # NoProc =>
        \A v \in Page : tlb[v] # None =>
            /\ tlb[v].frame = Walk(current, v).frame
            /\ tlb[v].w => Walk(current, v).w

(* A process is never suspended for writing to its own memory: whenever the   *)
(* processor refuses a write, the entries say copy on write.                  *)
WritesAreResolved ==
    broken = "none" /\ current # NoProc =>
        \A v \in Page : ~ Used(v).w =>
            \/ ~ dir[current].w /\ dir[current].cow
            \/ ~ Entry(current, v).w /\ Entry(current, v).cow

(* What a process reads from its memory. *)
View(q) == [v \in Page |-> mem[Entry(q, v).frame]]

Memory == INSTANCE PrivateMemory WITH
    live  <- procs,
    onCpu <- current,
    view  <- [q \in procs |-> View(q)],
    kept  <- broken = "none"

(* Tables, frames and faults together give every process a memory of its own, *)
(* and faults change nothing a process can see.                               *)
ImplementsPrivateMemory == Memory!Spec

=============================================================================
