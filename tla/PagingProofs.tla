----------------------------- MODULE PagingProofs -----------------------------
(***************************************************************************)
(* Proofs about Paging, for any processes, pages, tables and frames: copy    *)
(* on write keeps writable frames private, the translation buffer coherent  *)
(* and writes resolvable, and the whole implements PrivateMemory.           *)
(***************************************************************************)
EXTENDS Paging, TLAPS

(* Tables and frames are there before something refers to them. *)
Typed ==
    /\ TypeOK
    /\ \A q \in procs : dir[q].tbl \in DOMAIN pt
    /\ \A t \in DOMAIN pt, v \in Page : pt[t][v].frame \in DOMAIN mem
    /\ \A v \in Page : tlb[v] # None => tlb[v].frame \in DOMAIN mem
    /\ stage # None => current # NoProc

(* What is not writable is marked. *)
MarkedOrWritable ==
    /\ \A q \in procs : dir[q].cow <=> ~ dir[q].w
    /\ \A t \in DOMAIN pt, v \in Page : pt[t][v].cow <=> ~ pt[t][v].w

(* Who shares a table may not write through it. *)
SharedTables ==
    \A q, r \in procs : q # r /\ dir[q].tbl = dir[r].tbl => ~ dir[q].w

(* A frame is shared as the same page only; a writable entry does not share. *)
SharedFrames ==
    /\ \A q, r \in procs, u, v \in Page : Entry(q, u).frame = Entry(r, v).frame => u = v
    /\ \A q, r \in procs, v \in Page :
        Entry(q, v).w /\ Entry(r, v).frame = Entry(q, v).frame => dir[r].tbl = dir[q].tbl

(* The processor has cached what it would find. *)
CacheIsExact ==
    current # NoProc => \A v \in Page : tlb[v] # None => tlb[v] = Walk(current, v)

(* The second stage of a fault finds a table of the process's own. *)
FaultOwnsTable == stage # None => dir[current].w

Disciplined ==
    MarkedOrWritable /\ SharedTables /\ SharedFrames /\ CacheIsExact /\ FaultOwnsTable

IInv == Typed /\ (broken = "none" => Disciplined)
-----------------------------------------------------------------------------
(* Entries. *)

(* Setting and removing copy on write keeps an entry an entry. *)
LEMMA DirEntryFacts ==
    ASSUME NEW d \in DirEntry
    PROVE  /\ Shared(d) \in DirEntry /\ Shared(d).tbl = d.tbl /\ ~ Shared(d).w /\ Shared(d).cow
           /\ Unmarked(d) \in DirEntry /\ Unmarked(d).tbl = d.tbl
           /\ d.cow => Unmarked(d).w /\ ~ Unmarked(d).cow
           /\ ~ d.cow => Unmarked(d) = d
    BY DEF DirEntry, Shared, Unmarked

(* The same of table entries, and their frames stay.                          *)
LEMMA TableEntryFacts ==
    ASSUME NEW e \in TableEntry
    PROVE  /\ Marked(e) \in TableEntry /\ Marked(e).frame = e.frame /\ ~ Marked(e).w
           /\ e.w => Marked(e).cow
           /\ ~ e.w => Marked(e) = e
           /\ Unmarked(e) \in TableEntry /\ Unmarked(e).frame = e.frame
           /\ e.cow => Unmarked(e).w /\ ~ Unmarked(e).cow
           /\ ~ e.cow => Unmarked(e) = e
    BY DEF TableEntry, Marked, Shared, Unmarked

(* Types, taken apart for the provers. *)
LEMMA TypedFacts ==
    ASSUME Typed
    PROVE  /\ \A q \in procs : q \in Proc /\ dir[q] \in DirEntry /\ dir[q].tbl \in DOMAIN pt
           /\ \A t \in DOMAIN pt, v \in Page :
                pt[t][v] \in TableEntry /\ pt[t][v].frame \in DOMAIN mem
           /\ \A q \in procs, v \in Page :
                Entry(q, v) \in TableEntry /\ Entry(q, v).frame \in DOMAIN mem
           /\ \A v \in Page :
                tlb[v] # None => tlb[v] \in Translation /\ tlb[v].frame \in DOMAIN mem
           /\ DOMAIN pt = 1 .. Len(pt) /\ Len(pt) \in Nat /\ Len(pt) <= Tables
           /\ NoProc \notin procs /\ (current # NoProc => current \in procs)
<1>1. pt \in Seq([Page -> TableEntry]) /\ dir \in [procs -> DirEntry]
    BY DEF Typed, TypeOK
<1>2. DOMAIN pt = 1 .. Len(pt) /\ Len(pt) \in Nat
    BY <1>1
<1>3. \A t \in DOMAIN pt : pt[t] \in [Page -> TableEntry]
    BY <1>1, <1>2
<1>4. \A q \in procs : q \in Proc /\ dir[q] \in DirEntry /\ dir[q].tbl \in DOMAIN pt
    BY <1>1 DEF Typed, TypeOK
<1>5. \A t \in DOMAIN pt, v \in Page :
        pt[t][v] \in TableEntry /\ pt[t][v].frame \in DOMAIN mem
    BY <1>3 DEF Typed
<1>6. \A q \in procs, v \in Page :
        Entry(q, v) \in TableEntry /\ Entry(q, v).frame \in DOMAIN mem
    BY <1>4, <1>5 DEF Entry
<1>7. \A v \in Page :
        tlb[v] # None => tlb[v] \in Translation /\ tlb[v].frame \in DOMAIN mem
    BY DEF Typed, TypeOK
<1> QED
    BY <1>1, <1>2, <1>4, <1>5, <1>6, <1>7, ProcAssumption DEF Typed, TypeOK

(* A walk leads to the frame of the table entry; both levels must allow a write. *)
LEMMA WalkFacts ==
    ASSUME Typed, NEW q \in procs, NEW v \in Page
    PROVE  /\ Walk(q, v) \in Translation /\ Walk(q, v).frame \in DOMAIN mem
           /\ Walk(q, v).frame = Entry(q, v).frame
           /\ Walk(q, v).w <=> dir[q].w /\ Entry(q, v).w
<1>1. dir[q] \in DirEntry /\ Entry(q, v) \in TableEntry /\ Entry(q, v).frame \in DOMAIN mem
    BY TypedFacts
<1> QED
    BY <1>1 DEF Walk, Translation, TableEntry, DirEntry

(* So does what the processor uses, to some frame there is.                   *)
LEMMA UsedFacts ==
    ASSUME Typed, current # NoProc, NEW v \in Page
    PROVE  Used(v) \in Translation /\ Used(v).frame \in DOMAIN mem
    BY TypedFacts, WalkFacts DEF Used

(* Dropping translations. *)
LEMMA CacheFacts ==
    ASSUME Typed
    PROVE  /\ Flushed \in [Page -> Translation \cup {None}]
           /\ \A v \in Page : Flushed[v] = None
           /\ \A x : /\ Without(x) \in [Page -> Translation \cup {None}]
                     /\ \A v \in Page : Without(x)[v] # None => v # x /\ Without(x)[v] = tlb[v]
    BY DEF Typed, TypeOK, Flushed, Without

-----------------------------------------------------------------------------
(* The inductive invariant implies what the runs check. *)

(* Writable frames are private.                                               *)
LEMMA PrivateFromIInv == IInv => WritableIsPrivate
<1> SUFFICES ASSUME IInv, broken = "none", NEW q \in procs, NEW r \in procs,
                    NEW u \in Page, NEW v \in Page,
                    Walk(q, u).w, <<q, u>> # <<r, v>>
             PROVE  Entry(r, v).frame # Entry(q, u).frame
    BY DEF WritableIsPrivate
<1>1. dir[q].w /\ Entry(q, u).w
    BY DEF Walk
<1>2. CASE u # v
    BY <1>2 DEF IInv, Disciplined, SharedFrames
<1>3. CASE u = v
    <2>1. q # r
        BY <1>3
    <2>2. dir[r].tbl # dir[q].tbl
        BY <1>1, <2>1 DEF IInv, Disciplined, SharedTables
    <2> QED
        BY <1>1, <1>3, <2>2 DEF IInv, Disciplined, SharedFrames
<1> QED
    BY <1>2, <1>3

(* Cached translations agree with the tables.                                 *)
LEMMA CoherentFromIInv == IInv => CacheIsCoherent
    BY DEF IInv, Disciplined, CacheIsExact, CacheIsCoherent

(* What the processor uses is what the tables say. *)
LEMMA UsedIsWalk ==
    ASSUME IInv, broken = "none", current # NoProc, NEW v \in Page
    PROVE  Used(v) = Walk(current, v)
    BY DEF IInv, Disciplined, CacheIsExact, Used

(* A refused write meets copy on write.                                       *)
LEMMA ResolvedFromIInv == IInv => WritesAreResolved
<1> SUFFICES ASSUME IInv, broken = "none", current # NoProc, NEW v \in Page, ~ Used(v).w
             PROVE  \/ ~ dir[current].w /\ dir[current].cow
                    \/ ~ Entry(current, v).w /\ Entry(current, v).cow
    BY DEF WritesAreResolved
<1>1. current \in procs /\ dir[current].tbl \in DOMAIN pt
    BY DEF IInv, Typed, TypeOK
<1>2. ~ dir[current].w \/ ~ Entry(current, v).w
    BY <1>1, UsedIsWalk, WalkFacts DEF IInv
<1>3. /\ ~ dir[current].w => dir[current].cow
      /\ ~ Entry(current, v).w => Entry(current, v).cow
    BY <1>1 DEF IInv, Disciplined, MarkedOrWritable, Entry
<1> QED
    BY <1>2, <1>3

-----------------------------------------------------------------------------
(* What the steps of a fault change. *)

(* A copy n of the table t0, for the running process alone; if there is a     *)
(* single other sharer, t0 is now his.                                        *)
TableCopied(t0, n) ==
    /\ UNCHANGED broken
    /\ n \notin DOMAIN pt /\ t0 \in DOMAIN pt
    /\ pt' \in Seq([Page -> TableEntry]) /\ Len(pt') <= Tables
    /\ DOMAIN pt' = DOMAIN pt \cup {n}
    /\ \A t \in DOMAIN pt \ {t0} : pt'[t] = pt[t]
    /\ \A t \in {t0, n}, v \in Page : pt'[t][v] = Marked(pt[t0][v])
    /\ dir' \in [procs -> DirEntry]
    /\ dir'[current].tbl = n /\ dir'[current].w /\ ~ dir'[current].cow
    /\ \A q \in procs \ {current} :
          /\ dir'[q].tbl = dir[q].tbl
          /\ dir'[q] = dir[q] \/ dir'[q] = Unmarked(dir[q])
          /\ dir'[q] # dir[q] =>
                \A r \in procs \ {current} : dir[r].tbl = t0 <=> r = q

(* That is what the first stage of a fault does, unless last is uninitialized. *)
LEMMA CopyTableFacts ==
    ASSUME Typed, current \in procs, CopyTable, broken' # "uninit",
           NEW t0, t0 = dir[current].tbl, NEW n, n = Len(pt) + 1
    PROVE  TableCopied(t0, n)
<1> DEFINE sharers == {q \in procs \ {current} : dir[q].tbl = t0}
           copy    == [v \in Page |-> Marked(pt[t0][v])]
           pt1     == [pt EXCEPT ![t0] = copy]
<1>1. /\ Len(pt) < Tables /\ UNCHANGED broken
      /\ dir' = [q \in procs |->
                 IF q = current THEN [tbl |-> n, w |-> TRUE, cow |-> FALSE]
                 ELSE IF sharers = {q} THEN Unmarked(dir[q]) ELSE dir[q]]
      /\ pt' = Append(pt1, copy)
    BY DEF CopyTable
<1>2. /\ pt \in Seq([Page -> TableEntry]) /\ DOMAIN pt = 1 .. Len(pt) /\ Len(pt) \in Nat
      /\ t0 \in DOMAIN pt /\ Tables \in Nat
      /\ \A t \in DOMAIN pt, v \in Page : pt[t][v] \in TableEntry
    BY TypedFacts, SizeAssumption DEF Typed, TypeOK
<1>3. copy \in [Page -> TableEntry] /\ \A v \in Page : copy[v] = Marked(pt[t0][v])
    BY <1>2, TableEntryFacts
<1> HIDE DEF copy
<1>4. /\ pt1 \in Seq([Page -> TableEntry]) /\ Len(pt1) = Len(pt) /\ DOMAIN pt1 = DOMAIN pt
      /\ pt1[t0] = copy /\ \A t \in DOMAIN pt \ {t0} : pt1[t] = pt[t]
    BY <1>2, <1>3
<1> HIDE DEF pt1
<1>5. /\ pt' \in Seq([Page -> TableEntry]) /\ Len(pt') = n
      /\ DOMAIN pt' = DOMAIN pt \cup {n} /\ n \notin DOMAIN pt
      /\ pt'[n] = copy /\ \A t \in DOMAIN pt : pt'[t] = pt1[t]
    BY <1>1, <1>2, <1>3, <1>4
<1>6. \A t \in {t0, n}, v \in Page : pt'[t][v] = Marked(pt[t0][v])
    BY <1>2, <1>3, <1>4, <1>5
<1>7. /\ dir'[current] = [tbl |-> n, w |-> TRUE, cow |-> FALSE]
      /\ [tbl |-> n, w |-> TRUE, cow |-> FALSE] \in DirEntry
    BY <1>1, <1>2 DEF DirEntry
<1>8. ASSUME NEW q \in procs \ {current}
      PROVE  /\ dir'[q] \in DirEntry /\ dir'[q].tbl = dir[q].tbl
             /\ dir'[q] = dir[q] \/ dir'[q] = Unmarked(dir[q])
             /\ dir'[q] # dir[q] => sharers = {q}
    <2>1. dir[q] \in DirEntry
        BY TypedFacts
    <2> QED
        BY <1>1, <2>1, DirEntryFacts
<1>9. dir' \in [procs -> DirEntry]
    BY <1>1, <1>7, <1>8
<1>10. ASSUME NEW q \in procs \ {current}, dir'[q] # dir[q], NEW r \in procs \ {current}
       PROVE  dir[r].tbl = t0 <=> r = q
    BY <1>8, <1>10
<1>11. dir'[current].tbl = n /\ dir'[current].w /\ ~ dir'[current].cow
    BY <1>7
<1> HIDE DEF sharers
<1>12. UNCHANGED broken /\ n \notin DOMAIN pt /\ t0 \in DOMAIN pt
    BY <1>1, <1>2, <1>5
<1>13. pt' \in Seq([Page -> TableEntry]) /\ Len(pt') <= Tables
    BY <1>1, <1>2, <1>5
<1>14. DOMAIN pt' = DOMAIN pt \cup {n} /\ \A t \in DOMAIN pt \ {t0} : pt'[t] = pt[t]
    BY <1>4, <1>5
<1>15. \A q \in procs \ {current} :
                 /\ dir'[q].tbl = dir[q].tbl
                 /\ dir'[q] = dir[q] \/ dir'[q] = Unmarked(dir[q])
                 /\ dir'[q] # dir[q] =>
                       \A r \in procs \ {current} : dir[r].tbl = t0 <=> r = q
    BY <1>8, <1>10
<1> QED
    BY <1>6, <1>9, <1>11, <1>12, <1>13, <1>14, <1>15 DEF TableCopied


(* Frame k holds a copy of the page, and the entry in table t leads to it.    *)
Copied(t, n, k) ==
    /\ mem' \in [0 .. n -> Value]
    /\ DOMAIN mem' = DOMAIN mem \cup {k}
    /\ mem'[k] = mem[Used(stage).frame]
    /\ \A j \in DOMAIN mem : j # k => mem'[j] = mem[j]
    /\ broken' = "none" => k \notin DOMAIN mem
    /\ pt'[t][stage] = [frame |-> k, w |-> TRUE, cow |-> FALSE]

(* The page gets a frame nobody has, or, when there is none left, frame 0; the  *)
(* process that alone had the old one besides, if there is one, may write to  *)
(* it.                                                                       *)
LEMMA CopyPageFacts ==
    ASSUME Typed, current \in procs, CopyPage, stage \in Page,
           NEW t0, t0 = dir[current].tbl
    PROVE  /\ UNCHANGED <<procs, current, dir>> /\ broken' \in {"oom", broken}
           /\ \E n, k \in Frame : Copied(t0, n, k)
           /\ pt' \in Seq([Page -> TableEntry]) /\ Len(pt') = Len(pt) /\ DOMAIN pt' = DOMAIN pt
           /\ \A t \in DOMAIN pt, v \in Page : v # stage => pt'[t][v] = pt[t][v]
           /\ \A t \in DOMAIN pt \ {t0} :
                 /\ pt'[t][stage] = pt[t][stage] \/ pt'[t][stage] = Unmarked(pt[t][stage])
                 /\ pt'[t][stage] # pt[t][stage] =>
                       \E q \in procs \ {current} :
                          /\ dir[q].tbl = t
                          /\ \A r \in procs \ {current} :
                                Entry(r, stage).frame = Entry(current, stage).frame <=> r = q
           /\ tlb' = Without(stage)
<1> DEFINE e       == Entry(current, stage)
           sharers == {q \in procs \ {current} : Entry(q, stage).frame = e.frame}
           owners  == {dir[q].tbl : q \in {r \in sharers : sharers = {r}}}
           g       == IF DOMAIN mem = Frame THEN Zero
                      ELSE CHOOSE n \in Frame : DOMAIN mem = 0 .. n - 1
           entry(t) == IF t = t0 THEN [frame |-> g, w |-> TRUE, cow |-> FALSE]
                       ELSE IF t \in owners THEN Unmarked(pt[t][stage]) ELSE pt[t][stage]
<1>1. /\ mem' = [n \in DOMAIN mem \cup {g} |-> IF n = g THEN mem[Used(stage).frame] ELSE mem[n]]
      /\ pt' = [t \in DOMAIN pt |-> [pt[t] EXCEPT ![stage] =
                 IF t = t0 THEN [frame |-> g, w |-> TRUE, cow |-> FALSE]
                 ELSE IF t \in owners THEN Unmarked(@) ELSE @]]
      /\ tlb' = Without(stage)
      /\ broken' = IF g = Zero THEN "oom" ELSE broken
      /\ UNCHANGED <<procs, current, dir>>
    BY DEF CopyPage
<1>2. broken' \in {"oom", broken} /\ (g = Zero => broken' # "none")
    BY <1>1
<1>3. PICK m \in Frame : mem \in [0 .. m -> Value]
    BY DEF Typed, TypeOK
<1>4. m \in Nat /\ Frames \in Nat /\ m <= Frames /\ DOMAIN mem = 0 .. m
    BY <1>3, SizeAssumption DEF Frame
<1>5. IF DOMAIN mem = Frame THEN g = Zero /\ g \in DOMAIN mem
      ELSE g = m + 1 /\ m + 1 \in Frame /\ g \notin DOMAIN mem
    <2>1. CASE DOMAIN mem = Frame
        BY <1>4, <2>1 DEF Zero
    <2>2. CASE DOMAIN mem # Frame
        <3>1. m + 1 \in Frame /\ DOMAIN mem = 0 .. (m + 1) - 1
            BY <1>4, <2>2 DEF Frame
        <3>2. ASSUME NEW n \in Frame, DOMAIN mem = 0 .. n - 1
              PROVE  n = m + 1
            <4>1. n \in Nat
                BY <1>4 DEF Frame
            <4>2. m \in 0 .. n - 1 /\ (n - 1 \in 0 .. n - 1 => n - 1 \in 0 .. m)
                BY <1>4, <3>2
            <4> QED
                BY <1>4, <4>1, <4>2
        <3>3. (CHOOSE n \in Frame : DOMAIN mem = 0 .. n - 1) = m + 1
            BY <3>1, <3>2
        <3> QED
            BY <1>4, <2>2, <3>1, <3>3
    <2> QED
        BY <2>1, <2>2
<1> HIDE DEF g
<1>6. /\ DOMAIN mem' = DOMAIN mem \cup {g}
      /\ mem'[g] = mem[Used(stage).frame]
      /\ \A k \in DOMAIN mem : k # g => mem'[k] = mem[k]
    BY <1>1
<1>7. g \in Frame /\ \E n \in Frame : mem' \in [0 .. n -> Value]
    <2>1. Used(stage).frame \in DOMAIN mem
        BY UsedFacts, TypedFacts
    <2>2. \A k \in DOMAIN mem : mem[k] \in Value
        BY <1>3, <1>4
    <2>3. \A k \in DOMAIN mem' : mem'[k] \in Value
        BY <1>6, <2>1, <2>2
    <2>4. mem' \in [DOMAIN mem' -> Value]
        BY <1>1, <2>3
    <2>5. CASE DOMAIN mem = Frame
        BY <1>3, <1>4, <1>5, <1>6, <2>4, <2>5
    <2>6. CASE DOMAIN mem # Frame
        <3>1. DOMAIN mem' = 0 .. m + 1
            BY <1>4, <1>5, <1>6, <2>6
        <3> QED
            BY <1>5, <2>4, <2>6, <3>1
    <2> QED
        BY <2>5, <2>6
<1>8. /\ DOMAIN pt = 1 .. Len(pt) /\ Len(pt) \in Nat /\ t0 \in DOMAIN pt
      /\ \A t \in DOMAIN pt : pt[t] \in [Page -> TableEntry]
      /\ \A t \in DOMAIN pt, v \in Page : pt[t][v] \in TableEntry
    BY TypedFacts DEF Typed, TypeOK
<1>9. [frame |-> g, w |-> TRUE, cow |-> FALSE] \in TableEntry
    BY <1>7 DEF TableEntry
<1>10. ASSUME NEW t \in DOMAIN pt
       PROVE  /\ entry(t) \in TableEntry
              /\ pt'[t] = [pt[t] EXCEPT ![stage] = entry(t)]
    <2>1. pt[t][stage] \in TableEntry
        BY <1>8
    <2>2. entry(t) \in TableEntry
        BY <1>9, <2>1, TableEntryFacts
    <2> QED
        BY <1>1, <2>2
<1> HIDE DEF entry
<1>11. ASSUME NEW t \in DOMAIN pt
       PROVE  /\ pt'[t] \in [Page -> TableEntry] /\ pt'[t][stage] = entry(t)
              /\ \A v \in Page : v # stage => pt'[t][v] = pt[t][v]
    <2>1. pt[t] \in [Page -> TableEntry]
        BY <1>8
    <2>2. entry(t) \in TableEntry /\ pt'[t] = [pt[t] EXCEPT ![stage] = entry(t)]
        BY <1>10
    <2> QED
        BY <2>1, <2>2
<1>12. pt' \in Seq([Page -> TableEntry]) /\ Len(pt') = Len(pt) /\ DOMAIN pt' = DOMAIN pt
    <2>1. DOMAIN pt' = DOMAIN pt
        BY <1>1
    <2>2. pt' \in [1 .. Len(pt) -> [Page -> TableEntry]]
        BY <1>1, <1>8, <1>11
    <2> QED
        BY <1>8, <2>1, <2>2
<1>13. ASSUME NEW t \in DOMAIN pt \ {t0}
       PROVE  /\ pt'[t][stage] = pt[t][stage] \/ pt'[t][stage] = Unmarked(pt[t][stage])
              /\ pt'[t][stage] # pt[t][stage] => t \in owners
    BY <1>11 DEF entry
<1>14. ASSUME NEW t \in owners
       PROVE  \E q \in procs \ {current} :
                 /\ dir[q].tbl = t
                 /\ \A r \in procs \ {current} :
                       Entry(r, stage).frame = Entry(current, stage).frame <=> r = q
    <2>1. PICK q \in sharers : sharers = {q} /\ t = dir[q].tbl
        OBVIOUS
    <2> QED
        BY <2>1
<1>15. pt'[t0][stage] = [frame |-> g, w |-> TRUE, cow |-> FALSE]
    BY <1>8, <1>11 DEF entry
<1>16. broken' = "none" => g \notin DOMAIN mem
    BY <1>2, <1>5
<1>17. \A t \in DOMAIN pt, v \in Page : v # stage => pt'[t][v] = pt[t][v]
    BY <1>11
<1> HIDE DEF owners, sharers
<1>18. \A t \in DOMAIN pt \ {t0} :
                 /\ pt'[t][stage] = pt[t][stage] \/ pt'[t][stage] = Unmarked(pt[t][stage])
                 /\ pt'[t][stage] # pt[t][stage] =>
                       \E q \in procs \ {current} :
                          /\ dir[q].tbl = t
                          /\ \A r \in procs \ {current} :
                                Entry(r, stage).frame = Entry(current, stage).frame <=> r = q
    BY <1>13, <1>14
<1>19. UNCHANGED <<procs, current, dir>> /\ tlb' = Without(stage)
    BY <1>1
<1>20. \E n, k \in Frame : Copied(t0, n, k)
    <2>1. PICK n \in Frame : mem' \in [0 .. n -> Value]
        BY <1>7
    <2> USE <1>7
    <2> WITNESS n \in Frame, g \in Frame
    <2> QED
        BY <1>6, <1>15, <1>16, <2>1 DEF Copied
<1> HIDE DEF e
<1> QED
    BY <1>2, <1>12, <1>17, <1>18, <1>19, <1>20

-----------------------------------------------------------------------------
(* The invariant, one lemma per kind of step. *)

(* main() has set up one table with entries for different frames.             *)
LEMMA InitIInv == Init => IInv
<1> SUFFICES ASSUME Init PROVE IInv
    OBVIOUS
<1>1. PICK a, b \in Proc, n \in Frame, f \in [Page -> Frame \ {Zero}] :
        /\ a # b
        /\ \A u, v \in Page : f[u] = f[v] => u = v
        /\ {f[v] : v \in Page} = 1 .. n
        /\ procs = {a, b}
        /\ current = a
        /\ dir = [q \in {a, b} |-> [tbl |-> 1, w |-> FALSE, cow |-> TRUE]]
        /\ pt = << [v \in Page |-> [frame |-> f[v], w |-> TRUE, cow |-> FALSE]] >>
        /\ mem \in [0 .. n -> Value]
        /\ stage = None
        /\ tlb = Flushed
        /\ broken = "none"
    BY DEF Init
<1>2. /\ \A q \in procs : dir[q] = [tbl |-> 1, w |-> FALSE, cow |-> TRUE]
      /\ [tbl |-> 1, w |-> FALSE, cow |-> TRUE] \in DirEntry
    BY <1>1, SizeAssumption DEF DirEntry
<1>3. \A v \in Page : /\ pt[1][v] = [frame |-> f[v], w |-> TRUE, cow |-> FALSE]
                      /\ pt[1][v] \in TableEntry
    BY <1>1 DEF TableEntry
<1>4. pt[1] \in [Page -> TableEntry]
    BY <1>1, <1>3
<1>5. pt \in Seq([Page -> TableEntry]) /\ Len(pt) = 1 /\ DOMAIN pt = {1}
    BY <1>1, <1>4
<1>6. \A v \in Page : f[v] \in 1 .. n /\ f[v] \in DOMAIN mem
    BY <1>1, SizeAssumption DEF Frame
<1>7. tlb \in [Page -> Translation \cup {None}] /\ \A v \in Page : tlb[v] = None
    BY <1>1 DEF Flushed
<1>8. TypeOK
    BY <1>1, <1>2, <1>5, <1>7, SizeAssumption DEF TypeOK
<1>9. Typed
    BY <1>1, <1>2, <1>3, <1>5, <1>6, <1>7, <1>8 DEF Typed
<1>10. MarkedOrWritable
    <2>1. \A q \in procs : dir[q].cow /\ ~ dir[q].w
        BY <1>2
    <2>2. ASSUME NEW v \in Page
          PROVE  pt[1][v].w /\ ~ pt[1][v].cow
        <3>1. pt[1][v] = [frame |-> f[v], w |-> TRUE, cow |-> FALSE]
            BY <1>3
        <3> QED
            BY <3>1
    <2> QED
        BY <1>5, <2>1, <2>2 DEF MarkedOrWritable
<1>11. SharedTables
    BY <1>2 DEF SharedTables
<1>12. SharedFrames
    BY <1>1, <1>2, <1>3 DEF SharedFrames, Entry
<1> QED
    BY <1>1, <1>7, <1>9, <1>10, <1>11, <1>12 DEF IInv, Disciplined, CacheIsExact, FaultOwnsTable

(* The program's own steps change the translation buffer, or a page. *)
LEMMA AccessIInv ==
    ASSUME IInv, NEW v \in Page, NEW x \in Value, Cache(v) \/ Evict(v) \/ Write(v, x)
    PROVE  IInv'
<1>1. /\ UNCHANGED <<procs, current, dir, pt, stage, broken>>
      /\ current \in procs /\ stage = None
    BY TypedFacts DEF Cache, Evict, Write, Running, IInv
<1>2. DOMAIN mem' = DOMAIN mem /\ \E n \in Frame : mem' \in [0 .. n -> Value]
    BY DEF Cache, Evict, Write, IInv, Typed, TypeOK
<1>3. /\ tlb' \in [Page -> Translation \cup {None}]
      /\ \A u \in Page : tlb'[u] # None => tlb'[u] = tlb[u] \/ tlb'[u] = Walk(current, u)
    <2>1. tlb \in [Page -> Translation \cup {None}] /\ Walk(current, v) \in Translation
        BY <1>1, WalkFacts DEF IInv, Typed, TypeOK
    <2>2. CASE Cache(v)
        BY <2>1, <2>2 DEF Cache
    <2>3. CASE Evict(v)
        BY <2>1, <2>3, CacheFacts DEF Evict, IInv
    <2>4. CASE Write(v, x)
        BY <2>1, <2>4 DEF Write
    <2> QED
        BY <2>2, <2>3, <2>4
<1>4. \A u \in Page : /\ Walk(current, u)' = Walk(current, u)
                      /\ Walk(current, u).frame \in DOMAIN mem
    BY <1>1, WalkFacts DEF IInv, Walk, Entry
<1>5. Typed'
    BY <1>1, <1>2, <1>3, <1>4 DEF IInv, Typed, TypeOK
<1>6. ASSUME broken = "none"
      PROVE  CacheIsExact'
    <2>1. \A u \in Page : tlb[u] # None => tlb[u] = Walk(current, u)
        BY <1>1, <1>6, TypedFacts DEF IInv, Disciplined, CacheIsExact
    <2> QED
        BY <1>3, <1>4, <2>1 DEF CacheIsExact
<1>7. ASSUME broken = "none"
      PROVE  (MarkedOrWritable /\ SharedTables /\ SharedFrames /\ FaultOwnsTable)'
    BY <1>1, <1>7 DEF IInv, Disciplined, MarkedOrWritable, SharedTables, SharedFrames,
       FaultOwnsTable, Entry
<1> QED
    BY <1>1, <1>5, <1>6, <1>7 DEF IInv, Disciplined

(* After a change of CR3 nothing is cached. *)
LEMMA ResumeIInv ==
    ASSUME IInv, NEW q, Resume(q), q \in procs' \cup {NoProc}, stage' = None,
           UNCHANGED <<pt, mem, broken>>,
           procs' \subseteq Proc, dir' \in [procs' -> DirEntry],
           \A r \in procs' : \E s \in procs : dir'[r].tbl = dir[s].tbl,
           broken = "none" =>
              /\ \A r \in procs' : dir'[r].cow <=> ~ dir'[r].w
              /\ SharedTables'
    PROVE  IInv'
<1>1. tlb' \in [Page -> Translation \cup {None}] /\ \A v \in Page : tlb'[v] = None
    BY CacheFacts DEF Resume, IInv
<1>2. \A r \in procs' : dir'[r].tbl \in DOMAIN pt
    BY TypedFacts DEF IInv
<1>3. Typed'
    BY <1>1, <1>2 DEF IInv, Typed, TypeOK, Resume
<1>4. ASSUME broken = "none"
      PROVE  MarkedOrWritable' /\ CacheIsExact' /\ FaultOwnsTable'
    BY <1>1, <1>4 DEF IInv, Disciplined, MarkedOrWritable, CacheIsExact, FaultOwnsTable
<1>5. ASSUME broken = "none"
      PROVE  SharedFrames'
    <2>1. ASSUME NEW r \in procs'
          PROVE  \E s \in procs : dir'[r].tbl = dir[s].tbl
                                  /\ \A v \in Page : Entry(r, v)' = Entry(s, v)
        BY DEF Entry
    <2>2. SUFFICES ASSUME NEW r1 \in procs', NEW r2 \in procs', NEW u \in Page, NEW v \in Page,
                          Entry(r1, u)'.frame = Entry(r2, v)'.frame
                   PROVE  u = v /\ (Entry(r1, u)'.w => dir'[r2].tbl = dir'[r1].tbl)
        BY DEF SharedFrames
    <2>3. PICK s1 \in procs : dir'[r1].tbl = dir[s1].tbl /\ \A z \in Page : Entry(r1, z)' = Entry(s1, z)
        BY <2>1
    <2>4. PICK s2 \in procs : dir'[r2].tbl = dir[s2].tbl /\ \A z \in Page : Entry(r2, z)' = Entry(s2, z)
        BY <2>1
    <2>5. Entry(s1, u).frame = Entry(s2, v).frame
        BY <2>2, <2>3, <2>4
    <2>6. SharedFrames
        BY <1>5 DEF IInv, Disciplined
    <2>7. u = v
        BY <2>5, <2>6 DEF SharedFrames
    <2>8. Entry(s1, u).w => dir[s2].tbl = dir[s1].tbl
        BY <2>5, <2>6, <2>7 DEF SharedFrames
    <2> QED
        BY <2>3, <2>4, <2>7, <2>8
<1> QED
    BY <1>3, <1>4, <1>5 DEF IInv, Disciplined

(* CR3 is loaded: nothing stays cached.                                       *)
LEMMA SwitchIInv == IInv /\ Switch => IInv'
<1> SUFFICES ASSUME IInv, Switch PROVE IInv'
    OBVIOUS
<1>1. PICK q \in procs \ {current} : Resume(q)
    BY DEF Switch
<1>2. UNCHANGED <<procs, dir, pt, mem, stage, broken>> /\ stage = None
    BY DEF Switch, Running
<1>3. procs \subseteq Proc /\ dir \in [procs -> DirEntry]
    BY DEF IInv, Typed, TypeOK
<1>4. broken = "none" => (\A r \in procs : dir[r].cow <=> ~ dir[r].w) /\ SharedTables'
    BY <1>2 DEF IInv, Disciplined, MarkedOrWritable, SharedTables
<1> QED
    BY <1>1, <1>2, <1>3, <1>4, ResumeIInv

(* Parent and child may not write through the table they share.               *)
LEMMA ForkIInv == ASSUME IInv, NEW c \in Proc, Fork(c) PROVE IInv'
<1>1. /\ current \in procs /\ stage' = None /\ c \notin procs /\ Resume(c)
      /\ procs' = procs \cup {c} /\ UNCHANGED <<pt, mem, broken>>
      /\ dir' = [q \in procs' |-> IF q \in {current, c} THEN Shared(dir[current]) ELSE dir[q]]
    BY TypedFacts DEF Fork, Running, IInv
<1>2. /\ procs' \subseteq Proc
      /\ \A q \in procs : dir[q] \in DirEntry
    BY <1>1, TypedFacts DEF IInv
<1>3. /\ Shared(dir[current]) \in DirEntry /\ Shared(dir[current]).tbl = dir[current].tbl
      /\ ~ Shared(dir[current]).w /\ Shared(dir[current]).cow
    BY <1>1, <1>2, DirEntryFacts
<1>4. /\ dir' \in [procs' -> DirEntry]
      /\ \A r \in {current, c} : dir'[r] = Shared(dir[current])
      /\ \A r \in procs' \ {current, c} : r \in procs /\ dir'[r] = dir[r]
    BY <1>1, <1>2, <1>3
<1>5. \A r \in procs' : \E s \in procs : dir'[r].tbl = dir[s].tbl
    BY <1>1, <1>3, <1>4
<1>6. ASSUME broken = "none", NEW r \in procs'
      PROVE  /\ dir'[r].cow <=> ~ dir'[r].w
             /\ \A s \in procs' : r # s /\ dir'[r].tbl = dir'[s].tbl => ~ dir'[r].w
    <2>1. CASE r \in {current, c}
        BY <1>3, <1>4, <2>1
    <2>2. CASE r \notin {current, c}
        <3>1. r \in procs /\ dir'[r] = dir[r] /\ r # current
            BY <1>4, <2>2
        <3>2. \A s \in procs : r # s /\ dir[r].tbl = dir[s].tbl => ~ dir[r].w
            BY <1>6, <3>1 DEF IInv, Disciplined, SharedTables
        <3>3. \A s \in procs' : r # s /\ dir'[r].tbl = dir'[s].tbl => ~ dir'[r].w
            BY <1>1, <1>3, <1>4, <3>1, <3>2
        <3> QED
            BY <1>6, <3>1, <3>3 DEF IInv, Disciplined, MarkedOrWritable
    <2> QED
        BY <2>1, <2>2
<1>7. broken = "none" => (\A r \in procs' : dir'[r].cow <=> ~ dir'[r].w) /\ SharedTables'
    BY <1>6 DEF SharedTables
<1> QED
    BY <1>1, <1>2, <1>4, <1>5, <1>7, ResumeIInv

(* Who is left shares with fewer.                                             *)
LEMMA ExitIInv == IInv /\ Exit => IInv'
<1> SUFFICES ASSUME IInv, Exit PROVE IInv'
    OBVIOUS
<1>1. PICK q \in procs' \cup {NoProc} : Resume(q)
    BY DEF Exit
<1>2. /\ procs' = procs \ {current} /\ dir' = [r \in procs' |-> dir[r]]
      /\ UNCHANGED <<pt, mem, broken>> /\ stage' = None
    BY DEF Exit, Running
<1>3. /\ procs' \subseteq Proc /\ dir' \in [procs' -> DirEntry]
      /\ \A r \in procs' : r \in procs /\ dir'[r] = dir[r]
    BY <1>2, TypedFacts DEF IInv
<1>4. broken = "none" => (\A r \in procs' : dir'[r].cow <=> ~ dir'[r].w) /\ SharedTables'
    BY <1>3 DEF IInv, Disciplined, MarkedOrWritable, SharedTables
<1> QED
    BY <1>1, <1>2, <1>3, <1>4, ResumeIInv

(* First stage of a fault: afterwards the table is the process's own.         *)
LEMMA TableStageIInv ==
    ASSUME IInv, broken # "uninit", NEW x \in Page \cup {Hole}, TableStage(x)
    PROVE  IInv'
<1>1. /\ current \in procs /\ stage = None /\ stage' = x /\ tlb' = Without(x)
      /\ UNCHANGED <<procs, current, mem>>
    BY TypedFacts DEF TableStage, Running, IInv
<1>2. /\ tlb' \in [Page -> Translation \cup {None}]
      /\ \A v \in Page : tlb'[v] # None => tlb'[v] = tlb[v]
    BY <1>1, CacheFacts DEF IInv
<1>3. CASE UNCHANGED <<dir, pt>>
    <2>1. broken' \in {broken, "uninit"}
        BY DEF TableStage, CopyTable
    <2>2. Typed'
        <3>1. current' # NoProc /\ broken' \in {"none", "uninit", "oom"}
            BY <1>1, <2>1, TypedFacts DEF IInv, Typed, TypeOK
        <3>2. TypeOK'
            BY <1>1, <1>2, <1>3, <3>1 DEF IInv, Typed, TypeOK
        <3> QED
            BY <1>1, <1>2, <1>3, <3>1, <3>2 DEF IInv, Typed
    <2>3. ASSUME broken' = "none"
          PROVE  Disciplined'
        <3>1. dir[current].w
            <4>1. ASSUME ~ dir[current].w, dir[current].cow, CopyTable
                  PROVE  FALSE
                <5>1. dir'[current].tbl = Len(pt) + 1
                    BY <1>1, <2>3, <4>1, CopyTableFacts DEF IInv, TableCopied
                <5> QED
                    BY <1>1, <1>3, <5>1, TypedFacts DEF IInv
            <4>2. broken = "none"
                BY <2>1, <2>3
            <4> QED
                BY <1>1, <4>1, <4>2 DEF TableStage, IInv, Disciplined, MarkedOrWritable
        <3>2. broken = "none"
            BY <2>1, <2>3
        <3>3. CacheIsExact'
            BY <1>1, <1>2, <1>3, <3>2, TypedFacts
            DEF IInv, Disciplined, CacheIsExact, Walk, Entry
        <3>4. FaultOwnsTable'
            BY <1>1, <1>3, <3>1 DEF FaultOwnsTable
        <3> QED
            BY <1>1, <1>3, <3>2, <3>3, <3>4
            DEF IInv, Disciplined, MarkedOrWritable, SharedTables, SharedFrames, Entry
    <2> QED
        BY <2>2, <2>3 DEF IInv
<1>4. CASE ~ UNCHANGED <<dir, pt>>
    <2> DEFINE t0 == dir[current].tbl
               n  == Len(pt) + 1
    <2>1. CopyTable /\ ~ dir[current].w /\ broken' # "uninit"
        BY <1>4 DEF TableStage, CopyTable
    <2>2. /\ UNCHANGED broken
          /\ n \notin DOMAIN pt /\ t0 \in DOMAIN pt
          /\ pt' \in Seq([Page -> TableEntry]) /\ Len(pt') <= Tables
          /\ DOMAIN pt' = DOMAIN pt \cup {n}
          /\ \A t \in DOMAIN pt \ {t0} : pt'[t] = pt[t]
          /\ \A t \in {t0, n}, v \in Page : pt'[t][v] = Marked(pt[t0][v])
          /\ dir' \in [procs -> DirEntry]
          /\ dir'[current].tbl = n /\ dir'[current].w /\ ~ dir'[current].cow
          /\ \A q \in procs \ {current} :
                /\ dir'[q].tbl = dir[q].tbl
                /\ dir'[q] = dir[q] \/ dir'[q] = Unmarked(dir[q])
                /\ dir'[q] # dir[q] =>
                      \A r \in procs \ {current} : dir[r].tbl = t0 <=> r = q
        <3>1. Typed /\ t0 = dir[current].tbl /\ n = Len(pt) + 1
            BY DEF IInv
        <3> HIDE DEF t0, n
        <3>2. TableCopied(t0, n)
            BY <1>1, <2>1, <3>1, CopyTableFacts
        <3> QED
            BY <3>2 DEF TableCopied
    <2> HIDE DEF t0, n
    <2>3. \A v \in Page : /\ pt[t0][v] \in TableEntry /\ pt[t0][v].frame \in DOMAIN mem
                          /\ Marked(pt[t0][v]) \in TableEntry
                          /\ Marked(pt[t0][v]).frame = pt[t0][v].frame
                          /\ ~ Marked(pt[t0][v]).w
        BY <2>2, TypedFacts, TableEntryFacts DEF IInv
    <2>4. \A t \in DOMAIN pt', v \in Page :
             IF t \in {t0, n} THEN pt'[t][v].frame = pt[t0][v].frame /\ ~ pt'[t][v].w
             ELSE t \in DOMAIN pt /\ pt'[t][v] = pt[t][v]
        BY <2>2, <2>3
    <2>5. \A t \in DOMAIN pt', v \in Page : pt'[t][v].frame \in DOMAIN mem
        BY <2>3, <2>4, TypedFacts DEF IInv
    <2>6. \A q \in procs : dir'[q].tbl \in DOMAIN pt'
        BY <2>2, TypedFacts DEF IInv
    <2>7. TypeOK'
        BY <1>1, <1>2, <2>2 DEF IInv, Typed, TypeOK
    <2>8. Typed'
        <3>1. current' # NoProc
            BY <1>1, TypedFacts DEF IInv
        <3>2. \A v \in Page : tlb'[v] # None => tlb'[v].frame \in DOMAIN mem'
            BY <1>1, <1>2, TypedFacts DEF IInv
        <3> QED
            BY <1>1, <2>5, <2>6, <2>7, <3>1, <3>2 DEF Typed
    <2>9. ASSUME broken = "none"
          PROVE  Disciplined'
        <3>1. /\ MarkedOrWritable /\ SharedTables /\ SharedFrames /\ CacheIsExact
              /\ \A q \in procs : dir[q].cow <=> ~ dir[q].w
              /\ \A t \in DOMAIN pt, v \in Page : pt[t][v].cow <=> ~ pt[t][v].w
            BY <2>9 DEF IInv, Disciplined, MarkedOrWritable
        \* the frames of every process are those it had
        <3>2. ASSUME NEW q \in procs, NEW v \in Page
              PROVE  /\ Entry(q, v)'.frame = Entry(q, v).frame
                     /\ Entry(q, v)'.w => Entry(q, v).w /\ q # current /\ dir[q].tbl # t0
            <4>1. CASE q = current
                BY <2>2, <2>4, <4>1 DEF Entry, t0
            <4>2. CASE q # current
                <5>1. dir'[q].tbl = dir[q].tbl /\ dir[q].tbl \in DOMAIN pt /\ dir[q].tbl # n
                    BY <2>2, <4>2, TypedFacts DEF IInv
                <5> QED
                    BY <2>2, <2>4, <4>2, <5>1 DEF Entry
            <4> QED
                BY <4>1, <4>2
        <3>3. ASSUME NEW q \in procs \ {current}
              PROVE  /\ dir'[q].tbl = dir[q].tbl /\ dir[q].tbl # n
                     /\ dir'[q].cow <=> ~ dir'[q].w
            <4>1. dir[q] \in DirEntry /\ dir[q].tbl # n
                BY <2>2, TypedFacts DEF IInv
            <4>2. dir[q].cow => Unmarked(dir[q]).w /\ ~ Unmarked(dir[q]).cow
                BY <4>1, DirEntryFacts
            <4>3. ~ dir[q].cow => Unmarked(dir[q]) = dir[q]
                BY <4>1, DirEntryFacts
            <4> QED
                BY <2>2, <3>1, <4>1, <4>2, <4>3
        <3>4. MarkedOrWritable'
            <4>1. \A q \in procs : dir'[q].cow <=> ~ dir'[q].w
                BY <2>2, <3>3
            <4>2. ASSUME NEW t \in DOMAIN pt', NEW v \in Page
                  PROVE  pt'[t][v].cow <=> ~ pt'[t][v].w
                <5>1. CASE t \in {t0, n}
                    <6>1. pt'[t][v] = Marked(pt[t0][v]) /\ pt[t0][v] \in TableEntry
                        BY <2>2, <2>3, <5>1
                    <6>2. CASE pt[t0][v].w
                        BY <6>1, <6>2, TableEntryFacts
                    <6>3. CASE ~ pt[t0][v].w
                        BY <2>2, <3>1, <6>1, <6>3, TableEntryFacts
                    <6> QED
                        BY <6>2, <6>3
                <5>2. CASE t \notin {t0, n}
                    BY <2>4, <3>1, <5>2
                <5> QED
                    BY <5>1, <5>2
            <4> QED
                BY <1>1, <4>1, <4>2 DEF MarkedOrWritable
        <3>5. SharedTables'
            <4> SUFFICES ASSUME NEW q \in procs, NEW r \in procs, q # r, dir'[q].tbl = dir'[r].tbl
                         PROVE  ~ dir'[q].w
                BY <1>1 DEF SharedTables
            <4>1. q # current /\ r # current /\ dir[q].tbl = dir[r].tbl
                BY <2>2, <3>3
            <4>2. dir'[q] = dir[q]
                BY <2>2, <4>1
            <4> QED
                BY <3>1, <4>1, <4>2 DEF SharedTables
        <3>6. SharedFrames'
            <4> SUFFICES ASSUME NEW q \in procs, NEW r \in procs, NEW u \in Page, NEW v \in Page,
                                Entry(q, u)'.frame = Entry(r, v)'.frame
                         PROVE  u = v /\ (Entry(q, u)'.w => dir'[r].tbl = dir'[q].tbl)
                BY <1>1 DEF SharedFrames
            <4>1. Entry(q, u).frame = Entry(r, v).frame
                BY <3>2
            <4>2. u = v /\ (Entry(q, u).w => dir[r].tbl = dir[q].tbl)
                BY <3>1, <4>1 DEF SharedFrames
            <4>3. ASSUME Entry(q, u)'.w
                  PROVE  dir'[r].tbl = dir'[q].tbl
                <5>1. q # current /\ dir[q].tbl # t0 /\ dir[r].tbl = dir[q].tbl
                    BY <3>2, <4>2, <4>3
                <5>2. r # current
                    BY <5>1 DEF t0
                <5> QED
                    BY <3>3, <5>1, <5>2
            <4> QED
                BY <4>2, <4>3
        \* nothing cached was writable, and nothing in the copy is
        <3>7. CacheIsExact'
            <4> SUFFICES ASSUME NEW v \in Page, tlb'[v] # None
                         PROVE  tlb'[v] = Walk(current, v)'
                BY <1>1 DEF CacheIsExact
            <4>1. tlb'[v] = Walk(current, v)
                BY <1>1, <1>2, <3>1, TypedFacts DEF CacheIsExact, IInv
            <4>2. Entry(current, v)'.frame = Entry(current, v).frame /\ ~ Entry(current, v)'.w
                BY <1>1, <3>2
            <4>3. (dir'[current].w /\ Entry(current, v)'.w) = FALSE
                BY <4>2
            <4>4. (dir[current].w /\ Entry(current, v).w) = FALSE
                BY <2>1
            <4>5. Walk(current, v)' = [frame |-> Entry(current, v).frame, w |-> FALSE]
                BY <1>1, <4>2, <4>3 DEF Walk
            <4>6. Walk(current, v) = [frame |-> Entry(current, v).frame, w |-> FALSE]
                BY <4>4 DEF Walk
            <4> QED
                BY <4>1, <4>5, <4>6
        <3> QED
            BY <1>1, <2>2, <3>4, <3>5, <3>6, <3>7 DEF Disciplined, FaultOwnsTable
    <2> QED
        BY <2>2, <2>8, <2>9 DEF IInv
<1> QED
    BY <1>3, <1>4


(* A process that has the page to itself afterwards, or does not.             *)
LEMMA CopyPageIInv ==
    ASSUME IInv, broken # "uninit", current \in procs, stage \in Page,
           ~ Entry(current, stage).w, Entry(current, stage).cow,
           CopyPage, stage' = None
    PROVE  IInv'
<1> DEFINE t0 == dir[current].tbl
<1>1. /\ UNCHANGED <<procs, current, dir>> /\ broken' \in {"oom", broken}
      /\ pt' \in Seq([Page -> TableEntry]) /\ Len(pt') = Len(pt) /\ DOMAIN pt' = DOMAIN pt
      /\ \A t \in DOMAIN pt, v \in Page : v # stage => pt'[t][v] = pt[t][v]
      /\ \A t \in DOMAIN pt \ {t0} :
            /\ pt'[t][stage] = pt[t][stage] \/ pt'[t][stage] = Unmarked(pt[t][stage])
            /\ pt'[t][stage] # pt[t][stage] =>
                  \E q \in procs \ {current} :
                     /\ dir[q].tbl = t
                     /\ \A r \in procs \ {current} :
                           Entry(r, stage).frame = Entry(current, stage).frame <=> r = q
      /\ tlb' = Without(stage)
    BY CopyPageFacts DEF IInv
<1>2. PICK n, g \in Frame : Copied(t0, n, g)
    <2> HIDE DEF t0
    <2>1. Typed /\ t0 = dir[current].tbl
        BY DEF IInv, t0
    <2> QED
        BY <2>1, CopyPageFacts
<1>3. /\ mem' \in [0 .. n -> Value] /\ DOMAIN mem' = DOMAIN mem \cup {g}
      /\ broken' = "none" => g \notin DOMAIN mem
      /\ pt'[t0][stage] = [frame |-> g, w |-> TRUE, cow |-> FALSE]
    BY <1>2 DEF Copied
<1>4. /\ tlb' \in [Page -> Translation \cup {None}]
      /\ \A v \in Page : tlb'[v] # None => v # stage /\ tlb'[v] = tlb[v]
    BY <1>1, CacheFacts DEF IInv
<1>5. /\ t0 \in DOMAIN pt /\ \A q \in procs : dir[q] \in DirEntry /\ dir[q].tbl \in DOMAIN pt
      /\ \A t \in DOMAIN pt, v \in Page : pt[t][v] \in TableEntry /\ pt[t][v].frame \in DOMAIN mem
    BY TypedFacts DEF IInv
<1> HIDE DEF t0
<1>6. ASSUME NEW t \in DOMAIN pt, NEW v \in Page, <<t, v>> # <<t0, stage>>
      PROVE  /\ pt'[t][v] = pt[t][v] \/ (v = stage /\ t # t0 /\ pt'[t][v] = Unmarked(pt[t][v]))
             /\ pt'[t][v].frame = pt[t][v].frame
    <2>1. Unmarked(pt[t][v]).frame = pt[t][v].frame
        BY <1>5, TableEntryFacts
    <2> QED
        BY <1>1, <1>6, <2>1
<1>7. pt'[t0][stage].frame = g /\ pt'[t0][stage].w /\ ~ pt'[t0][stage].cow
    BY <1>3
<1>8. TypeOK'
    <2>1. broken' \in {"none", "uninit", "oom"} /\ stage' \in Page \cup {Hole, None}
        BY <1>1 DEF IInv, Typed, TypeOK
    <2> QED
        BY <1>1, <1>3, <1>4, <2>1 DEF IInv, Typed, TypeOK
<1>9. Typed'
    <2>1. \A t \in DOMAIN pt', v \in Page : pt'[t][v].frame \in DOMAIN mem'
        BY <1>1, <1>3, <1>5, <1>6, <1>7
    <2>2. \A v \in Page : tlb'[v] # None => tlb'[v].frame \in DOMAIN mem'
        BY <1>3, <1>4 DEF IInv, Typed
    <2>3. \A q \in procs' : dir'[q].tbl \in DOMAIN pt'
        BY <1>1, <1>5
    <2> QED
        BY <1>8, <2>1, <2>2, <2>3 DEF Typed
<1>10. ASSUME broken' = "none"
      PROVE  Disciplined'
    <2>1. /\ MarkedOrWritable /\ SharedTables /\ SharedFrames /\ CacheIsExact /\ dir[current].w
          /\ g \notin DOMAIN mem
        <3>1. broken = "none" /\ stage # None
            BY <1>1, <1>10, PageAssumption
        <3> QED
            BY <1>3, <1>10, <3>1 DEF IInv, Disciplined, FaultOwnsTable
    \* nobody else uses the table of the running process
    <2>2. \A q \in procs : dir[q].tbl = t0 => q = current
        BY <2>1 DEF SharedTables, t0
    <2>3. MarkedOrWritable'
        <3>1. ASSUME NEW t \in DOMAIN pt, NEW v \in Page
              PROVE  pt'[t][v].cow <=> ~ pt'[t][v].w
            <4>1. CASE <<t, v>> = <<t0, stage>>
                BY <1>7, <4>1
            <4>2. CASE <<t, v>> # <<t0, stage>>
                <5>1. pt[t][v].cow <=> ~ pt[t][v].w
                    BY <2>1 DEF MarkedOrWritable
                <5>2. pt[t][v].cow => Unmarked(pt[t][v]).w /\ ~ Unmarked(pt[t][v]).cow
                    BY <1>5, TableEntryFacts
                <5>3. ~ pt[t][v].cow => Unmarked(pt[t][v]) = pt[t][v]
                    BY <1>5, TableEntryFacts
                <5> QED
                    BY <1>6, <4>2, <5>1, <5>2, <5>3
            <4> QED
                BY <4>1, <4>2
        <3> QED
            BY <1>1, <2>1, <3>1 DEF MarkedOrWritable
    <2>4. SharedTables'
        BY <1>1, <2>1 DEF SharedTables
    \* where frames have changed
    <2>5. ASSUME NEW q \in procs, NEW v \in Page
          PROVE  IF q = current /\ v = stage
                 THEN Entry(q, v)'.frame = g
                 ELSE Entry(q, v)'.frame = Entry(q, v).frame /\ Entry(q, v).frame # g
        <3>1. CASE q = current /\ v = stage
            BY <1>1, <1>7, <3>1 DEF Entry, t0
        <3>2. CASE ~ (q = current /\ v = stage)
            <4>1. <<dir[q].tbl, v>> # <<t0, stage>>
                BY <2>2, <3>2
            <4>2. pt'[dir[q].tbl][v].frame = pt[dir[q].tbl][v].frame
                BY <1>5, <1>6, <4>1
            <4>3. pt[dir[q].tbl][v].frame # g
                BY <1>5, <2>1
            <4> QED
                BY <1>1, <3>2, <4>2, <4>3 DEF Entry
        <3> QED
            BY <3>1, <3>2
    \* where an entry is writable that was not, its frame is not shared any more
    <2>6. ASSUME NEW q \in procs, NEW v \in Page, Entry(q, v)'.w
          PROVE  \/ Entry(q, v).w
                 \/ q = current /\ v = stage
                 \/ /\ v = stage /\ dir[q].tbl # t0
                    /\ \A r \in procs \ {current} :
                          Entry(r, v).frame = Entry(q, v).frame => dir[r].tbl = dir[q].tbl
        <3>1. CASE q = current
            <4>1. CASE v # stage
                BY <1>1, <1>5, <2>6, <4>1 DEF Entry
            <4> QED
                BY <3>1, <4>1
        <3>2. CASE q # current /\ pt'[dir[q].tbl][v] = pt[dir[q].tbl][v]
            BY <1>1, <2>6, <3>2 DEF Entry
        <3>3. CASE q # current /\ pt'[dir[q].tbl][v] # pt[dir[q].tbl][v]
            <4>1. dir[q].tbl # t0 /\ v = stage
                BY <1>5, <1>6, <2>2, <3>3
            <4>2. PICK s \in procs \ {current} :
                      /\ dir[s].tbl = dir[q].tbl
                      /\ \A r \in procs \ {current} :
                            Entry(r, stage).frame = Entry(current, stage).frame <=> r = s
                BY <1>1, <1>5, <3>3, <4>1
            <4>3. Entry(q, stage).frame = Entry(s, stage).frame
                BY <4>2 DEF Entry
            <4>4. Entry(s, stage).frame = Entry(current, stage).frame
                BY <4>2
            <4>5. s = q
                BY <3>3, <4>2, <4>3, <4>4
            <4> QED
                BY <4>1, <4>2, <4>4, <4>5
        <3> QED
            BY <3>1, <3>2, <3>3
    <2>7. SharedFrames'
        <3> SUFFICES ASSUME NEW q \in procs, NEW r \in procs, NEW u \in Page, NEW v \in Page,
                            Entry(q, u)'.frame = Entry(r, v)'.frame
                     PROVE  u = v /\ (Entry(q, u)'.w => dir[r].tbl = dir[q].tbl)
            BY <1>1 DEF SharedFrames
        <3>1. CASE q = current /\ u = stage
            <4>1. r = current /\ v = stage
                BY <2>5, <3>1
            <4> QED
                BY <3>1, <4>1
        <3>2. CASE ~ (q = current /\ u = stage)
            <4>1. ~ (r = current /\ v = stage) /\ Entry(q, u).frame = Entry(r, v).frame
                BY <2>5, <3>2
            <4>2. u = v /\ (Entry(q, u).w => dir[r].tbl = dir[q].tbl)
                BY <2>1, <4>1 DEF SharedFrames
            <4>3. ASSUME Entry(q, u)'.w
                  PROVE  dir[r].tbl = dir[q].tbl
                BY <2>6, <3>2, <4>1, <4>2, <4>3
            <4> QED
                BY <4>2, <4>3
        <3> QED
            BY <3>1, <3>2
    <2>8. CacheIsExact'
        <3> SUFFICES ASSUME NEW v \in Page, tlb'[v] # None, current # NoProc
                     PROVE  tlb'[v] = Walk(current, v)'
            BY <1>1 DEF CacheIsExact
        <3>1. v # stage /\ tlb'[v] = Walk(current, v)
            BY <1>4, <2>1 DEF CacheIsExact
        <3>2. Entry(current, v)' = Entry(current, v)
            BY <1>1, <1>5, <3>1 DEF Entry
        <3> QED
            BY <1>1, <3>1, <3>2 DEF Walk
    <2> QED
        BY <2>3, <2>4, <2>7, <2>8 DEF Disciplined, FaultOwnsTable
<1> QED
    BY <1>9, <1>10 DEF IInv

(* Second stage: the page is copied, or the process suspended.                *)
LEMMA PageStageIInv == IInv /\ broken # "uninit" /\ PageStage => IInv'
<1> SUFFICES ASSUME IInv, broken # "uninit", PageStage PROVE IInv'
    OBVIOUS
<1>1. stage # None /\ stage' = None /\ current \in procs
    BY TypedFacts DEF PageStage, IInv, Typed
<1>2. CASE stage \in Page /\ ~ Entry(current, stage).w /\ Entry(current, stage).cow /\ CopyPage
    BY <1>1, <1>2, CopyPageIInv
<1>3. CASE Refuse
    <2>1. PICK q \in (procs \ {current}) \cup {NoProc} : Resume(q)
        BY <1>3 DEF Refuse
    <2>2. UNCHANGED <<procs, dir, pt, mem, broken>>
        BY <1>3 DEF Refuse
    <2>3. procs \subseteq Proc /\ dir \in [procs -> DirEntry]
        BY DEF IInv, Typed, TypeOK
    <2>4. broken = "none" => (\A r \in procs : dir[r].cow <=> ~ dir[r].w) /\ SharedTables'
        BY <2>2 DEF IInv, Disciplined, MarkedOrWritable, SharedTables
    <2> QED
        BY <1>1, <2>1, <2>2, <2>3, <2>4, ResumeIInv
<1> QED
    BY <1>2, <1>3 DEF PageStage

(* Nothing changes.                                                           *)
LEMMA StutterIInv == IInv /\ UNCHANGED vars => IInv'
    BY DEF vars, IInv, Typed, TypeOK, Disciplined, MarkedOrWritable, SharedTables, SharedFrames,
       CacheIsExact, FaultOwnsTable, Walk, Entry

(* The inductive invariant of directories, tables, frames and translations. *)
THEOREM Invariance == Spec => []IInv
<1>1. IInv /\ [Next]_vars => IInv'
    <2> SUFFICES ASSUME IInv, [Next]_vars PROVE IInv'
        OBVIOUS
    <2>1. ASSUME broken # "uninit", Access PROVE IInv'
        <3>1. PICK v \in Page : Cache(v) \/ Evict(v) \/ \E x \in Value : Write(v, x)
            BY <2>1 DEF Access
        <3>2. \E x \in Value : TRUE
            <4>1. PICK n \in Frame : mem \in [0 .. n -> Value]
                BY DEF IInv, Typed, TypeOK
            <4>2. 0 \in 0 .. n
                BY SizeAssumption DEF Frame
            <4> QED
                BY <4>1, <4>2
        <3> QED
            BY <3>1, <3>2, AccessIInv
    <2>2. ASSUME broken # "uninit", Fault PROVE IInv'
        BY <2>2, TableStageIInv, PageStageIInv DEF Fault
    <2>3. ASSUME Switching PROVE IInv'
        BY <2>3, SwitchIInv, ExitIInv, ForkIInv DEF Switching
    <2> QED
        BY <2>1, <2>2, <2>3, StutterIInv DEF Next
<1> QED
    BY InitIInv, <1>1, PTL DEF Spec

(* Every variable keeps its type. *)
THEOREM TypeCorrect == Spec => []TypeOK
<1>1. IInv => TypeOK
    BY DEF IInv, Typed
<1> QED
    BY <1>1, Invariance, PTL

(* Frames that can be written to are private, until memory runs out or a       *)
(* table is copied from nowhere.                                              *)
THEOREM PrivacyCorrect == Spec => []WritableIsPrivate
    BY Invariance, PrivateFromIInv, PTL

(* invlpg and CR3 come where they must. *)
THEOREM CacheCorrect == Spec => []CacheIsCoherent
    BY Invariance, CoherentFromIInv, PTL

(* No process is suspended for a write to its own memory. *)
THEOREM WritesCorrect == Spec => []WritesAreResolved
    BY Invariance, ResolvedFromIInv, PTL


-----------------------------------------------------------------------------
(* Every process has a memory of its own. *)

Views == [q \in procs |-> View(q)]

(* What is read from memory is decided by frames and what they hold.           *)
LEMMA SameViews ==
    ASSUME UNCHANGED procs,
           \A q \in procs, v \in Page : mem'[Entry(q, v)'.frame] = mem[Entry(q, v).frame]
    PROVE  UNCHANGED Views
    BY DEF Views, View

(* Both processes start with what the frames hold.                            *)
LEMMA InitRefines == Init => Memory!Init
<1> SUFFICES ASSUME Init PROVE Memory!Init
    OBVIOUS
<1>1. Typed
    BY InitIInv DEF IInv
<1>2. procs \in SUBSET Proc /\ current \in procs /\ broken = "none"
    BY DEF Init
<1>3. \A a \in DOMAIN mem : mem[a] \in Value
    BY <1>1 DEF Typed, TypeOK
<1>4. [q \in procs |-> View(q)] \in [procs -> [Page -> Value]]
    BY <1>1, <1>3, TypedFacts DEF View
<1> QED
    BY <1>2, <1>4 DEF Memory!Init

(* A write reaches the frame of one page of one process.                      *)
LEMMA WriteRefines ==
    ASSUME IInv, broken = "none", current \in procs, NEW v \in Page, NEW x \in Value, Write(v, x)
    PROVE  Memory!Write(v, x)
<1> DEFINE f == Entry(current, v).frame
<1>1. Used(v).w /\ mem' = [mem EXCEPT ![Used(v).frame] = x]
      /\ UNCHANGED <<procs, current, dir, pt>>
    BY DEF Write
<1>2. Used(v) = Walk(current, v)
    BY UsedIsWalk, TypedFacts DEF IInv
<1>3. Walk(current, v).w /\ Used(v).frame = f /\ f \in DOMAIN mem
    BY <1>1, <1>2, WalkFacts DEF IInv
<1>4. mem' = [mem EXCEPT ![f] = x]
    BY <1>1, <1>3
<1>5. ASSUME NEW r \in procs, NEW u \in Page
      PROVE  /\ Entry(r, u)' = Entry(r, u)
             /\ Entry(r, u).frame \in DOMAIN mem
             /\ <<current, v>> # <<r, u>> => Entry(r, u).frame # f
    <2>1. Entry(r, u).frame \in DOMAIN mem
        BY TypedFacts DEF IInv
    <2>2. <<current, v>> # <<r, u>> => Entry(r, u).frame # f
        BY <1>3, PrivateFromIInv DEF WritableIsPrivate
    <2> QED
        BY <1>1, <2>1, <2>2 DEF Entry
<1>6. ASSUME NEW r \in procs
      PROVE  View(r)' = IF r = current THEN [View(r) EXCEPT ![v] = x] ELSE View(r)
    <2>1. View(r)' = [u \in Page |-> mem'[Entry(r, u).frame]]
        BY <1>5 DEF View
    <2>2. ASSUME NEW u \in Page
          PROVE  mem'[Entry(r, u).frame] =
                     IF r = current /\ u = v THEN x ELSE mem[Entry(r, u).frame]
        <3>1. CASE r = current /\ u = v
            BY <1>3, <1>4, <3>1
        <3>2. CASE ~ (r = current /\ u = v)
            BY <1>4, <1>5, <3>2
        <3> QED
            BY <3>1, <3>2
    <2> QED
        BY <2>1, <2>2 DEF View
<1>7. Views' = [Views EXCEPT ![current][v] = x]
    BY <1>1, <1>6 DEF Views
<1> QED
    BY <1>1, <1>7 DEF Memory!Write, Views

(* The copy of a table leads to the same frames.                              *)
LEMMA TableStageRefines ==
    ASSUME IInv, NEW x \in Page \cup {Hole}, TableStage(x), broken' = "none"
    PROVE  UNCHANGED <<procs, current, Views, broken>>
<1>1. current \in procs /\ UNCHANGED <<procs, current, mem>>
    BY TypedFacts DEF TableStage, Running, IInv
<1>2. CASE UNCHANGED <<dir, pt, broken>>
    BY <1>1, <1>2, SameViews DEF Entry
<1>3. CASE CopyTable
    <2> DEFINE t0 == dir[current].tbl
               n  == Len(pt) + 1
    <2>1. /\ UNCHANGED broken /\ n \notin DOMAIN pt /\ t0 \in DOMAIN pt
          /\ \A t \in DOMAIN pt \ {t0} : pt'[t] = pt[t]
          /\ \A t \in {t0, n}, v \in Page : pt'[t][v] = Marked(pt[t0][v])
          /\ dir'[current].tbl = n
          /\ \A q \in procs \ {current} : dir'[q].tbl = dir[q].tbl
        <3>1. Typed /\ t0 = dir[current].tbl /\ n = Len(pt) + 1
            BY DEF IInv
        <3> HIDE DEF t0, n
        <3>2. TableCopied(t0, n)
            BY <1>1, <1>3, <3>1, CopyTableFacts
        <3> QED
            BY <3>2 DEF TableCopied
    <2> HIDE DEF t0, n
    <2>2. \A v \in Page : Marked(pt[t0][v]).frame = pt[t0][v].frame
        BY <2>1, TypedFacts, TableEntryFacts DEF IInv
    <2>3. ASSUME NEW q \in procs, NEW v \in Page
          PROVE  Entry(q, v)'.frame = Entry(q, v).frame
        <3>1. CASE q = current
            BY <2>1, <2>2, <3>1 DEF Entry, t0
        <3>2. CASE q # current
            <4>1. dir'[q].tbl = dir[q].tbl /\ dir[q].tbl \in DOMAIN pt
                BY <2>1, <3>2, TypedFacts DEF IInv
            <4> QED
                BY <2>1, <2>2, <4>1 DEF Entry
        <3> QED
            BY <3>1, <3>2
    <2> QED
        BY <1>1, <2>1, <2>3, SameViews
<1> QED
    BY <1>2, <1>3 DEF TableStage

(* The new frame holds what the old one does, which nobody loses.             *)
LEMMA CopyPageRefines ==
    ASSUME IInv, current \in procs, stage \in Page, CopyPage, broken' = "none"
    PROVE  UNCHANGED <<procs, current, Views, broken>>
<1> DEFINE t0 == dir[current].tbl
<1>1. Typed /\ t0 = dir[current].tbl
    BY DEF IInv
<1> HIDE DEF t0
<1>2. PICK n, g \in Frame : Copied(t0, n, g)
    BY <1>1, CopyPageFacts
<1>3. /\ UNCHANGED <<procs, current, dir>> /\ broken' \in {"oom", broken}
      /\ DOMAIN pt' = DOMAIN pt
      /\ \A t \in DOMAIN pt, v \in Page : v # stage => pt'[t][v] = pt[t][v]
      /\ \A t \in DOMAIN pt \ {t0} :
             pt'[t][stage] = pt[t][stage] \/ pt'[t][stage] = Unmarked(pt[t][stage])
    BY <1>1, CopyPageFacts
<1>4. /\ mem'[g] = mem[Used(stage).frame]
      /\ \A j \in DOMAIN mem : j # g => mem'[j] = mem[j]
      /\ g \notin DOMAIN mem
      /\ pt'[t0][stage] = [frame |-> g, w |-> TRUE, cow |-> FALSE]
    BY <1>2 DEF Copied
<1>5. pt'[t0][stage].frame = g
    BY <1>4
<1>6. broken = "none" /\ stage # None
    BY <1>3, PageAssumption
<1>7. Used(stage).frame = Entry(current, stage).frame
    BY <1>1, <1>6, TypedFacts, UsedIsWalk, WalkFacts
<1>8. \A q \in procs : dir[q].tbl = t0 => q = current
    BY <1>1, <1>6 DEF IInv, Disciplined, SharedTables, FaultOwnsTable
<1>9. ASSUME NEW q \in procs, NEW v \in Page
      PROVE  mem'[Entry(q, v)'.frame] = mem[Entry(q, v).frame]
    <2>1. /\ dir[q].tbl \in DOMAIN pt /\ pt[dir[q].tbl][v] \in TableEntry
          /\ Entry(q, v).frame \in DOMAIN mem
        BY <1>1, TypedFacts
    <2>2. Entry(q, v)' = pt'[dir[q].tbl][v]
        BY <1>3 DEF Entry
    <2>3. CASE q = current /\ v = stage
        BY <1>1, <1>4, <1>5, <1>7, <2>2, <2>3
    <2>4. CASE ~ (q = current /\ v = stage)
        <3>1. Entry(q, v)' = Entry(q, v) \/ Entry(q, v)' = Unmarked(Entry(q, v))
            <4>1. CASE v = stage
                BY <1>3, <1>8, <2>1, <2>2, <2>4, <4>1 DEF Entry
            <4>2. CASE v # stage
                BY <1>3, <2>1, <2>2, <4>2 DEF Entry
            <4> QED
                BY <4>1, <4>2
        <3>2. Unmarked(Entry(q, v)).frame = Entry(q, v).frame
            BY <2>1, TableEntryFacts DEF Entry
        <3>3. Entry(q, v)'.frame = Entry(q, v).frame
            BY <3>1, <3>2
        <3> QED
            BY <1>4, <2>1, <3>3
    <2> QED
        BY <2>3, <2>4
<1> QED
    BY <1>3, <1>6, <1>9, SameViews

(* A suspended process keeps its memory.                                      *)
LEMMA RefuseRefines ==
    ASSUME Refuse
    PROVE  Memory!Switch /\ UNCHANGED broken
<1>1. current' \in procs \cup {NoProc} /\ UNCHANGED <<procs, dir, pt, mem, broken>>
    BY DEF Refuse, Resume
<1>2. UNCHANGED Views
    BY <1>1, SameViews DEF Entry
<1> QED
    BY <1>1, <1>2 DEF Memory!Switch, Views

(* So does one the timer interrupts.                                          *)
LEMMA SwitchRefines ==
    ASSUME Switch
    PROVE  Memory!Switch /\ UNCHANGED broken
<1>1. current' \in procs \cup {NoProc} /\ UNCHANGED <<procs, dir, pt, mem, broken>>
    BY DEF Switch, Resume
<1>2. UNCHANGED Views
    BY <1>1, SameViews DEF Entry
<1> QED
    BY <1>1, <1>2 DEF Memory!Switch, Views

(* Parent and child read through the same table.                              *)
LEMMA ForkRefines ==
    ASSUME IInv, NEW c \in Proc, Fork(c)
    PROVE  Memory!Fork(c) /\ UNCHANGED broken
<1>1. /\ current \in procs /\ c \notin procs /\ current' = c
      /\ procs' = procs \cup {c} /\ UNCHANGED <<pt, mem, broken>>
      /\ dir' = [q \in procs' |-> IF q \in {current, c} THEN Shared(dir[current]) ELSE dir[q]]
    BY TypedFacts DEF Fork, Running, Resume, IInv
<1>2. Shared(dir[current]).tbl = dir[current].tbl
    BY <1>1, TypedFacts, DirEntryFacts DEF IInv
<1>3. ASSUME NEW q \in procs'
      PROVE  View(q)' = IF q = c THEN View(current) ELSE View(q)
    <2>1. dir'[q].tbl = IF q = c THEN dir[current].tbl ELSE dir[q].tbl
        BY <1>1, <1>2
    <2> QED
        BY <1>1, <2>1 DEF View, Entry
<1>4. Views' = [q \in procs' |-> IF q = c THEN View(current) ELSE View(q)]
    BY <1>3 DEF Views
<1>5. Views' = [q \in procs' |-> IF q = c THEN Views[current] ELSE Views[q]]
    BY <1>1, <1>4 DEF Views
<1> QED
    BY <1>1, <1>5 DEF Memory!Fork, Views

(* The others keep theirs.                                                    *)
LEMMA ExitRefines ==
    ASSUME IInv, Exit
    PROVE  Memory!Exit /\ UNCHANGED broken
<1>1. /\ current \in procs /\ procs' = procs \ {current} /\ current' \in procs' \cup {NoProc}
      /\ dir' = [q \in procs' |-> dir[q]] /\ UNCHANGED <<pt, mem, broken>>
    BY TypedFacts DEF Exit, Running, Resume, IInv
<1>2. \A q \in procs' : View(q)' = View(q)
    BY <1>1 DEF View, Entry
<1>3. Views' = [q \in procs' |-> Views[q]]
    BY <1>1, <1>2 DEF Views
<1> QED
    BY <1>1, <1>3 DEF Memory!Exit, Views

(* Each step is one of PrivateMemory or changes nothing a process can read.   *)
LEMMA StepRefines == IInv /\ [Next]_vars => [Memory!Next]_Memory!vars
<1> SUFFICES ASSUME IInv, [Next]_vars PROVE [Memory!Next]_Memory!vars
    OBVIOUS
<1> DEFINE Stutter == UNCHANGED <<procs, current, Views, broken>>
           Operates == Memory!Operate /\ UNCHANGED broken
<1>1. Stutter => UNCHANGED Memory!vars
    BY DEF Memory!vars, Views
<1>2. Operates => Memory!Next
    BY DEF Memory!Next
<1>3. broken' # "none" => Memory!Next
    BY DEF Memory!Next, Memory!Withdraw
<1> HIDE DEF Stutter, Operates
<1> SUFFICES ASSUME broken' = "none" PROVE Stutter \/ Operates
    BY <1>1, <1>2, <1>3
<1>4. CASE UNCHANGED vars
    BY <1>4 DEF vars, Stutter, Views, View, Entry
<1>5. CASE Access
    <2>1. PICK v \in Page : Cache(v) \/ Evict(v) \/ \E x \in Value : Write(v, x)
        BY <1>5 DEF Access
    <2>2. CASE Cache(v) \/ Evict(v)
        BY <2>2 DEF Cache, Evict, Stutter, Views, View, Entry
    <2>3. CASE \E x \in Value : Write(v, x)
        <3>1. PICK x \in Value : Write(v, x)
            BY <2>3
        <3>2. UNCHANGED broken /\ broken = "none" /\ current \in procs
            BY <3>1, TypedFacts DEF Write, Running, IInv
        <3> QED
            BY <3>1, <3>2, WriteRefines DEF Operates, Memory!Operate
    <2> QED
        BY <2>1, <2>2, <2>3
<1>6. CASE \E x \in Page \cup {Hole} : TableStage(x)
    BY <1>6, TableStageRefines DEF Stutter
<1>7. CASE PageStage
    <2>1. CASE stage \in Page /\ CopyPage
        <3>1. current \in procs
            BY <2>1, TypedFacts, PageAssumption DEF IInv, Typed
        <3> QED
            BY <2>1, <3>1, CopyPageRefines DEF Stutter
    <2>2. CASE Refuse
        BY <2>2, RefuseRefines DEF Operates, Memory!Operate
    <2> QED
        BY <1>7, <2>1, <2>2 DEF PageStage
<1>8. CASE Switching
    BY <1>8, SwitchRefines, ExitRefines, ForkRefines DEF Switching, Operates, Memory!Operate
<1> QED
    BY <1>4, <1>5, <1>6, <1>7, <1>8 DEF Next, Fault

(* Tables, frames, faults and cached translations give each process a memory   *)
(* of its own: every step of the paging code is one of PrivateMemory, or       *)
(* changes nothing a process can read.                                        *)
THEOREM Refinement == Spec => ImplementsPrivateMemory
    BY InitRefines, StepRefines, Invariance, PTL
    DEF Spec, ImplementsPrivateMemory, Memory!Spec

=============================================================================
