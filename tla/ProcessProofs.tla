---------------------------- MODULE ProcessProofs ----------------------------
(***************************************************************************)
(* Proofs about Process, for every set of process structures, every pid     *)
(* limit and every bound on the number of processes created.                *)
(***************************************************************************)
EXTENDS Process, SequenceTheorems, TLAPS

-----------------------------------------------------------------------------
(* What the three list operations compute. *)

(* Insertion puts e at place i and moves the rest back by one. *)
LEMMA InsertAtFacts ==
    ASSUME NEW S, NEW s \in Seq(S), NEW e \in S, NEW i \in 1 .. Len(s) + 1
    PROVE  /\ InsertAt(s, i, e) \in Seq(S)
           /\ Len(InsertAt(s, i, e)) = Len(s) + 1
           /\ \A j \in 1 .. Len(s) + 1 :
                 InsertAt(s, i, e)[j] = IF j < i THEN s[j]
                                        ELSE IF j = i THEN e ELSE s[j - 1]
<1> DEFINE front == SubSeq(s, 1, i - 1)
           back  == SubSeq(s, i, Len(s))
<1>1. front \in Seq(S) /\ Len(front) = i - 1 /\ \A j \in 1 .. i - 1 : front[j] = s[j]
    OBVIOUS
<1>2. /\ back \in Seq(S) /\ Len(back) = Len(s) - i + 1
      /\ \A j \in 1 .. Len(s) - i + 1 : back[j] = s[i + j - 1]
    OBVIOUS
<1> HIDE DEF front, back
<1>3. /\ front \o <<e>> \in Seq(S)
      /\ Len(front \o <<e>>) = i
      /\ (front \o <<e>>)[i] = e
      /\ \A j \in 1 .. i - 1 : (front \o <<e>>)[j] = s[j]
    BY <1>1
<1>4. InsertAt(s, i, e) = (front \o <<e>>) \o back
    BY DEF InsertAt, front, back
<1> QED
    BY <1>2, <1>3, <1>4

(* Removal drops place i and moves the rest forward by one. *)
LEMMA RemoveAtFacts ==
    ASSUME NEW S, NEW s \in Seq(S), NEW i \in 1 .. Len(s)
    PROVE  /\ RemoveAt(s, i) \in Seq(S)
           /\ Len(RemoveAt(s, i)) = Len(s) - 1
           /\ \A j \in 1 .. Len(s) - 1 :
                 RemoveAt(s, i)[j] = IF j < i THEN s[j] ELSE s[j + 1]
<1> DEFINE front == SubSeq(s, 1, i - 1)
           back  == SubSeq(s, i + 1, Len(s))
<1>1. front \in Seq(S) /\ Len(front) = i - 1 /\ \A j \in 1 .. i - 1 : front[j] = s[j]
    OBVIOUS
<1>2. /\ back \in Seq(S) /\ Len(back) = Len(s) - i
      /\ \A j \in 1 .. Len(s) - i : back[j] = s[i + j]
    OBVIOUS
<1> HIDE DEF front, back
<1>3. RemoveAt(s, i) = front \o back
    BY DEF RemoveAt, front, back
<1>4. /\ front \o back \in Seq(S)
      /\ Len(front \o back) = Len(s) - 1
      /\ \A j \in 1 .. Len(s) - 1 :
            (front \o back)[j] = IF j <= i - 1 THEN front[j] ELSE back[j - (i - 1)]
    <2>1. Len(front) + Len(back) = Len(s) - 1
        BY <1>1, <1>2
    <2>2. /\ front \o back \in Seq(S)
          /\ Len(front \o back) = Len(front) + Len(back)
          /\ \A j \in 1 .. Len(front) + Len(back) :
                (front \o back)[j] = IF j <= Len(front) THEN front[j]
                                     ELSE back[j - Len(front)]
        BY <1>1, <1>2, ConcatProperties
    <2> QED
        BY <1>1, <1>2, <2>1, <2>2
<1>5. ASSUME NEW j \in 1 .. Len(s) - 1
      PROVE  (front \o back)[j] = IF j < i THEN s[j] ELSE s[j + 1]
    <2>0. i \in Int /\ j \in Int /\ Len(s) \in Nat
        OBVIOUS
    <2>1. CASE j < i
        BY <1>1, <1>4, <2>1
    <2>2. CASE ~ (j < i)
        <3>0. j >= i /\ ~ (j <= i - 1)
            BY <2>0, <2>2
        <3>1. (front \o back)[j] = back[j - (i - 1)]
            BY <1>4, <2>2, <3>0
        <3>2. j - (i - 1) \in 1 .. Len(s) - i /\ i + (j - (i - 1)) = j + 1
            BY <3>0
        <3> QED
            BY <1>2, <2>2, <3>1, <3>2
    <2> QED
        BY <2>1, <2>2
<1> QED
    BY <1>3, <1>4, <1>5

(* The walk from place i visits every other place, and no place twice. *)
LEMMA VisitedFromFacts ==
    ASSUME NEW S, NEW s \in Seq(S), NEW i \in 1 .. Len(s)
    PROVE  /\ VisitedFrom(s, i) \in Seq(S)
           /\ Len(VisitedFrom(s, i)) = Len(s) - 1
           /\ \A j \in 1 .. Len(s) - 1 :
                 VisitedFrom(s, i)[j] = IF j <= Len(s) - i THEN s[i + j]
                                     ELSE s[j - (Len(s) - i)]
<1> DEFINE behind == SubSeq(s, i + 1, Len(s))
           before == SubSeq(s, 1, i - 1)
<1>1. /\ before \in Seq(S) /\ Len(before) = i - 1
      /\ \A j \in 1 .. i - 1 : before[j] = s[j]
    OBVIOUS
<1>2. /\ behind \in Seq(S) /\ Len(behind) = Len(s) - i
      /\ \A j \in 1 .. Len(s) - i : behind[j] = s[i + j]
    OBVIOUS
<1> HIDE DEF before, behind
<1>3. VisitedFrom(s, i) = behind \o before
    BY DEF VisitedFrom, behind, before
<1>4. /\ behind \o before \in Seq(S)
      /\ Len(behind \o before) = Len(s) - 1
      /\ \A j \in 1 .. Len(s) - 1 :
            (behind \o before)[j] = IF j <= Len(s) - i THEN behind[j]
                                    ELSE before[j - (Len(s) - i)]
    <2>1. Len(behind) + Len(before) = Len(s) - 1
        BY <1>1, <1>2
    <2>2. /\ behind \o before \in Seq(S)
          /\ Len(behind \o before) = Len(behind) + Len(before)
          /\ \A j \in 1 .. Len(behind) + Len(before) :
                (behind \o before)[j] = IF j <= Len(behind) THEN behind[j]
                                        ELSE before[j - Len(behind)]
        BY <1>1, <1>2, ConcatProperties
    <2> QED
        BY <1>1, <1>2, <2>1, <2>2
<1>5. ASSUME NEW j \in 1 .. Len(s) - 1
      PROVE  (behind \o before)[j] = IF j <= Len(s) - i THEN s[i + j]
                                     ELSE s[j - (Len(s) - i)]
    <2>0. i \in Int /\ j \in Int /\ Len(s) \in Nat
        OBVIOUS
    <2>1. CASE j <= Len(s) - i
        BY <1>2, <1>4, <2>1
    <2>2. CASE ~ (j <= Len(s) - i)
        <3>0. j > Len(s) - i
            BY <2>0, <2>2
        <3>1. (behind \o before)[j] = before[j - (Len(s) - i)]
            BY <1>4, <2>2, <3>0
        <3>2. j - (Len(s) - i) \in 1 .. i - 1
            BY <3>0
        <3> QED
            BY <1>1, <2>2, <3>1, <3>2
    <2> QED
        BY <2>1, <2>2
<1> QED
    BY <1>3, <1>4, <1>5

-----------------------------------------------------------------------------
(* The list. *)

(* The walk of pr_schedule covers exactly the other processes. *)
LEMMA VisitedFacts ==
    ASSUME TypeOK, ListIsAlloc
    PROVE  Visited \in Seq(Proc) /\ ToSet(Visited) = alloc \ {current}
<1>0. order \in Seq(Proc) /\ DOMAIN order = 1 .. Len(order) /\ Len(order) \in Nat
    BY DEF TypeOK
<1>1. CASE current \notin ToSet(order)
    BY <1>0, <1>1 DEF Visited, ListIsAlloc
<1>2. CASE current \in ToSet(order)
    <2> DEFINE i == CHOOSE j \in DOMAIN order : order[j] = current
               n == Len(order)
    <2>1. i \in 1 .. n /\ order[i] = current
        BY <1>0, <1>2 DEF ToSet
    <2> HIDE DEF i
    <2>2. Visited = VisitedFrom(order, i)
        BY <1>2 DEF Visited, i
    <2>3. /\ Visited \in Seq(Proc) /\ DOMAIN Visited = 1 .. n - 1
          /\ \A j \in 1 .. n - 1 :
                Visited[j] = IF j <= n - i THEN order[i + j] ELSE order[j - (n - i)]
        <3>1. /\ VisitedFrom(order, i) \in Seq(Proc)
              /\ Len(VisitedFrom(order, i)) = Len(order) - 1
              /\ \A j \in 1 .. Len(order) - 1 :
                    VisitedFrom(order, i)[j] =
                        IF j <= Len(order) - i THEN order[i + j]
                        ELSE order[j - (Len(order) - i)]
            BY <1>0, <2>1, VisitedFromFacts, Zenon
        <3> QED
            BY <2>2, <3>1
    <2>4. ASSUME NEW p \in ToSet(Visited)
          PROVE  p \in alloc \ {current}
        <3>1. PICK j \in 1 .. n - 1 : p = Visited[j]
            BY <2>3 DEF ToSet
        <3>2. PICK k \in 1 .. n : k # i /\ p = order[k]
            <4>1. CASE j <= n - i
                <5>1. i + j \in 1 .. n /\ i + j # i
                    BY <1>0, <2>1, <4>1
                <5> QED
                    BY <2>3, <3>1, <4>1, <5>1
            <4>2. CASE ~ (j <= n - i)
                <5>1. j - (n - i) \in 1 .. n /\ j - (n - i) # i
                    BY <1>0, <2>1, <4>2
                <5> QED
                    BY <2>3, <3>1, <4>2, <5>1
            <4> QED
                BY <4>1, <4>2
        <3> QED
            BY <1>0, <2>1, <3>2 DEF ListIsAlloc, ToSet
    <2>5. ASSUME NEW p \in alloc \ {current}
          PROVE  p \in ToSet(Visited)
        <3>1. PICK k \in 1 .. n : p = order[k]
            BY <1>0, <2>5 DEF ListIsAlloc, ToSet
        <3>2. k # i
            BY <2>1, <2>5, <3>1
        <3>3. CASE k > i
            <4>1. k - i \in 1 .. n - 1 /\ k - i <= n - i /\ i + (k - i) = k
                BY <1>0, <2>1, <3>3
            <4>2. Visited[k - i] = p
                BY <2>3, <3>1, <4>1
            <4> QED
                BY <2>3, <4>1, <4>2 DEF ToSet
        <3>4. CASE k < i
            <4> DEFINE j == k + (n - i)
            <4>1. j \in 1 .. n - 1 /\ ~ (j <= n - i) /\ j - (n - i) = k
                BY <1>0, <2>1, <3>4
            <4> HIDE DEF j
            <4>2. Visited[j] = p
                BY <2>3, <3>1, <4>1
            <4> QED
                BY <2>3, <4>1, <4>2 DEF ToSet
        <3> QED
            BY <2>1, <3>2, <3>3, <3>4
    <2> QED
        BY <2>3, <2>4, <2>5
<1> QED
    BY <1>1, <1>2

(* Creating a process keeps the list equal to the set of structures. *)
LEMMA SpawnList ==
    ASSUME TypeOK, ListIsAlloc, NEW p \in Proc, NEW st, Spawn(p, st)
    PROVE  order' \in Seq(Proc) /\ order' # << >> /\ ListIsAlloc'
<1> DEFINE n == Len(order)
<1>0. order \in Seq(Proc) /\ DOMAIN order = 1 .. n /\ n \in Nat
    BY DEF TypeOK
<1>1. PICK i \in 1 .. n + 1 : order' = InsertAt(order, i, p)
    BY DEF Spawn
<1>2. /\ order' \in Seq(Proc)
      /\ Len(order') = n + 1
      /\ \A j \in 1 .. n + 1 :
            order'[j] = IF j < i THEN order[j] ELSE IF j = i THEN p ELSE order[j - 1]
    <2>0. i \in 1 .. Len(order) + 1 /\ order \in Seq(Proc) /\ p \in Proc
        BY <1>0
    <2>1. /\ InsertAt(order, i, p) \in Seq(Proc)
          /\ Len(InsertAt(order, i, p)) = Len(order) + 1
        BY <2>0, InsertAtFacts
    <2>2. \A j \in 1 .. Len(order) + 1 :
            InsertAt(order, i, p)[j] =
                IF j < i THEN order[j] ELSE IF j = i THEN p ELSE order[j - 1]
        BY <2>0, InsertAtFacts
    <2> QED
        BY <1>1, <2>1, <2>2
<1>3. DOMAIN order' = 1 .. n + 1 /\ order' # << >>
    BY <1>0, <1>2
<1>4. \A j \in 1 .. n : order[j] # p
    BY <1>0 DEF Spawn, ListIsAlloc, ToSet
<1> DEFINE old(j) == IF j < i THEN j ELSE j - 1
<1>5. \A j \in 1 .. n + 1 : j # i => old(j) \in 1 .. n /\ order'[j] = order[old(j)]
    BY <1>0, <1>2
<1>6. \A j \in 1 .. n + 1 : order'[j] = p <=> j = i
    <2>1. order'[i] = p
        BY <1>0, <1>2
    <2> QED
        BY <1>4, <1>5, <2>1
<1>7. ASSUME NEW j \in 1 .. n + 1, NEW k \in 1 .. n + 1, order'[j] = order'[k]
      PROVE  j = k
    <2>1. CASE j = i \/ k = i
        BY <1>6, <1>7, <2>1
    <2>2. CASE j # i /\ k # i
        <3>1. old(j) = old(k)
            BY <1>0, <1>5, <1>7, <2>2 DEF ListIsAlloc
        <3> QED
            BY <1>0, <2>2, <3>1
    <2> QED
        BY <2>1, <2>2
<1>8. \A j \in 1 .. n + 1 : order'[j] \in alloc \cup {p}
    BY <1>0, <1>5, <1>6 DEF ListIsAlloc, ToSet
<1>9. ASSUME NEW q \in alloc \cup {p}
      PROVE  \E j \in 1 .. n + 1 : order'[j] = q
    <2>1. CASE q = p
        BY <1>6, <2>1
    <2>2. CASE q # p
        <3>1. PICK k \in 1 .. n : order[k] = q
            BY <1>0, <1>9, <2>2 DEF ListIsAlloc, ToSet
        <3>2. CASE k < i
            BY <1>0, <1>2, <3>1, <3>2
        <3>3. CASE ~ (k < i)
            <4>1. k + 1 \in 1 .. n + 1 /\ ~ (k + 1 < i) /\ k + 1 # i /\ (k + 1) - 1 = k
                BY <1>0, <3>3
            <4> QED
                BY <1>2, <3>1, <4>1
        <3> QED
            BY <3>2, <3>3
    <2> QED
        BY <2>1, <2>2
<1>10. alloc' = alloc \cup {p}
    BY DEF Spawn
<1> HIDE DEF n, old
<1>11. \A j, k \in DOMAIN order' : order'[j] = order'[k] => j = k
    BY <1>3, <1>7
<1>12. ToSet(order') = alloc \cup {p}
    <2>1. ToSet(order') \subseteq alloc \cup {p}
        BY <1>3, <1>8 DEF ToSet
    <2>2. alloc \cup {p} \subseteq ToSet(order')
        BY <1>3, <1>9 DEF ToSet
    <2> QED
        BY <2>1, <2>2
<1> QED
    BY <1>2, <1>3, <1>10, <1>11, <1>12 DEF ListIsAlloc

(* Terminating the i-th process takes it, and nothing else, off the list. *)
LEMMA RemoveList ==
    ASSUME TypeOK, ListIsAlloc, NEW i \in DOMAIN order,
           order' = Extracted(order, i), alloc' = alloc \ {order[i]}
    PROVE  order' \in Seq(Proc) /\ ListIsAlloc'
<1> DEFINE n == Len(order)
<1>0. order \in Seq(Proc) /\ DOMAIN order = 1 .. n /\ n \in Nat /\ i \in 1 .. n
    BY DEF TypeOK
<1>1. /\ order' \in Seq(Proc)
      /\ Len(order') = n - 1
      /\ \A j \in 1 .. n - 1 : order'[j] = IF j < i THEN order[j] ELSE order[j + 1]
    BY <1>0, RemoveAtFacts DEF Extracted
<1>2. DOMAIN order' = 1 .. n - 1
    BY <1>0, <1>1
<1> DEFINE old(j) == IF j < i THEN j ELSE j + 1
<1>3. \A j \in 1 .. n - 1 : /\ old(j) \in 1 .. n /\ old(j) # i
                            /\ order'[j] = order[old(j)]
    BY <1>0, <1>1
<1>4. ASSUME NEW j \in 1 .. n - 1, NEW k \in 1 .. n - 1, order'[j] = order'[k]
      PROVE  j = k
    <2>1. old(j) = old(k)
        BY <1>0, <1>3, <1>4 DEF ListIsAlloc
    <2> QED
        BY <1>0, <2>1
<1>5. \A j \in 1 .. n - 1 : order'[j] \in alloc \ {order[i]}
    BY <1>0, <1>3 DEF ListIsAlloc, ToSet
<1>6. ASSUME NEW q \in alloc \ {order[i]}
      PROVE  \E j \in 1 .. n - 1 : order'[j] = q
    <2>1. PICK k \in 1 .. n : order[k] = q /\ k # i
        BY <1>0, <1>6 DEF ListIsAlloc, ToSet
    <2>2. CASE k < i
        BY <1>0, <1>1, <2>1, <2>2
    <2>3. CASE k > i
        <3>1. k - 1 \in 1 .. n - 1 /\ ~ (k - 1 < i) /\ (k - 1) + 1 = k
            BY <1>0, <2>3
        <3> QED
            BY <1>1, <2>1, <3>1
    <2> QED
        BY <1>0, <2>1, <2>2, <2>3
<1>7. ToSet(order') = alloc'
    BY <1>2, <1>5, <1>6 DEF ToSet
<1> QED
    BY <1>1, <1>2, <1>4, <1>7 DEF ListIsAlloc

-----------------------------------------------------------------------------
(* Scheduling and pids. *)

(* pr_schedule over seq resumes a running process of seq, or stops when there *)
(* is none.                                                                   *)
LEMMA ScheduleFacts ==
    ASSUME NEW seq \in Seq(Proc), NEW st \in [Proc -> {"paused", "running"}],
           Schedule(seq, st)
    PROVE  \/ /\ cpu' = "user"
              /\ current' \in ToSet(seq)
              /\ st[current'] = "running"
           \/ /\ cpu' \in {"halted", "spinning"}
              /\ current' = current
              /\ \A p \in ToSet(seq) : st[p] # "running"
    BY DEF Schedule, Resume, ToSet

(* A new process gets the counter's value, larger than every pid in use. *)
LEMMA SpawnPids ==
    ASSUME IInv, NEW p \in Proc, NEW st, Spawn(p, st)
    PROVE  /\ pid' \in [Proc -> Pid]
           /\ issued' \in 0 .. MaxIssued
           /\ UniquePids'
           /\ issued' <= PidLimit => \A q \in alloc' : pid'[q] < issued'
<1>1. /\ issued \in Nat /\ issued' = issued + 1 /\ issued < MaxIssued
      /\ alloc' = alloc \cup {p} /\ alloc \subseteq Proc
      /\ pid \in [Proc -> Pid]
      /\ pid' = [pid EXCEPT ![p] = issued % PidLimit]
      /\ MaxIssued \in Nat /\ PidLimit \in Nat \ {0}
    BY PidAssumption DEF IInv, TypeOK, Spawn, NewPid
<1>2. issued % PidLimit \in Pid
    BY <1>1 DEF Pid
<1>3. ASSUME issued' <= PidLimit
      PROVE  issued % PidLimit = issued /\ issued <= PidLimit
    BY <1>1, <1>3
<1>4. ASSUME issued' <= PidLimit
      PROVE  /\ \A q \in alloc : q # p => pid'[q] = pid[q] /\ pid[q] \in Nat /\ pid[q] < issued
             /\ pid'[p] = issued
    BY <1>1, <1>3, <1>4 DEF IInv, Pid
<1> QED
    BY <1>1, <1>2, <1>3, <1>4 DEF IInv, UniquePids

-----------------------------------------------------------------------------
(* The inductive invariant. *)

LEMMA InitIInv == Init => IInv
<1> SUFFICES ASSUME Init PROVE IInv
    OBVIOUS
<1>1. 0 \in Pid /\ 0 \in 0 .. MaxIssued
    BY PidAssumption DEF Pid
<1>2. TypeOK
    <2>1. order \in Seq(Proc)
        BY EmptySeq DEF Init
    <2>2. state \in [Proc -> {"paused", "running"}] /\ pid \in [Proc -> Pid]
        BY <1>1 DEF Init
    <2> QED
        BY <1>1, <2>1, <2>2 DEF Init, TypeOK, BootSteps
<1>3. DOMAIN order = {} /\ alloc = {}
    BY DEF Init
<1>4. ListIsAlloc
    BY <1>3 DEF ListIsAlloc, ToSet
<1>5. UniquePids /\ CpuHasRunnable /\ NobodyLeftBehind
    BY <1>3 DEF Init, UniquePids, CpuHasRunnable, NobodyLeftBehind
<1> QED
    BY <1>2, <1>3, <1>4, <1>5 DEF IInv, Init

(* The steps of main() that create a process. *)
LEMMA CreateIInv ==
    ASSUME IInv, NEW p \in Proc, Spawn(p, "paused"), cpu = "main",
           UNCHANGED <<current, cpu, hook>>,
           boot' \in BootSteps, app1' \in Proc \cup {NoProc}, app2' \in Proc \cup {NoProc}
    PROVE  IInv'
<1>1. order' \in Seq(Proc) /\ ListIsAlloc'
    BY SpawnList DEF IInv
<1>2. alloc' \subseteq Proc /\ state' \in [Proc -> {"paused", "running"}]
    BY DEF IInv, TypeOK, Spawn
<1> QED
    BY <1>1, <1>2, SpawnPids DEF IInv, TypeOK, CpuHasRunnable, NobodyLeftBehind

LEMMA BootIInv == IInv /\ Boot => IInv'
<1> SUFFICES ASSUME IInv, Boot PROVE IInv'
    OBVIOUS
<1>1. CASE CreateApp1
    BY <1>1, CreateIInv DEF CreateApp1, IInv, TypeOK, BootSteps
<1>2. CASE ForkApp2
    BY <1>2, CreateIInv DEF ForkApp2, IInv, TypeOK, BootSteps
<1>3. CASE InstallHook
    BY <1>3 DEF InstallHook, IInv, TypeOK, BootSteps, ListIsAlloc, UniquePids,
                CpuHasRunnable, NobodyLeftBehind
<1>4. CASE StartApp1
    BY <1>4 DEF StartApp1, IInv, TypeOK, BootSteps, ListIsAlloc, UniquePids,
                CpuHasRunnable, NobodyLeftBehind
<1>5. CASE StartApp2
    BY <1>5 DEF StartApp2, IInv, TypeOK, BootSteps, ListIsAlloc, UniquePids,
                CpuHasRunnable, NobodyLeftBehind
<1> QED
    BY <1>1, <1>2, <1>3, <1>4, <1>5 DEF Boot

LEMMA TickIInv == IInv /\ Tick => IInv'
<1> SUFFICES ASSUME IInv, Tick PROVE IInv'
    OBVIOUS
<1>1. /\ UNCHANGED <<order, alloc, state, pid, issued, hook, boot, app1, app2>>
      /\ Schedule(Visited, state)
    BY DEF Tick
<1>2. Visited \in Seq(Proc) /\ ToSet(Visited) = alloc \ {current}
    BY VisitedFacts DEF IInv
<1>3. \/ /\ cpu' = "user"
         /\ current' \in alloc \ {current}
         /\ state[current'] = "running"
      \/ /\ cpu' \in {"halted", "spinning"}
         /\ current' = current
         /\ \A p \in alloc \ {current} : state[p] # "running"
    BY <1>1, <1>2, ScheduleFacts DEF IInv, TypeOK
<1>4. TypeOK'
    BY <1>1, <1>3 DEF IInv, TypeOK
<1>5. ListIsAlloc' /\ UniquePids' /\ (issued <= PidLimit => \A p \in alloc : pid[p] < issued)'
    BY <1>1 DEF IInv, ListIsAlloc, UniquePids
<1>6. CpuHasRunnable' /\ NobodyLeftBehind' /\ (cpu = "main" => current = NoProc)'
    BY <1>1, <1>3 DEF CpuHasRunnable, NobodyLeftBehind
<1> QED
    BY <1>4, <1>5, <1>6 DEF IInv

LEMMA ExitIInv == IInv /\ Exit => IInv'
<1> SUFFICES ASSUME IInv, Exit PROVE IInv'
    OBVIOUS
<1>1. /\ cpu = "user" /\ current \in alloc
      /\ alloc' = alloc \ {current}
      /\ UNCHANGED <<state, pid, issued, hook, boot, app1, app2>>
      /\ IF order' = << >> THEN UNCHANGED <<current, cpu>> ELSE Schedule(Visited, state)
    BY DEF Exit
<1>2. order' \in Seq(Proc) /\ ListIsAlloc'
    BY RemoveList DEF Exit, IInv
<1>3. Visited \in Seq(Proc) /\ ToSet(Visited) = alloc'
    BY <1>1, VisitedFacts DEF IInv
<1>4. \/ alloc' = {} /\ current' = current /\ cpu' = cpu
      \/ /\ cpu' = "user"
         /\ current' \in alloc'
         /\ state[current'] = "running"
      \/ /\ cpu' \in {"halted", "spinning"}
         /\ current' = current
         /\ \A p \in alloc' : state[p] # "running"
    <2>1. CASE order' = << >>
        BY <1>1, <1>2, <2>1 DEF ListIsAlloc, ToSet
    <2>2. CASE order' # << >>
        BY <1>1, <1>3, <2>2, ScheduleFacts DEF IInv, TypeOK
    <2> QED
        BY <2>1, <2>2
<1>5. TypeOK'
    BY <1>1, <1>2, <1>4 DEF IInv, TypeOK
<1>6. UniquePids' /\ (issued <= PidLimit => \A p \in alloc : pid[p] < issued)'
    BY <1>1 DEF IInv, UniquePids
<1>7. CpuHasRunnable' /\ NobodyLeftBehind' /\ (cpu = "main" => current = NoProc)'
    BY <1>1, <1>4 DEF CpuHasRunnable, NobodyLeftBehind
<1> QED
    BY <1>2, <1>5, <1>6, <1>7 DEF IInv

LEMMA ForkIInv == IInv /\ Fork => IInv'
<1> SUFFICES ASSUME IInv, Fork PROVE IInv'
    OBVIOUS
<1>1. PICK p \in Proc : Spawn(p, "running") /\ Resume(p)
    BY DEF Fork
<1>2. order' \in Seq(Proc) /\ ListIsAlloc'
    BY <1>1, SpawnList DEF IInv
<1>3. /\ UniquePids' /\ (issued <= PidLimit => \A q \in alloc : pid[q] < issued)'
      /\ pid' \in [Proc -> Pid] /\ issued' \in 0 .. MaxIssued
    BY <1>1, SpawnPids
<1>4. /\ alloc' \subseteq Proc /\ p \in alloc'
      /\ state' \in [Proc -> {"paused", "running"}] /\ state'[p] = "running"
    BY <1>1 DEF IInv, TypeOK, Spawn
<1>5. /\ current' = p /\ cpu' = "user"
      /\ UNCHANGED <<hook, boot, app1, app2>>
    BY <1>1 DEF Resume, Fork
<1>6. TypeOK'
    BY <1>2, <1>3, <1>4, <1>5 DEF IInv, TypeOK
<1>7. CpuHasRunnable' /\ NobodyLeftBehind'
    BY <1>4, <1>5 DEF CpuHasRunnable, NobodyLeftBehind
<1> QED
    BY <1>2, <1>3, <1>5, <1>6, <1>7 DEF IInv

LEMMA FaultIInv == IInv /\ Fault => IInv'
<1> SUFFICES ASSUME IInv, Fault PROVE IInv'
    OBVIOUS
<1>1. /\ cpu = "user" /\ current \in alloc
      /\ state' = [state EXCEPT ![current] = "paused"]
      /\ UNCHANGED <<order, alloc, pid, issued, hook, boot, app1, app2>>
      /\ Schedule(Visited, state')
    BY DEF Fault
<1>2. Visited \in Seq(Proc) /\ ToSet(Visited) = alloc \ {current}
    BY VisitedFacts DEF IInv
<1>3. state' \in [Proc -> {"paused", "running"}]
    BY <1>1 DEF IInv, TypeOK
<1>4. \/ /\ cpu' = "user"
         /\ current' \in alloc \ {current}
         /\ state'[current'] = "running"
      \/ /\ cpu' \in {"halted", "spinning"}
         /\ current' = current
         /\ \A p \in alloc \ {current} : state'[p] # "running"
    BY <1>1, <1>2, <1>3, ScheduleFacts
<1>5. TypeOK'
    BY <1>1, <1>3, <1>4 DEF IInv, TypeOK
<1>6. ListIsAlloc' /\ UniquePids' /\ (issued <= PidLimit => \A p \in alloc : pid[p] < issued)'
    BY <1>1 DEF IInv, ListIsAlloc, UniquePids
<1>7. CpuHasRunnable' /\ NobodyLeftBehind' /\ (cpu = "main" => current = NoProc)'
    BY <1>1, <1>4 DEF CpuHasRunnable, NobodyLeftBehind
<1> QED
    BY <1>5, <1>6, <1>7 DEF IInv

LEMMA PanicIInv == IInv /\ Panic => IInv'
    BY DEF Panic, IInv, TypeOK, ListIsAlloc, UniquePids, CpuHasRunnable, NobodyLeftBehind

LEMMA StutterIInv == IInv /\ UNCHANGED vars => IInv'
    BY DEF IInv, vars, TypeOK, ListIsAlloc, UniquePids, CpuHasRunnable, NobodyLeftBehind

(* The invariant holds in every reachable state. *)
THEOREM Invariance == Spec => []IInv
<1>1. IInv /\ [Next]_vars => IInv'
    BY BootIInv, TickIInv, ExitIInv, ForkIInv, FaultIInv, PanicIInv, StutterIInv
    DEF Next, Syscall, InvalidCall, OtherException
<1> QED
    BY InitIInv, <1>1, PTL DEF Spec

(* Every variable keeps its type. *)
THEOREM TypeCorrect == Spec => []TypeOK
    BY Invariance, PTL DEF IInv

(* The process list always holds the allocated structures, each once. *)
THEOREM ListCorrect == Spec => []ListIsAlloc
    BY Invariance, PTL DEF IInv

(* Until the counter wraps no two processes share a pid. *)
THEOREM PidsCorrect == Spec => []UniquePids
    BY Invariance, PTL DEF IInv

(* User code runs on behalf of a running process of the list, if there is one. *)
THEOREM CpuCorrect == Spec => []CpuHasRunnable
    BY Invariance, PTL DEF IInv

(* The CPU stops only when nobody but the current process is running. *)
THEOREM StopCorrect == Spec => []NobodyLeftBehind
    BY Invariance, PTL DEF IInv

-----------------------------------------------------------------------------
(* The refinement. *)

(* The list is empty exactly when there is no process. *)
LEMMA EmptyList ==
    ASSUME TypeOK, ListIsAlloc
    PROVE  order = << >> <=> alloc = {}
<1>1. order \in Seq(Proc)
    BY DEF TypeOK
<1>2. CASE order = << >>
    BY <1>2 DEF ListIsAlloc, ToSet
<1>3. CASE order # << >>
    <2>1. 1 \in DOMAIN order
        BY <1>1, <1>3
    <2> QED
        BY <1>3, <2>1 DEF ListIsAlloc, ToSet
<1> QED
    BY <1>2, <1>3

Ready   == {p \in alloc : state[p] = "running"}
OnCpu   == IF cpu = "user" THEN current ELSE NoProc
Stopped == cpu = "panicked"

(* While there are processes, the one whose code is executed may run.          *)
LEMMA UserStep ==
    ASSUME IInv, cpu = "user", current \in alloc
    PROVE  OnCpu = current /\ current \in Ready /\ current \in Proc
    BY DEF IInv, TypeOK, CpuHasRunnable, OnCpu, Ready

(* An operation of the promise that leaves the machine running is one of its   *)
(* steps.                                                                      *)
LEMMA GoesOn ==
    ASSUME ~ Stopped, ~ Stopped',
           \/ \E p \in Proc : Tasks!Create(p) \/ Tasks!Start(p) \/ Tasks!Spawn(p)
           \/ Tasks!Preempt \/ Tasks!Suspend \/ Tasks!Terminate
    PROVE  Tasks!Next
    BY DEF Tasks!Next, Stopped

(* Each operation is an operation of Multitasking, or changes nothing there. *)

LEMMA BootRefines == IInv /\ Boot => [Tasks!Next]_(Tasks!vars)
<1> SUFFICES ASSUME IInv, Boot PROVE [Tasks!Next]_(Tasks!vars)
    OBVIOUS
<1>1. /\ cpu = "main" /\ UNCHANGED <<current, cpu>> /\ OnCpu = NoProc /\ OnCpu' = NoProc
      /\ ~ Stopped /\ ~ Stopped'
    BY DEF Boot, CreateApp1, ForkApp2, InstallHook, StartApp1, StartApp2, OnCpu, Stopped
<1>2. ASSUME NEW p \in Proc, Spawn(p, "paused")
      PROVE  Tasks!Next
    <2>1. p \notin alloc /\ alloc' = alloc \cup {p} /\ state' = [state EXCEPT ![p] = "paused"]
        BY <1>2 DEF Spawn
    <2>2. alloc \subseteq Proc /\ state \in [Proc -> {"paused", "running"}]
        BY DEF IInv, TypeOK
    <2>3. Ready' = Ready
        BY <2>1, <2>2 DEF Ready
    <2>4. Tasks!Create(p)
        BY <1>1, <2>1, <2>3 DEF Tasks!Create, Ready, OnCpu
    <2> QED
        BY <1>1, <2>4, GoesOn
<1>3. CASE CreateApp1 \/ ForkApp2
    BY <1>2, <1>3 DEF CreateApp1, ForkApp2
<1>4. CASE InstallHook
    BY <1>4 DEF InstallHook, Tasks!vars
<1>5. ASSUME NEW p, p \in Proc \cup {NoProc}, UNCHANGED alloc,
             state' = [state EXCEPT ![p] = "running"]
      PROVE  [Tasks!Next]_(Tasks!vars)
    <2>0. alloc \subseteq Proc /\ state \in [Proc -> {"paused", "running"}]
        BY DEF IInv, TypeOK
    <2>1. CASE p \in alloc
        <3>1. Ready' = Ready \cup {p}
            BY <1>5, <2>0, <2>1 DEF Ready
        <3>2. Tasks!Start(p)
            BY <1>1, <1>5, <2>1, <3>1 DEF Tasks!Start, Ready, OnCpu
        <3> QED
            BY <1>1, <2>0, <2>1, <3>2, GoesOn
    <2>2. CASE p \notin alloc
        <3>1. Ready' = Ready
            BY <1>5, <2>0, <2>2 DEF Ready
        <3> QED
            BY <1>1, <1>5, <3>1 DEF Tasks!vars, Ready, OnCpu
    <2> QED
        BY <2>1, <2>2
<1>6. CASE StartApp1 \/ StartApp2
    BY <1>5, <1>6 DEF StartApp1, StartApp2, IInv, TypeOK
<1> QED
    BY <1>3, <1>4, <1>6 DEF Boot

LEMMA TickRefines == IInv /\ Tick => [Tasks!Next]_(Tasks!vars)
<1> SUFFICES ASSUME IInv, Tick PROVE [Tasks!Next]_(Tasks!vars)
    OBVIOUS
<1>1. /\ UNCHANGED <<alloc, state>> /\ alloc # {} /\ NoProc \notin alloc
      /\ cpu \in {"main", "user"} /\ Schedule(Visited, state)
    BY EmptyList, ProcAssumption DEF Tick, IInv, TypeOK
<1>2. OnCpu = current /\ Ready' = Ready
    BY <1>1 DEF IInv, CpuHasRunnable, OnCpu, Ready
<1>3. \/ cpu' = "user" /\ current' \in Ready \ {current}
      \/ /\ cpu' \in {"halted", "spinning"}
         /\ \A p \in alloc \ {current} : state[p] # "running"
    BY <1>1, ScheduleFacts, VisitedFacts DEF IInv, TypeOK, Ready
<1>4. OnCpu' \in Ready \ {OnCpu} \/ (Ready \subseteq {OnCpu} /\ OnCpu' = NoProc)
    BY <1>1, <1>2, <1>3 DEF OnCpu, Ready
<1>5. Tasks!Preempt
    BY <1>1, <1>2, <1>4 DEF Tasks!Preempt, OnCpu, Ready
<1> QED
    BY <1>1, <1>3, <1>5, GoesOn DEF Stopped

LEMMA ExitRefines == IInv /\ Exit => [Tasks!Next]_(Tasks!vars)
<1> SUFFICES ASSUME IInv, Exit PROVE [Tasks!Next]_(Tasks!vars)
    OBVIOUS
<1>1. /\ cpu = "user" /\ current \in alloc
      /\ alloc' = alloc \ {current} /\ UNCHANGED state
      /\ IF order' = << >> THEN UNCHANGED <<current, cpu>> ELSE Schedule(Visited, state)
    BY DEF Exit
<1>2. OnCpu = current /\ OnCpu \in Ready /\ Ready' = Ready \ {OnCpu}
    BY <1>1, UserStep DEF Ready
<1>3. Visited \in Seq(Proc) /\ ToSet(Visited) = alloc'
    BY <1>1, VisitedFacts DEF IInv
<1>4. order' = << >> <=> alloc' = {}
    <2>1. order' \in Seq(Proc) /\ alloc' = {order'[i] : i \in DOMAIN order'}
        BY ExitIInv DEF IInv, TypeOK, ListIsAlloc, ToSet
    <2>2. CASE order' = << >>
        BY <2>1, <2>2
    <2>3. CASE order' # << >>
        <3>1. 1 \in DOMAIN order'
            BY <2>1, <2>3
        <3> QED
            BY <2>1, <2>3, <3>1
    <2> QED
        BY <2>2, <2>3
<1>5. /\ ~ Stopped /\ ~ Stopped'
      /\ IF alloc' = {} THEN OnCpu' = OnCpu
         ELSE IF Ready' = {} THEN OnCpu' = NoProc ELSE OnCpu' \in Ready'
    <2>1. CASE alloc' = {}
        BY <1>1, <1>4, <2>1 DEF OnCpu, Stopped
    <2>2. CASE alloc' # {}
        <3>1. \/ cpu' = "user" /\ current' \in alloc' /\ state[current'] = "running"
              \/ cpu' \in {"halted", "spinning"} /\ \A p \in alloc' : state[p] # "running"
            BY <1>1, <1>3, <1>4, <2>2, ScheduleFacts DEF IInv, TypeOK
        <3> QED
            BY <1>1, <2>2, <3>1 DEF OnCpu, Ready, Stopped
    <2> QED
        BY <2>1, <2>2
<1>6. Tasks!Terminate
    BY <1>1, <1>2, <1>5 DEF Tasks!Terminate, Tasks!Dispatch, OnCpu, Ready
<1> QED
    BY <1>5, <1>6, GoesOn

LEMMA ForkRefines == IInv /\ Fork => [Tasks!Next]_(Tasks!vars)
<1> SUFFICES ASSUME IInv, Fork PROVE [Tasks!Next]_(Tasks!vars)
    OBVIOUS
<1>1. PICK p \in Proc : Spawn(p, "running") /\ Resume(p)
    BY DEF Fork
<1>2. cpu = "user" /\ current \in alloc /\ cpu' = "user" /\ current' = p
    BY <1>1 DEF Fork, Resume
<1>3. p \notin alloc /\ alloc' = alloc \cup {p} /\ state' = [state EXCEPT ![p] = "running"]
    BY <1>1 DEF Spawn
<1>4. alloc \subseteq Proc /\ state \in [Proc -> {"paused", "running"}]
    BY DEF IInv, TypeOK
<1>5. Ready' = Ready \cup {p} /\ OnCpu' = p /\ OnCpu \in Ready
    BY <1>2, <1>3, <1>4, UserStep DEF Ready, OnCpu
<1>6. Tasks!Spawn(p)
    BY <1>3, <1>5 DEF Tasks!Spawn, Ready, OnCpu
<1> QED
    BY <1>2, <1>6, GoesOn DEF Stopped

LEMMA FaultRefines == IInv /\ Fault => [Tasks!Next]_(Tasks!vars)
<1> SUFFICES ASSUME IInv, Fault PROVE [Tasks!Next]_(Tasks!vars)
    OBVIOUS
<1>1. /\ cpu = "user" /\ current \in alloc
      /\ state' = [state EXCEPT ![current] = "paused"]
      /\ UNCHANGED alloc /\ Schedule(Visited, state')
    BY DEF Fault
<1>2. /\ alloc \subseteq Proc /\ state \in [Proc -> {"paused", "running"}]
      /\ state' \in [Proc -> {"paused", "running"}]
    BY <1>1 DEF IInv, TypeOK
<1>3. OnCpu = current /\ OnCpu \in Ready /\ Ready' = Ready \ {OnCpu}
    BY <1>1, <1>2, UserStep DEF Ready
<1>4. \/ cpu' = "user" /\ current' \in Ready'
      \/ cpu' \in {"halted", "spinning"} /\ \A p \in alloc \ {current} : state'[p] # "running"
    BY <1>1, <1>2, ScheduleFacts, VisitedFacts DEF IInv, Ready
<1>5. IF Ready' = {} THEN OnCpu' = NoProc ELSE OnCpu' \in Ready'
    BY <1>1, <1>3, <1>4 DEF OnCpu, Ready
<1>6. Tasks!Suspend
    BY <1>1, <1>3, <1>5 DEF Tasks!Suspend, Tasks!Dispatch, OnCpu, Ready
<1> QED
    BY <1>1, <1>4, <1>6, GoesOn DEF Stopped

(* An invalid system call and an exception that halts stop the machine.        *)
LEMMA PanicRefines == IInv /\ Panic => [Tasks!Next]_(Tasks!vars)
<1> SUFFICES ASSUME IInv, Panic PROVE [Tasks!Next]_(Tasks!vars)
    OBVIOUS
<1>1. cpu = "user" /\ current \in alloc /\ cpu' = "panicked" /\ UNCHANGED <<alloc, state>>
    BY DEF Panic
<1>2. OnCpu \in Ready /\ Ready' = Ready /\ OnCpu' = NoProc /\ ~ Stopped /\ Stopped'
    BY <1>1, UserStep DEF Ready, OnCpu, Stopped
<1>3. Tasks!Stop
    BY <1>1, <1>2 DEF Tasks!Stop, Ready, OnCpu
<1> QED
    BY <1>2, <1>3 DEF Tasks!Next, Stopped

(* The process manager implements Multitasking. *)
THEOREM Refinement == Spec => ImplementsMultitasking
<1>1. Init => Tasks!Init
    BY DEF Init, Tasks!Init
<1>2. IInv /\ [Next]_vars => [Tasks!Next]_(Tasks!vars)
    <2>1. IInv /\ UNCHANGED vars => UNCHANGED Tasks!vars
        BY DEF vars, Tasks!vars
    <2> QED
        BY <2>1, BootRefines, TickRefines, ExitRefines, ForkRefines, FaultRefines, PanicRefines
        DEF Next, Syscall, InvalidCall, OtherException
<1> QED
    BY <1>1, <1>2, Invariance, PTL DEF Spec, ImplementsMultitasking, Tasks!Spec

=============================================================================
