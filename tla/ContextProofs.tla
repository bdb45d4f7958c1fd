---------------------------- MODULE ContextProofs ----------------------------
(***************************************************************************)
(* Proofs about Context, for every set of processes and of values: frames   *)
(* can be resumed, and the whole implements VirtualCpu.                     *)
(***************************************************************************)
EXTENDS Context, TLAPS

Stacks == [Proc -> [Slot -> Word]]

(* Words the return frame of a program never is. *)
NoFrame == {Kernel, Selector}

(* The running program has a return frame, too: it is what the next entry     *)
(* pushes.                                                                   *)
CpuHasFrame == current # NoProc => cpu["frame"] \notin NoFrame

IInv == TypeOK /\ CanBeResumed /\ CpuHasFrame

-----------------------------------------------------------------------------
(* Frames. *)

(* No two registers share a slot, and the return frame is at the top. *)
LEMMA SlotFacts ==
    ASSUME NEW slots \in {PushadSlot, FaultSlot, ApiSlot}
    PROVE  /\ DOMAIN slots \subseteq Reg /\ "frame" \in DOMAIN slots /\ slots["frame"] = -5
           /\ \A r \in DOMAIN slots : slots[r] \in Slot
           /\ \A r, t \in DOMAIN slots : slots[r] = slots[t] => r = t
<1>1. CASE slots = PushadSlot
    BY <1>1 DEF PushadSlot, Reg, Slot
<1>2. CASE slots = FaultSlot
    <2>1. /\ PushadSlot.frame = -5 /\ PushadSlot.eax = -6 /\ PushadSlot.ecx = -7
          /\ PushadSlot.edx = -8 /\ PushadSlot.ebx = -9 /\ PushadSlot.ebp = -11
          /\ PushadSlot.esi = -12 /\ PushadSlot.edi = -13
        BY DEF PushadSlot
    <2>2. DOMAIN slots = Reg
        BY <1>2 DEF FaultSlot
    <2>3. /\ slots["frame"] = -5 /\ slots["eax"] = -7 /\ slots["ecx"] = -8 /\ slots["edx"] = -9
          /\ slots["ebx"] = -10 /\ slots["ebp"] = -12 /\ slots["esi"] = -13 /\ slots["edi"] = -14
        BY <1>2, <2>1 DEF FaultSlot, Reg
    <2> QED
        BY <2>2, <2>3 DEF Reg, Slot
<1>3. CASE slots = ApiSlot
    BY <1>3 DEF ApiSlot, Reg, Slot
<1> QED
    BY <1>1, <1>2, <1>3

(* Where pr_resume takes the registers from: not from the selectors. *)
LEMMA PushadFacts ==
    /\ DOMAIN PushadSlot = Reg
    /\ PushadSlot["frame"] = -5 /\ PushadSlot["eax"] = -6 /\ PushadSlot["ecx"] = -7
    /\ \A r \in Reg : PushadSlot[r] \in Slot \ Selectors
    BY DEF PushadSlot, Reg, Slot, Selectors

(* Every register pushed is found in its slot. *)
LEMMA PushedFacts ==
    ASSUME NEW slots \in {PushadSlot, FaultSlot, ApiSlot}, cpu \in [Reg -> Word]
    PROVE  /\ Pushed(slots) \in [Slot -> Word]
           /\ \A r \in DOMAIN slots : Pushed(slots)[slots[r]] = cpu[r]
           /\ Pushed(slots)[-5] = cpu["frame"]
<1>1. ASSUME NEW r \in DOMAIN slots
      PROVE  Pushed(slots)[slots[r]] = cpu[r]
    <2>1. slots[r] \in Slot /\ \A t \in DOMAIN slots : slots[t] = slots[r] => t = r
        BY SlotFacts
    <2>2. (CHOOSE t \in DOMAIN slots : slots[t] = slots[r]) = r
        BY <2>1
    <2> QED
        BY <2>1, <2>2 DEF Pushed
<1>2. ASSUME NEW k \in Slot
      PROVE  Pushed(slots)[k] \in Word
    <2>1. CASE \E r \in DOMAIN slots : slots[r] = k
        BY <1>1, <2>1, SlotFacts
    <2>2. CASE ~ \E r \in DOMAIN slots : slots[r] = k
        BY <2>2 DEF Pushed, Word
    <2> QED
        BY <2>1, <2>2
<1>3. Pushed(slots) \in [Slot -> Word]
    BY <1>2 DEF Pushed
<1> QED
    BY <1>1, <1>3, SlotFacts

(* pr_resume's stores to a stack do not touch what it pops. *)
LEMMA WithSelectorsFacts ==
    ASSUME NEW s \in [Slot -> Word]
    PROVE  /\ WithSelectors(s) \in [Slot -> Word]
           /\ \A k \in Selectors : WithSelectors(s)[k] = Selector
           /\ WithSelectors(s)[-5] = s[-5]
           /\ Popped(WithSelectors(s)) = Popped(s)
           /\ Popped(s) \in [Reg -> Word]
           /\ Popped(s)["frame"] = s[-5]
<1>1. Selectors \subseteq Slot /\ -5 \in Slot \ Selectors
    BY DEF Selectors, Slot
<1>2. Selector \in Word
    BY DEF Word
<1>3. /\ WithSelectors(s) \in [Slot -> Word]
      /\ \A k \in Selectors : WithSelectors(s)[k] = Selector
      /\ \A k \in Slot \ Selectors : WithSelectors(s)[k] = s[k]
    BY <1>1, <1>2 DEF WithSelectors
<1>4. Popped(WithSelectors(s)) = Popped(s)
    BY <1>3, PushadFacts DEF Popped
<1>5. Popped(s) \in [Reg -> Word] /\ Popped(s)["frame"] = s[-5]
    BY PushadFacts DEF Popped, Reg
<1> QED
    BY <1>1, <1>3, <1>4, <1>5

(* A timer interrupt leaves all registers where pr_resume finds them. *)
LEMMA PoppedPushed ==
    ASSUME cpu \in [Reg -> Word]
    PROVE  Popped(Pushed(PushadSlot)) = cpu
    BY PushedFacts, PushadFacts DEF Popped

(* Frames of new processes, and stacks that hold nothing. *)
LEMMA FreshFacts ==
    /\ Fresh \in [Slot -> Word] /\ Dead \in [Slot -> Word]
    /\ \A k \in Selectors : Fresh[k] = Selector
    /\ Fresh[-5] \notin NoFrame
<1>1. Selectors \subseteq Slot /\ -5 \in Slot \ Selectors
    BY DEF Selectors, Slot
<1> QED
    BY <1>1, WordAssumption DEF Fresh, Dead, Word, NoFrame

-----------------------------------------------------------------------------
(* pr_resume and pr_schedule. *)

LEMMA ResumeFacts ==
    ASSUME NEW stacks \in Stacks, NEW q \in Proc, q # current, current \in Proc,
           Resume(q, stacks)
    PROVE  /\ stack' \in Stacks /\ cpu' \in [Reg -> Word] /\ current' = q
           /\ cpu' = Popped(stacks[q]) /\ cpu'["frame"] = stacks[q][-5]
           /\ stack'[current] = WithSelectors(stacks[current])
           /\ \A p \in Proc \ {current, q} : stack'[p] = stacks[p]
<1>1. WithSelectors(stacks[current]) \in [Slot -> Word] /\ Dead \in [Slot -> Word]
    BY WithSelectorsFacts, FreshFacts DEF Stacks
<1>2. /\ stack' = [stacks EXCEPT ![current] = WithSelectors(@), ![q] = Dead]
      /\ cpu' = Popped(stacks[q]) /\ current' = q
    BY DEF Resume
<1>3. Popped(stacks[q]) \in [Reg -> Word] /\ Popped(stacks[q])["frame"] = stacks[q][-5]
    BY WithSelectorsFacts DEF Stacks
<1> QED
    BY <1>1, <1>2, <1>3 DEF Stacks

(* Somebody among the ready gets the CPU, or the CPU halts; nobody else is    *)
(* concerned, and the process that had the CPU keeps what its handler left.    *)
LEMMA ScheduleFacts ==
    ASSUME IInv, current \in Proc, ready' \subseteq ready,
           NEW stacks \in Stacks, Schedule(stacks),
           \A p \in Proc \ {current} : stacks[p] = stack[p]
    PROVE  /\ stack' \in Stacks /\ cpu' \in [Reg -> Word]
           /\ current' \in (ready' \ {current}) \cup {NoProc}
           /\ current' # NoProc =>
                /\ cpu' = Popped(stack[current']) /\ cpu'["frame"] \notin NoFrame
                /\ stack'[current] = WithSelectors(stacks[current])
           /\ Popped(stack'[current]) = Popped(stacks[current])
           /\ \A p \in Proc \ {current, current'} : stack'[p] = stack[p]
<1>0. NoProc \notin Proc /\ ready \subseteq Proc /\ cpu \in [Reg -> Word]
    BY ProcAssumption DEF IInv, TypeOK
<1>1. CASE \E q \in ready' \ {current} : Resume(q, stacks)
    <2>1. PICK q \in ready' \ {current} : Resume(q, stacks)
        BY <1>1
    <2>2. q \in Proc /\ q \in ready
        BY <1>0
    <2>3. /\ stack' \in Stacks /\ cpu' \in [Reg -> Word] /\ current' = q
          /\ cpu' = Popped(stacks[q]) /\ cpu'["frame"] = stacks[q][-5]
          /\ stack'[current] = WithSelectors(stacks[current])
          /\ \A p \in Proc \ {current, q} : stack'[p] = stacks[p]
        BY <2>1, <2>2, ResumeFacts
    <2>4. stack[q][-5] \notin NoFrame
        BY <1>0, <2>1, <2>2 DEF IInv, CanBeResumed, NoFrame
    <2>5. Popped(stack'[current]) = Popped(stacks[current])
        BY <2>3, WithSelectorsFacts DEF Stacks
    <2>6. stacks[q] = stack[q]
        BY <2>1, <2>2
    <2> QED
        BY <2>1, <2>3, <2>4, <2>5, <2>6
<1>2. CASE current' = NoProc /\ stack' = stacks /\ UNCHANGED cpu
    BY <1>0, <1>2
<1> QED
    BY <1>1, <1>2 DEF Schedule

(* So the invariant is kept, if the stack of the process that had the CPU has  *)
(* a return frame, or is not needed any more.                                 *)
LEMMA ScheduleIInv ==
    ASSUME IInv, current \in Proc, ready' \subseteq ready, live' \subseteq live, ready' \subseteq live',
           NEW stacks \in Stacks, Schedule(stacks),
           \A p \in Proc \ {current} : stacks[p] = stack[p],
           current \in ready' => stacks[current][-5] \notin NoFrame
    PROVE  IInv'
<1>1. /\ stack' \in Stacks /\ cpu' \in [Reg -> Word]
      /\ current' \in (ready' \ {current}) \cup {NoProc}
      /\ current' # NoProc =>
           /\ cpu'["frame"] \notin NoFrame
           /\ stack'[current] = WithSelectors(stacks[current])
      /\ \A p \in Proc \ {current, current'} : stack'[p] = stack[p]
    BY ScheduleFacts
<1>2. TypeOK'
    BY <1>1 DEF IInv, TypeOK, Stacks
<1>3. CpuHasFrame'
    BY <1>1 DEF CpuHasFrame, NoFrame
<1>4. ASSUME current' # NoProc, NEW q \in ready' \ {current'}
      PROVE  (\A k \in Selectors : stack'[q][k] = Selector) /\ stack'[q][-5] \notin NoFrame
    <2>1. q \in Proc /\ q \in ready /\ current # NoProc
        BY ProcAssumption DEF IInv, TypeOK
    <2>2. CASE q = current
        <3>1. stacks[current] \in [Slot -> Word]
            BY DEF Stacks
        <3> QED
            BY <1>1, <1>4, <2>2, <3>1, WithSelectorsFacts
    <2>3. CASE q # current
        <3>1. stack'[q] = stack[q]
            BY <1>1, <1>4, <2>1, <2>3
        <3> QED
            BY <2>1, <2>3, <3>1 DEF IInv, CanBeResumed, NoFrame
    <2> QED
        BY <2>2, <2>3
<1>5. CanBeResumed'
    BY <1>4 DEF CanBeResumed, NoFrame
<1> QED
    BY <1>2, <1>3, <1>5 DEF IInv

-----------------------------------------------------------------------------
(* The invariant, one lemma per action. *)

(* An entry pushes on the stack of the running program only. *)
LEMMA EnterFacts ==
    ASSUME IInv, current # NoProc, NEW slots \in {PushadSlot, FaultSlot, ApiSlot}
    PROVE  /\ current \in Proc /\ current \in ready /\ current \in live
           /\ Enter(slots) \in Stacks
           /\ Enter(slots)[current] = Pushed(slots)
           /\ \A p \in Proc \ {current} : Enter(slots)[p] = stack[p]
           /\ Pushed(slots)[-5] \notin NoFrame
<1>1. current \in Proc /\ current \in ready /\ current \in live /\ stack \in Stacks /\ cpu \in [Reg -> Word]
    BY DEF IInv, TypeOK, Stacks
<1>2. Pushed(slots) \in [Slot -> Word] /\ Pushed(slots)[-5] = cpu["frame"]
    BY <1>1, PushedFacts
<1>3. cpu["frame"] \notin NoFrame
    BY DEF IInv, CpuHasFrame
<1> QED
    BY <1>1, <1>2, <1>3 DEF Enter, Stacks

LEMMA InitIInv == Init => IInv
<1> SUFFICES ASSUME Init PROVE IInv
    OBVIOUS
<1>1. PICK a, b \in Proc :
        /\ a # b
        /\ live = {a, b} /\ ready = live
        /\ current = a
        /\ cpu = Popped(Fresh)
        /\ stack = [p \in Proc |-> IF p = b THEN Fresh ELSE Dead]
    BY DEF Init
<1>2. cpu \in [Reg -> Word] /\ cpu["frame"] \notin NoFrame
    BY <1>1, FreshFacts, WithSelectorsFacts
<1>3. stack[b] = Fresh /\ stack \in Stacks
    BY <1>1, FreshFacts DEF Stacks
<1>4. TypeOK
    BY <1>1, <1>2, <1>3 DEF TypeOK, Stacks
<1>5. CanBeResumed
    BY <1>1, <1>3, FreshFacts DEF CanBeResumed, NoFrame
<1> QED
    BY <1>2, <1>4, <1>5 DEF IInv, CpuHasFrame

(* Steps in which a program keeps the CPU and its return frame. *)
LEMMA KeepsIInv ==
    ASSUME IInv, UNCHANGED <<live, ready, current, stack>>,
           cpu' \in [Reg -> Word], cpu'["frame"] \notin NoFrame
    PROVE  IInv'
    BY DEF IInv, TypeOK, CanBeResumed, CpuHasFrame

LEMMA ComputeIInv == ASSUME IInv, NEW v \in Value, Compute(v) PROVE IInv'
<1>1. cpu' \in [Reg -> Word]
    BY DEF Compute, Filled, Word
<1>2. cpu'["frame"] = <<"frame", v>> /\ <<"frame", v>> \in Reg \X Value
    BY DEF Compute, Filled, Reg
<1>3. cpu'["frame"] \notin NoFrame
    BY <1>2, WordAssumption DEF NoFrame
<1> QED
    BY <1>1, <1>3, KeepsIInv DEF Compute

LEMMA SyscallIInv == IInv /\ Syscall => IInv'
<1> SUFFICES ASSUME IInv, Syscall PROVE IInv'
    OBVIOUS
<1>1. cpu' \in [Reg -> Word] /\ cpu'["frame"] = cpu["frame"]
    BY DEF Syscall, IInv, TypeOK, Word, Reg
<1> QED
    BY <1>1, KeepsIInv DEF Syscall, IInv, CpuHasFrame

(* popad restores what pushad has pushed. *)
LEMMA ReturnFacts ==
    ASSUME IInv, NEW slots \in {PushadSlot, FaultSlot}, Return(slots)
    PROVE  cpu' = cpu
<1>1. cpu \in [Reg -> Word]
    BY DEF IInv, TypeOK
<1>2. DOMAIN slots = Reg
    BY PushadFacts DEF FaultSlot
<1>3. \A r \in Reg : Pushed(slots)[slots[r]] = cpu[r]
    BY <1>1, <1>2, PushedFacts
<1> QED
    BY <1>1, <1>3 DEF Return

LEMMA ReturnIInv == ASSUME IInv, NEW slots \in {PushadSlot, FaultSlot}, Return(slots) PROVE IInv'
<1>1. cpu' = cpu
    BY ReturnFacts
<1> QED
    BY <1>1, KeepsIInv DEF Return, IInv, TypeOK, CpuHasFrame

LEMMA TimerIInv == IInv /\ Timer => IInv'
<1> SUFFICES ASSUME IInv, Timer PROVE IInv'
    OBVIOUS
<1> QED
    BY EnterFacts, ScheduleIInv DEF Timer, IInv, TypeOK

LEMMA ExitIInv == IInv /\ Exit => IInv'
<1> SUFFICES ASSUME IInv, Exit PROVE IInv'
    OBVIOUS
<1> DEFINE stacks == [stack EXCEPT ![current] = Dead]
<1>1. current \in Proc /\ stack \in Stacks /\ ready \subseteq live
    BY DEF Exit, IInv, TypeOK, Stacks
<1>2. stacks \in Stacks /\ \A p \in Proc \ {current} : stacks[p] = stack[p]
    BY <1>1, FreshFacts DEF Stacks
<1>3. live' = live \ {current} /\ ready' = ready \ {current} /\ Schedule(stacks)
    BY DEF Exit
<1> HIDE DEF stacks
<1> QED
    BY <1>1, <1>2, <1>3, ScheduleIInv

LEMMA SuspendIInv == IInv /\ Suspend => IInv'
<1> SUFFICES ASSUME IInv, Suspend PROVE IInv'
    OBVIOUS
<1>1. ready \subseteq live
    BY DEF IInv, TypeOK
<1> QED
    BY <1>1, EnterFacts, ScheduleIInv DEF Suspend

LEMMA PanicIInv == IInv /\ Panic => IInv'
<1> SUFFICES ASSUME IInv, Panic PROVE IInv'
    OBVIOUS
<1>1. stack' \in Stacks /\ current' = NoProc /\ UNCHANGED <<live, ready, cpu>>
    BY EnterFacts DEF Panic
<1> QED
    BY <1>1 DEF IInv, TypeOK, Stacks, CanBeResumed, CpuHasFrame

(* The stacks of parent and child inside is_capi, with the return codes. *)
Copied(c) == [Enter(ApiSlot) EXCEPT ![c] = Pushed(ApiSlot)]
Coded(c)  == [Copied(c) EXCEPT ![current][-6] = c, ![c][-6] = Zero]

(* Both resume where the parent was, each with its return code. *)
LEMMA ForkFacts ==
    ASSUME IInv, NEW c \in Proc, Fork(c)
    PROVE  /\ current \in ready /\ c \notin live /\ c # current
           /\ live' = live \cup {c} /\ ready' = ready \cup {c} /\ current' = c
           /\ stack' \in Stacks /\ cpu' \in [Reg -> Word]
           /\ cpu'["frame"] = cpu["frame"] /\ cpu'["ecx"] = cpu["ecx"] /\ cpu'["eax"] = Zero
           /\ \A k \in Selectors : stack'[current][k] = Selector
           /\ stack'[current][-5] = cpu["frame"]
           /\ Popped(stack'[current]) \in [Reg -> Word]
           /\ Popped(stack'[current])["frame"] = cpu["frame"]
           /\ Popped(stack'[current])["ecx"] = cpu["ecx"]
           /\ Popped(stack'[current])["eax"] = c
           /\ \A p \in Proc \ {current, c} : stack'[p] = stack[p]
<1>1. /\ current \in ready /\ c \notin live /\ current \in live /\ current \in Proc
      /\ live' = live \cup {c} /\ ready' = ready \cup {c}
      /\ Resume(c, [Coded(c) EXCEPT ![c] = WithSelectors(@)])
    BY EnterFacts DEF Fork, Coded, Copied
<1>2. /\ Pushed(ApiSlot) \in [Slot -> Word] /\ Pushed(ApiSlot)[-5] = cpu["frame"]
      /\ Pushed(ApiSlot)[-7] = cpu["ecx"]
    <2>1. cpu \in [Reg -> Word]
        BY DEF IInv, TypeOK
    <2>2. "ecx" \in DOMAIN ApiSlot /\ ApiSlot["ecx"] = -7
        BY DEF ApiSlot
    <2> QED
        BY <2>1, <2>2, PushedFacts
<1>3. c # current
    BY <1>1
<1> DEFINE parent == [Pushed(ApiSlot) EXCEPT ![-6] = c]
           child  == [Pushed(ApiSlot) EXCEPT ![-6] = Zero]
<1>4. /\ parent \in [Slot -> Word] /\ child \in [Slot -> Word]
      /\ parent[-5] = cpu["frame"] /\ parent[-6] = c /\ parent[-7] = cpu["ecx"]
      /\ child[-5] = cpu["frame"] /\ child[-6] = Zero /\ child[-7] = cpu["ecx"]
    <2>1. -5 \in Slot /\ -6 \in Slot /\ -7 \in Slot /\ c \in Word /\ Zero \in Word
        BY DEF Slot, Word
    <2> QED
        BY <1>2, <2>1
<1>5. /\ Coded(c) \in Stacks /\ Coded(c)[current] = parent /\ Coded(c)[c] = child
      /\ \A p \in Proc \ {current, c} : Coded(c)[p] = stack[p]
    <2>1. /\ Copied(c) \in Stacks /\ Copied(c)[current] = Pushed(ApiSlot)
          /\ Copied(c)[c] = Pushed(ApiSlot)
          /\ \A p \in Proc \ {current, c} : Copied(c)[p] = stack[p]
        BY <1>1, <1>2, <1>3, EnterFacts DEF Copied, Stacks, Fork
    <2>2. Coded(c) = [[Copied(c) EXCEPT ![current] = parent] EXCEPT ![c] = child]
        BY <1>1, <1>3, <2>1 DEF Coded, Stacks
    <2> HIDE DEF parent, child
    <2> DEFINE half == [Copied(c) EXCEPT ![current] = parent]
    <2>3. /\ half \in Stacks /\ half[current] = parent
          /\ \A p \in Proc \ {current, c} : half[p] = stack[p]
        BY <1>1, <1>4, <2>1 DEF Stacks
    <2>4. Coded(c) = [half EXCEPT ![c] = child]
        BY <2>2
    <2> HIDE DEF half
    <2>5. Coded(c) \in Stacks
        BY <1>4, <2>3, <2>4 DEF Stacks
    <2>6. Coded(c)[c] = child /\ \A p \in Proc \ {c} : Coded(c)[p] = half[p]
        BY <1>1, <2>3, <2>4 DEF Stacks
    <2> QED
        BY <1>1, <1>3, <2>3, <2>5, <2>6
<1> HIDE DEF parent, child
<1> DEFINE stacks == [Coded(c) EXCEPT ![c] = WithSelectors(@)]
<1>6. /\ stacks \in Stacks /\ stacks[current] = parent /\ stacks[c] = WithSelectors(child)
      /\ \A p \in Proc \ {current, c} : stacks[p] = stack[p]
    BY <1>1, <1>3, <1>4, <1>5, WithSelectorsFacts DEF Stacks
<1>7. Resume(c, stacks)
    BY <1>1
<1> HIDE DEF stacks
<1>8. /\ stack' \in Stacks /\ cpu' \in [Reg -> Word] /\ current' = c
      /\ cpu' = Popped(WithSelectors(child))
      /\ stack'[current] = WithSelectors(parent)
      /\ \A p \in Proc \ {current, c} : stack'[p] = stack[p]
    BY <1>1, <1>3, <1>6, <1>7, ResumeFacts
<1>9. cpu' = Popped(child) /\ Popped(stack'[current]) = Popped(parent)
    BY <1>4, <1>8, WithSelectorsFacts
<1>10. /\ Popped(child)["frame"] = cpu["frame"] /\ Popped(child)["ecx"] = cpu["ecx"]
       /\ Popped(child)["eax"] = Zero
       /\ Popped(parent)["frame"] = cpu["frame"] /\ Popped(parent)["ecx"] = cpu["ecx"]
       /\ Popped(parent)["eax"] = c
    BY <1>4, PushadFacts DEF Popped, Reg
<1> QED
    BY <1>1, <1>3, <1>4, <1>8, <1>9, <1>10, WithSelectorsFacts

LEMMA ForkIInv == ASSUME IInv, NEW c \in Proc, Fork(c) PROVE IInv'
<1>1. cpu["frame"] \notin NoFrame /\ current \in Proc
    BY EnterFacts DEF Fork, IInv, CpuHasFrame
<1>2. TypeOK'
    BY ForkFacts DEF IInv, TypeOK, Stacks
<1>3. CpuHasFrame'
    BY <1>1, ForkFacts DEF CpuHasFrame
<1>4. ASSUME NEW q \in ready' \ {current'}
      PROVE  (\A k \in Selectors : stack'[q][k] = Selector) /\ stack'[q][-5] \notin NoFrame
    <2>1. CASE q = current
        BY <1>1, <2>1, ForkFacts
    <2>2. CASE q # current
        <3>1. q \in ready \ {current} /\ q \in Proc /\ stack'[q] = stack[q] /\ current # NoProc
            BY <2>2, ForkFacts DEF IInv, TypeOK, Fork
        <3> QED
            BY <3>1 DEF IInv, CanBeResumed, NoFrame
    <2> QED
        BY <2>1, <2>2
<1>5. CanBeResumed'
    BY <1>4 DEF CanBeResumed, NoFrame
<1> QED
    BY <1>2, <1>3, <1>5 DEF IInv

LEMMA StutterIInv == IInv /\ UNCHANGED vars => IInv'
    BY DEF vars, IInv, TypeOK, CanBeResumed, CpuHasFrame

(* The inductive invariant of frames and registers. *)
THEOREM Invariance == Spec => []IInv
<1>1. IInv /\ [Next]_vars => IInv'
    BY ComputeIInv, SyscallIInv, ReturnIInv, TimerIInv, ExitIInv, SuspendIInv, PanicIInv,
       ForkIInv, StutterIInv DEF Next
<1> QED
    BY InitIInv, <1>1, PTL DEF Spec

(* Every variable keeps its type. *)
THEOREM TypeCorrect == Spec => []TypeOK
    BY Invariance, PTL DEF IInv

(* Whoever can be given the CPU has a frame pr_resume can restart it from. *)
THEOREM FramesCorrect == Spec => []CanBeResumed
    BY Invariance, PTL DEF IInv

-----------------------------------------------------------------------------
(* The refinement. *)

(* The registers a process goes on with. *)
RegsOf(q) == IF q = current THEN cpu ELSE Popped(stack[q])

LEMMA KeepsRefines ==
    ASSUME IInv, current # NoProc, UNCHANGED <<live, ready, current, stack>>,
           cpu' \in [Reg -> Word]
    PROVE  Cpu!Compute
<1>1. current \in ready
    BY DEF IInv, TypeOK
<1> QED
    BY <1>1 DEF Cpu!Compute

(* Whatever pr_schedule decides, those who stay ready keep their registers. *)
LEMMA ScheduleRegs ==
    ASSUME IInv, current \in Proc, ready' \subseteq ready,
           NEW stacks \in Stacks, Schedule(stacks),
           \A p \in Proc \ {current} : stacks[p] = stack[p],
           current \in ready' => Popped(stacks[current]) = cpu
    PROVE  /\ \A q \in ready' : RegsOf(q)' = RegsOf(q)
           /\ current' \in ready' \cup {NoProc}
<1>1. /\ current' \in (ready' \ {current}) \cup {NoProc}
      /\ current' # NoProc => cpu' = Popped(stack[current'])
      /\ Popped(stack'[current]) = Popped(stacks[current])
      /\ \A p \in Proc \ {current, current'} : stack'[p] = stack[p]
    BY ScheduleFacts
<1>2. ASSUME NEW q \in ready'
      PROVE  RegsOf(q)' = RegsOf(q)
    <2>1. q \in Proc /\ q # NoProc /\ current # NoProc
        BY ProcAssumption DEF IInv, TypeOK
    <2>2. CASE q = current
        BY <1>1, <2>1, <2>2 DEF RegsOf
    <2>3. CASE q # current /\ q = current'
        BY <1>1, <2>1, <2>3 DEF RegsOf
    <2>4. CASE q # current /\ q # current'
        BY <1>1, <2>1, <2>4 DEF RegsOf
    <2> QED
        BY <2>2, <2>3, <2>4
<1> QED
    BY <1>1, <1>2

LEMMA TimerRefines == IInv /\ Timer => Cpu!Switch
<1> SUFFICES ASSUME IInv, Timer PROVE Cpu!Switch
    OBVIOUS
<1>1. /\ current \in Proc /\ Enter(PushadSlot) \in Stacks
      /\ Enter(PushadSlot)[current] = Pushed(PushadSlot)
      /\ \A p \in Proc \ {current} : Enter(PushadSlot)[p] = stack[p]
    BY EnterFacts DEF Timer
<1>2. Popped(Enter(PushadSlot)[current]) = cpu
    BY <1>1, PoppedPushed DEF IInv, TypeOK
<1>3. ready' = ready /\ Schedule(Enter(PushadSlot)) /\ current \in ready
    BY DEF Timer, IInv, TypeOK
<1>4. (\A q \in ready : RegsOf(q)' = RegsOf(q)) /\ current' \in ready \cup {NoProc}
    BY <1>1, <1>2, <1>3, ScheduleRegs
<1> QED
    BY <1>3, <1>4 DEF Cpu!Switch, RegsOf

LEMMA LeaveRefines ==
    ASSUME IInv, current # NoProc, ready' = ready \ {current},
           NEW stacks \in Stacks, Schedule(stacks),
           \A p \in Proc \ {current} : stacks[p] = stack[p]
    PROVE  Cpu!Leave
<1>1. current \in Proc /\ current \in ready
    BY DEF IInv, TypeOK
<1>2. (\A q \in ready' : RegsOf(q)' = RegsOf(q)) /\ current' \in ready' \cup {NoProc}
    BY <1>1, ScheduleRegs
<1> QED
    BY <1>1, <1>2 DEF Cpu!Leave, RegsOf

LEMMA ExitRefines == IInv /\ Exit => Cpu!Leave
<1> SUFFICES ASSUME IInv, Exit PROVE Cpu!Leave
    OBVIOUS
<1> DEFINE stacks == [stack EXCEPT ![current] = Dead]
<1>1. current \in Proc /\ stack \in Stacks
    BY DEF Exit, IInv, TypeOK, Stacks
<1>2. stacks \in Stacks /\ \A p \in Proc \ {current} : stacks[p] = stack[p]
    BY <1>1, FreshFacts DEF Stacks
<1>3. current # NoProc /\ ready' = ready \ {current} /\ Schedule(stacks)
    BY DEF Exit
<1> HIDE DEF stacks
<1> QED
    BY <1>2, <1>3, LeaveRefines

LEMMA SuspendRefines == IInv /\ Suspend => Cpu!Leave
<1> SUFFICES ASSUME IInv, Suspend PROVE Cpu!Leave
    OBVIOUS
<1> QED
    BY EnterFacts, LeaveRefines DEF Suspend

(* Who does not run keeps what is on its stack. *)
LEMMA PanicRefines == IInv /\ Panic => Cpu!Stop
<1> SUFFICES ASSUME IInv, Panic PROVE Cpu!Stop
    OBVIOUS
<1>1. /\ current \in ready /\ current' = NoProc /\ ready' = ready
      /\ ready \subseteq Proc /\ NoProc \notin ready
    BY ProcAssumption DEF Panic, IInv, TypeOK
<1>2. \A q \in ready \ {current} : stack'[q] = stack[q]
    BY <1>1, EnterFacts DEF Panic
<1> QED
    BY <1>1, <1>2 DEF Cpu!Stop

LEMMA ForkRefines == ASSUME IInv, NEW c \in Proc, Fork(c) PROVE Cpu!Fork(c)
<1>1. current \in ready /\ c \notin ready /\ c # current /\ ready \subseteq Proc
    BY ForkFacts DEF IInv, TypeOK
<1>2. ASSUME NEW q \in ready' \ {current, c}
      PROVE  RegsOf(q)' = RegsOf(q)
    <2>1. q \in Proc \ {current, c} /\ q # current' /\ q # current
        BY <1>1, ForkFacts
    <2> QED
        BY <2>1, ForkFacts DEF RegsOf
<1>3. /\ RegsOf(current)["frame"] = cpu["frame"] /\ RegsOf(current)["ecx"] = cpu["ecx"]
      /\ \A q \in {current, c} :
            LET new == IF q = current' THEN cpu' ELSE Popped(stack'[q]) IN
            new["frame"] = cpu["frame"] /\ new["ecx"] = cpu["ecx"]
      /\ Popped(stack'[current])["eax"] = c /\ cpu'["eax"] = Zero /\ current' = c
    BY <1>1, ForkFacts DEF RegsOf
<1>4. Reg \ Cpu!Scratch = {"frame", "ecx"}
    BY DEF Reg, Cpu!Scratch
<1> QED
    BY <1>1, <1>2, <1>3, <1>4, ForkFacts DEF Cpu!Fork, Cpu!SameExcept, RegsOf

(* Frames, stacks and copies implement registers that are each program's own. *)
THEOREM Refinement == Spec => ImplementsVirtualCpu
<1>1. IInv /\ Init => Cpu!Init
    <2> SUFFICES ASSUME IInv, Init PROVE Cpu!Init
        OBVIOUS
    <2>1. current \in ready /\ ready \in SUBSET Proc
        BY DEF Init
    <2>2. ASSUME NEW q \in ready PROVE RegsOf(q) \in [Reg -> Word]
        BY <2>1, WithSelectorsFacts DEF IInv, TypeOK, RegsOf
    <2> QED
        BY <2>1, <2>2 DEF Cpu!Init, RegsOf
<1>2. IInv /\ [Next]_vars => [Cpu!Next]_(Cpu!vars)
    <2> SUFFICES ASSUME IInv, [Next]_vars PROVE [Cpu!Next]_(Cpu!vars)
        OBVIOUS
    <2>1. ASSUME NEW v \in Value, Compute(v) PROVE Cpu!Compute
        BY <2>1, KeepsRefines DEF Compute, Filled, Word
    <2>2. ASSUME Syscall PROVE Cpu!Compute
        <3>1. cpu' \in [Reg -> Word]
            BY <2>2 DEF Syscall, IInv, TypeOK, Word
        <3> QED
            BY <2>2, <3>1, KeepsRefines DEF Syscall
    <2>3. ASSUME NEW slots \in {PushadSlot, FaultSlot}, Return(slots) PROVE Cpu!Compute
        BY <2>3, ReturnFacts, KeepsRefines DEF Return, IInv, TypeOK
    <2>4. CASE UNCHANGED vars
        BY <2>4 DEF vars, Cpu!vars
    <2> QED
        BY <2>1, <2>2, <2>3, <2>4, TimerRefines, ExitRefines, SuspendRefines, PanicRefines,
           ForkRefines
        DEF Next, Cpu!Next
<1> QED
    BY <1>1, <1>2, InitIInv, Invariance, PTL DEF Spec, ImplementsVirtualCpu, Cpu!Spec

=============================================================================
