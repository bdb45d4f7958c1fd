---------------------------- MODULE InterruptsProofs ---------------------------
(***************************************************************************)
(* Proofs about Interrupts and KernelSetup: no line is left in service, no   *)
(* interrupt finds a gate of is_panic, and every selector in use leads to    *)
(* the segment it is meant for, wherever the task state segment lies and     *)
(* whatever room there is in the table.                                     *)
(***************************************************************************)
EXTENDS KernelSetup, TLAPS

-----------------------------------------------------------------------------
(* The inductive invariant. *)

(* Steps of setup_interrupts that are done.                                   *)
Stage == IF at = "setup" THEN step ELSE 18

(* The gate of v at that stage.                                               *)
Installed(v) ==
    IF v \in Exception /\ Stage >= 12 THEN Gate(IF v = 1 THEN "is_int1" ELSE "is_int", 0)
    ELSE IF v = 32 /\ Stage >= 13 THEN Gate("is_timer", 0)
    ELSE IF v = 33 /\ Stage >= 14 THEN Gate("is_keyboard", 0)
    ELSE IF v \in 34 .. 46 /\ Stage >= 15 THEN Gate("is_8259", 0)
    ELSE IF v = 128 /\ Stage >= 16 THEN Gate("is_api", 3)
    ELSE Gate("is_panic", 0)

Gates ==
    IF Stage = 0 THEN DOMAIN idt = {} /\ idtr = "boot"
    ELSE /\ idt = [v \in Vector |-> Installed(v)]
         /\ idtr = IF LidtCompiled THEN "kernel" ELSE "boot"

(* The word of the initialization a chip expects, and what it has been told.   *)
Chips ==
    /\ master \in Chip /\ slave \in Chip
    /\ master.icw = IF Stage \in 4 .. 6 THEN Stage - 2 ELSE 0
    /\ slave.icw  = IF Stage \in 8 .. 10 THEN Stage - 6 ELSE 0
    /\ Stage >= 5 => master.base = 32
    /\ Stage >= 9 => slave.base = 40
    /\ Stage >= 17 => master.imr = Line \ {Timer, Keyboard}
    /\ Stage >= 18 => slave.imr = Line
    /\ at # "reset" => master.isr = InService /\ slave.isr = {}

(* What the processor executes, and with which flag.                          *)
Processor ==
    /\ at \in (Handlers \ {"is_panic"}) \cup {"setup", "main", "program", "halted", "reset"}
    /\ if \in BOOLEAN /\ hook \in BOOLEAN /\ obf \in BOOLEAN
    /\ from \in {"main", "program"}
    /\ step \in 0 .. 18 /\ (at \in {"is_timer", "is_keyboard", "is_8259"} => step \in {0, 1})
    /\ if => at \in {"main", "program"}
    /\ at = "setup" => ~ hook
    /\ LidtCompiled => at # "reset"

Controlled == Gates /\ Chips /\ Processor

(* A descriptor with these fields.                                            *)
Descriptor(limit_low, base_low, base_mid, base_high, flags1, flags2) ==
    [limit_low |-> limit_low, base_low |-> base_low, base_mid |-> base_mid,
     base_high |-> base_high, flags1 |-> flags1, flags2 |-> flags2]

(* The table is what the calls made so far have made of it: four for each       *)
(* segment, then those for the task state segment.                            *)
Segment(i, flags1) ==
    IF done < 4 * i THEN Gdt!Cleared
    ELSE IF done = 4 * i THEN Descriptor(65535, 0, 0, 0, 0, 15)
    ELSE Descriptor(65535, 0, 0, 0, flags1, 207)

TaskState ==
    IF done < 20 THEN Gdt!Cleared
    ELSE Descriptor(IF done = 20 THEN 0 ELSE 103, TssBase[2], TssBase[1] % 256, TssBase[1] \div 256,
                    IF done < 22 THEN 0 ELSE IF done < 24 THEN 233 ELSE 235,
                    IF done < 22 THEN 0 ELSE 16)

Content(i) ==
    IF i = 1 THEN Segment(1, 154) ELSE IF i = 2 THEN Segment(2, 146)
    ELSE IF i = 3 THEN Segment(3, 250) ELSE IF i = 4 THEN Segment(4, 242)
    ELSE IF i = 5 THEN TaskState ELSE Gdt!Cleared

Filled ==
    /\ done \in 0 .. 24
    /\ gdt = [i \in Gdt!Index |-> Content(i)]
    /\ gd_nentries = IF done = 0 THEN 0 ELSE IF done < 18 THEN (done + 6) \div 4
                     ELSE IF done = 18 THEN 5 ELSE 6
    /\ gdtr = IF done < 18 THEN -1 ELSE IF done < 23 THEN 39 ELSE 47
    /\ tr = IF done < 24 THEN 0 ELSE 40

(* main() in its order.                                                       *)
InOrder == (at = "setup" /\ step = 0) \/ done >= 18
Hooked  == hook => done = 24

IInv == Controlled /\ Filled /\ InOrder /\ Hooked

-----------------------------------------------------------------------------
(* The calls of setup_gdt and setup_process. *)

(* What setup_gdt asks of a segment.                                          *)
Attributes(dpl, type) ==
    [gran |-> 1, avl |-> 0, present |-> 1, dpl |-> dpl, dtype |-> 1, type |-> type]

Type(i) == IF i \in {1, 3} THEN 10 ELSE 2
Ring(i) == IF i \in {1, 2} THEN 0 ELSE 3

(* The first descriptor, four segments, and the task state segment.           *)
LEMMA CallsInOrder ==
    LET c == Gdt!Calls IN
    /\ Len(Gdt!SetupGdt) = 18 /\ Len(c) = 24
    /\ \A k \in {1, 2, 6, 10, 14, 19} : c[k] = <<"add">>
    /\ \A i \in 1 .. 4 :
        /\ c[4 * i - 1] = <<"base", i, <<0, 0>>>>
        /\ c[4 * i]     = <<"limit", i, <<65535, 65535>>>>
        /\ c[4 * i + 1] = <<"segment", i, Attributes(Ring(i), Type(i))>>
    /\ \A k \in {18, 23} : c[k] = <<"reload">>
    /\ c[20] = <<"base", 5, TssBase>> /\ c[21] = <<"limit", 5, <<0, 103>>>>
    /\ c[22] = <<"tss", 5, Gdt!Tss>> /\ c[24] = <<"ltr", 5>>
<1> DEFINE c == Gdt!Calls
<1>1. /\ Len(Gdt!SetupGdt) = 18 /\ Len(c) = 24
      /\ c[1] = <<"add">> /\ c[2] = <<"add">> /\ c[6] = <<"add">> /\ c[10] = <<"add">>
      /\ c[14] = <<"add">> /\ c[19] = <<"add">>
    BY DEF Gdt!Calls, Gdt!SetupGdt, Gdt!SetupProcess, Gdt!Segment, Gdt!Flat
<1>2. /\ c[3]  = <<"base", 1, <<0, 0>>>> /\ c[4]  = <<"limit", 1, <<65535, 65535>>>>
      /\ c[7]  = <<"base", 2, <<0, 0>>>> /\ c[8]  = <<"limit", 2, <<65535, 65535>>>>
      /\ c[11] = <<"base", 3, <<0, 0>>>> /\ c[12] = <<"limit", 3, <<65535, 65535>>>>
      /\ c[15] = <<"base", 4, <<0, 0>>>> /\ c[16] = <<"limit", 4, <<65535, 65535>>>>
    BY DEF Gdt!Calls, Gdt!SetupGdt, Gdt!SetupProcess, Gdt!Segment, Gdt!Flat
<1>3. /\ c[5]  = <<"segment", 1, Attributes(0, 10)>> /\ c[9]  = <<"segment", 2, Attributes(0, 2)>>
      /\ c[13] = <<"segment", 3, Attributes(3, 10)>> /\ c[17] = <<"segment", 4, Attributes(3, 2)>>
    BY DEF Gdt!Calls, Gdt!SetupGdt, Gdt!SetupProcess, Gdt!Segment, Gdt!Flat, Attributes
<1>4. /\ c[18] = <<"reload">> /\ c[23] = <<"reload">>
      /\ c[20] = <<"base", 5, TssBase>> /\ c[21] = <<"limit", 5, <<0, 103>>>>
      /\ c[22] = <<"tss", 5, Gdt!Tss>> /\ c[24] = <<"ltr", 5>>
    BY DEF Gdt!Calls, Gdt!SetupGdt, Gdt!SetupProcess, Gdt!Segment, Gdt!Flat
<1> HIDE DEF c
<1>5. ASSUME NEW i \in 1 .. 4
      PROVE  /\ c[4 * i - 1] = <<"base", i, <<0, 0>>>>
             /\ c[4 * i]     = <<"limit", i, <<65535, 65535>>>>
             /\ c[4 * i + 1] = <<"segment", i, Attributes(Ring(i), Type(i))>>
    <2>1. CASE i = 1
        BY <1>2, <1>3, <2>1 DEF Ring, Type
    <2>2. CASE i = 2
        BY <1>2, <1>3, <2>2 DEF Ring, Type
    <2>3. CASE i = 3
        BY <1>2, <1>3, <2>3 DEF Ring, Type
    <2>4. CASE i = 4
        BY <1>2, <1>3, <2>4 DEF Ring, Type
    <2> QED
        BY <2>1, <2>2, <2>3, <2>4
<1> QED
    BY <1>1, <1>4, <1>5 DEF c

(* The call that comes next.                                                  *)
LEMMA NextCall ==
    ASSUME Gdt!Next, done \in Nat
    PROVE  /\ done' = done + 1 /\ done' \in 1 .. 24
           /\ done \in {0, 1, 5, 9, 13, 18} => Gdt!Add
           /\ \A i \in 1 .. 4 :
                /\ done = 4 * i - 2 => Gdt!Set(i, Gdt!SetBase(gdt[i], <<0, 0>>))
                /\ done = 4 * i - 1 => Gdt!Set(i, Gdt!SetLimit(gdt[i], <<65535, 65535>>))
                /\ done = 4 * i =>
                       Gdt!Set(i, Gdt!SetSegment(gdt[i], Attributes(Ring(i), Type(i))))
           /\ done \in {17, 22} => Gdt!Reload
           /\ done = 19 => Gdt!Set(5, Gdt!SetBase(gdt[5], TssBase))
           /\ done = 20 => Gdt!Set(5, Gdt!SetLimit(gdt[5], <<0, 103>>))
           /\ done = 21 => Gdt!Set(5, Gdt!SetTss(gdt[5], Gdt!Tss))
           /\ done = 23 => Gdt!Ltr(5)
<1> DEFINE c == Gdt!Calls
<1>1. done < 24 /\ done' = done + 1 /\ Gdt!Call(c[done + 1])
    BY CallsInOrder DEF Gdt!Next
<1>2. /\ \A k \in {1, 2, 6, 10, 14, 19} : c[k] = <<"add">>
      /\ \A k \in {18, 23} : c[k] = <<"reload">>
      /\ c[20] = <<"base", 5, TssBase>> /\ c[21] = <<"limit", 5, <<0, 103>>>>
      /\ c[22] = <<"tss", 5, Gdt!Tss>> /\ c[24] = <<"ltr", 5>>
    BY CallsInOrder
<1>3. \A i \in 1 .. 4 :
        /\ c[4 * i - 1] = <<"base", i, <<0, 0>>>>
        /\ c[4 * i]     = <<"limit", i, <<65535, 65535>>>>
        /\ c[4 * i + 1] = <<"segment", i, Attributes(Ring(i), Type(i))>>
    BY CallsInOrder
<1> HIDE DEF c
<1>4. /\ Gdt!Call(<<"add">>) => Gdt!Add
      /\ Gdt!Call(<<"reload">>) => Gdt!Reload
      /\ Gdt!Call(<<"ltr", 5>>) => Gdt!Ltr(5)
      /\ Gdt!Call(<<"tss", 5, Gdt!Tss>>) => Gdt!Set(5, Gdt!SetTss(gdt[5], Gdt!Tss))
    BY DEF Gdt!Call
<1>5. done \in {0, 1, 5, 9, 13, 18} => Gdt!Add
    BY <1>1, <1>2, <1>4
<1>6. ASSUME NEW i \in 1 .. 4
      PROVE  /\ done = 4 * i - 2 => Gdt!Set(i, Gdt!SetBase(gdt[i], <<0, 0>>))
             /\ done = 4 * i - 1 => Gdt!Set(i, Gdt!SetLimit(gdt[i], <<65535, 65535>>))
             /\ done = 4 * i =>
                    Gdt!Set(i, Gdt!SetSegment(gdt[i], Attributes(Ring(i), Type(i))))
    <2>1. CASE done = 4 * i - 2
        <3>1. done + 1 = 4 * i - 1
            BY <2>1
        <3>2. c[done + 1] = <<"base", i, <<0, 0>>>>
            BY <1>3, <3>1
        <3>3. Gdt!Call(<<"base", i, <<0, 0>>>>)
            BY <1>1, <3>2
        <3> QED
            BY <2>1, <3>3 DEF Gdt!Call
    <2>2. CASE done = 4 * i - 1
        <3>1. done + 1 = 4 * i
            BY <2>2
        <3>2. c[done + 1] = <<"limit", i, <<65535, 65535>>>>
            BY <1>3, <3>1
        <3>3. Gdt!Call(<<"limit", i, <<65535, 65535>>>>)
            BY <1>1, <3>2
        <3> QED
            BY <2>2, <3>3 DEF Gdt!Call
    <2>3. CASE done = 4 * i
        <3>1. c[done + 1] = <<"segment", i, Attributes(Ring(i), Type(i))>>
            BY <1>3, <2>3
        <3>2. Gdt!Call(<<"segment", i, Attributes(Ring(i), Type(i))>>)
            BY <1>1, <3>1
        <3> QED
            BY <2>3, <3>2 DEF Gdt!Call
    <2> QED
        BY <2>1, <2>2, <2>3
<1>7. /\ done \in {17, 22} => Gdt!Reload
      /\ done = 19 => Gdt!Set(5, Gdt!SetBase(gdt[5], TssBase))
      /\ done = 20 => Gdt!Set(5, Gdt!SetLimit(gdt[5], <<0, 103>>))
      /\ done = 21 => Gdt!Set(5, Gdt!SetTss(gdt[5], Gdt!Tss))
      /\ done = 23 => Gdt!Ltr(5)
    <2>1. CASE done = 19
        <3>1. Gdt!Call(<<"base", 5, TssBase>>)
            BY <1>1, <1>2, <2>1
        <3> QED
            BY <2>1, <3>1 DEF Gdt!Call
    <2>2. CASE done = 20
        <3>1. Gdt!Call(<<"limit", 5, <<0, 103>>>>)
            BY <1>1, <1>2, <2>2
        <3> QED
            BY <2>2, <3>1 DEF Gdt!Call
    <2> QED
        BY <1>1, <1>2, <1>4, <2>1, <2>2
<1> QED
    BY <1>1, <1>5, <1>6, <1>7

-----------------------------------------------------------------------------
(* The table. *)

(* A record with the fields of a descriptor is that descriptor.               *)
LEMMA Fields ==
    ASSUME NEW a, NEW b, NEW c, NEW d, NEW f, NEW g,
           NEW e \in [limit_low : {a}, base_low : {b}, base_mid : {c}, base_high : {d},
                      flags1 : {f}, flags2 : {g}]
    PROVE  e = Descriptor(a, b, c, d, f, g)
    BY DEF Descriptor

(* What the setters of gdt.cpp, and ltr, make of the entries they get.         *)
LEMMA BaseFacts ==
    ASSUME NEW a, NEW b, NEW c, NEW d, NEW f, NEW g, NEW x, NEW y
    PROVE  Gdt!SetBase(Descriptor(a, b, c, d, f, g), <<x, y>>) =
               Descriptor(a, y, x % 256, x \div 256, f, g)
<1> DEFINE u == x % 256
           v == x \div 256
           o == Descriptor(a, b, c, d, f, g)
           e == Gdt!SetBase(o, <<x, y>>)
<1>1. e = [o EXCEPT !.base_low = y, !.base_mid = u, !.base_high = v]
    BY DEF Gdt!SetBase
<1> HIDE DEF u, v, e
<1>2. e \in [limit_low : {a}, base_low : {y}, base_mid : {u}, base_high : {v},
             flags1 : {f}, flags2 : {g}]
    BY <1>1 DEF Descriptor
<1>3. e = Descriptor(a, y, u, v, f, g)
    BY <1>2, Fields
<1> QED
    BY <1>3 DEF e, u, v

(* SetLimit writes the low word and the low half of flags2, and no more.        *)
LEMMA LimitFacts ==
    ASSUME NEW a, NEW b, NEW c, NEW d, NEW f, NEW g, NEW x, NEW y
    PROVE  Gdt!SetLimit(Descriptor(a, b, c, d, f, g), <<x, y>>) =
               Descriptor(y, b, c, d, f, Gdt!High(g) + Gdt!Low(x))
<1> DEFINE u == Gdt!High(g) + Gdt!Low(x)
           o == Descriptor(a, b, c, d, f, g)
           e == Gdt!SetLimit(o, <<x, y>>)
<1>1. e = [o EXCEPT !.limit_low = y, !.flags2 = u]
    BY DEF Gdt!SetLimit, Descriptor
<1> HIDE DEF u, e
<1>2. e \in [limit_low : {y}, base_low : {b}, base_mid : {c}, base_high : {d},
             flags1 : {f}, flags2 : {u}]
    BY <1>1 DEF Descriptor
<1>3. e = Descriptor(y, b, c, d, f, u)
    BY <1>2, Fields
<1> QED
    BY <1>3 DEF e, u

(* SetSegment keeps the low half of flags2, which is part of the limit.         *)
LEMMA SegmentFacts ==
    ASSUME NEW a, NEW b, NEW c, NEW d, NEW f, NEW g \in Nat, NEW dpl \in 0 .. 3, NEW type \in 0 .. 15
    PROVE  Gdt!SetSegment(Descriptor(a, b, c, d, f, g), Attributes(dpl, type)) =
               Descriptor(a, b, c, d, 144 + dpl * 32 + type, Gdt!Low(g) + 128 + 64)
<1> DEFINE u == 1 * 128 + dpl * 32 + 1 * 16 + type
           v == Gdt!Low(g) + 1 * 128 + 64 + 0 * 16
           o == Descriptor(a, b, c, d, f, g)
           e == Gdt!SetSegment(o, Attributes(dpl, type))
<1>1. e = [o EXCEPT !.flags2 = v, !.flags1 = u]
    BY DEF Gdt!SetSegment, Attributes, Descriptor
<1>2. u = 144 + dpl * 32 + type /\ v = Gdt!Low(g) + 128 + 64
    BY DEF Gdt!Low
<1> HIDE DEF u, v, e
<1>3. e \in [limit_low : {a}, base_low : {b}, base_mid : {c}, base_high : {d},
             flags1 : {u}, flags2 : {v}]
    BY <1>1 DEF Descriptor
<1>4. e = Descriptor(a, b, c, d, u, v)
    BY <1>3, Fields
<1> QED
    BY <1>2, <1>4 DEF e

(* SetTss keeps it as well.                                                   *)
LEMMA TssFacts ==
    ASSUME NEW a, NEW b, NEW c, NEW d, NEW f, NEW g \in Nat
    PROVE  Gdt!SetTss(Descriptor(a, b, c, d, f, g), Gdt!Tss) =
               Descriptor(a, b, c, d, 233, Gdt!Low(g) + 16)
<1> DEFINE u == 1 * 128 + 3 * 32 + 8 + 0 * 2 + 1
           v == Gdt!Low(g) + 0 * 128 + 1 * 16
           o == Descriptor(a, b, c, d, f, g)
           e == Gdt!SetTss(o, Gdt!Tss)
<1>1. e = [o EXCEPT !.flags2 = v, !.flags1 = u]
    BY DEF Gdt!SetTss, Gdt!Tss, Descriptor
<1>2. u = 233 /\ v = Gdt!Low(g) + 16
    BY DEF Gdt!Low
<1> HIDE DEF u, v, e
<1>3. e \in [limit_low : {a}, base_low : {b}, base_mid : {c}, base_high : {d},
             flags1 : {u}, flags2 : {v}]
    BY <1>1 DEF Descriptor
<1>4. e = Descriptor(a, b, c, d, u, v)
    BY <1>3, Fields
<1> QED
    BY <1>2, <1>4 DEF e

(* What the setters make of a descriptor, field by field.                      *)
LEMMA SetterFacts ==
    /\ Gdt!Cleared = Descriptor(0, 0, 0, 0, 0, 0)
    /\ Gdt!SetBase(Gdt!Cleared, <<0, 0>>) = Gdt!Cleared
    /\ Gdt!SetLimit(Gdt!Cleared, <<65535, 65535>>) = Descriptor(65535, 0, 0, 0, 0, 15)
    /\ \A dpl \in 0 .. 3, type \in 0 .. 15 :
           Gdt!SetSegment(Descriptor(65535, 0, 0, 0, 0, 15), Attributes(dpl, type)) =
               Descriptor(65535, 0, 0, 0, 144 + dpl * 32 + type, 207)
<1>1. Gdt!Cleared = Descriptor(0, 0, 0, 0, 0, 0)
    BY DEF Gdt!Cleared, Descriptor
<1>2. 0 % 256 = 0 /\ 0 \div 256 = 0 /\ 0 % 16 = 0 /\ 65535 % 16 = 15 /\ 15 % 16 = 15
    OBVIOUS
<1>3. Gdt!High(0) + Gdt!Low(65535) = 15 /\ Gdt!Low(15) + 128 + 64 = 207
    BY <1>2 DEF Gdt!High, Gdt!Low
<1> QED
    BY <1>1, <1>2, <1>3, BaseFacts, LimitFacts, SegmentFacts

(* An entry becomes what it has to be, and the others stay.                   *)
LEMMA SetKeeps ==
    ASSUME gdt = [i \in Gdt!Index |-> Content(i)],
           NEW n \in Gdt!Index, NEW e, gdt' = [gdt EXCEPT ![n] = e], Content(n)' = e,
           \A i \in Gdt!Index \ {n} : Content(i)' = Content(i)
    PROVE  gdt' = [i \in Gdt!Index |-> Content(i)']
    OBVIOUS

(* The entries of the table.                                                  *)
LEMMA IndexFacts == 0 .. 5 \subseteq Gdt!Index /\ Gdt!Index \subseteq Nat
    BY TableAssumption DEF Gdt!Index

(* The first descriptor and the segments of setup_gdt.                        *)
LEMMA SegmentKeeps ==
    ASSUME Filled, NEW i \in 1 .. 4, done' = done + 1,
           \/ done = 4 * i - 2 /\ Gdt!Set(i, Gdt!SetBase(gdt[i], <<0, 0>>))
           \/ done = 4 * i - 1 /\ Gdt!Set(i, Gdt!SetLimit(gdt[i], <<65535, 65535>>))
           \/ done = 4 * i /\ Gdt!Set(i, Gdt!SetSegment(gdt[i], Attributes(Ring(i), Type(i))))
    PROVE  Filled'
<1> DEFINE f == 144 + Ring(i) * 32 + Type(i)
           limited == Descriptor(65535, 0, 0, 0, 0, 15)
           whole   == Descriptor(65535, 0, 0, 0, f, 207)
<1>1. i \in Gdt!Index /\ gdt = [k \in Gdt!Index |-> Content(k)] /\ gdt[i] = Content(i)
    BY IndexFacts DEF Filled
<1>2. /\ UNCHANGED <<gd_nentries, gdtr, tr>> /\ done' \in 0 .. 17 /\ done \in 2 .. 16
      /\ (done' + 6) \div 4 = (done + 6) \div 4
    BY DEF Gdt!Set
<1>3. Content(i) = Segment(i, f)
    BY DEF Content, Ring, Type
<1>4. Content(i)' = Segment(i, f)'
    BY DEF Content, Ring, Type
<1>5. \A k \in Gdt!Index \ {i} : Content(k)' = Content(k)
    <2>1. \A k \in (1 .. 4) \ {i} : \A g : Segment(k, g)' = Segment(k, g)
        BY <1>2 DEF Segment
    <2>2. TaskState' = TaskState
        BY <1>2 DEF TaskState
    <2> QED
        BY <2>1, <2>2 DEF Content
<1>6. CASE done = 4 * i - 2
    <2>1. Content(i) = Gdt!Cleared /\ Content(i)' = Gdt!Cleared
        BY <1>3, <1>4, <1>6 DEF Segment
    <2>2. gdt' = [gdt EXCEPT ![i] = Gdt!Cleared]
        BY <1>1, <1>6, <2>1, SetterFacts DEF Gdt!Set
    <2> QED
        BY <1>1, <1>2, <1>5, <2>1, <2>2, SetKeeps DEF Filled
<1>7. CASE done = 4 * i - 1
    <2>1. Content(i) = Gdt!Cleared /\ Content(i)' = limited
        BY <1>3, <1>4, <1>7 DEF Segment
    <2>2. gdt' = [gdt EXCEPT ![i] = limited]
        BY <1>1, <1>7, <2>1, SetterFacts DEF Gdt!Set
    <2> HIDE DEF limited
    <2> QED
        BY <1>1, <1>2, <1>5, <2>1, <2>2, SetKeeps DEF Filled
<1>8. CASE done = 4 * i
    <2>1. Content(i) = limited
        BY <1>3, <1>8 DEF Segment
    <2>2. Content(i)' = whole
        BY <1>4, <1>8 DEF Segment
    <2>3. Gdt!SetSegment(limited, Attributes(Ring(i), Type(i))) = whole
        <3>1. Ring(i) \in 0 .. 3 /\ Type(i) \in 0 .. 15
            BY DEF Ring, Type
        <3> QED
            BY <3>1, SetterFacts
    <2>4. gdt' = [gdt EXCEPT ![i] = whole]
        BY <1>1, <1>8, <2>1, <2>3 DEF Gdt!Set
    <2> HIDE DEF whole
    <2> QED
        BY <1>1, <1>2, <1>5, <2>2, <2>4, SetKeeps DEF Filled
<1> QED
    BY <1>6, <1>7, <1>8

(* Where an entry may be added, it is cleared already.                        *)
LEMMA AddKeeps ==
    ASSUME Filled, done \in {0, 1, 5, 9, 13, 18}, done' = done + 1, Gdt!Add
    PROVE  Filled'
<1> DEFINE Number(k) == IF k = 0 THEN 0 ELSE IF k < 18 THEN (k + 6) \div 4
                        ELSE IF k = 18 THEN 5 ELSE 6
           n == Number(done)
<1>1. /\ gdt' = [gdt EXCEPT ![n] = Gdt!Cleared] /\ gd_nentries' = n + 1 /\ UNCHANGED <<gdtr, tr>>
      /\ gdt = [k \in Gdt!Index |-> Content(k)]
    BY DEF Gdt!Add, Filled
<1>2. n \in 0 .. 5 /\ Number(done') = n + 1 /\ (n \in 1 .. 4 => done = 4 * n - 3)
      /\ (n = 5 => done = 18)
    OBVIOUS
<1> HIDE DEF n, Number
<1>3. n \in Gdt!Index
    BY <1>2, IndexFacts
<1>4. Content(n) = Gdt!Cleared
    BY <1>2 DEF Content, Segment, TaskState
<1>5. \A k \in Gdt!Index : Content(k)' = Content(k)
    BY DEF Content, Segment, TaskState
<1>6. gdt' = [k \in Gdt!Index |-> Content(k)']
    BY <1>1, <1>3, <1>4, <1>5, SetKeeps
<1>7. /\ gdtr' = IF done' < 18 THEN -1 ELSE IF done' < 23 THEN 39 ELSE 47
      /\ tr' = IF done' < 24 THEN 0 ELSE 40
      /\ done' \in 0 .. 24
    BY <1>1 DEF Filled
<1> QED
    BY <1>1, <1>2, <1>6, <1>7 DEF Filled, Number

(* The processor learns the length of the table.                              *)
LEMMA ReloadKeeps ==
    ASSUME Filled, done \in {17, 22}, done' = done + 1, Gdt!Reload
    PROVE  Filled'
<1>1. gdtr' = 8 * gd_nentries - 1 /\ UNCHANGED <<gdt, gd_nentries, tr>>
    BY DEF Gdt!Reload
<1>2. \A k \in Gdt!Index : Content(k)' = Content(k)
    BY DEF Content, Segment, TaskState
<1> QED
    BY <1>1, <1>2 DEF Filled

(* setup_process: the task state segment.                                     *)
LEMMA TssKeeps ==
    ASSUME Filled, done' = done + 1,
           \/ done = 19 /\ Gdt!Set(5, Gdt!SetBase(gdt[5], TssBase))
           \/ done = 20 /\ Gdt!Set(5, Gdt!SetLimit(gdt[5], <<0, 103>>))
           \/ done = 21 /\ Gdt!Set(5, Gdt!SetTss(gdt[5], Gdt!Tss))
           \/ done = 23 /\ Gdt!Ltr(5)
    PROVE  Filled'
<1> DEFINE x == TssBase[1]
           y == TssBase[2]
           u == x % 256
           v == x \div 256
<1>1. 5 \in Gdt!Index /\ gdt = [k \in Gdt!Index |-> Content(k)] /\ gdt[5] = TaskState
    BY IndexFacts DEF Filled, Content
<1>2. TssBase = <<x, y>>
    BY TableAssumption
<1>3. \A k \in Gdt!Index \ {5} : Content(k)' = Content(k)
    BY DEF Content, Segment
<1>4. Content(5)' = TaskState'
    BY DEF Content
<1>5. /\ gd_nentries' = gd_nentries /\ gdtr' = gdtr /\ done' \in 20 .. 24
      /\ tr' = IF done = 23 THEN 40 ELSE tr
    BY DEF Gdt!Set, Gdt!Ltr
<1>6. ASSUME gdt' = [gdt EXCEPT ![5] = TaskState'] PROVE Filled'
    <2>1. gdt' = [k \in Gdt!Index |-> Content(k)']
        BY <1>1, <1>3, <1>4, <1>6, SetKeeps
    <2> QED
        BY <1>5, <2>1 DEF Filled
<1>7. CASE done = 19
    <2>1. TaskState = Descriptor(0, 0, 0, 0, 0, 0)
        BY <1>7, SetterFacts DEF TaskState
    <2>2. Gdt!SetBase(TaskState, TssBase) = Descriptor(0, y, u, v, 0, 0)
        BY <1>2, <2>1, BaseFacts
    <2>3. TaskState' = Descriptor(0, y, u, v, 0, 0)
        BY <1>7 DEF TaskState
    <2> QED
        BY <1>1, <1>6, <1>7, <2>2, <2>3 DEF Gdt!Set
<1>8. CASE done = 20
    <2>1. TaskState = Descriptor(0, y, u, v, 0, 0)
        BY <1>8 DEF TaskState
    <2>2. Gdt!High(0) + Gdt!Low(0) = 0
        BY DEF Gdt!High, Gdt!Low
    <2>3. Gdt!SetLimit(TaskState, <<0, 103>>) = Descriptor(103, y, u, v, 0, 0)
        BY <2>1, <2>2, LimitFacts
    <2>4. TaskState' = Descriptor(103, y, u, v, 0, 0)
        BY <1>8 DEF TaskState
    <2> QED
        BY <1>1, <1>6, <1>8, <2>3, <2>4 DEF Gdt!Set
<1>9. CASE done = 21
    <2>1. TaskState = Descriptor(103, y, u, v, 0, 0)
        BY <1>9 DEF TaskState
    <2>2. Gdt!Low(0) + 16 = 16
        BY DEF Gdt!Low
    <2>3. Gdt!SetTss(TaskState, Gdt!Tss) = Descriptor(103, y, u, v, 233, 16)
        BY <2>1, <2>2, TssFacts
    <2>4. TaskState' = Descriptor(103, y, u, v, 233, 16)
        BY <1>9 DEF TaskState
    <2> QED
        BY <1>1, <1>6, <1>9, <2>3, <2>4 DEF Gdt!Set
<1>10. CASE done = 23
    <2>1. TaskState = Descriptor(103, y, u, v, 233, 16)
        BY <1>10 DEF TaskState
    <2>2. TaskState' = Descriptor(103, y, u, v, 235, 16)
        BY <1>10 DEF TaskState
    <2>3. (233 \div 2) % 2 = 0
        OBVIOUS
    <2>4. gdt' = [gdt EXCEPT ![5] = [gdt[5] EXCEPT !.flags1 =
                     IF (gdt[5].flags1 \div 2) % 2 = 0 THEN gdt[5].flags1 + 2 ELSE gdt[5].flags1]]
        BY <1>1, <1>10 DEF Gdt!Ltr
    <2>5. gdt[5].flags1 = 233
        BY <1>1, <2>1 DEF Descriptor
    <2>6. gdt' = [gdt EXCEPT ![5] = [gdt[5] EXCEPT !.flags1 = 235]]
        BY <2>3, <2>4, <2>5
    <2> DEFINE e == [gdt[5] EXCEPT !.flags1 = 235]
    <2> HIDE DEF u, v, x, y
    <2>7. e \in [limit_low : {103}, base_low : {y}, base_mid : {u}, base_high : {v},
                 flags1 : {235}, flags2 : {16}]
        BY <1>1, <2>1 DEF Descriptor
    <2> HIDE DEF e
    <2>8. e = TaskState'
        BY <2>2, <2>7, Fields
    <2> QED
        BY <1>6, <2>6, <2>8 DEF e
<1> QED
    BY <1>7, <1>8, <1>9, <1>10

(* Every call of setup_gdt and setup_process.                                 *)
LEMMA FilledKeeps == Filled /\ Gdt!Next => Filled'
<1> SUFFICES ASSUME Filled, Gdt!Next PROVE Filled'
    OBVIOUS
<1>1. done \in 0 .. 23 /\ done' = done + 1
    BY NextCall DEF Filled
<1>2. CASE done \in {0, 1, 5, 9, 13, 18}
    BY <1>1, <1>2, NextCall, AddKeeps
<1>3. CASE \E i \in 1 .. 4 : done \in {4 * i - 2, 4 * i - 1, 4 * i}
    <2>1. PICK i \in 1 .. 4 : done \in {4 * i - 2, 4 * i - 1, 4 * i}
        BY <1>3
    <2> QED
        BY <1>1, <2>1, NextCall, SegmentKeeps
<1>4. CASE done \in {17, 22}
    BY <1>1, <1>4, NextCall, ReloadKeeps
<1>5. CASE done \in {19, 20, 21, 23}
    BY <1>1, <1>5, NextCall, TssKeeps
<1>6. done \in 2 .. 16 => \/ done \in {5, 9, 13}
                         \/ \E i \in 1 .. 4 : done \in {4 * i - 2, 4 * i - 1, 4 * i}
    <2>1. \/ done \in {4 * 1 - 2, 4 * 1 - 1, 4 * 1} \/ done \in {4 * 2 - 2, 4 * 2 - 1, 4 * 2}
          \/ done \in {4 * 3 - 2, 4 * 3 - 1, 4 * 3} \/ done \in {4 * 4 - 2, 4 * 4 - 1, 4 * 4}
          \/ done \in {5, 9, 13} \/ done \notin 2 .. 16
        BY <1>1
    <2> QED
        BY <2>1
<1> QED
    BY <1>1, <1>2, <1>3, <1>4, <1>5, <1>6

(* The fields of the descriptors fit.                                         *)
LEMMA FilledTypes == Filled => Gdt!TypeOK
<1> SUFFICES ASSUME Filled PROVE Gdt!TypeOK
    OBVIOUS
<1>1. TssBase[1] \in Nat /\ TssBase[1] < 65536 /\ TssBase[2] \in Nat /\ TssBase[2] < 65536
    BY TableAssumption DEF Gdt!Word
<1>2. ASSUME NEW a \in Gdt!Word, NEW b \in Gdt!Word, NEW c \in Gdt!Byte, NEW d \in Gdt!Byte,
             NEW f \in Gdt!Byte, NEW g \in Gdt!Byte
      PROVE  Descriptor(a, b, c, d, f, g) \in Gdt!Entry
    BY DEF Descriptor, Gdt!Entry
<1>3. /\ {0, 103, 65535} \subseteq Gdt!Word /\ TssBase[2] \in Gdt!Word
      /\ {0, 15, 16, 207, 154, 146, 250, 242, 233, 235} \subseteq Gdt!Byte
      /\ (TssBase[1] % 256) \in Gdt!Byte /\ (TssBase[1] \div 256) \in Gdt!Byte
    BY <1>1 DEF Gdt!Word, Gdt!Byte
<1>4. Gdt!Cleared \in Gdt!Entry
    BY <1>2, <1>3, SetterFacts
<1>5. \A i \in 1 .. 4, f \in {154, 146, 250, 242} : Segment(i, f) \in Gdt!Entry
    BY <1>2, <1>3, <1>4 DEF Segment
<1>6. TaskState \in Gdt!Entry
    <2> DEFINE u == TssBase[1] % 256
               v == TssBase[1] \div 256
               y == TssBase[2]
    <2>1. TaskState \in {Gdt!Cleared, Descriptor(0, y, u, v, 0, 0), Descriptor(103, y, u, v, 0, 0),
                         Descriptor(103, y, u, v, 233, 16), Descriptor(103, y, u, v, 235, 16)}
        BY DEF Filled, TaskState
    <2>2. y \in Gdt!Word /\ u \in Gdt!Byte /\ v \in Gdt!Byte
        BY <1>3
    <2> HIDE DEF u, v, y
    <2>3. 0 \in Gdt!Word /\ 103 \in Gdt!Word /\ {0, 16, 233, 235} \subseteq Gdt!Byte
        BY <1>3
    <2>4. \A a \in {0, 103}, f \in {0, 233, 235}, g \in {0, 16} :
              Descriptor(a, y, u, v, f, g) \in Gdt!Entry
        BY <1>2, <2>2, <2>3
    <2> QED
        BY <1>4, <2>1, <2>4
<1>7. \A i \in Gdt!Index : Content(i) \in Gdt!Entry
    BY <1>4, <1>5, <1>6 DEF Content
<1>8. gdt \in [Gdt!Index -> Gdt!Entry]
    BY <1>7 DEF Filled
<1>9. gd_nentries \in 0 .. GD_MAX_ENTRIES /\ gdtr \in {-1} \cup Gdt!Word
    BY TableAssumption DEF Filled, Gdt!Word
<1>10. tr \in {8 * i : i \in Gdt!Index}
    <2>1. tr = 8 * 0 \/ tr = 8 * 5
        BY DEF Filled
    <2> QED
        BY <2>1, IndexFacts
<1>11. done \in 0 .. Len(Gdt!Calls)
    BY CallsInOrder DEF Filled
<1> QED
    BY <1>8, <1>9, <1>10, <1>11 DEF Gdt!TypeOK

(* The tables of the processor while main() runs, and once programs do.       *)
LEMMA SegmentsFromFilled == Filled /\ InOrder /\ Hooked => SegmentsAreInForce
<1> SUFFICES ASSUME Filled, InOrder, Hooked PROVE SegmentsAreInForce
    OBVIOUS
<1>1. ASSUME done >= 18
      PROVE  /\ gdt[1] = Descriptor(65535, 0, 0, 0, 154, 207)
             /\ gdt[2] = Descriptor(65535, 0, 0, 0, 146, 207)
             /\ gdt[3] = Descriptor(65535, 0, 0, 0, 250, 207)
             /\ gdt[4] = Descriptor(65535, 0, 0, 0, 242, 207)
             /\ gdtr \in {39, 47}
    <2>1. \A i \in 1 .. 4 : gdt[i] = Content(i)
        BY IndexFacts DEF Filled
    <2> QED
        BY <1>1, <2>1 DEF Filled, Content, Segment
<1>2. ASSUME done = 24
      PROVE  /\ gdt[5] = Descriptor(103, TssBase[2], TssBase[1] % 256, TssBase[1] \div 256, 235, 16)
             /\ tr = 40 /\ gdtr = 47
    <2>1. gdt[5] = TaskState
        BY IndexFacts DEF Filled, Content
    <2> QED
        BY <1>2, <2>1 DEF Filled, TaskState
<1>3. \A f \in {154, 146, 250, 242} :
          LET e == Descriptor(65535, 0, 0, 0, f, 207) IN
          /\ Gdt!IsFlat(e)
          /\ f = 154 => Gdt!IsCode(e, 0)
          /\ f = 146 => Gdt!IsData(e, 0)
          /\ f = 250 => Gdt!IsCode(e, 3)
          /\ f = 242 => Gdt!IsData(e, 3)
    BY DEF Descriptor, Gdt!IsFlat, Gdt!Base, Gdt!Limit, Gdt!Pages, Gdt!IsCode, Gdt!IsData,
           Gdt!Present, Gdt!System, Gdt!Type, Gdt!Dpl, Gdt!Low
<1>4. ASSUME NEW e, e = Descriptor(103, TssBase[2], TssBase[1] % 256, TssBase[1] \div 256, 235, 16)
      PROVE  /\ Gdt!IsTss(e) /\ Gdt!Base(e) = TssBase
             /\ Gdt!Limit(e) = <<0, 103>> /\ ~ Gdt!Pages(e)
    <2>1. Gdt!IsTss(e) /\ Gdt!Limit(e) = <<0, 103>> /\ ~ Gdt!Pages(e)
        BY <1>4 DEF Descriptor, Gdt!IsTss, Gdt!Limit, Gdt!Pages, Gdt!Present, Gdt!System,
                    Gdt!Type, Gdt!Low
    <2>2. TssBase = <<TssBase[1], TssBase[2]>> /\ TssBase[1] \in Nat
        BY TableAssumption DEF Gdt!Word
    <2>3. (TssBase[1] \div 256) * 256 + (TssBase[1] % 256) = TssBase[1]
        BY <2>2
    <2>4. Gdt!Base(e) = <<(TssBase[1] \div 256) * 256 + (TssBase[1] % 256), TssBase[2]>>
        BY <1>4 DEF Descriptor, Gdt!Base
    <2> QED
        BY <2>1, <2>2, <2>3, <2>4
<1>5. /\ 8 \div 8 = 1 /\ 16 \div 8 = 2 /\ 27 \div 8 = 3 /\ 32 \div 8 = 4 /\ 35 \div 8 = 4
      /\ 40 \div 8 = 5 /\ 8 % 8 = 0 /\ 16 % 8 = 0 /\ 27 % 8 = 3 /\ 32 % 8 = 0 /\ 35 % 8 = 3
      /\ 40 % 8 = 0
    OBVIOUS
<1>6. ASSUME at # "setup"
      PROVE  /\ Gdt!Loadable(8)  /\ Gdt!IsCode(Selected(8), 0)  /\ Gdt!IsFlat(Selected(8))
             /\ Gdt!Loadable(16) /\ Gdt!IsData(Selected(16), 0) /\ Gdt!IsFlat(Selected(16))
    <2>1. done >= 18
        BY <1>6 DEF InOrder
    <2>2. Selected(8) = gdt[1] /\ Selected(16) = gdt[2]
        BY <1>5 DEF Selected
    <2>3. Gdt!Loadable(8) /\ Gdt!Loadable(16)
        BY <1>1, <1>5, <2>1 DEF Gdt!Loadable
    <2> QED
        BY <1>1, <1>3, <2>1, <2>2, <2>3
<1>7. ASSUME hook
      PROVE  /\ Gdt!Loadable(27) /\ Gdt!IsCode(Selected(27), 3) /\ Gdt!IsFlat(Selected(27))
             /\ \A s \in {32, 35} :
                 Gdt!Loadable(s) /\ Gdt!IsData(Selected(s), 3) /\ Gdt!IsFlat(Selected(s))
             /\ tr # 0 /\ Gdt!Loadable(tr) /\ Gdt!IsTss(Selected(tr))
             /\ Gdt!Base(Selected(tr)) = TssBase
             /\ Gdt!Limit(Selected(tr)) = <<0, 103>> /\ ~ Gdt!Pages(Selected(tr))
    <2>1. done = 24 /\ tr = 40 /\ gdtr = 47
        BY <1>2, <1>7 DEF Hooked
    <2>2. /\ Selected(27) = gdt[3] /\ Selected(32) = gdt[4] /\ Selected(35) = gdt[4]
          /\ Selected(tr) = gdt[5]
        BY <1>5, <2>1 DEF Selected
    <2>3. Gdt!Loadable(27) /\ Gdt!Loadable(32) /\ Gdt!Loadable(35) /\ Gdt!Loadable(tr)
        BY <1>5, <2>1 DEF Gdt!Loadable
    <2>4. /\ Gdt!IsCode(Selected(27), 3) /\ Gdt!IsFlat(Selected(27))
          /\ \A s \in {32, 35} : Gdt!IsData(Selected(s), 3) /\ Gdt!IsFlat(Selected(s))
        BY <1>1, <1>3, <2>1, <2>2
    <2>5. /\ Gdt!IsTss(Selected(tr)) /\ Gdt!Base(Selected(tr)) = TssBase
          /\ Gdt!Limit(Selected(tr)) = <<0, 103>> /\ ~ Gdt!Pages(Selected(tr))
        BY <1>2, <1>4, <2>1, <2>2
    <2> QED
        BY <2>1, <2>3, <2>4, <2>5
<1> QED
    BY <1>6, <1>7 DEF SegmentsAreInForce

-----------------------------------------------------------------------------
(* The chips. *)

(* What a chip makes of a byte, by the word it expects.                       *)
LEMMA ChipFacts ==
    ASSUME NEW c \in Chip
    PROVE  /\ \A x \in SUBSET Line :
                c.icw = 0 => /\ Data(c, x) \in Chip /\ Data(c, x).icw = 0 /\ Data(c, x).imr = x
                             /\ Data(c, x).base = c.base /\ Data(c, x).isr = c.isr
           /\ \A x \in {0, 8, 32, 40, 112} :
                c.icw = 2 => /\ Data(c, x) \in Chip /\ Data(c, x).icw = 3 /\ Data(c, x).base = x
                             /\ Data(c, x).isr = c.isr
           /\ \A x :
                c.icw = 3 => /\ Data(c, x) \in Chip /\ Data(c, x).icw = 4
                             /\ Data(c, x).base = c.base /\ Data(c, x).isr = c.isr
           /\ \A x :
                c.icw = 4 => /\ Data(c, x) \in Chip /\ Data(c, x).icw = 0
                             /\ Data(c, x).base = c.base /\ Data(c, x).isr = c.isr
           /\ Command(c) \in Chip /\ Command(c).icw = 2 /\ Command(c).isr = {}
<1>1. ASSUME NEW x \in SUBSET Line, c.icw = 0
      PROVE  /\ Data(c, x) \in Chip /\ Data(c, x).icw = 0 /\ Data(c, x).imr = x
             /\ Data(c, x).base = c.base /\ Data(c, x).isr = c.isr
    <2>1. Data(c, x) = [c EXCEPT !.imr = x]
        BY <1>1 DEF Data
    <2> QED
        BY <1>1, <2>1 DEF Chip
<1>2. ASSUME NEW x \in {0, 8, 32, 40, 112}, c.icw = 2
      PROVE  /\ Data(c, x) \in Chip /\ Data(c, x).icw = 3 /\ Data(c, x).base = x
             /\ Data(c, x).isr = c.isr
    <2>1. Data(c, x) = [c EXCEPT !.base = x, !.icw = 3]
        BY <1>2 DEF Data
    <2>2. [c EXCEPT !.base = x, !.icw = 3] \in Chip
        BY DEF Chip
    <2> QED
        BY <2>1, <2>2 DEF Chip
<1>3. ASSUME NEW x, c.icw = 3
      PROVE  /\ Data(c, x) \in Chip /\ Data(c, x).icw = 4
             /\ Data(c, x).base = c.base /\ Data(c, x).isr = c.isr
    <2>1. Data(c, x) = [c EXCEPT !.icw = 4]
        BY <1>3 DEF Data
    <2> QED
        BY <2>1 DEF Chip
<1>4. ASSUME NEW x, c.icw = 4
      PROVE  /\ Data(c, x) \in Chip /\ Data(c, x).icw = 0
             /\ Data(c, x).base = c.base /\ Data(c, x).isr = c.isr
    <2>1. Data(c, x) = [c EXCEPT !.icw = 0]
        BY <1>4 DEF Data
    <2> QED
        BY <2>1 DEF Chip
<1>5. Command(c) \in Chip /\ Command(c).icw = 2 /\ Command(c).isr = {}
    BY DEF Command, Chip
<1> QED
    BY <1>1, <1>2, <1>3, <1>4, <1>5

(* The first of one line or two.                                              *)
LEMMA HighestFacts ==
    /\ \A n \in Line : Highest({n}) = n
    /\ \A s \in SUBSET {Timer, Keyboard} : s # {} => Highest(s) \in s
<1>1. ASSUME NEW n \in Line PROVE Highest({n}) = n
    <2>1. \A k \in {n} : n <= k
        BY DEF Line, Timer, Keyboard, Cascade
    <2> QED
        BY <2>1 DEF Highest
<1>2. ASSUME NEW s \in SUBSET {Timer, Keyboard}, s # {} PROVE Highest(s) \in s
    <2>1. \E n \in s : \A k \in s : n <= k
        <3>1. CASE Timer \in s
            BY <3>1 DEF Timer, Keyboard
        <3>2. CASE Timer \notin s
            <4>1. s = {Keyboard}
                BY <1>2, <3>2
            <4> QED
                BY <4>1 DEF Keyboard
        <3> QED
            BY <3>1, <3>2
    <2> QED
        BY <2>1 DEF Highest
<1> QED
    BY <1>1, <1>2

(* The end of interrupt command with one line in service, and with none.      *)
LEMMA EoiFacts ==
    ASSUME NEW c \in Chip
    PROVE  /\ c.isr = {} => Eoi(c) = c
           /\ \A n \in Line : c.isr = {n} =>
                 /\ Eoi(c) \in Chip /\ Eoi(c).isr = {} /\ Eoi(c).imr = c.imr
                 /\ Eoi(c).base = c.base /\ Eoi(c).icw = c.icw
<1>1. c.isr = {} => Eoi(c) = c
    BY DEF Eoi
<1>2. ASSUME NEW n \in Line, c.isr = {n}
      PROVE  /\ Eoi(c) \in Chip /\ Eoi(c).isr = {} /\ Eoi(c).imr = c.imr
             /\ Eoi(c).base = c.base /\ Eoi(c).icw = c.icw
    <2>1. Eoi(c) = [c EXCEPT !.isr = {}]
        BY <1>2, HighestFacts DEF Eoi
    <2> QED
        BY <2>1 DEF Chip
<1> QED
    BY <1>1, <1>2

(* A line is requested, or withdrawn.                                         *)
LEMMA RequestFacts ==
    ASSUME NEW c \in Chip, NEW s \in SUBSET Line
    PROVE  LET d == [c EXCEPT !.irr = s] IN
           /\ d \in Chip /\ d.isr = c.isr /\ d.imr = c.imr /\ d.base = c.base /\ d.icw = c.icw
    BY DEF Chip

-----------------------------------------------------------------------------
(* setup_interrupts *)

(* The values setup_interrupts writes.                                        *)
LEMMA WriteFacts ==
    /\ DOMAIN Writes = 1 .. 10
    /\ Writes[1] = <<"master", Line>> /\ Writes[2] = <<"slave", Line>>
    /\ Writes[3] = <<"ICW1 master">> /\ Writes[4] = <<"master", 32>>
    /\ Writes[5] = <<"master", 4>> /\ Writes[6] = <<"master", 5>>
    /\ Writes[7] = <<"ICW1 slave">> /\ Writes[8] = <<"slave", 40>>
    /\ Writes[9] = <<"slave", 2>> /\ Writes[10] = <<"slave", 1>>
<1>1. DOMAIN Writes = 1 .. 10
    BY DEF Writes
<1>2. Writes[1] = <<"master", Line>> /\ Writes[2] = <<"slave", Line>>
    BY DEF Writes
<1>3. Writes[3] = <<"ICW1 master">> /\ Writes[7] = <<"ICW1 slave">>
    BY DEF Writes
<1>4. Writes[4] = <<"master", 32>> /\ Writes[5] = <<"master", 4>> /\ Writes[6] = <<"master", 5>>
    BY DEF Writes
<1>5. Writes[8] = <<"slave", 40>> /\ Writes[9] = <<"slave", 2>> /\ Writes[10] = <<"slave", 1>>
    BY DEF Writes
<1> QED
    BY <1>1, <1>2, <1>3, <1>4, <1>5

(* The masks it restores at the end.                                          *)
LEMMA UnmaskFacts ==
    Unmask[1] = <<"master", Line \ {Timer, Keyboard}>> /\ Unmask[2] = <<"slave", Line>>
    BY DEF Unmask

(* The chip that gets a write.                                                *)
LEMMA WriteMaster ==
    ASSUME NEW x, Write(<<"master", x>>) PROVE master' = Data(master, x) /\ slave' = slave
    BY DEF Write

(* A data byte for the slave.                                                 *)
LEMMA WriteSlave ==
    ASSUME NEW x, Write(<<"slave", x>>) PROVE slave' = Data(slave, x) /\ master' = master
    BY DEF Write

(* The first word of the initialization, for the master.                       *)
LEMMA WriteMasterIcw1 ==
    ASSUME Write(<<"ICW1 master">>) PROVE master' = Command(master) /\ slave' = slave
    BY DEF Write

(* The first word of the initialization, for the slave.                        *)
LEMMA WriteSlaveIcw1 ==
    ASSUME Write(<<"ICW1 slave">>) PROVE slave' = Command(slave) /\ master' = master
    BY DEF Write

(* A step of setup_interrupts.                                                *)
LEMMA SetupFacts ==
    ASSUME Controlled, NEW k \in 0 .. 17, Setup(k)
    PROVE  /\ Stage = k /\ Stage' = k + 1 /\ at = "setup" /\ at' = "setup"
           /\ Processor' /\ InService = {} /\ InService' = {}
           /\ master.isr = {} /\ slave.isr = {}
<1>1. /\ at = "setup" /\ step = k /\ step' = k + 1 /\ UNCHANGED <<at, if, hook, obf, from>>
    BY DEF Setup
<1>2. Processor'
    BY <1>1 DEF Controlled, Processor
<1>3. InService = {} /\ InService' = {}
    BY <1>1 DEF InService
<1> QED
    BY <1>1, <1>2, <1>3 DEF Stage, Controlled, Chips

(* The chips do not change at some steps.                                     *)
LEMMA ChipsStay ==
    ASSUME Controlled, NEW k \in {0} \cup 11 .. 15, Setup(k), UNCHANGED chips
    PROVE  Chips'
<1>1. master' = master /\ slave' = slave
    BY DEF chips
<1>2. /\ Stage = k /\ Stage' = k + 1 /\ at = "setup" /\ at' = "setup"
      /\ InService = {} /\ InService' = {} /\ master.isr = {} /\ slave.isr = {}
    BY SetupFacts
<1> QED
    BY <1>1, <1>2 DEF Controlled, Chips

(* The initialization of the chips, word by word.                             *)
LEMMA SetupChipsKeeps ==
    ASSUME Controlled, SetupChips
    PROVE  Chips'
<1>1. PICK k \in 1 .. 10 : Setup(k) /\ Write(Writes[k])
    BY WriteFacts DEF SetupChips
<1>2. /\ Stage = k /\ Stage' = k + 1 /\ at = "setup" /\ at' = "setup"
      /\ InService' = {} /\ master.isr = {} /\ slave.isr = {}
    BY <1>1, SetupFacts
<1>3. /\ master \in Chip /\ slave \in Chip
      /\ master.icw = IF k \in 4 .. 6 THEN k - 2 ELSE 0
      /\ slave.icw  = IF k \in 8 .. 10 THEN k - 6 ELSE 0
      /\ k >= 5 => master.base = 32
      /\ k >= 9 => slave.base = 40
    BY <1>2 DEF Controlled, Chips
<1>4. SUFFICES
      /\ master' \in Chip /\ slave' \in Chip
      /\ master'.icw = IF k + 1 \in 4 .. 6 THEN k - 1 ELSE 0
      /\ slave'.icw  = IF k + 1 \in 8 .. 10 THEN k - 5 ELSE 0
      /\ k + 1 >= 5 => master'.base = 32
      /\ k + 1 >= 9 => slave'.base = 40
      /\ master'.isr = {} /\ slave'.isr = {}
    BY <1>2 DEF Chips
<1>5. CASE k = 1
    <2>1. master' = Data(master, Line) /\ slave' = slave
        BY <1>1, <1>5, WriteFacts, WriteMaster
    <2>2. /\ master' \in Chip /\ master'.icw = 0 /\ master'.base = master.base
          /\ master'.isr = master.isr
        BY <1>3, <1>5, <2>1, ChipFacts
    <2> QED
        BY <1>2, <1>3, <1>5, <2>1, <2>2
<1>6. CASE k = 2
    <2>1. slave' = Data(slave, Line) /\ master' = master
        BY <1>1, <1>6, WriteFacts, WriteSlave
    <2>2. /\ slave' \in Chip /\ slave'.icw = 0 /\ slave'.base = slave.base
          /\ slave'.isr = slave.isr
        BY <1>3, <1>6, <2>1, ChipFacts
    <2> QED
        BY <1>2, <1>3, <1>6, <2>1, <2>2
<1>7. CASE k = 3
    <2>1. master' = Command(master) /\ slave' = slave
        BY <1>1, <1>7, WriteFacts, WriteMasterIcw1
    <2> QED
        BY <1>2, <1>3, <1>7, <2>1, ChipFacts
<1>8. CASE k = 4
    <2>1. master' = Data(master, 32) /\ slave' = slave
        BY <1>1, <1>8, WriteFacts, WriteMaster
    <2> QED
        BY <1>2, <1>3, <1>8, <2>1, ChipFacts
<1>9. CASE k \in {5, 6}
    <2>1. PICK x \in {4, 5} : master' = Data(master, x) /\ slave' = slave
        <3>1. CASE k = 5
            BY <1>1, <3>1, WriteFacts, WriteMaster
        <3>2. CASE k = 6
            BY <1>1, <3>2, WriteFacts, WriteMaster
        <3> QED
            BY <1>9, <3>1, <3>2
    <2> QED
        BY <1>2, <1>3, <1>9, <2>1, ChipFacts
<1>10. CASE k = 7
    <2>1. master' = master /\ slave' = Command(slave)
        BY <1>1, <1>10, WriteFacts, WriteSlaveIcw1
    <2> QED
        BY <1>2, <1>3, <1>10, <2>1, ChipFacts
<1>11. CASE k = 8
    <2>1. slave' = Data(slave, 40) /\ master' = master
        BY <1>1, <1>11, WriteFacts, WriteSlave
    <2> QED
        BY <1>2, <1>3, <1>11, <2>1, ChipFacts
<1>12. CASE k \in {9, 10}
    <2>1. PICK x \in {1, 2} : slave' = Data(slave, x) /\ master' = master
        <3>1. CASE k = 9
            BY <1>1, <3>1, WriteFacts, WriteSlave
        <3>2. CASE k = 10
            BY <1>1, <3>2, WriteFacts, WriteSlave
        <3> QED
            BY <1>12, <3>1, <3>2
    <2> QED
        BY <1>2, <1>3, <1>12, <2>1, ChipFacts
<1> QED
    BY <1>5, <1>6, <1>7, <1>8, <1>9, <1>10, <1>11, <1>12

(* The masks: the timer and the keyboard are let through.                     *)
LEMMA RestoreMaskKeeps ==
    ASSUME Controlled, RestoreMask
    PROVE  Chips'
<1>1. PICK k \in 1 .. 2 : Setup(15 + k) /\ Write(Unmask[k])
    BY DEF RestoreMask
<1> DEFINE s == 15 + k
<1>2. s \in 16 .. 17 /\ Setup(s)
    BY <1>1
<1> HIDE DEF s
<1>3. /\ Stage = s /\ Stage' = s + 1 /\ at = "setup" /\ at' = "setup"
      /\ InService' = {} /\ master.isr = {} /\ slave.isr = {}
    BY <1>2, SetupFacts
<1>4. /\ master \in Chip /\ slave \in Chip /\ master.icw = 0 /\ slave.icw = 0
      /\ master.base = 32 /\ slave.base = 40
      /\ s = 17 => master.imr = Line \ {Timer, Keyboard}
    BY <1>2, <1>3 DEF Controlled, Chips
<1>5. CASE k = 1
    <2>1. master' = Data(master, Line \ {Timer, Keyboard}) /\ slave' = slave
        BY <1>1, <1>5, UnmaskFacts, WriteMaster
    <2>2. /\ master' \in Chip /\ master'.icw = 0 /\ master'.base = master.base
          /\ master'.isr = master.isr /\ master'.imr = Line \ {Timer, Keyboard}
        BY <1>4, <2>1, ChipFacts
    <2> QED
        BY <1>2, <1>3, <1>4, <1>5, <2>1, <2>2 DEF Chips, s
<1>6. CASE k = 2
    <2>1. slave' = Data(slave, Line) /\ master' = master
        BY <1>1, <1>6, UnmaskFacts, WriteSlave
    <2>2. /\ slave' \in Chip /\ slave'.icw = 0 /\ slave'.base = slave.base
          /\ slave'.isr = slave.isr /\ slave'.imr = Line
        BY <1>4, <2>1, ChipFacts
    <2> QED
        BY <1>2, <1>3, <1>4, <1>6, <2>1, <2>2 DEF Chips, s
<1> QED
    BY <1>5, <1>6

(* The gates are installed in groups.                                         *)
LEMMA FillTableKeeps ==
    ASSUME Controlled, FillTable
    PROVE  Gates'
<1>1. Setup(0) /\ Stage = 0 /\ Stage' = 1
    BY SetupFacts DEF FillTable
<1>2. DOMAIN idt = {} /\ idtr = "boot"
    BY <1>1 DEF Controlled, Gates
<1>3. /\ idt' = [v \in DOMAIN idt \cup Vector |-> IF v \in Vector THEN Gate("is_panic", 0) ELSE idt[v]]
      /\ idtr' = IF LidtCompiled THEN "kernel" ELSE idtr
    BY DEF FillTable, Install
<1>4. \A v \in Vector : Installed(v)' = Gate("is_panic", 0)
    BY <1>1 DEF Installed
<1>5. idt' = [v \in Vector |-> Installed(v)']
    BY <1>2, <1>3, <1>4
<1> QED
    BY <1>1, <1>2, <1>3, <1>5 DEF Gates

(* is_install_handler for the lines and the system call.                       *)
LEMMA InstallKeeps ==
    ASSUME Controlled, NEW k \in 12 .. 15, Setup(k), UNCHANGED idtr,
           \/ k = 12 /\ Install({32}, "is_timer", 0)
           \/ k = 13 /\ Install({33}, "is_keyboard", 0)
           \/ k = 14 /\ Install(34 .. 46, "is_8259", 0)
           \/ k = 15 /\ Install({128}, "is_api", 3)
    PROVE  Gates'
<1>1. Stage = k /\ Stage' = k + 1
    BY SetupFacts
<1>2. idt = [v \in Vector |-> Installed(v)] /\ DOMAIN idt = Vector
      /\ \A v \in Vector : idt[v] = Installed(v)
    BY <1>1 DEF Controlled, Gates
<1>3. 34 .. 46 \subseteq Vector /\ {32, 33, 128} \subseteq Vector /\ Vector \subseteq Nat
      /\ Exception = {0, 1, 13, 14}
    BY DEF Vector, Exception
<1>4. idt' = [v \in Vector |-> Installed(v)']
    <2>1. CASE k = 12
        <3>1. idt' = [v \in Vector |-> IF v \in {32} THEN Gate("is_timer", 0) ELSE idt[v]]
            BY <1>2, <1>3, <2>1 DEF Install
        <3>2. \A v \in Vector : Installed(v)' = IF v \in {32} THEN Gate("is_timer", 0) ELSE Installed(v)
            BY <1>1, <1>3, <2>1 DEF Installed
        <3> QED
            BY <1>2, <3>1, <3>2
    <2>2. CASE k = 13
        <3>1. idt' = [v \in Vector |-> IF v \in {33} THEN Gate("is_keyboard", 0) ELSE idt[v]]
            BY <1>2, <1>3, <2>2 DEF Install
        <3>2. \A v \in Vector :
                  Installed(v)' = IF v \in {33} THEN Gate("is_keyboard", 0) ELSE Installed(v)
            BY <1>1, <1>3, <2>2 DEF Installed
        <3> QED
            BY <1>2, <3>1, <3>2
    <2>3. CASE k = 14
        <3>1. idt' = [v \in Vector |-> IF v \in 34 .. 46 THEN Gate("is_8259", 0) ELSE idt[v]]
            BY <1>2, <1>3, <2>3 DEF Install
        <3>2. \A v \in Vector :
                  Installed(v)' = IF v \in 34 .. 46 THEN Gate("is_8259", 0) ELSE Installed(v)
            BY <1>1, <1>3, <2>3 DEF Installed
        <3> QED
            BY <1>2, <3>1, <3>2
    <2>4. CASE k = 15
        <3>1. idt' = [v \in Vector |-> IF v \in {128} THEN Gate("is_api", 3) ELSE idt[v]]
            BY <1>2, <1>3, <2>4 DEF Install
        <3>2. \A v \in Vector : Installed(v)' = IF v \in {128} THEN Gate("is_api", 3) ELSE Installed(v)
            BY <1>1, <1>3, <2>4 DEF Installed
        <3> QED
            BY <1>2, <3>1, <3>2
    <2> QED
        BY <2>1, <2>2, <2>3, <2>4
<1> QED
    BY <1>1, <1>4 DEF Controlled, Gates

(* is_install_exception_handlers.                                             *)
LEMMA InstallExceptionsKeeps ==
    ASSUME Controlled, InstallExceptions
    PROVE  Gates'
<1>1. Setup(11) /\ Stage = 11 /\ Stage' = 12 /\ idtr' = idtr
    BY SetupFacts DEF InstallExceptions
<1>2. \A v \in Vector : idt[v] = Installed(v)
    BY <1>1 DEF Controlled, Gates
<1>3. idt' = [v \in Vector |-> IF v \notin 0 .. 31 THEN idt[v]
                              ELSE Gate(IF v = 1 THEN "is_int1" ELSE "is_int", 0)]
    BY DEF InstallExceptions
<1>4. \A v \in Vector : v \in 0 .. 31 <=> v \in Exception
    BY DEF Vector, Exception
<1>5. \A v \in Vector :
          Installed(v)' = IF v \in Exception THEN Gate(IF v = 1 THEN "is_int1" ELSE "is_int", 0)
                          ELSE Installed(v)
    BY <1>1 DEF Installed
<1>6. idt' = [v \in Vector |-> Installed(v)']
    BY <1>2, <1>3, <1>4, <1>5
<1> QED
    BY <1>1, <1>6 DEF Controlled, Gates

(* At the other steps the gates stay.                                         *)
LEMMA GatesStay ==
    ASSUME Gates, UNCHANGED <<idt, idtr>>,
           Stage' = Stage \/ (Stage \in 1 .. 10 /\ Stage' = Stage + 1)
                          \/ (Stage \in 16 .. 17 /\ Stage' = Stage + 1)
    PROVE  Gates'
<1>1. \A v : Installed(v)' = Installed(v)
    BY DEF Installed
<1> QED
    BY <1>1 DEF Gates

(* Every step of setup_interrupts; after the last one the processor accepts    *)
(* interrupts.                                                                *)
LEMMA SetupKeeps ==
    ASSUME Controlled, SetupInterrupts
    PROVE  Controlled'
<1>1. CASE FillTable
    BY <1>1, SetupFacts, ChipsStay, FillTableKeeps DEF FillTable, Controlled
<1>2. CASE SetupChips
    <2>1. PICK k \in 1 .. 10 : Setup(k) /\ UNCHANGED <<idt, idtr>>
        BY <1>2, WriteFacts DEF SetupChips
    <2>2. Stage = k /\ Stage' = k + 1 /\ Processor'
        BY <2>1, SetupFacts
    <2>3. Gates'
        BY <2>1, <2>2, GatesStay DEF Controlled
    <2> QED
        BY <1>2, <2>2, <2>3, SetupChipsKeeps DEF Controlled
<1>3. CASE InstallExceptions
    BY <1>3, SetupFacts, ChipsStay, InstallExceptionsKeeps DEF InstallExceptions, Controlled
<1>4. CASE InstallTimer
    BY <1>4, SetupFacts, ChipsStay, InstallKeeps DEF InstallTimer, Controlled
<1>5. CASE InstallKeyboard
    BY <1>5, SetupFacts, ChipsStay, InstallKeeps DEF InstallKeyboard, Controlled
<1>6. CASE InstallOthers
    BY <1>6, SetupFacts, ChipsStay, InstallKeeps DEF InstallOthers, Controlled
<1>7. CASE InstallApi
    BY <1>7, SetupFacts, ChipsStay, InstallKeeps DEF InstallApi, Controlled
<1>8. CASE RestoreMask
    <2>1. PICK k \in 1 .. 2 : Setup(15 + k) /\ UNCHANGED <<idt, idtr>>
        BY <1>8 DEF RestoreMask
    <2>2. Stage = 15 + k /\ Stage' = 15 + k + 1 /\ Processor'
        BY <2>1, SetupFacts
    <2>3. Gates'
        BY <2>1, <2>2, GatesStay DEF Controlled
    <2> QED
        BY <1>8, <2>2, <2>3, RestoreMaskKeeps DEF Controlled
<1>9. CASE Sti
    <2>1. /\ at = "setup" /\ step = 18 /\ at' = "main" /\ if' = TRUE /\ step' = 0
          /\ UNCHANGED <<master, slave, idtr, idt, hook, obf, from>>
        BY <1>9 DEF Sti, chips
    <2>2. Stage = 18 /\ Stage' = 18 /\ InService = {} /\ InService' = {}
        BY <2>1 DEF Stage, InService
    <2>3. Gates'
        BY <2>1, <2>2, GatesStay DEF Controlled
    <2>4. Chips'
        BY <2>1, <2>2 DEF Controlled, Chips
    <2>5. Processor'
        BY <2>1 DEF Controlled, Processor
    <2> QED
        BY <2>3, <2>4, <2>5 DEF Controlled
<1> QED
    BY <1>1, <1>2, <1>3, <1>4, <1>5, <1>6, <1>7, <1>8, <1>9 DEF SetupInterrupts

-----------------------------------------------------------------------------
(* main() and the devices. *)

(* cli, popf, and the hook of the scheduler.                                   *)
LEMMA MainKeeps ==
    ASSUME Controlled, Cli \/ Popf \/ InstallHook
    PROVE  Controlled'
<1>1. /\ at = "main" /\ at' = at /\ if' \in BOOLEAN /\ hook' \in BOOLEAN
      /\ UNCHANGED <<master, slave, idtr, idt, obf, from, step>>
    BY DEF Cli, Popf, InstallHook, chips, Controlled, Processor
<1>2. Stage' = Stage /\ InService' = InService
    BY <1>1 DEF Stage, InService
<1>3. Gates'
    BY <1>1, <1>2, GatesStay DEF Controlled
<1>4. Chips'
    BY <1>1, <1>2 DEF Controlled, Chips
<1>5. Processor'
    BY <1>1 DEF Controlled, Processor
<1> QED
    BY <1>3, <1>4, <1>5 DEF Controlled

(* A line is requested.                                                       *)
LEMMA DevicesKeep ==
    ASSUME Controlled, Tick \/ Press \/ Raise
    PROVE  Controlled'
<1>1. PICK s, t \in SUBSET Line :
          master' = [master EXCEPT !.irr = s] /\ slave' = [slave EXCEPT !.irr = t]
    <2>1. /\ master \in Chip /\ slave \in Chip /\ master.irr \in SUBSET Line
          /\ slave.irr \in SUBSET Line
          /\ master = [master EXCEPT !.irr = master.irr] /\ slave = [slave EXCEPT !.irr = slave.irr]
        BY DEF Controlled, Chips, Chip
    <2>2. {Timer, Keyboard, 6, 7} \subseteq Line
        BY DEF Line
    <2>3. CASE Tick
        BY <2>1, <2>2, <2>3 DEF Tick
    <2>4. CASE Press
        BY <2>1, <2>2, <2>4 DEF Press
    <2>5. CASE Raise
        BY <2>1, <2>2, <2>5 DEF Raise
    <2> QED
        BY <2>3, <2>4, <2>5
<1>2. obf' \in BOOLEAN /\ UNCHANGED <<if, idtr, idt, hook, at, from, step>>
    BY DEF Tick, Press, Raise, Controlled, Processor
<1>3. Stage' = Stage /\ InService' = InService
    BY <1>2 DEF Stage, InService
<1>4. Gates'
    BY <1>2, <1>3, GatesStay DEF Controlled
<1>5. master \in Chip /\ slave \in Chip
    BY DEF Controlled, Chips
<1>6. /\ master' \in Chip /\ master'.isr = master.isr /\ master'.imr = master.imr
      /\ master'.base = master.base /\ master'.icw = master.icw
    BY <1>1, <1>5, RequestFacts
<1>7. /\ slave' \in Chip /\ slave'.isr = slave.isr /\ slave'.imr = slave.imr
      /\ slave'.base = slave.base /\ slave'.icw = slave.icw
    BY <1>1, <1>5, RequestFacts
<1>8. Chips'
    BY <1>2, <1>3, <1>6, <1>7 DEF Controlled, Chips
<1>9. Processor'
    BY <1>2 DEF Controlled, Processor
<1> QED
    BY <1>4, <1>8, <1>9 DEF Controlled

-----------------------------------------------------------------------------
(* Interrupts. *)

(* Once setup_interrupts is done, every vector that a chip, a fault or a        *)
(* program can name has its gate.                                             *)
LEMMA GateFacts ==
    ASSUME Controlled, Stage = 18
    PROVE  /\ idt[32] = Gate("is_timer", 0) /\ idt[33] = Gate("is_keyboard", 0)
           /\ idt[39] = Gate("is_8259", 0) /\ idt[128] = Gate("is_api", 3)
           /\ \A v \in Exception : idt[v].routine \in {"is_int", "is_int1"}
           /\ \A v \in Vector : idt[v].dpl = 3 => v = 128
<1>1. \A v \in Vector : idt[v] = Installed(v)
    BY DEF Controlled, Gates
<1>2. {32, 33, 39, 128} \subseteq Vector /\ Exception \subseteq Vector
    BY DEF Vector
<1>3. /\ Installed(32) = Gate("is_timer", 0) /\ Installed(33) = Gate("is_keyboard", 0)
      /\ Installed(39) = Gate("is_8259", 0) /\ Installed(128) = Gate("is_api", 3)
    BY DEF Installed, Exception
<1>4. \A v \in Exception : Installed(v).routine \in {"is_int", "is_int1"}
    BY DEF Installed, Gate
<1>5. \A v \in Vector : Installed(v).dpl = 3 => v = 128
    BY DEF Installed, Gate
<1> QED
    BY <1>1, <1>2, <1>3, <1>4, <1>5

(* A handler begins, with the line in service for which it stands.             *)
LEMMA DeliverKeeps ==
    ASSUME Controlled, at \in {"main", "program"}, NEW v, Deliver(v),
           LidtCompiled => idt[v].routine \in Handlers \ {"is_panic"},
           master' \in Chip, slave' \in Chip,
           master'.imr = master.imr, master'.base = master.base, master'.icw = master.icw,
           slave'.imr = slave.imr, slave'.base = slave.base, slave'.icw = slave.icw,
           LidtCompiled => /\ master'.isr = IF idt[v].routine = "is_timer" THEN {Timer}
                                            ELSE IF idt[v].routine = "is_keyboard" THEN {Keyboard}
                                            ELSE {}
                           /\ slave'.isr = {}
    PROVE  Controlled'
<1>1. /\ at' = IF LidtCompiled THEN idt[v].routine ELSE "reset"
      /\ from' = at /\ if' = FALSE /\ step' = 0
      /\ UNCHANGED <<idtr, idt, hook, obf>>
    BY DEF Deliver, Controlled, Gates, Stage
<1>2. at' \in (Handlers \ {"is_panic"}) \cup {"reset"}
    BY <1>1
<1>3. at # "setup" /\ at' # "setup"
    BY <1>2 DEF Handlers
<1>4. Stage = 18 /\ Stage' = 18
    BY <1>3 DEF Stage
<1>5. Gates'
    BY <1>1, <1>4, GatesStay DEF Controlled
<1>6. at' # "reset" => LidtCompiled /\ at' = idt[v].routine
    BY <1>1
<1>7. InService' = IF at' = "is_timer" THEN {Timer}
                   ELSE IF at' = "is_keyboard" THEN {Keyboard} ELSE {}
    BY <1>1 DEF InService
<1>8. at' # "reset" => master'.isr = InService' /\ slave'.isr = {}
    BY <1>6, <1>7
<1>9. Chips'
    BY <1>4, <1>8 DEF Controlled, Chips
<1>10. /\ if' \in BOOLEAN /\ hook' \in BOOLEAN /\ obf' \in BOOLEAN
       /\ from' \in {"main", "program"} /\ ~ if' /\ step' = 0
    BY <1>1 DEF Controlled, Processor
<1>11. LidtCompiled => at' # "reset"
    BY <1>1 DEF Handlers
<1>12. Processor'
    BY <1>2, <1>3, <1>10, <1>11 DEF Processor
<1> QED
    BY <1>5, <1>9, <1>12 DEF Controlled

(* Outside handlers nothing is in service, and only the timer and the keyboard  *)
(* can interrupt.                                                             *)
LEMMA RequestsAreOpen ==
    ASSUME Controlled, at \in {"main", "program"}
    PROVE  /\ Stage = 18 /\ master.isr = {} /\ slave.isr = {}
           /\ master.base = 32 /\ slave.base = 40
           /\ Requests \subseteq {Timer, Keyboard}
<1>1. Stage = 18 /\ InService = {}
    BY DEF Stage, InService
<1>2. /\ master \in Chip /\ slave \in Chip /\ master.isr = {} /\ slave.isr = {}
      /\ master.base = 32 /\ slave.base = 40
      /\ master.imr = Line \ {Timer, Keyboard} /\ slave.imr = Line
    BY <1>1 DEF Controlled, Chips
<1>3. Pending(slave) = {}
    BY <1>2 DEF Pending, Chip
<1>4. Requests = Pending([master EXCEPT !.irr = @ \cup {}])
    BY <1>3 DEF Requests
<1>5. [master EXCEPT !.irr = @ \cup {}].irr \subseteq Line
      /\ [master EXCEPT !.irr = @ \cup {}].imr = Line \ {Timer, Keyboard}
    BY <1>2 DEF Chip
<1>6. Requests \subseteq {Timer, Keyboard}
    BY <1>4, <1>5 DEF Pending
<1> QED
    BY <1>1, <1>2, <1>6

(* The processor takes an interrupt of a chip, a spurious one included.        *)
LEMMA InterruptKeeps ==
    ASSUME Controlled, (\E n \in Line : Accept(n)) \/ Spurious
    PROVE  Controlled'
<1>1. at \in {"main", "program"}
    BY DEF Accept, Spurious, Interruptible
<1>2. /\ Stage = 18 /\ master.isr = {} /\ slave.isr = {}
      /\ master.base = 32 /\ slave.base = 40 /\ Requests \subseteq {Timer, Keyboard}
    BY <1>1, RequestsAreOpen
<1>3. /\ idt[32].routine = "is_timer" /\ idt[33].routine = "is_keyboard"
      /\ idt[39].routine = "is_8259"
    BY <1>2, GateFacts DEF Gate
<1>4. master \in Chip /\ slave \in Chip
    BY DEF Controlled, Chips
<1>5. CASE Spurious
    <2>1. Deliver(39) /\ master' = master /\ slave' = slave
        BY <1>2, <1>5 DEF Spurious, chips
    <2>2. idt[39].routine \in Handlers \ {"is_panic"}
        BY <1>3 DEF Handlers
    <2> QED
        BY <1>1, <1>2, <1>3, <1>4, <2>1, <2>2, DeliverKeeps
<1>6. CASE \E n \in Line : Accept(n)
    <2>1. PICK n \in Line : Accept(n)
        BY <1>6
    <2>2. n \in {Timer, Keyboard}
        BY <1>2, <2>1, HighestFacts DEF Accept
    <2>3. n # Cascade
        BY <2>2 DEF Timer, Keyboard, Cascade
    <2>4. Deliver(32 + n) /\ slave' = slave /\ master' = Acknowledge(master, n)
        BY <1>2, <2>1, <2>3 DEF Accept
    <2>5. /\ master' \in Chip /\ master'.isr = {n} /\ master'.imr = master.imr
          /\ master'.base = master.base /\ master'.icw = master.icw
        BY <1>2, <1>4, <2>1, <2>4 DEF Acknowledge, Chip
    <2>6. idt[32 + n].routine = IF n = Timer THEN "is_timer" ELSE "is_keyboard"
        BY <1>3, <2>2 DEF Timer, Keyboard
    <2>7. idt[32 + n].routine \in Handlers \ {"is_panic"}
        BY <2>6 DEF Handlers
    <2>8. /\ master'.isr = IF idt[32 + n].routine = "is_timer" THEN {Timer}
                           ELSE IF idt[32 + n].routine = "is_keyboard" THEN {Keyboard} ELSE {}
          /\ slave'.isr = {}
        BY <1>2, <2>2, <2>4, <2>5, <2>6
    <2> QED
        BY <1>1, <1>4, <2>4, <2>5, <2>7, <2>8, DeliverKeeps
<1> QED
    BY <1>5, <1>6

(* A program faults, or calls the system.                                     *)
LEMMA FaultKeeps ==
    ASSUME Controlled, Fault \/ SoftInt
    PROVE  Controlled'
<1>1. at = "program" /\ master' = master /\ slave' = slave
    BY DEF Fault, SoftInt, chips
<1>2. Stage = 18 /\ master.isr = {} /\ slave.isr = {} /\ master \in Chip /\ slave \in Chip
    BY <1>1, RequestsAreOpen DEF Controlled, Chips
<1>3. PICK v \in Exception \cup {128} : Deliver(v)
    <2>1. CASE Fault
        BY <2>1 DEF Fault
    <2>2. CASE SoftInt
        <3>1. PICK u \in Vector : Deliver(IF idt[u].dpl = 3 THEN u ELSE 13)
            BY <2>2 DEF SoftInt
        <3>2. (IF idt[u].dpl = 3 THEN u ELSE 13) \in Exception \cup {128}
            BY <1>2, GateFacts DEF Exception
        <3> QED
            BY <3>1, <3>2
    <2> QED
        BY <2>1, <2>2
<1>4. idt[v].routine \in {"is_int", "is_int1", "is_api"}
    BY <1>2, <1>3, GateFacts DEF Gate
<1>5. /\ idt[v].routine \in Handlers \ {"is_panic"}
      /\ idt[v].routine # "is_timer" /\ idt[v].routine # "is_keyboard"
    BY <1>4 DEF Handlers
<1> QED
    BY <1>1, <1>2, <1>3, <1>5, DeliverKeeps

-----------------------------------------------------------------------------
(* The handlers. *)

(* A handler ends with nothing in service: it returns, a process goes on, or    *)
(* the processor stops.                                                       *)
LEMMA LeaveKeeps ==
    ASSUME Controlled, at \in Handlers, Iret \/ Schedule \/ Halt, obf' \in BOOLEAN,
           master' \in Chip, master'.isr = {},
           master'.imr = master.imr, master'.base = master.base, master'.icw = master.icw,
           slave' = slave
    PROVE  Controlled'
<1>1. /\ at' \in {"main", "program", "halted"} /\ if' \in BOOLEAN
      /\ if' => at' \in {"main", "program"}
      /\ step' = 0 /\ UNCHANGED <<idtr, idt, hook, from>>
    BY DEF Iret, Schedule, Halt, Leave, Controlled, Processor
<1>2. at \notin {"setup", "reset"}
    BY DEF Handlers
<1>3. Stage = 18 /\ Stage' = 18 /\ InService' = {}
    BY <1>1, <1>2 DEF Stage, InService
<1>4. Gates'
    BY <1>1, <1>3, GatesStay DEF Controlled
<1>5. Chips'
    BY <1>2, <1>3 DEF Controlled, Chips
<1>6. Processor'
    BY <1>1 DEF Controlled, Processor, Handlers
<1> QED
    BY <1>4, <1>5, <1>6 DEF Controlled

(* A handler of a line is at its second step, the chips as it wants them.      *)
LEMMA FurtherKeeps ==
    ASSUME Controlled, at \in {"is_timer", "is_keyboard", "is_8259"}, step = 0, Further,
           obf' \in BOOLEAN, master' \in Chip, master'.isr = InService',
           master'.imr = master.imr, master'.base = master.base, master'.icw = master.icw,
           slave' = slave
    PROVE  Controlled'
<1>1. step' = 1 /\ UNCHANGED <<if, idtr, idt, hook, at, from>>
    BY DEF Further
<1>2. Stage = 18 /\ Stage' = 18
    BY <1>1 DEF Stage
<1>3. Gates'
    BY <1>1, <1>2, GatesStay DEF Controlled
<1>4. Chips'
    BY <1>2 DEF Controlled, Chips
<1>5. Processor'
    BY <1>1 DEF Controlled, Processor
<1> QED
    BY <1>3, <1>4, <1>5 DEF Controlled

(* Every way of every handler.                                                *)
LEMMA HandlerKeeps ==
    ASSUME Controlled, Handler
    PROVE  Controlled'
<1>1. /\ at \in Handlers /\ at \notin {"setup", "reset"}
    BY DEF Handler, IsTimer, IsKeyboard, Is8259, IsApi, IsInt, IsInt1, Handlers
<1>2. /\ master \in Chip /\ slave \in Chip /\ obf \in BOOLEAN
      /\ master.isr = InService /\ slave.isr = {}
    BY <1>1 DEF Controlled, Chips, Processor
<1>3. Timer \in Line /\ Keyboard \in Line
    BY DEF Line
<1>4. CASE IsTimer
    <2>1. CASE step = 0 /\ master' = Eoi(master) /\ Further /\ UNCHANGED <<slave, obf>>
        <3>1. InService = {Timer} /\ InService' = {}
            BY <1>4, <2>1 DEF IsTimer, Further, InService
        <3>2. /\ master' \in Chip /\ master'.isr = {} /\ master'.imr = master.imr
              /\ master'.base = master.base /\ master'.icw = master.icw
            BY <1>2, <1>3, <2>1, <3>1, EoiFacts
        <3> QED
            BY <1>2, <1>4, <2>1, <3>1, <3>2, FurtherKeeps DEF IsTimer
    <2>2. CASE step = 1 /\ (Iret \/ Schedule) /\ UNCHANGED <<chips, obf>>
        <3>1. InService = {}
            BY <1>4, <2>2 DEF IsTimer, InService
        <3>2. master' = master /\ slave' = slave
            BY <2>2 DEF chips
        <3> QED
            BY <1>1, <1>2, <2>2, <3>1, <3>2, LeaveKeeps
    <2> QED
        BY <1>4, <2>1, <2>2 DEF IsTimer
<1>5. CASE IsKeyboard
    <2>1. InService = {Keyboard} /\ at = "is_keyboard"
        BY <1>5 DEF IsKeyboard, InService
    <2>2. CASE step = 0
        <3>1. /\ obf' = FALSE /\ Further /\ slave' = slave
              /\ master' = [master EXCEPT !.irr = master.irr \ {Keyboard}]
            BY <1>5, <2>2 DEF IsKeyboard
        <3>2. InService' = {Keyboard}
            BY <2>1, <3>1 DEF Further, InService
        <3>3. master.irr \ {Keyboard} \in SUBSET Line
            BY <1>2 DEF Chip
        <3>4. /\ master' \in Chip /\ master'.isr = master.isr /\ master'.imr = master.imr
              /\ master'.base = master.base /\ master'.icw = master.icw
            BY <1>2, <3>1, <3>3, RequestFacts
        <3> QED
            BY <1>2, <2>1, <2>2, <3>1, <3>2, <3>4, FurtherKeeps
    <2>3. CASE step = 1
        <3>1. master' = Eoi(master) /\ Iret /\ slave' = slave /\ obf' = obf
            BY <1>5, <2>3 DEF IsKeyboard
        <3>2. /\ master' \in Chip /\ master'.isr = {} /\ master'.imr = master.imr
              /\ master'.base = master.base /\ master'.icw = master.icw
            BY <1>2, <1>3, <2>1, <3>1, EoiFacts
        <3> QED
            BY <1>1, <1>2, <3>1, <3>2, LeaveKeeps
    <2> QED
        BY <1>5, <2>2, <2>3 DEF IsKeyboard
<1>6. CASE Is8259
    <2>1. InService = {} /\ at = "is_8259"
        BY <1>6 DEF Is8259, InService
    <2>2. Eoi(master) = master /\ Eoi(slave) = slave
        BY <1>2, <2>1, EoiFacts
    <2>3. CASE step = 0
        <3>1. master' = master /\ Further /\ slave' = slave /\ obf' = obf
            BY <1>6, <2>2, <2>3 DEF Is8259
        <3>2. InService' = {}
            BY <2>1, <3>1 DEF Further, InService
        <3> QED
            BY <1>2, <2>1, <2>3, <3>1, <3>2, FurtherKeeps
    <2>4. CASE step = 1
        <3>1. master' = master /\ Iret /\ slave' = slave /\ obf' = obf
            BY <1>6, <2>2, <2>4 DEF Is8259
        <3> QED
            BY <1>1, <1>2, <2>1, <3>1, LeaveKeeps
    <2> QED
        BY <1>6, <2>3, <2>4 DEF Is8259
<1>7. CASE IsApi \/ IsInt \/ IsInt1
    <2>1. InService = {} /\ master' = master /\ slave' = slave /\ obf' = obf
        BY <1>7 DEF IsApi, IsInt, IsInt1, InService, chips
    <2>2. Iret \/ Schedule \/ Halt
        BY <1>7 DEF IsApi, IsInt, IsInt1, Unhandled
    <2> QED
        BY <1>1, <1>2, <2>1, <2>2, LeaveKeeps
<1> QED
    BY <1>4, <1>5, <1>6, <1>7 DEF Handler

-----------------------------------------------------------------------------
(* The steps of the kernel. *)

(* Whatever happens, interrupts stay under control.                           *)
LEMMA ControlKeeps ==
    ASSUME Controlled, Next \/ UNCHANGED vars
    PROVE  Controlled'
<1>1. CASE Next
    BY <1>1, SetupKeeps, MainKeeps, DevicesKeep, InterruptKeeps, FaultKeeps, HandlerKeeps DEF Next
<1>2. CASE UNCHANGED vars
    <2>1. UNCHANGED <<master, slave, if, idtr, idt, hook, obf, at, from, step>>
        BY <1>2 DEF vars
    <2>2. Stage' = Stage /\ InService' = InService
        BY <2>1 DEF Stage, InService
    <2>3. Gates'
        BY <2>1, <2>2, GatesStay DEF Controlled
    <2>4. Chips'
        BY <2>1, <2>2 DEF Controlled, Chips
    <2>5. Processor'
        BY <2>1 DEF Controlled, Processor
    <2> QED
        BY <2>3, <2>4, <2>5 DEF Controlled
<1> QED
    BY <1>1, <1>2

(* The order of main(): the descriptors it needs come before the interrupts,    *)
(* and before the processes.                                                  *)
LEMMA OrderKeeps ==
    ASSUME IInv, KNext
    PROVE  InOrder' /\ Hooked'
<1>1. Len(Gdt!SetupGdt) = 18 /\ Len(Gdt!Calls) = 24 /\ done \in 0 .. 24
    BY CallsInOrder DEF IInv, Filled
<1>2. CASE Describe
    <2>1. at' = at /\ step' = step /\ hook' = hook
        BY <1>2 DEF Describe, vars
    <2>2. done' = done + 1 /\ done < 24
        BY <1>1, <1>2 DEF Describe, Gdt!Next
    <2> QED
        BY <1>1, <2>1, <2>2 DEF IInv, InOrder, Hooked
<1>3. CASE Next /\ UNCHANGED table /\ Gdt!GdtReady /\ (hook' => Gdt!ProcessReady)
    <2>1. done' = done
        BY <1>3 DEF table
    <2>2. done >= 18 /\ (hook' => done = 24)
        BY <1>1, <1>3 DEF Gdt!GdtReady, Gdt!ProcessReady
    <2> QED
        BY <2>1, <2>2 DEF InOrder, Hooked
<1> QED
    BY <1>2, <1>3 DEF KNext

(* A step of the kernel keeps the invariant.                                   *)
LEMMA StepKeepsIInv ==
    ASSUME IInv, [KNext]_<<vars, table>>
    PROVE  IInv'
<1>1. CASE KNext
    <2>1. Controlled'
        BY <1>1, ControlKeeps DEF KNext, Describe, IInv
    <2>2. Filled'
        <3>1. CASE Describe
            BY <3>1, FilledKeeps DEF Describe, IInv
        <3>2. CASE UNCHANGED table
            BY <3>2 DEF table, IInv, Filled, Content, Segment, TaskState
        <3> QED
            BY <1>1, <3>1, <3>2 DEF KNext
    <2> QED
        BY <1>1, <2>1, <2>2, OrderKeeps DEF IInv
<1>2. CASE UNCHANGED <<vars, table>>
    <2>1. Controlled'
        BY <1>2, ControlKeeps DEF IInv
    <2>2. Filled'
        BY <1>2 DEF table, IInv, Filled, Content, Segment, TaskState
    <2>3. InOrder' /\ Hooked'
        BY <1>2 DEF table, vars, IInv, InOrder, Hooked
    <2> QED
        BY <2>1, <2>2, <2>3 DEF IInv
<1> QED
    BY <1>1, <1>2

(* What the BIOS and the loader leave.                                        *)
LEMMA InitIInv == KInit => IInv
<1> SUFFICES ASSUME KInit PROVE IInv
    OBVIOUS
<1>1. at = "setup" /\ step = 0 /\ from = "main" /\ if = FALSE /\ hook = FALSE /\ idtr = "boot"
      /\ obf \in BOOLEAN /\ DOMAIN idt = {}
    BY DEF KInit, Init
<1>2. Stage = 0 /\ InService = {}
    BY <1>1 DEF Stage, InService
<1>3. Gates
    BY <1>1, <1>2 DEF Gates
<1>4. /\ master \in Chip /\ master.isr = {} /\ master.icw = 0
      /\ slave \in Chip /\ slave.isr = {} /\ slave.icw = 0
    BY DEF KInit, Init, Chip
<1>5. Chips
    BY <1>2, <1>4 DEF Chips
<1>6. Processor
    <2>1. at \in (Handlers \ {"is_panic"}) \cup {"setup", "main", "program", "halted", "reset"}
        BY <1>1
    <2>2. step \in 0 .. 18 /\ from \in {"main", "program"} /\ at # "reset"
        BY <1>1
    <2> QED
        BY <1>1, <2>1, <2>2 DEF Processor
<1>7. /\ gdt = [i \in Gdt!Index |-> Gdt!Cleared]
      /\ gd_nentries = 0 /\ gdtr = -1 /\ tr = 0 /\ done = 0
    BY DEF KInit, Gdt!Init
<1>8. \A i \in Gdt!Index : Content(i) = Gdt!Cleared
    BY <1>7 DEF Content, Segment, TaskState
<1>9. Filled
    BY <1>7, <1>8 DEF Filled
<1> QED
    BY <1>1, <1>3, <1>5, <1>6, <1>9 DEF IInv, Controlled, InOrder, Hooked

-----------------------------------------------------------------------------
(* Theorems. *)

(* The inductive invariant holds in every reachable state: the gates and the    *)
(* chips are as far as setup_interrupts has come, the table as far as its       *)
(* calls, and the hook is set only when the table is complete.                *)
THEOREM Invariance == KSpec => []IInv
<1>1. KInit => IInv
    BY InitIInv
<1>2. IInv /\ [KNext]_<<vars, table>> => IInv'
    BY StepKeepsIInv
<1> QED
    BY <1>1, <1>2, PTL DEF KSpec

(* Types: the chips hold lines, the gates handlers, the descriptors bytes and   *)
(* words, and gd_add_entry stays inside the table.                            *)
THEOREM TypeCorrect == KSpec => []KernelTypeOK
<1>1. IInv => KernelTypeOK
    <2> SUFFICES ASSUME IInv PROVE KernelTypeOK
        OBVIOUS
    <2>1. idtr \in {"boot", "kernel"} /\ DOMAIN idt \in {{}, Vector}
        BY DEF IInv, Controlled, Gates
    <2>2. ASSUME NEW v \in DOMAIN idt PROVE idt[v] \in [routine : Handlers, dpl : {0, 3}]
        <3>1. idt[v] = Installed(v)
            BY DEF IInv, Controlled, Gates
        <3> QED
            BY <3>1 DEF Installed, Gate, Handlers
    <2>3. TypeOK
        BY <2>1, <2>2 DEF TypeOK, IInv, Controlled, Chips, Processor
    <2> QED
        BY <2>3, FilledTypes DEF KernelTypeOK, IInv
<1> QED
    BY <1>1, Invariance, PTL

(* No line is in service but the one whose handler runs, so that no handler     *)
(* that never returns, no spurious interrupt and no halt blocks a line.        *)
THEOREM InServiceCorrect == KSpec => []NothingLeftInService
<1>1. IInv => NothingLeftInService
    BY DEF IInv, Controlled, Chips, NothingLeftInService
<1> QED
    BY <1>1, Invariance, PTL

(* No interrupt, fault or system call leads to is_panic.                       *)
THEOREM PanicCorrect == KSpec => []NoInterruptPanics
<1>1. IInv => NoInterruptPanics
    BY DEF IInv, Controlled, Processor, NoInterruptPanics
<1> QED
    BY <1>1, Invariance, PTL

(* Every selector the kernel uses lies in the table and leads to the segment    *)
(* it is meant for, wherever pr_tss lies.                                     *)
THEOREM SegmentsCorrect == KSpec => []SegmentsAreInForce
<1>1. IInv => SegmentsAreInForce
    BY SegmentsFromFilled DEF IInv
<1> QED
    BY <1>1, Invariance, PTL

=============================================================================
