----------------------------- MODULE Descriptors ------------------------------
(***************************************************************************)
(* The global descriptor table (gdt.cpp, gdt.s) and its users, setup_gdt    *)
(* and setup_process (process.cpp).  A descriptor scatters its base and its *)
(* limit over the entry, and the limit shares a byte with flags, so that a  *)
(* setter must keep what another one has written.                           *)
(*                                                                         *)
(* Values of 32 bits are pairs of 16-bit words, high word first.            *)
(***************************************************************************)
EXTENDS Integers, Sequences

CONSTANTS
    GD_MAX_ENTRIES, \* a natural number
    TssBase         \* the address of pr_tss

Byte == {x \in Nat : x < 256}
Word == {x \in Nat : x < 65536}

VARIABLES
    gdt,        \* struct gdt_entry
    gd_nentries,
    gdtr,       \* the limit the processor uses, -1 while it has another table
    tr,         \* the task register, 0 before ltr
    done        \* calls of setup_gdt and setup_process already made

vars == <<gdt, gd_nentries, gdtr, tr, done>>

Index == 0 .. GD_MAX_ENTRIES - 1
Entry == [limit_low : Word, base_low : Word, base_mid : Byte, base_high : Byte,
          flags1 : Byte, flags2 : Byte]

Cleared == [limit_low |-> 0, base_low |-> 0, base_mid |-> 0, base_high |-> 0,
            flags1 |-> 0, flags2 |-> 0]

-----------------------------------------------------------------------------
(* gdt.cpp.  High(x) and Low(x) are the halves of a byte under a mask.        *)

High(x) == x - (x % 16)
Low(x)  == x % 16

SetBase(e, b) ==
    [e EXCEPT !.base_low = b[2], !.base_mid = b[1] % 256, !.base_high = b[1] \div 256]

SetLimit(e, l) == [e EXCEPT !.limit_low = l[2], !.flags2 = High(@) + Low(l[1])]

SetTss(e, s) ==
    [e EXCEPT !.flags2 = Low(@) + s.gran * 128 + s.avl * 16,
              !.flags1 = s.present * 128 + s.dpl * 32 + 8 + s.busy * 2 + 1]

(* Mutant: flags2 is overwritten. *)
SetSegmentOver(e, s) ==
    [e EXCEPT !.flags2 = s.gran * 128 + 64 + s.avl * 16,
              !.flags1 = s.present * 128 + s.dpl * 32 + s.dtype * 16 + s.type]

SetSegment(e, s) ==
    [e EXCEPT !.flags2 = Low(@) + s.gran * 128 + 64 + s.avl * 16,
              !.flags1 = s.present * 128 + s.dpl * 32 + s.dtype * 16 + s.type]

(* The calls of setup_gdt, then those of setup_process.                       *)
Flat == [base |-> <<0, 0>>, limit |-> <<65535, 65535>>]

Segment(i, dpl, type) ==
    LET s == [gran |-> 1, avl |-> 0, present |-> 1, dpl |-> dpl, dtype |-> 1, type |-> type]
    IN  << <<"add">>, <<"base", i, Flat.base>>, <<"limit", i, Flat.limit>>, <<"segment", i, s>> >>

Tss == [gran |-> 0, avl |-> 1, present |-> 1, dpl |-> 3, busy |-> 0]

SetupGdt ==
    << <<"add">> >> \o Segment(1, 0, 10) \o Segment(2, 0, 2) \o Segment(3, 3, 10)
    \o Segment(4, 3, 2) \o << <<"reload">> >>

SetupProcess ==
    << <<"add">>, <<"base", 5, TssBase>>, <<"limit", 5, <<0, 103>>>>, <<"tss", 5, Tss>>,
       <<"reload">>, <<"ltr", 5>> >>

Calls == SetupGdt \o SetupProcess

Init ==
    /\ gdt = [i \in Index |-> Cleared]
    /\ gd_nentries = 0 /\ gdtr = -1 /\ tr = 0 /\ done = 0

(* gd_add_entry does not compare with GD_MAX_ENTRIES.                         *)
Add ==
    /\ gdt' = [gdt EXCEPT ![gd_nentries] = Cleared]
    /\ gd_nentries' = gd_nentries + 1
    /\ UNCHANGED <<gdtr, tr>>

Set(i, e) == gdt' = [gdt EXCEPT ![i] = e] /\ UNCHANGED <<gd_nentries, gdtr, tr>>

(* The 16-bit limit of gd_reload; ltr marks the descriptor busy.              *)
Reload == gdtr' = 8 * gd_nentries - 1 /\ UNCHANGED <<gdt, gd_nentries, tr>>

Ltr(i) ==
    /\ tr' = 8 * i
    /\ gdt' = [gdt EXCEPT ![i].flags1 = IF (@ \div 2) % 2 = 0 THEN @ + 2 ELSE @]
    /\ UNCHANGED <<gd_nentries, gdtr>>

Call(c) ==
    \/ c[1] = "add"     /\ Add
    \/ c[1] = "base"    /\ Set(c[2], SetBase(gdt[c[2]], c[3]))
    \/ c[1] = "limit"   /\ Set(c[2], SetLimit(gdt[c[2]], c[3]))
    \/ c[1] = "segment" /\ Set(c[2], SetSegment(gdt[c[2]], c[3]))
    \/ c[1] = "tss"     /\ Set(c[2], SetTss(gdt[c[2]], c[3]))
    \/ c[1] = "reload"  /\ Reload
    \/ c[1] = "ltr"     /\ Ltr(c[2])

Next ==
    /\ done < Len(Calls) /\ done' = done + 1
    /\ Call(Calls[done + 1])

GdtReady     == done >= Len(SetupGdt)
ProcessReady == done = Len(Calls)

-----------------------------------------------------------------------------
(* How the processor reads a descriptor. *)

Base(e)    == <<e.base_high * 256 + e.base_mid, e.base_low>>
Limit(e)   == <<Low(e.flags2), e.limit_low>>
Pages(e)   == e.flags2 \div 128 = 1
Present(e) == e.flags1 \div 128 = 1
Dpl(e)     == (e.flags1 \div 32) % 4
System(e)  == (e.flags1 \div 16) % 2 = 0
Type(e)    == Low(e.flags1)

IsCode(e, dpl) == Present(e) /\ ~ System(e) /\ Type(e) \div 8 = 1 /\ Dpl(e) = dpl
IsData(e, dpl) == Present(e) /\ ~ System(e) /\ Type(e) \in {2, 3} /\ Dpl(e) = dpl
IsTss(e)       == Present(e) /\ System(e) /\ Type(e) \in {9, 11}
IsFlat(e)      == Base(e) = <<0, 0>> /\ Limit(e) = <<15, 65535>> /\ Pages(e)

(* A selector in use must lie within the table the processor knows.           *)
Loadable(sel) == sel % 8 \in {0, 3} /\ (sel \div 8) * 8 + 7 <= gdtr

TypeOK ==
    /\ gdt \in [Index -> Entry]
    /\ gd_nentries \in 0 .. GD_MAX_ENTRIES
    /\ gdtr \in {-1} \cup Word /\ tr \in {8 * i : i \in Index}
    /\ done \in 0 .. Len(Calls)

=============================================================================
