------------------------------ MODULE BiosLoader ------------------------------
(***************************************************************************)
(* The loops that read sectors through the BIOS: bootsect.s, and stage1.s   *)
(* of the experimental loader.  A sector is named by its LBA in the program *)
(* and by cylinder, head and sector in the call; the place in memory is a   *)
(* segment and an offset, of 16 bits each.                                  *)
(***************************************************************************)
EXTENDS Integers

CONSTANT Failures   \* bound: reads that fail, a natural number

sectors_per_track == 18
number_of_heads   == 2
Word == {x \in Nat : x < 65536}

VARIABLES
    loader,     \* which of the two: "bootsect" or "stage1"
    pc,         \* the call or statement to be executed
    lba,
    chs,        \* cylinder, head, sector: bytes of the boot sector
    es, bx,     \* where the BIOS puts the sector
    memory,     \* by linear address: the sectors read, by cylinder, head, sector
    failed      \* reads the BIOS has reported as failed

vars == <<loader, pc, lba, chs, es, bx, memory, failed>>

First == IF loader = "bootsect" THEN 9 ELSE 1
Last  == IF loader = "bootsect" THEN 50 ELSE 7      \* the one that ends the loop
Start == IF loader = "bootsect" THEN 4096 ELSE 2016 \* the segment: 0x1000, 0x07E0

Init ==
    /\ loader \in {"bootsect", "stage1"}
    /\ pc = "lba_to_chs"
    /\ lba = First
    /\ chs = [cylinder |-> 1, head |-> 1, sector |-> 1]     \* as assembled
    /\ es = Start /\ bx = 0
    /\ memory = [a \in {} |-> chs]
    /\ failed = 0

(* Mutant: sectors are counted from 0 (the dropped inc dx). *)
ChsFromZero(x) ==
    LET track == x \div sectors_per_track IN
    [cylinder |-> (track \div number_of_heads) % 256,
     head     |-> track % number_of_heads,
     sector   |-> x % sectors_per_track]

Chs(x) ==
    LET track == x \div sectors_per_track IN
    [cylinder |-> (track \div number_of_heads) % 256,
     head     |-> track % number_of_heads,
     sector   |-> (x % sectors_per_track) + 1]

LbaToChs ==
    /\ pc = "lba_to_chs" /\ pc' = "offset"
    /\ chs' = Chs(lba)
    /\ UNCHANGED <<lba, es, bx, memory, failed>>

(* bootsect computes the offset; stage1 moves the segment, in Advance.        *)
SetOffset ==
    /\ pc = "offset" /\ pc' = "load_sector"
    /\ bx' = IF loader = "bootsect" THEN ((lba - 9) * 512) % 65536 ELSE 0
    /\ UNCHANGED <<lba, chs, es, memory, failed>>

(* The carry flag, by which the BIOS reports a failure, is not looked at.     *)
LoadSector ==
    /\ pc = "load_sector" /\ pc' = "advance"
    /\ \/ /\ memory' = [a \in DOMAIN memory \cup {es * 16 + bx} |->
                          IF a = es * 16 + bx THEN chs ELSE memory[a]]
          /\ UNCHANGED failed
       \/ failed < Failures /\ failed' = failed + 1 /\ UNCHANGED memory
    /\ UNCHANGED <<lba, chs, es, bx>>

(* Mutant: the loop ends behind the last sector, not at it (ja for jne). *)
AdvancePast ==
    /\ pc = "advance"
    /\ es' = IF loader = "stage1" THEN (es + 32) % 65536 ELSE es
    /\ lba' = (lba + 1) % 65536
    /\ pc' = IF lba' > Last THEN "loaded" ELSE "lba_to_chs"
    /\ UNCHANGED <<chs, bx, memory, failed>>

Advance ==
    /\ pc = "advance"
    /\ es' = IF loader = "stage1" THEN (es + 32) % 65536 ELSE es
    /\ lba' = (lba + 1) % 65536
    /\ pc' = IF lba' = Last THEN "loaded" ELSE "lba_to_chs"
    /\ UNCHANGED <<chs, bx, memory, failed>>

Next == (LbaToChs \/ SetOffset \/ LoadSector \/ Advance) /\ UNCHANGED loader

Spec == Init /\ [][Next]_vars

-----------------------------------------------------------------------------
(* Properties. *)

TypeOK ==
    /\ loader \in {"bootsect", "stage1"}
    /\ pc \in {"lba_to_chs", "offset", "load_sector", "advance", "loaded"}
    /\ lba \in First .. Last
    /\ chs \in [cylinder : 0 .. 255, head : 0 .. number_of_heads - 1, sector : 1 .. sectors_per_track]
    /\ es \in Word /\ bx \in Word
    /\ failed \in 0 .. Failures

(* The sector a disk of this geometry delivers.                               *)
Denoted(c) == (c.cylinder * number_of_heads + c.head) * sectors_per_track + c.sector - 1

Place(x) == Start * 16 + (x - First) * 512

(* The image lies in memory in one piece and in order: each sector that was    *)
(* read at its place, and no sector at another.  Without a failure all of it   *)
(* is there when the loader jumps to it; a failure leaves a hole.             *)
ImageInPlace ==
    /\ \A a \in DOMAIN memory : a = Place(Denoted(memory[a]))
    /\ pc = "loaded" /\ failed = 0 =>
        \A x \in First .. Last - 1 : Place(x) \in DOMAIN memory

=============================================================================
