-------------------------------- MODULE Loading --------------------------------
(***************************************************************************)
(* From the boot sector to the first use of the disk by what it has loaded.  *)
(* bootsect.s loads the kernel, whose main() looks for ATA drives and reads  *)
(* an application; stage1.s loads the second stage, which follows the MBR    *)
(* and the boot record of the first partition to its root directory          *)
(* (stage2.s, fat.s).  What either does after a sector the BIOS could not    *)
(* read, and did not stop for, is not modelled.                             *)
(***************************************************************************)
EXTENDS AtaDriver

CONSTANTS
    Failures,   \* bound: reads of the BIOS that fail, a natural number
    Disks       \* what is on the disk: records with the fields used below

ASSUME FailuresAssumption == Failures \in Nat
ASSUME DisksAssumption ==
    \A d \in Disks : {d.first, d.size, d.tables, d.reserved} \subseteq Nat

VARIABLES
    bios,               \* the position in the loader of the boot sector
    lba, chs, es, bx, memory, failed,
    disk,               \* a member of Disks
    first_sector        \* of the first partition

loader == IF driver = "kernel" THEN "bootsect" ELSE "stage1"
Bios   == INSTANCE BiosLoader WITH pc <- bios

loading == <<bios, lba, chs, es, bx, memory, failed>>
loadingVars == <<vars, loading, disk, first_sector>>

LoadingInit == Init /\ Bios!Init /\ disk \in Disks /\ first_sector = 0

Load == UNCHANGED <<vars, disk, first_sector>> /\ Bios!Next

Loaded == bios = "loaded" /\ failed = 0

(* setup_ata_devices and the calls of ata_read.                               *)
KernelReads ==
    /\ Loaded /\ driver = "kernel" /\ reads < MaxReads
    /\ \E s \in Sectors, n \in Lengths : Request(s, n)
    /\ UNCHANGED <<loading, disk, first_sector>>

DriverWorks == Loaded /\ Working /\ UNCHANGED <<loading, disk, first_sector>>

(* A field of the sector read last; the last word holds the one of the MBR,    *)
(* the first those of the boot record.                                        *)
Field(k, value) == IF IsWord(k) THEN value ELSE 0

(* Mutant: the FATs are counted once. *)
DirectorySectorOneFat(size, tables, reserved) == first_sector + (((size % 256) + reserved) % 65536)

(* mul dl multiplies the low bytes, add ax has 16 bits.                       *)
DirectorySector(size, tables, reserved) ==
    first_sector + (((size % 256) * tables + reserved) % 65536)

Stage2Reads ==
    /\ Loaded /\ driver = "stage2" /\ pc = "idle"
    /\ \/ reads = 0 /\ Request(0, W) /\ UNCHANGED first_sector
       \/ reads = 1 /\ first_sector' = Field(W, disk.first) /\ Request(first_sector', W)
       \/ /\ reads = 2 /\ UNCHANGED first_sector
          /\ Request(DirectorySector(Field(1, disk.size), Field(1, disk.tables),
                                     Field(1, disk.reserved)), W)
    /\ UNCHANGED <<loading, disk>>

LoadingNext == Load \/ DriverWorks \/ KernelReads \/ Stage2Reads

(* The drive makes progress, and the driver is not interrupted for ever.  A    *)
(* request is the caller's affair.                                            *)
LoadingSpec ==
    LoadingInit /\ [][LoadingNext]_loadingVars /\ WF_loadingVars(DriverWorks)

-----------------------------------------------------------------------------
(* Properties. *)

LoadingTypeOK == TypeOK /\ Bios!TypeOK /\ disk \in Disks /\ first_sector \in Nat

(* See BiosLoader: the image is in one piece when the boot sector jumps to it. *)
ImageInPlace == Bios!ImageInPlace

(* A disk stage2 can cope with: FATs of less than 256 sectors, that end before   *)
(* 65536 sectors of the partition and before the sectors of 24 bits do.        *)
Behind(d) == d.reserved + d.tables * d.size
Reachable(d) == d.size < 256 /\ Behind(d) < 65536 /\ d.first + Behind(d) < 256 * 65536

(* The second stage ends with the first sector of the root directory in its    *)
(* buffer, at whatever pace the drive delivers: behind the reserved sectors     *)
(* and all FATs.                                                              *)
FindsTheDirectory ==
    driver = "stage2" /\ reads = 3 /\ pc = "idle" /\ Primary \in attached
    /\ Reachable(disk) =>
        /\ sector = disk.first + Behind(disk)
        /\ Len(buffer) = W /\ \A k \in 1 .. W : IsWord(k)

=============================================================================
