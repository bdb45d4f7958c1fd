------------------------------- MODULE AtaDriver -------------------------------
(***************************************************************************)
(* Reading from an ATA disk by polling: ata_pio_read of the kernel          *)
(* (ata.cpp) and ata_read_sectors of the second stage of the experimental   *)
(* loader (bootng/disk.s), against a drive that takes its time, or fails.   *)
(* Both use the registers of the primary controller.                        *)
(*                                                                         *)
(* A drive hands out a sector word by word once it asserts DRQ; between the  *)
(* sectors of one command it may be busy again.  What it has to say in the  *)
(* other status bits while BSY is set, or in the data register without DRQ, *)
(* means nothing.                                                          *)
(***************************************************************************)
EXTENDS Integers, Sequences

CONSTANTS
    W,          \* words of a sector: 256
    Machines,   \* <<attached, tidy, gaps>>: what there is, see VARIABLES
    Sectors,    \* sectors callers of the kernel's driver ask for
    Lengths,    \* words they ask for
    MaxReads,   \* bound: reads
    Garbage     \* a word that is not from the disk

ASSUME SizeAssumption    == W \in Nat \ {0} /\ Sectors \subseteq Nat /\ MaxReads \in Nat
ASSUME LengthsAssumption == Lengths \subseteq Nat \ {0}

VARIABLES
    driver,     \* "kernel" or "stage2"
    attached,   \* the drives there are
    tidy,       \* the drive: no DRQ while BSY
    gaps,       \* the drive: BSY between sectors
    list,       \* ata_device_list
    probe,      \* drives setup_ata_controller has still to look for
    drive,      \* the first drive: state, next sector and word, sectors left
    pc,         \* what the driver is at
    sector, length,     \* what it was asked for
    fresh,      \* nothing of an earlier command was left to deliver then
    buffer,
    reads

nature == <<driver, attached, tidy, gaps>>
vars   == <<driver, attached, tidy, gaps, list, probe, drive, pc, sector, length, fresh, buffer,
          reads>>

(* Controllers by their port, and the two drives of each.                     *)
Drive   == {496, 368} \X {0, 1}
Primary == <<496, 0>>
Probes  == << <<496, 0>>, <<496, 1>>, <<368, 0>>, <<368, 1>> >>

ASSUME MachinesAssumption == Machines \subseteq (SUBSET Drive) \X BOOLEAN \X BOOLEAN

Init ==
    /\ driver \in {"kernel", "stage2"}
    /\ \E m \in Machines : attached = m[1] /\ tidy = m[2] /\ gaps = m[3]
    /\ list = <<>>
    /\ probe = IF driver = "kernel" THEN Probes ELSE <<>>
    /\ drive = [state |-> "idle", lba |-> 0, word |-> 0, left |-> 0]
    /\ pc = "idle" /\ sector = 0 /\ length = 0 /\ fresh = TRUE /\ buffer = <<>> /\ reads = 0

-----------------------------------------------------------------------------
(* The drive. *)

(* A sector is ready, or cannot be read.                                      *)
Ready ==
    /\ drive.state = "busy"
    /\ \E s \in {"drq", "error"} : drive' = [drive EXCEPT !.state = s]
    /\ UNCHANGED <<nature, list, probe, pc, sector, length, fresh, buffer, reads>>

Quiet == drive.state \in {"idle", "error"}

(* READ SECTORS: a count of 0 stands for 256.  A drive that has a sector to     *)
(* deliver obeys, or ignores the command.                                     *)
Command(x, count) ==
    IF Primary \in attached
    THEN {[state |-> "busy", lba |-> x, word |-> 0, left |-> IF count = 0 THEN 256 ELSE count]}
         \cup (IF Quiet THEN {} ELSE {drive})
    ELSE {drive}

(* A read of the status register.  The second drive of a controller answers    *)
(* for a missing first one with zeros; without a controller the bus floats.    *)
Status ==
    IF Primary \in attached
    THEN {[bsy |-> drive.state = "busy", drq |-> d] :
              d \in IF drive.state = "busy" /\ ~ tidy THEN BOOLEAN ELSE {drive.state = "drq"}}
    ELSE LET floats == \A d \in attached : d[1] # Primary[1]
         IN  {[bsy |-> floats, drq |-> floats]}

(* A read of the data register: the word, and what becomes of the drive.      *)
Data == IF drive.state = "drq" THEN <<drive.lba, drive.word>> ELSE Garbage

AfterWord ==
    IF drive.state # "drq" THEN drive
    ELSE IF drive.word + 1 < W THEN [drive EXCEPT !.word = @ + 1]
    ELSE [lba |-> drive.lba + 1, word |-> 0, left |-> drive.left - 1,
          state |-> IF drive.left = 1 THEN "idle" ELSE IF gaps THEN "busy" ELSE "drq"]

-----------------------------------------------------------------------------
(* setup_ata_devices: the head of the list is the last drive found. *)

Detect ==
    /\ probe # <<>> /\ probe' = Tail(probe)
    /\ list' = IF Head(probe) \in attached THEN <<Head(probe)>> \o list ELSE list
    /\ UNCHANGED <<nature, drive, pc, sector, length, fresh, buffer, reads>>

(* The registers a driver writes, put together by the drive.                  *)
Bits(x, n) == (x \div n) % 256

(* ata.cpp:128 puts bits 15-8 where 23-16 belong, and 130 clears 27-24 and the *)
(* number of the device, that 129 has set.                                    *)
KernelLba(s) == Bits(s, 1) + 256 * Bits(s, 256) + 65536 * Bits(s, 256)

(* Mutant: the same in the loader. *)
Stage2LbaShort(s) == Bits(s, 1) + 256 * Bits(s, 256) + 65536 * Bits(s, 256)

Stage2Lba(s) == Bits(s, 1) + 256 * Bits(s, 256) + 65536 * Bits(s, 65536)

(* length >> 9; the loader is called with whole sectors.                      *)
Count(n) == (n \div W) % 256

Request(s, n) ==
    /\ pc = "idle" /\ probe = <<>>
    /\ driver = "stage2" => n % W = 0
    /\ driver = "kernel" => list # <<>>     \* else a NULL pointer is followed
    /\ sector' = s /\ length' = n
    /\ fresh' = Quiet
    /\ drive' \in Command(IF driver = "kernel" THEN KernelLba(s) ELSE Stage2Lba(s), Count(n))
    /\ pc' = "poll" /\ buffer' = <<>> /\ reads' = reads + 1
    /\ UNCHANGED <<nature, list, probe>>

(* ata_pio_read waits once, and for DRQ only; ata_transfer_sectors waits for   *)
(* each sector, until BSY is clear and DRQ is set.  Neither gives up when the  *)
(* drive reports an error.                                                    *)
Poll ==
    /\ pc = "poll"
    /\ \E s \in Status : s.drq /\ (driver = "stage2" => ~ s.bsy)
    /\ pc' = "words"
    /\ UNCHANGED <<nature, list, probe, drive, sector, length, fresh, buffer, reads>>

(* Mutant: the loop polls before it looks at the count. *)
AfterStoredPolls(n) ==
    IF driver = "stage2" /\ n % W = 0 THEN "poll" ELSE IF n = length THEN "idle" ELSE "words"

AfterStored(n) ==
    IF n = length THEN "idle"
    ELSE IF driver = "stage2" /\ n % W = 0 THEN "poll" ELSE "words"

Store ==
    /\ pc = "words"
    /\ buffer' = Append(buffer, Data)
    /\ drive' = AfterWord
    /\ pc' = AfterStored(Len(buffer) + 1)
    /\ UNCHANGED <<nature, list, probe, sector, length, fresh, reads>>

Working == Ready \/ Detect \/ Poll \/ Store

Next == Working \/ (reads < MaxReads /\ \E s \in Sectors, n \in Lengths : Request(s, n))

(* The drive makes progress, and the driver is not interrupted for ever.  A    *)
(* request is the caller's affair.                                            *)
Spec == Init /\ [][Next]_vars /\ WF_vars(Working)

-----------------------------------------------------------------------------
(* Properties. *)

TypeOK ==
    /\ driver \in {"kernel", "stage2"} /\ attached \subseteq Drive
    /\ tidy \in BOOLEAN /\ gaps \in BOOLEAN
    /\ list \in Seq(attached) /\ probe \in Seq(Drive)
    /\ drive \in [state : {"idle", "busy", "drq", "error"}, lba : Nat, word : 0 .. W - 1,
                  left : 0 .. 256]
    /\ pc \in {"idle", "poll", "words"}
    /\ sector \in Nat /\ length \in Lengths \cup {0, W} /\ fresh \in BOOLEAN /\ reads \in Nat
    /\ buffer \in Seq({Garbage} \cup Nat \X (0 .. W - 1)) /\ Len(buffer) <= length

(* What a driver can be relied on for: sectors up to 256 of them, whose number  *)
(* has 24 bits.  The driver of the kernel: the k-th word of a read from the     *)
(* first drive, if that behaves like the drive of an emulator or only one      *)
(* sector is needed; of a sector below 256; up to the sectors requested.       *)
Reliable(k) ==
    /\ Primary \in attached
    /\ length \div W <= 256
    /\ driver = "stage2" => sector < 256 * 65536
    /\ driver = "kernel" =>
        /\ tidy
        /\ gaps => k <= W
        /\ sector < 256
        /\ length \div W # 0 => k <= (length \div W) * W

(* Word k of the buffer is the one asked for.                                 *)
IsWord(k) == buffer[k] = <<sector + (k - 1) \div W, (k - 1) % W>>

(* Every word that may be relied on is the one asked for: sectors are complete *)
(* and in order, for any timing of the drive.                                 *)
WordsInOrder == fresh => \A k \in DOMAIN buffer : Reliable(k) => IsWord(k)

(* A read of whole sectors takes all that was requested: the drive would take   *)
(* the next command for the end of this one, and answer with its data.         *)
NothingLeft ==
    pc = "idle" /\ fresh /\ length >= W /\ Reliable((length \div W) * W) => Quiet

DataInOrder == WordsInOrder /\ NothingLeft

(* A read returns, unless the drive reports an error or is not there: then the *)
(* poll has no end.                                                           *)
ReadReturns ==
    pc = "poll" ~> (pc = "idle" \/ drive.state = "error" \/ Primary \notin attached)

=============================================================================
