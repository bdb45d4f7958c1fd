----------------------------- MODULE LoadingProofs -----------------------------
(***************************************************************************)
(* Proofs about Loading: the image is in place, words come in order, and    *)
(* stage2 finds the root directory, for sectors of any length, any machines  *)
(* and disks, any requests and any number of failures.                      *)
(***************************************************************************)
EXTENDS Loading, TLAPS

-----------------------------------------------------------------------------
(* The inductive invariant. *)

(* The first sector the drive was asked for, the sectors it delivers, and the  *)
(* words that come without a pause.                                           *)
Asked   == IF driver = "kernel" THEN KernelLba(sector) ELSE Stage2Lba(sector)
Granted == IF Count(length) = 0 THEN 256 ELSE Count(length)
Stretch == IF gaps THEN W ELSE Granted * W

(* What the driver has read so far.                                           *)
Counted ==
    /\ Len(buffer) <= length
    /\ pc = "idle"  => Len(buffer) = length
    /\ pc = "poll"  => buffer = <<>> /\ length > 0
    /\ pc = "words" => Len(buffer) < length
    /\ driver = "stage2" => length \in {0, W}

(* The drive is at word p of sector i, and the driver as far.                 *)
AtWord(i) ==
    /\ Len(buffer) = i * W + drive.word
    /\ drive.lba = Asked + i /\ drive.left = Granted - i

(* Driver and drive go on in step while no pause comes; then the drive has     *)
(* nothing left of the command, or has paused.                                *)
InStep ==
    fresh /\ Primary \in attached /\ (driver = "kernel" => tidy) /\ length > 0 =>
        IF Len(buffer) < Stretch
        THEN /\ drive.state \in {"busy", "drq", "error"}
             /\ pc = "words" => drive.state = "drq"
             /\ \E i \in Nat : AtWord(i)
        ELSE (gaps /\ Granted > 1) \/ drive.state = "idle"

(* What stage2 knows of the disk after each of its reads.                     *)
Partition ==
    driver = "stage2" =>
        /\ reads = 0 => length = 0 /\ drive.state = "idle"
        /\ reads > 0 => length = W
        /\ Primary \in attached => fresh
        /\ reads = 1 => sector = 0
        /\ reads > 1 /\ Primary \in attached => first_sector = disk.first
        /\ reads = 2 => sector = first_sector
        /\ reads = 3 /\ Primary \in attached /\ Reachable(disk) =>
               sector = disk.first + Behind(disk)

(* The sectors before lba are in place, and registers and variables are those  *)
(* of sector lba.                                                             *)
Image ==
    /\ lba \in Bios!First .. Bios!Last
    /\ lba = Bios!Last <=> bios = "loaded"
    /\ es = IF loader = "stage1" THEN Bios!Start + 32 * (lba - Bios!First) ELSE Bios!Start
    /\ bios \in {"offset", "load_sector", "advance"} => chs = Bios!Chs(lba)
    /\ bios \in {"load_sector", "advance"} => es * 16 + bx = Bios!Place(lba)
    /\ \A a \in DOMAIN memory : a = Bios!Place(Bios!Denoted(memory[a]))
    /\ failed = 0 =>
           \A x \in Bios!First .. lba :
               (x < lba \/ bios = "advance") => Bios!Place(x) \in DOMAIN memory

Drives == /\ TypeOK /\ WordsInOrder /\ Counted /\ InStep
          /\ drive.state \in {"busy", "drq"} => drive.left > 0

IInv == Drives /\ Partition /\ disk \in Disks /\ first_sector \in Nat /\ Bios!TypeOK /\ Image

-----------------------------------------------------------------------------
(* Arithmetic of sectors and words. *)

(* Word p of sector i.                                                        *)
LEMMA WordFacts ==
    ASSUME NEW i \in Nat, NEW q \in 0 .. W - 1
    PROVE  (i * W + q) \div W = i /\ (i * W + q) % W = q
<1> DEFINE N == W
           n == i * N + q
           d == n \div N
           r == n % N
<1>1. N \in Nat /\ 0 < N /\ q \in 0 .. N - 1
    BY SizeAssumption
<1> HIDE DEF N
<1>2. i * N \in Nat /\ n \in Nat
    BY <1>1
<1>3. d \in Int /\ n = (N * d) + r /\ r \in 0 .. N - 1
    <2> HIDE DEF n
    <2> QED
        BY <1>1, <1>2
<1> HIDE DEF d, r
<1>4. N * d = d * N /\ d * N \in Int
    BY <1>1, <1>3
<1>5. d = i
    <2>1. CASE d < i
        <3>1. i * N = d * N + (i - d) * N
            BY <1>1, <1>3
        <3>2. (i - d) * N = N + (i - d - 1) * N /\ (i - d - 1) * N \in Nat
            BY <1>1, <1>3, <2>1
        <3> QED
            BY <1>1, <1>2, <1>3, <1>4, <3>1, <3>2
    <2>2. CASE i < d
        <3>1. d * N = i * N + (d - i) * N
            BY <1>1, <1>3
        <3>2. (d - i) * N = N + (d - i - 1) * N /\ (d - i - 1) * N \in Nat
            BY <1>1, <1>3, <2>2
        <3> QED
            BY <1>1, <1>2, <1>3, <1>4, <3>1, <3>2
    <2> QED
        BY <1>3, <2>1, <2>2
<1>6. r = q
    BY <1>1, <1>2, <1>3, <1>4, <1>5
<1> QED
    BY <1>5, <1>6 DEF N, d, r

(* The whole sectors of a length.                                             *)
LEMMA LengthFacts ==
    ASSUME NEW n \in Nat
    PROVE  /\ n \div W \in Nat /\ (n \div W) * W \in Nat /\ (n \div W) * W <= n
           /\ n < (n \div W) * W + W
<1> DEFINE N == W
           d == n \div N
<1>1. N \in Nat /\ 0 < N
    BY SizeAssumption
<1> HIDE DEF N
<1>2. d \in Nat /\ n = (N * d) + (n % N) /\ (n % N) \in 0 .. N - 1
    BY <1>1
<1> HIDE DEF d
<1>3. N * d = d * N /\ d * N \in Nat
    BY <1>1, <1>2
<1> QED
    BY <1>1, <1>2, <1>3 DEF N, d

(* A whole sector is one sector.                                              *)
LEMMA SectorFacts == W \div W = 1 /\ W % W = 0 /\ Count(W) = 1
<1>1. W \in Nat /\ 0 < W
    BY SizeAssumption
<1>2. (1 * W + 0) \div W = 1 /\ (1 * W + 0) % W = 0
    BY <1>1, WordFacts
<1>3. 1 * W + 0 = W
    BY <1>1
<1> QED
    BY <1>2, <1>3 DEF Count

(* The drive gets the number of a sector that its driver can send.            *)
LEMMA LbaFacts ==
    ASSUME NEW s \in Nat
    PROVE  /\ KernelLba(s) \in Nat /\ Stage2Lba(s) \in Nat
           /\ s < 256 => KernelLba(s) = s
           /\ s < 256 * 65536 => Stage2Lba(s) = s
    BY DEF KernelLba, Stage2Lba, Bits

(* The count the drive gets.                                                  *)
LEMMA GrantedFacts ==
    ASSUME length \in Nat
    PROVE  /\ Granted \in 1 .. 256 /\ Stretch \in Nat /\ W <= Stretch
           /\ length \div W \in 1 .. 256 => Granted = length \div W
           /\ length \div W = 0 => Granted = 256
           /\ gaps => Stretch = W
           /\ ~ gaps => Stretch = Granted * W
<1>1. length \div W \in Nat
    BY LengthFacts
<1>2. Granted \in 1 .. 256
      /\ (length \div W \in 1 .. 256 => Granted = length \div W)
      /\ (length \div W = 0 => Granted = 256)
    <2> DEFINE c == length \div W
    <2>1. c \in Nat
        BY <1>1
    <2> HIDE DEF c
    <2>2. c % 256 \in 0 .. 255
        BY <2>1
    <2>3. Count(length) = c % 256
        BY DEF Count, c
    <2> QED
        BY <2>1, <2>2, <2>3 DEF Granted, c
<1>3. Granted * W \in Nat /\ W <= Granted * W
    <2> DEFINE N == W
               g == Granted
    <2>1. N \in Nat /\ g \in 1 .. 256
        BY <1>2, SizeAssumption
    <2> HIDE DEF N, g
    <2>2. g * N = N + (g - 1) * N /\ (g - 1) * N \in Nat
        BY <2>1
    <2> QED
        BY <2>1, <2>2 DEF N, g
<1> QED
    BY <1>2, <1>3, SizeAssumption DEF Stretch

-----------------------------------------------------------------------------
(* The driver and the drive. *)

(* A word from the disk.                                                      *)
FromDisk == {Garbage} \cup Nat \X (0 .. W - 1)

(* What the types say.                                                        *)
LEMMA TypeFacts ==
    ASSUME TypeOK
    PROVE  /\ length \in Nat /\ sector \in Nat /\ W \in Nat /\ 0 < W
           /\ buffer \in Seq(FromDisk) /\ Len(buffer) \in Nat
           /\ DOMAIN buffer = 1 .. Len(buffer)
           /\ drive.state \in {"idle", "busy", "drq", "error"} /\ drive.lba \in Nat
           /\ drive.word \in 0 .. W - 1 /\ drive.left \in 0 .. 256
           /\ Asked \in Nat
<1>1. /\ length \in Nat /\ sector \in Nat /\ W \in Nat /\ 0 < W
      /\ buffer \in Seq(FromDisk)
    BY SizeAssumption, LengthsAssumption DEF TypeOK, FromDisk
<1>2. /\ drive.state \in {"idle", "busy", "drq", "error"} /\ drive.lba \in Nat
      /\ drive.word \in 0 .. W - 1 /\ drive.left \in 0 .. 256
    BY DEF TypeOK
<1>3. Asked \in Nat
    BY <1>1, LbaFacts DEF Asked
<1> QED
    BY <1>1, <1>2, <1>3

(* The buffer has not changed.                                                *)
LEMMA SameWords ==
    ASSUME WordsInOrder, UNCHANGED <<nature, sector, length, fresh, buffer>>
    PROVE  WordsInOrder'
<1>1. UNCHANGED <<driver, attached, tidy, gaps, sector, length, fresh, buffer>>
    BY DEF nature
<1>2. \A k \in DOMAIN buffer : (Reliable(k)' => Reliable(k)) /\ (IsWord(k) => IsWord(k)')
    BY <1>1 DEF Reliable, IsWord
<1> QED
    BY <1>1, <1>2 DEF WordsInOrder

(* The drive has found a sector, or failed to.                                *)
LEMMA ReadyKeeps == Drives /\ Ready => Drives'
<1> SUFFICES ASSUME Drives, Ready PROVE Drives'
    OBVIOUS
<1>1. PICK s \in {"drq", "error"} : drive' = [drive EXCEPT !.state = s]
    BY DEF Ready
<1>2. /\ drive.state = "busy"
      /\ UNCHANGED <<nature, driver, attached, tidy, gaps, list, probe, pc, sector, length, fresh,
                     buffer, reads>>
    BY DEF Ready, nature
<1>3. /\ TypeOK /\ drive.left > 0
      /\ drive'.state = s /\ drive'.lba = drive.lba /\ drive'.word = drive.word
      /\ drive'.left = drive.left
    BY <1>1, <1>2 DEF Drives, TypeOK
<1>4. TypeOK'
    BY <1>1, <1>2, <1>3 DEF TypeOK
<1>5. Asked' = Asked /\ Granted' = Granted /\ Stretch' = Stretch
    BY <1>2 DEF Asked, Granted, Stretch
<1>6. InStep'
    <2> SUFFICES ASSUME fresh, Primary \in attached, driver = "kernel" => tidy, length > 0
                 PROVE  IF Len(buffer) < Stretch
                        THEN /\ drive'.state \in {"busy", "drq", "error"}
                             /\ pc = "words" => drive'.state = "drq"
                             /\ \E i \in Nat : AtWord(i)'
                        ELSE (gaps /\ Granted > 1) \/ drive'.state = "idle"
        BY <1>2, <1>5 DEF InStep
    <2>1. CASE Len(buffer) < Stretch
        <3>1. pc # "words" /\ \E i \in Nat : AtWord(i)
            BY <1>2, <2>1 DEF Drives, InStep
        <3>2. \A i \in Nat : AtWord(i) => AtWord(i)'
            BY <1>2, <1>3, <1>5 DEF AtWord
        <3> QED
            BY <1>3, <2>1, <3>1, <3>2
    <2>2. CASE ~ (Len(buffer) < Stretch)
        BY <1>2, <2>2 DEF Drives, InStep
    <2> QED
        BY <2>1, <2>2
<1>7. WordsInOrder'
    BY <1>2, SameWords DEF Drives
<1>8. Counted'
    BY <1>2 DEF Drives, Counted
<1> QED
    BY <1>3, <1>4, <1>6, <1>7, <1>8 DEF Drives

(* The drive has nothing to do with the search for drives.                    *)
LEMMA DetectKeeps == Drives /\ Detect => Drives'
<1> SUFFICES ASSUME Drives, Detect PROVE Drives'
    OBVIOUS
<1>1. /\ probe # <<>> /\ probe' = Tail(probe)
      /\ list' = IF Head(probe) \in attached THEN <<Head(probe)>> \o list ELSE list
      /\ UNCHANGED <<nature, driver, attached, tidy, gaps, drive, pc, sector, length, fresh, buffer,
                     reads>>
    BY DEF Detect, nature
<1>2. TypeOK'
    <2>1. probe \in Seq(Drive) /\ list \in Seq(attached)
        BY DEF Drives, TypeOK
    <2>2. probe' \in Seq(Drive) /\ list' \in Seq(attached)
        BY <1>1, <2>1
    <2> QED
        BY <1>1, <2>2 DEF Drives, TypeOK
<1>3. InStep'
    <2>1. Asked' = Asked /\ Granted' = Granted /\ Stretch' = Stretch
        BY <1>1 DEF Asked, Granted, Stretch
    <2> QED
        BY <1>1, <2>1 DEF Drives, InStep, AtWord
<1>4. WordsInOrder' /\ Counted'
    BY <1>1, SameWords DEF Drives, Counted
<1> QED
    BY <1>1, <1>2, <1>3, <1>4 DEF Drives

(* A driver of the kernel waits for DRQ, which means nothing while a drive that *)
(* is not tidy is busy.                                                       *)
LEMMA PollKeeps == Drives /\ Poll => Drives'
<1> SUFFICES ASSUME Drives, Poll PROVE Drives'
    OBVIOUS
<1>1. PICK s \in Status : s.drq /\ (driver = "stage2" => ~ s.bsy)
    BY DEF Poll
<1>2. /\ pc = "poll" /\ pc' = "words"
      /\ UNCHANGED <<nature, driver, attached, tidy, gaps, list, probe, drive, sector, length, fresh,
                     buffer, reads>>
    BY DEF Poll, nature
<1>3. TypeOK /\ TypeOK'
    BY <1>2 DEF Drives, TypeOK
<1>4. buffer = <<>> /\ length > 0
    BY <1>2 DEF Drives, Counted
<1>5. Primary \in attached /\ (driver = "kernel" => tidy) => drive.state = "drq"
    <2> SUFFICES ASSUME Primary \in attached, driver = "kernel" => tidy PROVE drive.state = "drq"
        OBVIOUS
    <2>1. PICK d \in IF drive.state = "busy" /\ ~ tidy THEN BOOLEAN ELSE {drive.state = "drq"} :
              s = [bsy |-> drive.state = "busy", drq |-> d]
        BY DEF Status
    <2>2. s.bsy <=> drive.state = "busy"
        BY <2>1
    <2>3. s.drq <=> d
        BY <2>1
    <2>4. driver \in {"kernel", "stage2"}
        BY <1>3 DEF TypeOK
    <2> QED
        BY <1>1, <2>2, <2>3, <2>4
<1>6. InStep'
    <2>1. Asked' = Asked /\ Granted' = Granted /\ Stretch' = Stretch
        BY <1>2 DEF Asked, Granted, Stretch
    <2>2. \A i \in Nat : AtWord(i) => AtWord(i)'
        BY <1>2, <2>1 DEF AtWord
    <2> QED
        BY <1>2, <1>5, <2>1, <2>2 DEF Drives, InStep
<1>7. Counted'
    BY <1>2, <1>3, <1>4, TypeFacts DEF Drives, Counted
<1> QED
    BY <1>2, <1>3, <1>6, <1>7, SameWords DEF Drives

(* A word the driver may rely on comes while the drive does not pause.        *)
LEMMA ReliableFacts ==
    ASSUME TypeOK, Counted, pc = "words", Reliable(Len(buffer) + 1)
    PROVE  /\ Primary \in attached /\ (driver = "kernel" => tidy) /\ length > 0
           /\ Len(buffer) < Stretch /\ Asked = sector
<1> DEFINE n == Len(buffer)
<1>1. /\ length \in Nat /\ sector \in Nat /\ W \in Nat /\ 0 < W /\ n \in Nat
      /\ driver \in {"kernel", "stage2"} /\ gaps \in BOOLEAN
    BY TypeFacts DEF TypeOK
<1>2. n < length /\ (driver = "stage2" => length = W)
    BY <1>1 DEF Counted
<1> DEFINE w == length \div W
<1> HIDE DEF w
<1>3. /\ Primary \in attached /\ w <= 256
      /\ driver = "stage2" => sector < 256 * 65536
      /\ driver = "kernel" =>
            /\ tidy
            /\ gaps => n + 1 <= W
            /\ sector < 256
            /\ w # 0 => n + 1 <= w * W
    BY DEF Reliable, w
<1> HIDE DEF n
<1>4. Asked = sector
    <2>1. CASE driver = "kernel"
        BY <1>1, <1>3, <2>1, LbaFacts DEF Asked
    <2>2. CASE driver # "kernel"
        BY <1>1, <1>3, <2>2, LbaFacts DEF Asked
    <2> QED
        BY <2>1, <2>2
<1>5. /\ Granted \in 1 .. 256 /\ Stretch \in Nat /\ W <= Stretch
      /\ w \in 1 .. 256 => Granted = w
      /\ w = 0 => Granted = 256
      /\ gaps => Stretch = W
      /\ ~ gaps => Stretch = Granted * W
    BY <1>1, GrantedFacts DEF w
<1>6. w \in Nat /\ length < w * W + W
    BY <1>1, LengthFacts DEF w
<1>7. n < Stretch
    <2>1. CASE driver = "stage2"
        BY <1>1, <1>2, <1>5, <2>1
    <2>2. CASE driver = "kernel" /\ (gaps \/ w = 0)
        BY <1>1, <1>2, <1>3, <1>5, <1>6, <2>2
    <2>3. CASE driver = "kernel" /\ ~ gaps /\ w # 0
        <3>1. w \in 1 .. 256
            BY <1>3, <1>6, <2>3
        <3>2. Stretch = w * W /\ n + 1 <= w * W
            BY <1>3, <1>5, <2>3, <3>1
        <3> QED
            BY <1>1, <1>5, <3>2
    <2> QED
        BY <1>1, <2>1, <2>2, <2>3
<1> QED
    BY <1>1, <1>2, <1>3, <1>4, <1>7 DEF n

(* Multiples of a sector keep a sector's distance.                            *)
LEMMA ProductFacts ==
    ASSUME NEW i \in Nat, NEW j \in Nat, i < j
    PROVE  i * W + W <= j * W /\ i * W \in Nat /\ j * W \in Nat /\ W <= j * W
<1> DEFINE N == W
<1>1. N \in Nat
    BY SizeAssumption
<1> HIDE DEF N
<1>2. /\ j * N = i * N + N + (j - i - 1) * N
      /\ (j - i - 1) * N \in Nat /\ i * N \in Nat /\ j * N \in Nat
    BY <1>1
<1> QED
    BY <1>1, <1>2 DEF N

(* Where the drive is after a word.                                           *)
LEMMA StepFacts ==
    ASSUME NEW i \in Nat, NEW q \in 0 .. W - 1
    PROVE  /\ q + 1 < W => i * W + q + 1 = i * W + (q + 1)
           /\ q + 1 = W => i * W + q + 1 = (i + 1) * W + 0
           /\ i * W \in Nat
<1> DEFINE N == W
<1>1. N \in Nat /\ q \in 0 .. N - 1
    BY SizeAssumption
<1> HIDE DEF N
<1>2. i * N \in Nat /\ (i + 1) * N = i * N + N
    BY <1>1
<1> QED
    BY <1>1, <1>2 DEF N

(* A word is stored.                                                          *)
LEMMA StoreKeeps == Drives /\ Store => Drives'
<1> SUFFICES ASSUME Drives, Store PROVE Drives'
    OBVIOUS
<1> DEFINE n == Len(buffer)
<1>1. /\ pc = "words" /\ buffer' = Append(buffer, Data) /\ drive' = AfterWord
      /\ pc' = AfterStored(n + 1)
      /\ UNCHANGED <<nature, driver, attached, tidy, gaps, list, probe, sector, length, fresh, reads>>
    BY DEF Store, nature
<1>2. /\ TypeOK /\ WordsInOrder /\ Counted /\ InStep
      /\ drive.state \in {"busy", "drq"} => drive.left > 0
    BY DEF Drives
<1>3. /\ length \in Nat /\ sector \in Nat /\ W \in Nat /\ 0 < W
      /\ buffer \in Seq(FromDisk) /\ n \in Nat
      /\ DOMAIN buffer = 1 .. n
      /\ drive.state \in {"idle", "busy", "drq", "error"} /\ drive.lba \in Nat
      /\ drive.word \in 0 .. W - 1 /\ drive.left \in 0 .. 256
      /\ driver \in {"kernel", "stage2"} /\ gaps \in BOOLEAN
    BY <1>2, TypeFacts DEF TypeOK
<1>4. n < length /\ (driver = "stage2" => length = W)
    BY <1>1, <1>2, <1>3 DEF Counted
<1>5. Data \in FromDisk
    BY <1>3 DEF Data, FromDisk
<1>6. /\ buffer' \in Seq(FromDisk) /\ Len(buffer') = n + 1 /\ DOMAIN buffer' = 1 .. n + 1
      /\ buffer'[n + 1] = Data /\ \A k \in 1 .. n : buffer'[k] = buffer[k]
    BY <1>1, <1>3, <1>5
<1> HIDE DEF n
\* the drive
<1>7. Asked \in Nat
    BY <1>2, TypeFacts
<1>8. /\ drive.state # "drq" => drive' = drive
      /\ drive.state = "drq" /\ drive.word + 1 < W =>
            /\ drive'.state = "drq" /\ drive'.lba = drive.lba
            /\ drive'.word = drive.word + 1 /\ drive'.left = drive.left
      /\ drive.state = "drq" /\ ~ (drive.word + 1 < W) =>
            /\ drive'.lba = drive.lba + 1 /\ drive'.word = 0 /\ drive'.left = drive.left - 1
            /\ drive'.state = IF drive.left = 1 THEN "idle" ELSE IF gaps THEN "busy" ELSE "drq"
    BY <1>1, <1>2 DEF AfterWord, TypeOK
<1>9. /\ drive' \in [state : {"idle", "busy", "drq", "error"}, lba : Nat, word : 0 .. W - 1,
                     left : 0 .. 256]
      /\ drive'.state \in {"busy", "drq"} => drive'.left > 0
    <2>1. CASE drive.state # "drq"
        BY <1>2, <1>8, <2>1 DEF TypeOK
    <2>2. CASE drive.state = "drq" /\ drive.word + 1 < W
        <3>1. drive' = [drive EXCEPT !.word = drive.word + 1]
            BY <1>1, <2>2 DEF AfterWord
        <3>2. drive.word + 1 \in 0 .. W - 1
            BY <1>3, <2>2
        <3> QED
            BY <1>2, <2>2, <3>1, <3>2 DEF TypeOK
    <2>3. CASE drive.state = "drq" /\ ~ (drive.word + 1 < W)
        <3> DEFINE st == IF drive.left = 1 THEN "idle" ELSE IF gaps THEN "busy" ELSE "drq"
        <3>1. drive' = [lba |-> drive.lba + 1, word |-> 0, left |-> drive.left - 1, state |-> st]
            BY <1>1, <2>3 DEF AfterWord
        <3>2. st \in {"idle", "busy", "drq"} /\ (st # "idle" => drive.left # 1)
            OBVIOUS
        <3> HIDE DEF st
        <3>3. drive.left - 1 \in 0 .. 256 /\ (drive.left # 1 => drive.left - 1 > 0)
            <4>1. drive.left \in 0 .. 256 /\ drive.left > 0
                BY <1>2, <1>3, <2>3
            <4> QED
                BY <4>1
        <3>4. drive.lba + 1 \in Nat /\ 0 \in 0 .. W - 1
            BY <1>3
        <3> QED
            BY <3>1, <3>2, <3>3, <3>4
    <2> QED
        BY <2>1, <2>2, <2>3
<1>10. pc' \in {"idle", "poll", "words"} /\ (pc' = "idle" <=> n + 1 = length)
       /\ pc' # "poll"
    <2>1. driver = "stage2" /\ (n + 1) % W = 0 => n + 1 = length
        <3> SUFFICES ASSUME driver = "stage2", (n + 1) % W = 0, n + 1 # W PROVE FALSE
            BY <1>4
        <3>1. n + 1 \in 0 .. W - 1
            BY <1>3, <1>4
        <3>2. (0 * W + (n + 1)) % W = n + 1
            BY <3>1, WordFacts
        <3>3. 0 * W + (n + 1) = n + 1
            BY <1>3
        <3> QED
            BY <1>3, <3>2, <3>3
    <2> QED
        BY <1>1, <2>1 DEF AfterStored
<1>11. TypeOK'
    BY <1>1, <1>2, <1>3, <1>4, <1>6, <1>9, <1>10 DEF TypeOK, FromDisk
<1>12. Counted'
    BY <1>1, <1>2, <1>3, <1>4, <1>6, <1>10 DEF Counted
\* where drive and driver are
<1>13. Asked' = Asked /\ Granted' = Granted /\ Stretch' = Stretch
    BY <1>1 DEF Asked, Granted, Stretch
<1>14. /\ Granted \in 1 .. 256 /\ Stretch \in Nat /\ W <= Stretch
       /\ gaps => Stretch = W
       /\ ~ gaps => Stretch = Granted * W
    BY <1>3, GrantedFacts
<1>15. ASSUME fresh, Primary \in attached, driver = "kernel" => tidy
       PROVE  IF n < Stretch
              THEN /\ drive.state = "drq"
                   /\ \E i \in Nat : /\ n = i * W + drive.word
                                     /\ drive.lba = Asked + i /\ drive.left = Granted - i
              ELSE (gaps /\ Granted > 1) \/ drive.state = "idle"
    BY <1>1, <1>2, <1>3, <1>4, <1>15 DEF InStep, AtWord, n
<1>16. InStep'
    <2> SUFFICES ASSUME fresh, Primary \in attached, driver = "kernel" => tidy
                 PROVE  IF n + 1 < Stretch
                        THEN /\ drive'.state \in {"busy", "drq", "error"}
                             /\ pc' = "words" => drive'.state = "drq"
                             /\ \E i \in Nat : /\ n + 1 = i * W + drive'.word
                                               /\ drive'.lba = Asked + i
                                               /\ drive'.left = Granted - i
                        ELSE (gaps /\ Granted > 1) \/ drive'.state = "idle"
        BY <1>1, <1>6, <1>13 DEF InStep, AtWord
    <2>1. CASE ~ (n < Stretch)
        <3>1. (gaps /\ Granted > 1) \/ drive.state = "idle"
            BY <1>15, <2>1
        <3>2. ~ (n + 1 < Stretch)
            BY <1>3, <1>14, <2>1
        <3> QED
            BY <1>8, <3>1, <3>2
    <2>2. CASE n < Stretch
        <3>1. PICK i \in Nat : /\ n = i * W + drive.word
                               /\ drive.lba = Asked + i /\ drive.left = Granted - i
            BY <1>15, <2>2
        <3>2. drive.state = "drq" /\ drive.left > 0
            BY <1>2, <1>15, <2>2
        <3>3. /\ drive.word + 1 < W => n + 1 = i * W + (drive.word + 1)
              /\ drive.word + 1 = W => n + 1 = (i + 1) * W + 0
              /\ i * W \in Nat
            BY <1>3, <3>1, StepFacts
        <3>4. CASE drive.word + 1 < W
            <4>1. n + 1 = i * W + drive'.word /\ drive'.lba = Asked + i
                  /\ drive'.left = Granted - i /\ drive'.state = "drq"
                BY <1>8, <3>1, <3>2, <3>3, <3>4
            <4>2. n + 1 < Stretch
                <5>1. i < Granted
                    BY <1>14, <3>1, <3>2
                <5>2. i * W + W <= Granted * W
                    BY <1>3, <1>14, <5>1, ProductFacts
                <5>3. gaps => i = 0
                    <6> SUFFICES ASSUME i > 0 PROVE n >= W
                        BY <1>3, <1>14, <2>2
                    <6>1. W <= i * W
                        BY <1>3, ProductFacts
                    <6> DEFINE x == i * W
                    <6>2. n = x + drive.word /\ W <= x /\ x \in Nat
                        BY <3>1, <3>3, <6>1
                    <6> HIDE DEF x
                    <6> QED
                        BY <1>3, <6>2
                <5>4. gaps => i * W = 0
                    BY <1>3, <5>3
                <5> DEFINE x == i * W
                           y == Granted * W
                <5>5. /\ x + W <= y /\ (gaps => x = 0) /\ x \in Nat
                      /\ n + 1 = x + (drive.word + 1)
                      /\ gaps => Stretch = W
                      /\ ~ gaps => Stretch = y
                    BY <1>14, <3>3, <3>4, <5>2, <5>4
                <5> HIDE DEF x, y
                <5> QED
                    BY <1>3, <1>14, <3>4, <5>5
            <4> QED
                BY <4>1, <4>2
        <3>5. CASE ~ (drive.word + 1 < W)
            <4>1. drive.word + 1 = W
                BY <1>3, <3>5
            <4>2. n + 1 = (i + 1) * W + drive'.word /\ drive'.lba = Asked + (i + 1)
                  /\ drive'.left = Granted - (i + 1)
                BY <1>3, <1>8, <1>13, <1>14, <3>1, <3>2, <3>3, <3>5, <4>1, <1>7
            <4>3. drive'.state = IF drive.left = 1 THEN "idle" ELSE IF gaps THEN "busy" ELSE "drq"
                BY <1>8, <3>2, <3>5
            <4>4. CASE drive.left = 1
                <5>1. i + 1 = Granted /\ drive'.state = "idle"
                    BY <1>14, <3>1, <4>3, <4>4
                <5>2. n + 1 = Granted * W + 0
                    BY <3>3, <4>1, <5>1
                <5>3. n + 1 >= Stretch
                    BY <1>3, <1>14, <5>2, GrantedFacts
                <5> QED
                    BY <1>3, <1>14, <5>1, <5>3
            <4>5. CASE drive.left # 1 /\ gaps
                <5>1. Granted > 1
                    BY <1>14, <3>1, <3>2, <4>5
                <5>2. n + 1 >= W
                    <6>1. W <= (i + 1) * W /\ (i + 1) * W \in Nat
                        BY <1>3, ProductFacts
                    <6> QED
                        BY <1>3, <3>3, <4>1, <6>1
                <5> QED
                    BY <1>3, <1>14, <4>5, <5>1, <5>2
            <4>6. CASE drive.left # 1 /\ ~ gaps
                <5>1. drive'.state = "drq" /\ i + 1 \in Nat
                    BY <4>3, <4>6
                <5>2. i + 1 < Granted
                    BY <1>14, <3>1, <3>2, <4>6, <1>3
                <5>3. (i + 1) * W + W <= Granted * W /\ (i + 1) * W \in Nat
                    BY <1>3, <1>14, <5>2, ProductFacts
                <5>4. n + 1 < Stretch
                    <6> DEFINE x == (i + 1) * W
                               y == Granted * W
                    <6>1. n + 1 = x /\ x + W <= y /\ Stretch = y /\ x \in Nat
                        BY <1>14, <3>3, <4>1, <4>6, <5>3
                    <6>2. Stretch \in Nat /\ W \in Nat /\ 0 < W
                        BY <1>3, <1>14
                    <6> HIDE DEF x, y
                    <6> QED
                        BY <6>1, <6>2
                <5> QED
                    BY <4>2, <5>1, <5>4
            <4> QED
                BY <4>4, <4>5, <4>6
        <3> QED
            BY <3>4, <3>5
    <2> QED
        BY <2>1, <2>2
\* the words
<1>17. WordsInOrder'
    <2> SUFFICES ASSUME fresh, NEW k \in 1 .. n + 1, Reliable(k)'
                 PROVE  buffer'[k] = <<sector + (k - 1) \div W, (k - 1) % W>>
        BY <1>1, <1>6 DEF WordsInOrder, IsWord
    <2>1. Reliable(k)
        BY <1>1 DEF Reliable
    <2>2. CASE k <= n
        <3>1. k \in DOMAIN buffer /\ buffer'[k] = buffer[k]
            BY <1>3, <1>6, <2>2
        <3>2. IsWord(k)
            BY <1>2, <2>1, <3>1 DEF WordsInOrder
        <3> QED
            BY <3>1, <3>2 DEF IsWord
    <2>3. CASE k = n + 1
        <3>1. /\ Primary \in attached /\ (driver = "kernel" => tidy)
              /\ n < Stretch /\ Asked = sector
            BY <1>1, <1>2, <2>1, <2>3, ReliableFacts DEF n
        <3>2. PICK i \in Nat : n = i * W + drive.word /\ drive.lba = sector + i
            BY <1>15, <3>1
        <3>3. drive.state = "drq"
            BY <1>15, <3>1
        <3>4. n \div W = i /\ n % W = drive.word
            BY <1>3, <3>2, WordFacts
        <3>5. k - 1 = n
            BY <1>3, <2>3
        <3> QED
            BY <1>6, <2>3, <3>2, <3>3, <3>4, <3>5 DEF Data
    <2> QED
        BY <1>3, <2>2, <2>3
<1> QED
    BY <1>9, <1>11, <1>12, <1>16, <1>17 DEF Drives

(* A command begins: a quiet drive obeys it, and has nothing else to deliver.  *)
LEMMA RequestKeeps ==
    ASSUME Drives, NEW s \in Nat, NEW n \in Lengths \cup {W}, Request(s, n),
           driver = "stage2" => n = W
    PROVE  Drives'
<1> DEFINE L == IF driver = "kernel" THEN KernelLba(s) ELSE Stage2Lba(s)
           g == IF Count(n) = 0 THEN 256 ELSE Count(n)
<1>1. /\ sector' = s /\ length' = n /\ pc' = "poll" /\ buffer' = <<>> /\ reads' = reads + 1
      /\ drive' \in Command(L, Count(n))
      /\ fresh' = Quiet
      /\ UNCHANGED <<nature, driver, attached, tidy, gaps, list, probe>>
    BY DEF Request, nature
<1>2. TypeOK /\ n \in Nat /\ n > 0 /\ W \in Nat /\ W > 0
    BY LengthsAssumption, SizeAssumption DEF Drives
<1>3. L \in Nat
    BY LbaFacts
<1>4. Count(n) \in 0 .. 255
    <2> DEFINE w == n \div W
    <2>1. w \in Nat
        BY <1>2, LengthFacts
    <2> HIDE DEF w
    <2>2. w % 256 \in 0 .. 255
        BY <2>1
    <2> QED
        BY <2>2 DEF Count, w
<1>5. g \in 1 .. 256
    BY <1>4
<1>6. Asked' = L /\ Granted' = g /\ Stretch' = IF gaps THEN W ELSE g * W
    BY <1>1 DEF Asked, Granted, Stretch, Count
<1> DEFINE new == [state |-> "busy", lba |-> L, word |-> 0, left |-> g]
<1>7. drive' \in {new, drive} /\ (Quiet /\ Primary \in attached => drive' = new)
    BY <1>1 DEF Command
<1> HIDE DEF L, g
<1>8. /\ drive' \in [state : {"idle", "busy", "drq", "error"}, lba : Nat, word : 0 .. W - 1,
                     left : 0 .. 256]
      /\ drive'.state \in {"busy", "drq"} => drive'.left > 0
    <2>1. CASE drive' = new
        BY <1>2, <1>3, <1>5, <2>1
    <2>2. CASE drive' = drive
        BY <2>2 DEF Drives, TypeOK
    <2> QED
        BY <1>7, <2>1, <2>2
<1>9. TypeOK'
    <2>1. buffer' \in Seq(FromDisk) /\ Len(buffer') = 0
        BY <1>1
    <2>2. fresh' \in BOOLEAN
        BY <1>1 DEF Quiet
    <2>3. length' \in Lengths \cup {0, W} /\ Len(buffer') <= length'
        BY <1>1, <1>2, <2>1
    <2>4. reads' \in Nat /\ sector' \in Nat /\ pc' \in {"idle", "poll", "words"}
        BY <1>1, <1>2 DEF TypeOK
    <2> QED
        BY <1>1, <1>2, <1>8, <2>1, <2>2, <2>3, <2>4 DEF TypeOK, FromDisk
<1>10. InStep'
    <2> SUFFICES ASSUME Quiet, Primary \in attached
                 PROVE  /\ 0 < Stretch'
                        /\ drive'.state \in {"busy", "drq", "error"}
                        /\ \E i \in Nat : AtWord(i)'
        BY <1>1 DEF InStep
    <2>1. drive' = new
        BY <1>7
    <2>2. 0 < Stretch'
        <3>1. W <= g * W /\ g * W \in Nat
            BY <1>5, ProductFacts
        <3> QED
            BY <1>2, <1>6, <3>1
    <2>3. AtWord(0)'
        <3>1. 0 * W = 0
            BY <1>2
        <3> QED
            BY <1>1, <1>2, <1>3, <1>5, <1>6, <2>1, <3>1 DEF AtWord
    <2> QED
        BY <2>1, <2>2, <2>3
<1>11. WordsInOrder'
    BY <1>1 DEF WordsInOrder
<1>12. Counted'
    BY <1>1, <1>2 DEF Counted
<1> QED
    BY <1>8, <1>9, <1>10, <1>11, <1>12 DEF Drives

(* A read of whole sectors leaves a drive that may be relied on quiet.         *)
LEMMA NothingLeftFromDrives == Drives => NothingLeft
<1> SUFFICES ASSUME Drives, pc = "idle", fresh, length >= W, Reliable((length \div W) * W)
             PROVE  drive.state = "idle"
    BY DEF NothingLeft, Quiet
<1> DEFINE w == length \div W
<1>1. /\ length \in Nat /\ W \in Nat /\ 0 < W /\ driver \in {"kernel", "stage2"}
      /\ gaps \in BOOLEAN /\ Len(buffer) = length
    BY TypeFacts DEF Drives, TypeOK, Counted
<1>2. w \in Nat /\ w * W \in Nat /\ w * W <= length /\ length < w * W + W
    BY <1>1, LengthFacts
<1>3. /\ Primary \in attached /\ w <= 256
      /\ driver = "kernel" => tidy /\ (gaps => w * W <= W)
    BY DEF Reliable
<1>4. driver = "stage2" => w = 1
    BY <1>1, SectorFacts DEF Drives, Counted
<1>5. /\ Granted \in 1 .. 256 /\ (w \in 1 .. 256 => Granted = w)
      /\ gaps => Stretch = W
      /\ ~ gaps => Stretch = Granted * W
    BY <1>1, GrantedFacts
<1> HIDE DEF w
<1>6. w # 0
    <2>1. 0 * W = 0
        BY <1>1
    <2> QED
        BY <1>1, <1>2, <2>1
<1>7. Granted = w
    BY <1>2, <1>3, <1>5, <1>6
<1>8. gaps => w = 1
    <2> SUFFICES ASSUME gaps, driver = "kernel", 1 < w PROVE FALSE
        BY <1>1, <1>2, <1>4, <1>6
    <2>1. 1 * W + W <= w * W
        BY <1>2, ProductFacts
    <2>2. 1 * W = W
        BY <1>1
    <2> QED
        BY <1>1, <1>2, <1>3, <2>1, <2>2
<1>9. ~ (Len(buffer) < Stretch)
    BY <1>1, <1>2, <1>5, <1>7
<1>10. (gaps /\ Granted > 1) \/ drive.state = "idle"
    BY <1>1, <1>3, <1>9 DEF Drives, InStep
<1> QED
    BY <1>7, <1>8, <1>10

-----------------------------------------------------------------------------
(* stage2 *)

(* Between two reads of stage2 its buffer holds the sector it asked for, and   *)
(* the drive is quiet.                                                        *)
LEMMA SectorRead ==
    ASSUME Drives, Partition, driver = "stage2", pc = "idle", reads > 0, Primary \in attached
    PROVE  /\ drive.state = "idle" /\ Len(buffer) = W
           /\ sector < 256 * 65536 => \A k \in 1 .. W : IsWord(k)
<1>1. fresh /\ length = W /\ W \in Nat /\ 0 < W /\ length \in Nat /\ gaps \in BOOLEAN
    BY TypeFacts DEF Drives, TypeOK, Partition
<1>2. Len(buffer) = W /\ DOMAIN buffer = 1 .. W
    BY <1>1, TypeFacts DEF Drives, Counted
<1>3. Granted = 1
    BY <1>1, SectorFacts DEF Granted
<1>4. Stretch = W
    <2>1. 1 * W = W
        BY <1>1
    <2> QED
        BY <1>1, <1>3, <2>1 DEF Stretch
<1>5. drive.state = "idle"
    BY <1>1, <1>2, <1>3, <1>4 DEF Drives, InStep
<1>6. sector < 256 * 65536 => \A k \in 1 .. W : IsWord(k)
    <2> SUFFICES ASSUME sector < 256 * 65536, NEW k \in 1 .. W PROVE IsWord(k)
        OBVIOUS
    <2>1. Reliable(k)
        BY <1>1, SectorFacts DEF Reliable
    <2> QED
        BY <1>1, <1>2, <2>1 DEF Drives, WordsInOrder
<1> QED
    BY <1>2, <1>5, <1>6

(* The fields of a disk are numbers.                                          *)
LEMMA DiskFacts ==
    ASSUME NEW d \in Disks
    PROVE  d.first \in Nat /\ d.size \in Nat /\ d.tables \in Nat /\ d.reserved \in Nat
    BY DisksAssumption

(* The root directory lies where the fields of the boot record say, and stage2  *)
(* computes that sector.                                                      *)
LEMMA BehindFacts ==
    ASSUME disk \in Disks
    PROVE  /\ disk.first \in Nat /\ disk.size \in Nat /\ disk.tables \in Nat
           /\ disk.reserved \in Nat /\ Behind(disk) \in Nat
           /\ Reachable(disk) =>
                 /\ disk.first < 256 * 65536 /\ disk.first + Behind(disk) < 256 * 65536
                 /\ first_sector = disk.first =>
                        DirectorySector(disk.size, disk.tables, disk.reserved)
                            = disk.first + Behind(disk)
<1> DEFINE f == disk.first
           s == disk.size
           t == disk.tables
           r == disk.reserved
<1>1. f \in Nat /\ s \in Nat /\ t \in Nat /\ r \in Nat
    BY DiskFacts
<1> HIDE DEF f, s, t, r
<1>2. t * s \in Nat /\ s * t = t * s
    BY <1>1
<1>3. Behind(disk) = r + t * s
    BY DEF Behind, f, s, t, r
<1>4. Behind(disk) \in Nat
    BY <1>1, <1>2, <1>3
<1>5. ASSUME Reachable(disk)
      PROVE  /\ f < 256 * 65536 /\ f + Behind(disk) < 256 * 65536
             /\ first_sector = f => DirectorySector(s, t, r) = f + Behind(disk)
    <2>1. s < 256 /\ Behind(disk) < 65536 /\ f + Behind(disk) < 256 * 65536
        BY <1>5 DEF Reachable, f, s
    <2>2. s % 256 = s
        BY <1>1, <2>1
    <2>3. (s * t + r) % 65536 = Behind(disk)
        <3> DEFINE x == s * t
        <3>1. x \in Nat /\ Behind(disk) = r + x
            BY <1>2, <1>3
        <3> HIDE DEF x
        <3>2. (x + r) % 65536 = r + x
            BY <1>1, <2>1, <3>1
        <3> QED
            BY <3>1, <3>2 DEF x
    <2> QED
        BY <1>1, <1>4, <2>1, <2>2, <2>3 DEF DirectorySector
<1> QED
    BY <1>1, <1>4, <1>5 DEF f, s, t, r

(* The three reads of stage2.                                                 *)
LEMMA Stage2Keeps ==
    ASSUME Drives, Partition, disk \in Disks, first_sector \in Nat, Stage2Reads
    PROVE  Drives' /\ Partition' /\ first_sector' \in Nat
<1>1. /\ driver = "stage2" /\ pc = "idle" /\ reads \in Nat /\ W \in Nat /\ W > 0 /\ sector \in Nat
      /\ UNCHANGED <<disk, attached, driver>>
    BY TypeFacts DEF Stage2Reads, Request, Drives, TypeOK, nature
<1>2. /\ disk.first \in Nat /\ disk.size \in Nat /\ disk.tables \in Nat
      /\ disk.reserved \in Nat
    BY BehindFacts
<1>3. \A k, v : v \in Nat => Field(k, v) \in Nat
    BY DEF Field
<1>4. ASSUME NEW s \in Nat, Request(s, W)
      PROVE  /\ Drives' /\ sector' = s /\ length' = W /\ reads' = reads + 1
             /\ fresh' <=> Quiet
    BY <1>1, <1>4, RequestKeeps DEF Request
<1>5. Primary \in attached => Quiet
    <2>1. CASE reads = 0
        BY <1>1, <2>1 DEF Partition, Quiet
    <2>2. CASE reads > 0
        BY <1>1, <2>2, SectorRead DEF Quiet
    <2> QED
        BY <1>1, <2>1, <2>2
<1>6. CASE reads = 0 /\ Request(0, W) /\ UNCHANGED first_sector
    BY <1>1, <1>4, <1>5, <1>6 DEF Partition
<1>7. CASE reads = 1 /\ first_sector' = Field(W, disk.first) /\ Request(first_sector', W)
    <2>1. first_sector' \in Nat
        BY <1>2, <1>3, <1>7
    <2>2. Primary \in attached => first_sector' = disk.first
        <3>1. sector = 0
            BY <1>1, <1>7 DEF Partition
        <3>2. Primary \in attached => IsWord(W)
            BY <1>1, <1>7, <3>1, SectorRead
        <3> QED
            BY <1>7, <3>2 DEF Field
    <2>3. /\ Drives' /\ sector' = first_sector' /\ length' = W /\ reads' = 2
          /\ fresh' <=> Quiet
        BY <1>4, <1>7, <2>1
    <2> QED
        BY <1>1, <1>5, <2>1, <2>2, <2>3 DEF Partition
<1>8. CASE /\ reads = 2 /\ UNCHANGED first_sector
           /\ Request(DirectorySector(Field(1, disk.size), Field(1, disk.tables),
                                      Field(1, disk.reserved)), W)
    <2> DEFINE s == DirectorySector(Field(1, disk.size), Field(1, disk.tables),
                                    Field(1, disk.reserved))
    <2>1. s \in Nat
        <3> DEFINE x == Field(1, disk.size)
                   y == Field(1, disk.tables)
                   z == Field(1, disk.reserved)
        <3>1. x \in Nat /\ y \in Nat /\ z \in Nat
            BY <1>2, <1>3
        <3> HIDE DEF x, y, z
        <3>2. x % 256 \in Nat
            BY <3>1
        <3>3. (x % 256) * y \in Nat
            BY <3>1, <3>2
        <3>4. ((x % 256) * y + z) \in Nat
            BY <3>1, <3>3
        <3>5. (((x % 256) * y + z) % 65536) \in Nat
            BY <3>4
        <3>6. DirectorySector(x, y, z) \in Nat
            BY <3>5 DEF DirectorySector
        <3> QED
            BY <3>6 DEF x, y, z
    <2>2. Primary \in attached /\ Reachable(disk) => s = disk.first + Behind(disk)
        <3> SUFFICES ASSUME Primary \in attached, Reachable(disk)
                     PROVE  s = disk.first + Behind(disk)
            OBVIOUS
        <3>1. sector = disk.first /\ first_sector = disk.first
            BY <1>1, <1>8 DEF Partition
        <3>2. IsWord(1)
            BY <1>1, <1>8, <3>1, SectorRead, BehindFacts
        <3>3. s = DirectorySector(disk.size, disk.tables, disk.reserved)
            BY <3>2 DEF Field
        <3> QED
            BY <3>1, <3>3, BehindFacts
    <2> HIDE DEF s
    <2>3. Request(s, W)
        BY <1>8 DEF s
    <2>4. /\ Drives' /\ sector' = s /\ length' = W /\ reads' = 3
          /\ fresh' <=> Quiet
        BY <1>4, <1>8, <2>1, <2>3
    <2>5. Behind(disk)' = Behind(disk) /\ Reachable(disk)' = Reachable(disk)
        BY <1>1 DEF Behind, Reachable
    <2>6. Primary \in attached => first_sector = disk.first
        BY <1>1, <1>8 DEF Partition
    <2> QED
        BY <1>1, <1>5, <1>8, <2>2, <2>4, <2>5, <2>6 DEF Partition
<1> QED
    BY <1>6, <1>7, <1>8 DEF Stage2Reads


(* The driver at work does not change what stage2 knows.                      *)
LEMMA WorkingKeeps ==
    ASSUME IInv, Working, UNCHANGED <<disk, first_sector>>
    PROVE  Drives' /\ Partition'
<1>1. Drives'
    BY ReadyKeeps, DetectKeeps, PollKeeps, StoreKeeps DEF IInv, Working
<1>2. /\ UNCHANGED <<driver, attached, sector, length, fresh, reads>>
    BY DEF Working, Ready, Detect, Poll, Store, nature
<1>3. ASSUME driver = "stage2", reads = 0 PROVE drive'.state = "idle"
    <2>1. length = 0 /\ drive.state = "idle"
        BY <1>3 DEF IInv, Partition
    <2>2. buffer \in Seq(FromDisk) /\ Len(buffer) <= length /\ Len(buffer) \in Nat
        BY TypeFacts DEF IInv, Drives, TypeOK
    <2>3. pc # "words"
        BY <2>1, <2>2 DEF IInv, Drives, Counted
    <2> QED
        BY <2>1, <2>3 DEF Working, Ready, Detect, Poll, Store
<1>4. Reachable(disk)' = Reachable(disk) /\ Behind(disk)' = Behind(disk)
    BY DEF Reachable, Behind
<1>5. Partition'
    BY <1>2, <1>3, <1>4 DEF IInv, Partition
<1> QED
    BY <1>1, <1>5

(* A read of the kernel.                                                      *)
LEMMA KernelKeeps ==
    ASSUME IInv, KernelReads
    PROVE  Drives' /\ Partition'
<1>1. PICK s \in Sectors, n \in Lengths : Request(s, n)
    BY DEF KernelReads
<1>2. driver = "kernel" /\ s \in Nat /\ n \in Lengths \cup {W} /\ Drives
    BY SizeAssumption DEF KernelReads, IInv
<1>3. Drives'
    BY <1>1, <1>2, RequestKeeps
<1>4. driver' = driver
    BY <1>1 DEF Request, nature
<1> QED
    BY <1>2, <1>3, <1>4 DEF Partition

-----------------------------------------------------------------------------
(* The image. *)

(* A sector is found by its cylinder, head and sector.                        *)
LEMMA ChsFacts ==
    ASSUME NEW x \in 0 .. 50
    PROVE  /\ Bios!Chs(x) \in [cylinder : 0 .. 255, head : 0 .. 2 - 1, sector : 1 .. 18]
           /\ Bios!Denoted(Bios!Chs(x)) = x
<1> DEFINE t == x \div 18
           c == (t \div 2) % 256
           h == t % 2
           s == (x % 18) + 1
<1>1. /\ c \in 0 .. 255 /\ h \in 0 .. 1 /\ s \in 1 .. 18
      /\ (c * 2 + h) * 18 + s - 1 = x
    OBVIOUS
<1>2. Bios!Chs(x) = [cylinder |-> c, head |-> h, sector |-> s]
    BY DEF Bios!Chs, Bios!sectors_per_track, Bios!number_of_heads
<1> HIDE DEF c, h, s
<1> QED
    BY <1>1, <1>2 DEF Bios!Denoted, Bios!sectors_per_track, Bios!number_of_heads

(* The two images.                                                            *)
LEMMA ImageFacts ==
    ASSUME Bios!TypeOK, Image
    PROVE  /\ lba \in Nat /\ Bios!First \in Nat /\ Bios!Last \in Nat
           /\ Bios!First <= lba /\ lba <= Bios!Last /\ Bios!First < Bios!Last
           /\ lba \in 0 .. 50
           /\ bios # "loaded" => lba < Bios!Last
           /\ \/ /\ loader = "bootsect" /\ Bios!First = 9 /\ Bios!Last = 50
                 /\ Bios!Start = 4096 /\ es = 4096
              \/ /\ loader = "stage1" /\ Bios!First = 1 /\ Bios!Last = 7
                 /\ Bios!Start = 2016 /\ es = 2016 + 32 * (lba - 1)
    BY DEF Bios!TypeOK, Image, Bios!First, Bios!Last, Bios!Start

(* What a step of the loader has to keep of the image.                        *)
LEMMA LbaToChsKeeps ==
    ASSUME Bios!TypeOK, Image, Bios!LbaToChs, loader' = loader
    PROVE  Bios!TypeOK' /\ Image'
<1>1. /\ bios = "lba_to_chs" /\ bios' = "offset" /\ chs' = Bios!Chs(lba)
      /\ UNCHANGED <<lba, es, bx, memory, failed>>
    BY DEF Bios!LbaToChs
<1>2. chs' \in [cylinder : 0 .. 255, head : 0 .. 2 - 1, sector : 1 .. 18]
    <2>1. lba \in 0 .. 50
        BY ImageFacts
    <2> QED
        BY <1>1, <2>1, ChsFacts
<1>3. Bios!TypeOK'
    BY <1>1, <1>2 DEF Bios!TypeOK, Bios!First, Bios!Last, Bios!sectors_per_track,
                      Bios!number_of_heads
<1>4. /\ Bios!First' = Bios!First /\ Bios!Last' = Bios!Last /\ Bios!Start' = Bios!Start
    BY DEF Bios!First, Bios!Last, Bios!Start
<1>5. \A x : Bios!Place(x)' = Bios!Place(x)
    BY <1>4 DEF Bios!Place
<1>6. Bios!Chs(lba)' = Bios!Chs(lba)
    BY <1>1 DEF Bios!Chs
<1> QED
    BY <1>1, <1>3, <1>4, <1>5, <1>6 DEF Image

(* The places of an image, while the loader is the same.                      *)
LEMMA SameImage ==
    ASSUME loader' = loader
    PROVE  /\ Bios!First' = Bios!First /\ Bios!Last' = Bios!Last /\ Bios!Start' = Bios!Start
           /\ \A x : Bios!Place(x)' = Bios!Place(x)
    BY DEF Bios!First, Bios!Last, Bios!Start, Bios!Place

(* The offset of bootsect, or the segment of stage1, points to the place.     *)
LEMMA SetOffsetKeeps ==
    ASSUME Bios!TypeOK, Image, Bios!SetOffset, loader' = loader
    PROVE  Bios!TypeOK' /\ Image'
<1>1. /\ bios = "offset" /\ bios' = "load_sector"
      /\ bx' = IF loader = "bootsect" THEN ((lba - 9) * 512) % 65536 ELSE 0
      /\ UNCHANGED <<lba, chs, es, memory, failed>>
    BY DEF Bios!SetOffset
<1>2. bx' \in Bios!Word /\ es * 16 + bx' = Bios!Place(lba)
    <2>1. CASE loader = "bootsect"
        <3>1. lba \in 9 .. 50 /\ Bios!Start = 4096 /\ Bios!First = 9 /\ es = 4096
            BY <2>1, ImageFacts
        <3>2. bx' = (lba - 9) * 512
            BY <1>1, <2>1, <3>1
        <3> QED
            BY <3>1, <3>2 DEF Bios!Word, Bios!Place
    <2>2. CASE loader = "stage1"
        <3>1. /\ lba \in 1 .. 7 /\ Bios!Start = 2016 /\ Bios!First = 1
              /\ es = 2016 + 32 * (lba - 1)
            BY <2>2, ImageFacts
        <3>2. bx' = 0
            BY <1>1, <2>2
        <3> QED
            BY <3>1, <3>2 DEF Bios!Word, Bios!Place
    <2> QED
        BY <2>1, <2>2, ImageFacts
<1>3. Bios!TypeOK'
    BY <1>1, <1>2, SameImage DEF Bios!TypeOK
<1>4. Bios!Chs(lba)' = Bios!Chs(lba)
    BY <1>1 DEF Bios!Chs
<1>5. \A a \in DOMAIN memory : (a = Bios!Place(Bios!Denoted(memory[a])))'
    <2>1. \A a \in DOMAIN memory : a = Bios!Place(Bios!Denoted(memory[a]))
        BY DEF Image
    <2> QED
        BY <1>1, <2>1, SameImage DEF Bios!Denoted, Bios!Place
<1>6. failed = 0 => \A x \in Bios!First .. lba : x < lba => Bios!Place(x) \in DOMAIN memory
    BY DEF Image
<1>7. (failed = 0 =>
          \A x \in Bios!First .. lba :
              (x < lba \/ bios = "advance") => Bios!Place(x) \in DOMAIN memory)'
    BY <1>1, <1>6, SameImage
<1>8. (/\ lba \in Bios!First .. Bios!Last
       /\ lba = Bios!Last <=> bios = "loaded"
       /\ es = IF loader = "stage1" THEN Bios!Start + 32 * (lba - Bios!First) ELSE Bios!Start)'
    BY <1>1, SameImage DEF Image
<1>9. (chs = Bios!Chs(lba) /\ es * 16 + bx = Bios!Place(lba))'
    BY <1>1, <1>2, <1>4, SameImage DEF Image
<1> QED
    BY <1>1, <1>3, <1>5, <1>7, <1>8, <1>9, SameImage DEF Image

(* The sector comes to its place, or the read fails.                          *)
LEMMA LoadSectorKeeps ==
    ASSUME Bios!TypeOK, Image, Bios!LoadSector, loader' = loader
    PROVE  Bios!TypeOK' /\ Image'
<1> DEFINE p == es * 16 + bx
<1>1. /\ bios = "load_sector" /\ bios' = "advance"
      /\ UNCHANGED <<lba, chs, es, bx>>
      /\ \/ /\ memory' = [a \in DOMAIN memory \cup {p} |-> IF a = p THEN chs ELSE memory[a]]
            /\ failed' = failed
         \/ failed < Failures /\ failed' = failed + 1 /\ memory' = memory
    BY DEF Bios!LoadSector
<1>2. p = Bios!Place(lba) /\ chs = Bios!Chs(lba) /\ Bios!Denoted(chs) = lba
    <2>1. lba \in 0 .. 50
        BY ImageFacts
    <2>2. p = Bios!Place(lba) /\ chs = Bios!Chs(lba)
        BY <1>1 DEF Image
    <2> QED
        BY <2>1, <2>2, ChsFacts
<1>3. failed' \in 0 .. Failures /\ failed \in Nat
    BY <1>1, FailuresAssumption DEF Bios!TypeOK
<1>4. Bios!TypeOK'
    BY <1>1, <1>3, SameImage DEF Bios!TypeOK
<1>5. \A a \in DOMAIN memory' : a = Bios!Place(Bios!Denoted(memory'[a]))
    BY <1>1, <1>2 DEF Image
<1>6. failed' = 0 => \A x \in Bios!First .. lba : Bios!Place(x) \in DOMAIN memory'
    <2> SUFFICES ASSUME failed' = 0, NEW x \in Bios!First .. lba
                 PROVE  Bios!Place(x) \in DOMAIN memory'
        OBVIOUS
    <2>1. failed = 0 /\ DOMAIN memory' = DOMAIN memory \cup {p}
        BY <1>1, <1>3
    <2>2. CASE x = lba
        BY <1>2, <2>1, <2>2
    <2>3. CASE x # lba
        <3>1. x < lba
            BY <2>3, ImageFacts
        <3> QED
            BY <2>1, <3>1 DEF Image
    <2> QED
        BY <2>2, <2>3
<1>7. /\ Bios!Chs(lba)' = Bios!Chs(lba)
      /\ \A a : Bios!Denoted(memory[a])' = Bios!Denoted(memory'[a])
    BY <1>1 DEF Bios!Chs, Bios!Denoted
<1> QED
    BY <1>1, <1>2, <1>4, <1>5, <1>6, <1>7, SameImage DEF Image

(* On to the next sector, which is not the one that ends the loop before.      *)
LEMMA AdvanceKeeps ==
    ASSUME Bios!TypeOK, Image, Bios!Advance, loader' = loader
    PROVE  Bios!TypeOK' /\ Image'
<1>1. /\ bios = "advance"
      /\ es' = IF loader = "stage1" THEN (es + 32) % 65536 ELSE es
      /\ lba' = (lba + 1) % 65536
      /\ bios' = IF lba' = Bios!Last THEN "loaded" ELSE "lba_to_chs"
      /\ UNCHANGED <<chs, bx, memory, failed>>
    BY DEF Bios!Advance
<1>2. lba' = lba + 1 /\ lba' \in Bios!First .. Bios!Last
    BY <1>1, ImageFacts
<1>3. es' \in Bios!Word
      /\ es' = IF loader = "stage1" THEN Bios!Start + 32 * (lba' - Bios!First) ELSE Bios!Start
    BY <1>1, <1>2, ImageFacts DEF Bios!Word
<1>4. Bios!TypeOK'
    BY <1>1, <1>2, <1>3, SameImage DEF Bios!TypeOK
<1>5. failed = 0 =>
          \A x \in Bios!First .. lba' : x < lba' => Bios!Place(x) \in DOMAIN memory
    <2>1. \A x \in Bios!First .. lba' : x < lba' => x \in Bios!First .. lba
        BY <1>2, ImageFacts
    <2> QED
        BY <1>1, <2>1 DEF Image
<1>6. bios' \notin {"offset", "load_sector", "advance"} /\ (lba' = Bios!Last <=> bios' = "loaded")
    BY <1>1
<1>7. \A a : Bios!Denoted(memory[a])' = Bios!Denoted(memory'[a])
    BY DEF Bios!Denoted
<1> QED
    BY <1>1, <1>2, <1>3, <1>4, <1>5, <1>6, <1>7, SameImage DEF Image

(* The rest of the system does not touch the image.                           *)
LEMMA LoadingStays ==
    ASSUME Bios!TypeOK, Image, UNCHANGED loading, loader' = loader
    PROVE  Bios!TypeOK' /\ Image'
<1>1. UNCHANGED <<bios, lba, chs, es, bx, memory, failed>>
    BY DEF loading
<1>2. Bios!TypeOK'
    BY <1>1, SameImage DEF Bios!TypeOK
<1>3. /\ Bios!Chs(lba)' = Bios!Chs(lba)
      /\ \A a : Bios!Denoted(memory[a])' = Bios!Denoted(memory[a])
    BY <1>1 DEF Bios!Chs, Bios!Denoted
<1> QED
    BY <1>1, <1>2, <1>3, SameImage DEF Image

-----------------------------------------------------------------------------
(* The system. *)

(* It starts with a drive that has nothing to do and a memory with no sectors. *)
LEMMA InitIInv == LoadingInit => IInv
<1> SUFFICES ASSUME LoadingInit PROVE IInv
    OBVIOUS
<1>0. Probes \in Seq(Drive)
    BY DEF Probes, Drive
<1>1. /\ driver \in {"kernel", "stage2"} /\ list = <<>> /\ probe \in Seq(Drive)
      /\ drive = [state |-> "idle", lba |-> 0, word |-> 0, left |-> 0]
      /\ pc = "idle" /\ sector = 0 /\ length = 0 /\ fresh = TRUE /\ buffer = <<>> /\ reads = 0
    BY <1>0 DEF LoadingInit, Init
<1>2. attached \subseteq Drive /\ tidy \in BOOLEAN /\ gaps \in BOOLEAN
    BY MachinesAssumption DEF LoadingInit, Init
<1>3. drive \in [state : {"idle", "busy", "drq", "error"}, lba : Nat, word : 0 .. W - 1,
                 left : 0 .. 256]
    BY <1>1, SizeAssumption
<1>4. TypeOK
    BY <1>1, <1>2, <1>3 DEF TypeOK
<1>5. Drives
    BY <1>1, <1>4 DEF Drives, WordsInOrder, Counted, InStep
<1>6. Partition /\ disk \in Disks /\ first_sector \in Nat
    BY <1>1 DEF LoadingInit, Partition
<1>7. /\ bios = "lba_to_chs" /\ lba = Bios!First
      /\ chs = [cylinder |-> 1, head |-> 1, sector |-> 1]
      /\ es = Bios!Start /\ bx = 0 /\ DOMAIN memory = {} /\ failed = 0
      /\ loader \in {"bootsect", "stage1"}
    BY DEF LoadingInit, Bios!Init
<1>8. /\ Bios!First \in Nat /\ Bios!Last \in Nat /\ Bios!First < Bios!Last
      /\ Bios!Start \in Bios!Word /\ bx \in Bios!Word /\ Bios!Start \in Nat
    BY <1>7 DEF Bios!First, Bios!Last, Bios!Start, Bios!Word
<1>9. Bios!TypeOK
    BY <1>7, <1>8, FailuresAssumption
    DEF Bios!TypeOK, Bios!sectors_per_track, Bios!number_of_heads
<1>10. Image
    BY <1>7, <1>8 DEF Image
<1> QED
    BY <1>5, <1>6, <1>9, <1>10 DEF IInv

(* Nothing happens.                                                           *)
LEMMA StutterIInv == IInv /\ UNCHANGED loadingVars => IInv'
<1> SUFFICES ASSUME IInv, UNCHANGED loadingVars PROVE IInv'
    OBVIOUS
<1>1. /\ UNCHANGED <<driver, attached, tidy, gaps, list, probe, drive, pc, sector, length, fresh,
                     buffer, reads, bios, lba, chs, es, bx, memory, failed, disk, first_sector>>
    BY DEF loadingVars, vars, loading
<1>2. Drives'
    BY <1>1 DEF IInv, Drives, TypeOK, WordsInOrder, Reliable, IsWord, Counted, InStep, AtWord, Asked,
                Granted, Stretch
<1>3. Partition'
    BY <1>1 DEF IInv, Partition, Reachable, Behind
<1>4. Bios!TypeOK' /\ Image'
    BY <1>1, LoadingStays DEF IInv, loading, loader
<1> QED
    BY <1>1, <1>2, <1>3, <1>4 DEF IInv

(* Every step of the system keeps the invariant.                              *)
LEMMA NextIInv == IInv /\ [LoadingNext]_loadingVars => IInv'
<1> SUFFICES ASSUME IInv, LoadingNext PROVE IInv'
    BY StutterIInv
<1>1. CASE Load
    <2>1. /\ UNCHANGED <<driver, attached, tidy, gaps, list, probe, drive, pc, sector, length, fresh,
                         buffer, reads, disk, first_sector>>
          /\ Bios!Next
        BY <1>1 DEF Load, vars
    <2>2. Drives' /\ Partition'
        BY <2>1 DEF IInv, Drives, TypeOK, WordsInOrder, Reliable, IsWord, Counted, InStep, AtWord,
                    Asked, Granted, Stretch, Partition, Reachable, Behind
    <2>3. Bios!TypeOK' /\ Image'
        BY <2>1, LbaToChsKeeps, SetOffsetKeeps, LoadSectorKeeps, AdvanceKeeps DEF IInv, Bios!Next
    <2> QED
        BY <2>1, <2>2, <2>3 DEF IInv
<1>2. CASE ~ Load
    <2>1. /\ UNCHANGED <<loading, disk>> /\ driver' = driver
          /\ Drives' /\ Partition' /\ first_sector' \in Nat
        <3>1. CASE DriverWorks
            BY <3>1, WorkingKeeps
            DEF DriverWorks, IInv, Working, Ready, Detect, Poll, Store, nature
        <3>2. CASE KernelReads
            BY <3>2, KernelKeeps DEF KernelReads, IInv, Request, nature
        <3>3. CASE Stage2Reads
            BY <3>3, Stage2Keeps DEF Stage2Reads, IInv, Request, nature
        <3> QED
            BY <1>2, <3>1, <3>2, <3>3 DEF LoadingNext
    <2>2. Bios!TypeOK' /\ Image'
        BY <2>1, LoadingStays DEF IInv, loader
    <2> QED
        BY <2>1, <2>2 DEF IInv
<1> QED
    BY <1>1, <1>2

(* The invariant holds in every state the loading of a system goes through.    *)
THEOREM Invariance == LoadingSpec => []IInv
    BY InitIInv, NextIInv, PTL DEF LoadingSpec

(* The variables of driver, drive and loader have their types.                *)
THEOREM TypeCorrect == LoadingSpec => []LoadingTypeOK
<1>1. IInv => LoadingTypeOK
    BY DEF IInv, Drives, LoadingTypeOK
<1> QED
    BY <1>1, Invariance, PTL

(* bootsect.s and stage1.s: the sectors read are in memory in one piece and in  *)
(* order, and all of them are unless a read failed.                           *)
THEOREM ImageCorrect == LoadingSpec => []ImageInPlace
<1>1. IInv => ImageInPlace
    <2> SUFFICES ASSUME IInv PROVE Bios!ImageInPlace
        BY DEF ImageInPlace
    <2>1. Bios!TypeOK /\ Image
        BY DEF IInv
    <2>2. bios = "loaded" => lba = Bios!Last
        BY <2>1 DEF Image
    <2>3. bios = "loaded" /\ failed = 0 =>
              \A x \in Bios!First .. Bios!Last - 1 : Bios!Place(x) \in DOMAIN memory
        <3> SUFFICES ASSUME bios = "loaded", failed = 0, NEW x \in Bios!First .. Bios!Last - 1
                     PROVE  Bios!Place(x) \in DOMAIN memory
            OBVIOUS
        <3>1. x \in Bios!First .. lba /\ x < lba
            BY <2>1, <2>2, ImageFacts
        <3> QED
            BY <2>1, <3>1 DEF Image
    <2> QED
        BY <2>1, <2>3 DEF Bios!ImageInPlace, Image
<1> QED
    BY <1>1, Invariance, PTL

(* ata_pio_read and ata_read_sectors: every word of the buffer that may be     *)
(* relied on is the one asked for, and a read of whole sectors leaves nothing  *)
(* in the drive, for sectors of any size and any timing of the drive.          *)
THEOREM DataCorrect == LoadingSpec => []DataInOrder
<1>1. IInv => DataInOrder
    BY NothingLeftFromDrives DEF IInv, Drives, DataInOrder
<1> QED
    BY <1>1, Invariance, PTL

(* stage2.s: on every disk it can cope with, the sector it ends with is the    *)
(* first one of the root directory.                                           *)
THEOREM DirectoryCorrect == LoadingSpec => []FindsTheDirectory
<1>1. IInv => FindsTheDirectory
    <2> SUFFICES ASSUME IInv, driver = "stage2", reads = 3, pc = "idle", Primary \in attached,
                        Reachable(disk)
                 PROVE  /\ sector = disk.first + Behind(disk)
                        /\ Len(buffer) = W /\ \A k \in 1 .. W : IsWord(k)
        BY DEF FindsTheDirectory
    <2>1. sector = disk.first + Behind(disk)
        BY DEF IInv, Partition
    <2>2. sector < 256 * 65536
        BY <2>1, BehindFacts DEF IInv
    <2> QED
        BY <2>1, <2>2, SectorRead DEF IInv
<1> QED
    BY <1>1, Invariance, PTL
=============================================================================
