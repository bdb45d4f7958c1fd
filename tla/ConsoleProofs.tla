----------------------------- MODULE ConsoleProofs -----------------------------
(***************************************************************************)
(* Proofs about Console: on a screen of two lines or more, of any size that   *)
(* eight bits can address, with any texts and any message, interrupts       *)
(* between the statements of kc_write_character neither make a write miss   *)
(* the screen's page nor leave the cursor off the screen.                   *)
(***************************************************************************)
EXTENDS Console, TLAPS

-----------------------------------------------------------------------------
(* The inductive invariant. *)

Writing == {"newline", "tab", "store", "load_x", "store_x", "wrap", "load_y", "store_y",
            "bottom", "up", "lower", "scroll", "position", "select_high", "high", "select_low", "low"}

(* Types; no write has missed the page.                                       *)
Shape ==
    /\ DOMAIN kc = {"text", "x", "y", "index", "high", "low", "fault"}
    /\ kc.x \in 0 .. W /\ kc.y \in 0 .. H
    /\ kc.index \in {14, 15} /\ kc.high \in Int /\ kc.low \in Int /\ kc.fault = FALSE
    /\ DOMAIN main = {"pc", "tab", "tmp", "i"}
    /\ main.pc \in {"idle"} \cup Writing /\ main.tmp \in Int
    /\ said \in 0 .. Ending /\ trusted \in BOOLEAN

(* The cursor may be below the screen until a character scrolls, and a message   *)
(* that comes then stays below it.                                            *)
Rows == kc.y = H => main.pc \in {"wrap", "bottom", "up", "lower"}

(* It may be right of the screen until a character wraps, but not of the line    *)
(* below; a message begins at the left margin, and leaves the cursor there.     *)
Columns ==
    IF said <= 1
    THEN /\ kc.x = W => main.pc = "wrap"
         /\ main.pc = "wrap" /\ kc.y = H => kc.x = 0
         /\ main.pc \in {"load_y", "store_y"} => kc.x = 0
    ELSE kc.x < W /\ (kc.y = H => kc.x = 0)

(* What has been loaded is not out of date in a way that matters.  A row found   *)
(* below the screen may have come back to its last line before it is read again. *)
Loaded ==
    /\ main.pc = "store_x" => main.tmp \in 0 .. W - 1
    /\ main.pc = "store_y" => main.tmp \in 0 .. H - 1
    /\ main.pc = "up" => kc.y \in {H - 1, H}
    /\ main.pc = "lower" => main.tmp \in {H - 1, H}

(* Without an interrupt in the middle of a character, the chip is told the       *)
(* position half by half, and knows it at the end.                            *)
Told ==
    trusted =>
        /\ said # 0 => main.pc = "idle"
        /\ main.pc = "idle" => kc.high * Byte + kc.low = Position
        /\ main.pc \in {"select_high", "high", "select_low", "low"} => main.tmp = Position
        /\ main.pc = "high" => kc.index = 14
        /\ main.pc = "low" => kc.index = 15
        /\ main.pc \in {"select_low", "low"} => kc.high = (Position \div Byte) % Byte

IInv == Shape /\ Rows /\ Columns /\ Loaded /\ Told

-----------------------------------------------------------------------------
(* Arithmetic. *)

(* The number of a cell.                                                      *)
LEMMA CellFacts ==
    ASSUME NEW x \in Nat, NEW y \in Nat
    PROVE  /\ x < W /\ y < H => y * W + x \in 0 .. W * H - 1
           /\ x < W /\ y < H => x + y * W \in Cell
           /\ x = 0 /\ y = H => x + y * W \in Cell
<1> DEFINE a == y * W
<1>1. W \in Nat \ {0} /\ H \in Nat \ {0} /\ Spare \in Nat \ {0}
    BY ScreenAssumption DEF W, H
<1>2. a \in Nat
    BY <1>1
<1>3. y < H => a + W <= W * H
    <2> SUFFICES ASSUME y < H PROVE a + W <= W * H
        OBVIOUS
    <2>1. PICK d \in Nat : H = y + 1 + d
        <3>1. H - y - 1 \in Nat /\ H = y + 1 + (H - y - 1)
            BY <1>1
        <3> QED BY <3>1
    <2>2. W * H = a + W + W * d /\ W * d \in Nat
        BY <1>1, <2>1
    <2> QED BY <1>1, <1>2, <2>2
<1>4. W * H \in Nat /\ (y = H => a = W * H)
    BY <1>1
<1> HIDE DEF a
<1> QED BY <1>1, <1>2, <1>3, <1>4 DEF Cell, a

(* A position is told in two halves.                                           *)
LEMMA HalvesFacts ==
    ASSUME NEW p \in 0 .. W * H - 1
    PROVE  ((p \div Byte) % Byte) * Byte + (p % Byte) = p
<1>1. W * H \in Nat /\ Byte \in Nat /\ W * H < Byte * Byte
    BY ScreenAssumption DEF W, H
<1>2. Byte # 0
    BY <1>1
<1> DEFINE q == p \div Byte
           r == p % Byte
<1>3. q \in Nat /\ r \in 0 .. Byte - 1 /\ p = Byte * q + r
    BY <1>1, <1>2
<1>4. q < Byte
    <2> SUFFICES ASSUME q >= Byte PROVE FALSE
        BY <1>1, <1>3
    <2>1. PICK d \in Nat : q = Byte + d
        <3>1. q - Byte \in Nat /\ q = Byte + (q - Byte)
            BY <1>1, <1>3
        <3> QED BY <3>1
    <2>2. Byte * q = Byte * Byte + Byte * d /\ Byte * d \in Nat /\ Byte * Byte \in Nat
        BY <1>1, <2>1
    <2> HIDE DEF q, r
    <2> QED BY <1>1, <1>3, <2>2
<1> HIDE DEF q, r
<1>5. q % Byte = q
    BY <1>1, <1>2, <1>3, <1>4
<1> QED BY <1>1, <1>3, <1>5 DEF q, r

(* What fits in eight bits.                                                   *)
LEMMA EightBits == \A v \in 0 .. 255 : v % 256 = v
    OBVIOUS

(* The screen's size, and that it fits in eight bits.                          *)
LEMMA Sizes == W \in 1 .. 255 /\ H \in 2 .. 254
    BY ScreenAssumption DEF W, H

(* A message has two line breaks.                                             *)
LEMMA MessageFacts == Ending \in Nat /\ Ending >= 2
    BY MessageAssumption DEF Ending

-----------------------------------------------------------------------------
(* The statements of kc_write_character. *)

(* The cursor, the position in the code and what is loaded, after a statement    *)
(* that leaves the chip alone.                                                *)
Moved(x, y, pc, tmp) ==
    /\ DOMAIN kc' = DOMAIN kc /\ kc'.x = x /\ kc'.y = y /\ kc'.fault = FALSE
    /\ kc'.index = kc.index /\ kc'.high = kc.high /\ kc'.low = kc.low
    /\ DOMAIN main' = DOMAIN main /\ main'.pc = pc /\ main'.tmp = tmp
    /\ trusted' = trusted

(* What each of these statements does.                                        *)
LEMMA StatementFacts ==
    ASSUME IInv, said = 0, UNCHANGED trusted
    PROVE  /\ Begin => main.pc = "idle" /\ \E c \in {"newline", "tab", "store"} : Moved(kc.x, kc.y, c, main.tmp)
           /\ Newline => main.pc = "newline" /\ Moved(0, kc.y, "load_y", main.tmp)
           /\ TabLoop => main.pc = "tab" /\ \E c \in {"store", "wrap"} : Moved(kc.x, kc.y, c, main.tmp)
           /\ StoreCharacter => main.pc = "store" /\ Moved(kc.x, kc.y, "load_x", main.tmp)
           /\ IncrementX =>
                \/ main.pc = "load_x" /\ Moved(kc.x, kc.y, "store_x", kc.x)
                \/ main.pc = "store_x" /\ Moved(main.tmp + 1, kc.y, "wrap", main.tmp)
           /\ Wrap => main.pc = "wrap" /\ IF kc.x = W THEN Moved(0, kc.y, "load_y", main.tmp)
                                          ELSE Moved(kc.x, kc.y, "bottom", main.tmp)
           /\ IncrementY =>
                \/ main.pc = "load_y" /\ Moved(kc.x, kc.y, "store_y", kc.y)
                \/ main.pc = "store_y"
                   /\ \E c \in {"wrap", "bottom"} : Moved(kc.x, main.tmp + 1, c, main.tmp)
           /\ Bottom => main.pc = "bottom" /\ Moved(kc.x, kc.y, IF kc.y = H THEN "up" ELSE "position", main.tmp)
           /\ Up =>
                \/ main.pc = "up" /\ Moved(kc.x, kc.y, "lower", kc.y)
                \/ main.pc = "lower" /\ Moved(kc.x, main.tmp - 1, "scroll", main.tmp)
           /\ ScrollStep => main.pc = "scroll" /\ \E c \in {"scroll", "position"} : Moved(kc.x, kc.y, c, main.tmp)
<1>a. Shape /\ Rows /\ Columns /\ Loaded
    BY DEF IInv
<1>1. ASSUME Begin
      PROVE  main.pc = "idle" /\ \E c \in {"newline", "tab", "store"} : Moved(kc.x, kc.y, c, main.tmp)
    BY <1>a, <1>1 DEF Begin, At, Moved, Shape
<1>2. ASSUME Newline PROVE main.pc = "newline" /\ Moved(0, kc.y, "load_y", main.tmp)
    BY <1>a, <1>2 DEF Newline, At, Moved, Shape
<1>3. ASSUME TabLoop
      PROVE  main.pc = "tab" /\ \E c \in {"store", "wrap"} : Moved(kc.x, kc.y, c, main.tmp)
    BY <1>a, <1>3 DEF TabLoop, Moved, Shape
<1>4. ASSUME StoreCharacter PROVE main.pc = "store" /\ Moved(kc.x, kc.y, "load_x", main.tmp)
    <2>1. main.pc = "store" /\ main' = [main EXCEPT !.pc = "load_x"]
        BY <1>4 DEF StoreCharacter, At
    <2>2. kc.x \in Nat /\ kc.y \in Nat /\ kc.x < W /\ kc.y < H
        <3>1. main.pc = "store"
            BY <2>1
        <3> QED
            BY <1>a, <3>1, Sizes DEF Shape, Rows, Columns
    <2>3. kc.x + kc.y * W \in Cell
        BY <2>2, CellFacts
    <2>4. \E c : kc' = Poke(kc, c)
        BY <1>4 DEF StoreCharacter
    <2>6. PICK t : kc' = [kc EXCEPT !.text = t, !.fault = kc.fault \/ kc.x + kc.y * W \notin Cell]
        BY <2>4 DEF Poke
    <2>7. kc' = [kc EXCEPT !.text = t, !.fault = FALSE]
        BY <1>a, <2>3, <2>6 DEF Shape
    <2>5. /\ DOMAIN kc' = DOMAIN kc /\ kc'.x = kc.x /\ kc'.y = kc.y /\ kc'.fault = FALSE
          /\ kc'.index = kc.index /\ kc'.high = kc.high /\ kc'.low = kc.low
        BY <1>a, <2>7 DEF Shape
    <2> QED
        BY <1>a, <2>1, <2>5 DEF Moved, Shape
<1>5. ASSUME IncrementX
      PROVE  \/ main.pc = "load_x" /\ Moved(kc.x, kc.y, "store_x", kc.x)
             \/ main.pc = "store_x" /\ Moved(main.tmp + 1, kc.y, "wrap", main.tmp)
    <2>1. CASE AtLoad("load_x", "store_x", kc.x) /\ UNCHANGED kc
        BY <1>a, <2>1 DEF AtLoad, Moved, Shape
    <2>2. CASE At("store_x", "wrap") /\ kc' = [kc EXCEPT !.x = (main.tmp + 1) % 256]
        <3>1. main.tmp + 1 \in 0 .. 255
            <4>1. main.pc = "store_x"
                BY <2>2 DEF At
            <4>2. main.tmp \in 0 .. W - 1
                BY <1>a, <4>1 DEF Loaded
            <4> QED
                BY <4>2, Sizes
        <3>2. main.pc = "store_x" /\ kc' = [kc EXCEPT !.x = main.tmp + 1]
            BY <2>2, <3>1, EightBits DEF At
        <3> QED
            <4>1. /\ DOMAIN kc' = DOMAIN kc /\ kc'.x = main.tmp + 1 /\ kc'.y = kc.y /\ kc'.fault = FALSE
                  /\ kc'.index = kc.index /\ kc'.high = kc.high /\ kc'.low = kc.low
                BY <1>a, <3>2 DEF Shape
            <4> QED
                BY <1>a, <2>2, <3>2, <4>1 DEF At, Moved, Shape
    <2> QED
        BY <1>5, <2>1, <2>2 DEF IncrementX
<1>6. ASSUME Wrap
      PROVE  main.pc = "wrap" /\ IF kc.x = W THEN Moved(0, kc.y, "load_y", main.tmp)
                                 ELSE Moved(kc.x, kc.y, "bottom", main.tmp)
    <2>1. kc.x >= W <=> kc.x = W
        BY <1>a, Sizes DEF Shape
    <2>2. CASE kc.x = W
        BY <1>a, <1>6, <2>1, <2>2 DEF Wrap, At, Moved, Shape
    <2>3. CASE kc.x # W
        BY <1>a, <1>6, <2>1, <2>3 DEF Wrap, At, Moved, Shape
    <2> QED
        BY <2>2, <2>3
<1>7. ASSUME IncrementY
      PROVE  \/ main.pc = "load_y" /\ Moved(kc.x, kc.y, "store_y", kc.y)
             \/ main.pc = "store_y"
                /\ \E c \in {"wrap", "bottom"} : Moved(kc.x, main.tmp + 1, c, main.tmp)
    <2>1. CASE AtLoad("load_y", "store_y", kc.y) /\ UNCHANGED kc
        BY <1>a, <2>1 DEF AtLoad, Moved, Shape
    <2>2. CASE /\ At("store_y", IF Head(todo) = "\n" THEN "wrap" ELSE "bottom")
               /\ kc' = [kc EXCEPT !.y = (main.tmp + 1) % 256]
        <3>1. main.tmp + 1 \in 0 .. 255
            <4>1. main.pc = "store_y"
                BY <2>2 DEF At
            <4>2. main.tmp \in 0 .. H - 1
                BY <1>a, <4>1 DEF Loaded
            <4> QED
                BY <4>2, Sizes
        <3>2. main.pc = "store_y" /\ kc' = [kc EXCEPT !.y = main.tmp + 1]
            BY <2>2, <3>1, EightBits DEF At
        <3> QED
            <4>1. /\ DOMAIN kc' = DOMAIN kc /\ kc'.y = main.tmp + 1 /\ kc'.x = kc.x /\ kc'.fault = FALSE
                  /\ kc'.index = kc.index /\ kc'.high = kc.high /\ kc'.low = kc.low
                BY <1>a, <3>2 DEF Shape
            <4> QED
                BY <1>a, <2>2, <3>2, <4>1 DEF At, Moved, Shape
    <2> QED
        BY <1>7, <2>1, <2>2 DEF IncrementY
<1>8. ASSUME Bottom
      PROVE  main.pc = "bottom" /\ Moved(kc.x, kc.y, IF kc.y = H THEN "up" ELSE "position", main.tmp)
    <2>1. Below(kc.y) <=> kc.y = H
        BY <1>a, Sizes DEF Below, Shape
    <2> QED
        BY <1>a, <1>8, <2>1 DEF Bottom, At, Moved, Shape
<1>9. ASSUME Up
      PROVE  \/ main.pc = "up" /\ Moved(kc.x, kc.y, "lower", kc.y)
             \/ main.pc = "lower" /\ Moved(kc.x, main.tmp - 1, "scroll", main.tmp)
    <2>1. CASE AtLoad("up", "lower", kc.y) /\ UNCHANGED kc
        BY <1>a, <2>1 DEF AtLoad, Moved, Shape
    <2>2. CASE /\ main.pc = "lower" /\ main' = [main EXCEPT !.pc = "scroll", !.i = 1]
               /\ kc' = [kc EXCEPT !.y = (main.tmp - 1) % 256]
        <3>1. main.tmp - 1 \in 0 .. 255
            BY <1>a, <2>2, Sizes DEF Loaded
        <3>2. kc' = [kc EXCEPT !.y = main.tmp - 1]
            BY <2>2, <3>1, EightBits
        <3>3. /\ DOMAIN kc' = DOMAIN kc /\ kc'.x = kc.x /\ kc'.y = main.tmp - 1 /\ kc'.fault = FALSE
              /\ kc'.index = kc.index /\ kc'.high = kc.high /\ kc'.low = kc.low
            BY <1>a, <3>2 DEF Shape
        <3> QED
            BY <1>a, <2>2, <3>3 DEF Moved, Shape
    <2> QED
        BY <1>9, <2>1, <2>2 DEF Up
<1>10. ASSUME ScrollStep
       PROVE  main.pc = "scroll" /\ \E c \in {"scroll", "position"} : Moved(kc.x, kc.y, c, main.tmp)
    <2>1. CASE main.i < H
        BY <1>a, <1>10, <2>1 DEF ScrollStep, Moved, Shape
    <2>2. CASE ~ (main.i < H)
        BY <1>a, <1>10, <2>2 DEF ScrollStep, Moved, Shape
    <2> QED
        BY <2>1, <2>2
<1> QED
    BY <1>1, <1>2, <1>3, <1>4, <1>5, <1>6, <1>7, <1>8, <1>9, <1>10

(* Where such a statement may leave cursor and position.                       *)
Allowed(x, y, pc, tmp) ==
    /\ x \in 0 .. W /\ y \in 0 .. H /\ tmp \in Int
    /\ y = H => pc \in {"wrap", "bottom", "up", "lower"}
    /\ x = W => pc = "wrap"
    /\ pc = "wrap" /\ y = H => x = 0
    /\ pc \in {"load_y", "store_y"} => x = 0
    /\ pc = "store_x" => tmp \in 0 .. W - 1
    /\ pc = "store_y" => tmp \in 0 .. H - 1
    /\ pc = "up" => y \in {H - 1, H}
    /\ pc = "lower" => tmp \in {H - 1, H}
    /\ pc \in Writing \ {"high", "select_low", "low"}
    /\ pc = "select_high" => tmp = y * W + x

(* A statement that leaves them there keeps the invariant.                  *)
LEMMA MovedKeeps ==
    ASSUME IInv, said = 0, said' = 0,
           NEW x, NEW y, NEW pc, NEW tmp, Moved(x, y, pc, tmp), Allowed(x, y, pc, tmp)
    PROVE  IInv'
<1>1. Shape
    BY DEF IInv
<1>2. Shape'
    BY <1>1, MessageFacts DEF Shape, Moved, Allowed, Writing
<1>3. Rows' /\ Columns'
    BY DEF Rows, Columns, Moved, Allowed
<1>4. Loaded'
    BY DEF Loaded, Moved, Allowed
<1>5. Told'
    <2>1. /\ said' = 0 /\ main'.pc \in Writing \ {"high", "select_low", "low"}
          /\ main'.pc = "select_high" => main'.tmp = Position'
        BY DEF Moved, Allowed, Position
    <2>2. trusted' \in BOOLEAN
        BY <1>2 DEF Shape
    <2> QED
        BY <2>1, <2>2 DEF Told, Writing
<1> QED
    BY <1>2, <1>3, <1>4, <1>5 DEF IInv

(* The statements that leave the chip alone.                                   *)
LEMMA CursorKeeps ==
    ASSUME IInv, said = 0, said' = 0, UNCHANGED trusted,
           \/ Begin \/ Newline \/ TabLoop \/ StoreCharacter \/ IncrementX
           \/ Wrap \/ IncrementY \/ Bottom \/ Up \/ ScrollStep
    PROVE  IInv'
<1>1. Shape /\ Rows /\ Columns /\ Loaded
    BY DEF IInv
<1>2. kc.x \in 0 .. W /\ kc.y \in 0 .. H /\ main.tmp \in Int
    BY <1>1 DEF Shape
<1> DEFINE Ok == \E x, y, pc, tmp : Moved(x, y, pc, tmp) /\ Allowed(x, y, pc, tmp)
<1>3. ASSUME Begin PROVE Ok
    <2>1. PICK pc \in {"newline", "tab", "store"} : main.pc = "idle" /\ Moved(kc.x, kc.y, pc, main.tmp)
        BY <1>3, StatementFacts
    <2>2. Allowed(kc.x, kc.y, pc, main.tmp)
        BY <1>1, <1>2, <2>1 DEF Allowed, Rows, Columns, Writing
    <2> QED
        BY <2>1, <2>2
<1>4. ASSUME Newline PROVE Ok
    <2>1. main.pc = "newline" /\ Moved(0, kc.y, "load_y", main.tmp)
        BY <1>4, StatementFacts
    <2>2. Allowed(0, kc.y, "load_y", main.tmp)
        BY <1>1, <1>2, <2>1, Sizes DEF Allowed, Rows, Writing
    <2> QED
        BY <2>1, <2>2
<1>5. ASSUME TabLoop PROVE Ok
    <2>1. PICK pc \in {"store", "wrap"} : main.pc = "tab" /\ Moved(kc.x, kc.y, pc, main.tmp)
        BY <1>5, StatementFacts
    <2>2. Allowed(kc.x, kc.y, pc, main.tmp)
        BY <1>1, <1>2, <2>1 DEF Allowed, Rows, Columns, Writing
    <2> QED
        BY <2>1, <2>2
<1>6. ASSUME StoreCharacter PROVE Ok
    <2>1. main.pc = "store" /\ Moved(kc.x, kc.y, "load_x", main.tmp)
        BY <1>6, StatementFacts
    <2>2. Allowed(kc.x, kc.y, "load_x", main.tmp)
        BY <1>1, <1>2, <2>1 DEF Allowed, Rows, Columns, Writing
    <2> QED
        BY <2>1, <2>2
<1>7. ASSUME IncrementX PROVE Ok
    <2>1. CASE main.pc = "load_x" /\ Moved(kc.x, kc.y, "store_x", kc.x)
        <3>1. kc.x \in 0 .. W - 1
            BY <1>1, <1>2, <2>1, Sizes DEF Columns
        <3>2. Allowed(kc.x, kc.y, "store_x", kc.x)
            BY <1>1, <1>2, <2>1, <3>1, Sizes DEF Allowed, Rows, Writing
        <3> QED
            BY <2>1, <3>2
    <2>2. CASE main.pc = "store_x" /\ Moved(main.tmp + 1, kc.y, "wrap", main.tmp)
        <3>1. main.tmp + 1 \in 0 .. W
            BY <1>1, <2>2, Sizes DEF Loaded
        <3>2. kc.y # H
            BY <1>1, <2>2 DEF Rows
        <3>3. Allowed(main.tmp + 1, kc.y, "wrap", main.tmp)
            BY <1>2, <3>1, <3>2 DEF Allowed, Writing
        <3> QED
            BY <2>2, <3>3
    <2> QED
        BY <1>7, <2>1, <2>2, StatementFacts
<1>8. ASSUME Wrap PROVE Ok
    <2>1. CASE kc.x = W /\ main.pc = "wrap" /\ Moved(0, kc.y, "load_y", main.tmp)
        <3>1. kc.y # H
            BY <1>1, <2>1, Sizes DEF Columns
        <3>2. Allowed(0, kc.y, "load_y", main.tmp)
            BY <1>2, <3>1, Sizes DEF Allowed, Writing
        <3> QED
            BY <2>1, <3>2
    <2>2. CASE kc.x # W /\ main.pc = "wrap" /\ Moved(kc.x, kc.y, "bottom", main.tmp)
        <3>1. Allowed(kc.x, kc.y, "bottom", main.tmp)
            BY <1>2, <2>2 DEF Allowed, Writing
        <3> QED
            BY <2>2, <3>1
    <2> QED
        BY <1>8, <2>1, <2>2, StatementFacts
<1>9. ASSUME IncrementY PROVE Ok
    <2>1. CASE main.pc = "load_y" /\ Moved(kc.x, kc.y, "store_y", kc.y)
        <3>1. kc.y \in 0 .. H - 1 /\ kc.x = 0
            BY <1>1, <1>2, <2>1, Sizes DEF Rows, Columns
        <3>2. Allowed(kc.x, kc.y, "store_y", kc.y)
            BY <3>1, Sizes DEF Allowed, Writing
        <3> QED
            BY <2>1, <3>2
    <2>2. CASE /\ main.pc = "store_y"
               /\ \E c \in {"wrap", "bottom"} : Moved(kc.x, main.tmp + 1, c, main.tmp)
        <3>1. PICK c \in {"wrap", "bottom"} : Moved(kc.x, main.tmp + 1, c, main.tmp)
            BY <2>2
        <3>2. main.tmp + 1 \in 0 .. H /\ kc.x = 0
            BY <1>1, <2>2, Sizes DEF Loaded, Columns
        <3>3. Allowed(kc.x, main.tmp + 1, c, main.tmp)
            BY <1>2, <3>2, Sizes DEF Allowed, Writing
        <3> QED
            BY <3>1, <3>3
    <2> QED
        BY <1>9, <2>1, <2>2, StatementFacts
<1>10. ASSUME Bottom PROVE Ok
    <2> DEFINE pc == IF kc.y = H THEN "up" ELSE "position"
    <2>1. main.pc = "bottom" /\ Moved(kc.x, kc.y, pc, main.tmp)
        BY <1>10, StatementFacts
    <2>2. Allowed(kc.x, kc.y, pc, main.tmp)
        BY <1>1, <1>2, <2>1, Sizes DEF Allowed, Columns, Writing
    <2> QED
        BY <2>1, <2>2
<1>11. ASSUME Up PROVE Ok
    <2>1. CASE main.pc = "up" /\ Moved(kc.x, kc.y, "lower", kc.y)
        <3>1. Allowed(kc.x, kc.y, "lower", kc.y)
            BY <1>1, <1>2, <2>1 DEF Allowed, Columns, Loaded, Writing
        <3> QED
            BY <2>1, <3>1
    <2>2. CASE main.pc = "lower" /\ Moved(kc.x, main.tmp - 1, "scroll", main.tmp)
        <3>1. main.tmp - 1 \in 0 .. H - 1
            BY <1>1, <2>2, Sizes DEF Loaded
        <3>2. Allowed(kc.x, main.tmp - 1, "scroll", main.tmp)
            BY <1>1, <1>2, <2>2, <3>1, Sizes DEF Allowed, Columns, Writing
        <3> QED
            BY <2>2, <3>2
    <2> QED
        BY <1>11, <2>1, <2>2, StatementFacts
<1>12. ASSUME ScrollStep PROVE Ok
    <2>1. PICK pc \in {"scroll", "position"} : main.pc = "scroll" /\ Moved(kc.x, kc.y, pc, main.tmp)
        BY <1>12, StatementFacts
    <2>2. Allowed(kc.x, kc.y, pc, main.tmp)
        BY <1>1, <1>2, <2>1 DEF Allowed, Rows, Columns, Writing
    <2> QED
        BY <2>1, <2>2
<1>13. Ok
    BY <1>3, <1>4, <1>5, <1>6, <1>7, <1>8, <1>9, <1>10, <1>11, <1>12
<1> QED
    BY <1>13, MovedKeeps

-----------------------------------------------------------------------------
(* The chip. *)

(* What a register can hold.                                                  *)
LEMMA ByteFacts == Byte \in Nat \ {0} /\ \A v \in Int : v % Byte \in Int
<1>1. Byte \in Nat /\ W * H \in Nat /\ W * H < Byte * Byte
    BY ScreenAssumption DEF W, H
<1>2. Byte # 0
    BY <1>1
<1> QED BY <1>1, <1>2

(* The cursor's position.                                                     *)
LEMMA PositionFacts ==
    ASSUME Shape
    PROVE  /\ Position \in Int
           /\ kc.x < W /\ kc.y < H => Position \in 0 .. W * H - 1
<1>1. kc.x \in Nat /\ kc.y \in Nat /\ W \in Nat
    BY Sizes DEF Shape
<1>2. kc.y * W \in Nat
    BY <1>1
<1>3. kc.x < W /\ kc.y < H => kc.y * W + kc.x \in 0 .. W * H - 1
    BY <1>1, CellFacts
<1>4. Position = kc.y * W + kc.x
    BY DEF Position
<1>5. kc.y * W + kc.x \in Int
    BY <1>1, <1>2
<1> QED BY <1>3, <1>4, <1>5

(* A statement of kc_move_cursor that writes to the chip.                      *)
Sent(index, high, low, pc) ==
    /\ DOMAIN kc' = DOMAIN kc /\ kc'.x = kc.x /\ kc'.y = kc.y /\ kc'.fault = FALSE
    /\ kc'.index = index /\ kc'.high = high /\ kc'.low = low
    /\ DOMAIN main' = DOMAIN main /\ main'.pc = pc /\ main'.tmp = main.tmp
    /\ trusted' = trusted

(* It keeps the invariant if the chip is told the right half.               *)
LEMMA SentKeeps ==
    ASSUME IInv, said = 0, said' = 0,
           main.pc \in {"select_high", "high", "select_low", "low"},
           NEW index \in {14, 15}, NEW high \in Int, NEW low \in Int,
           NEW pc \in {"high", "select_low", "low", "tab", "idle"}, Sent(index, high, low, pc),
           trusted =>
               /\ pc = "high" => index = 14
               /\ pc = "low" => index = 15
               /\ pc \in {"select_low", "low"} => high = (Position \div Byte) % Byte
               /\ pc = "idle" => high * Byte + low = Position
    PROVE  IInv'
<1>1. Shape /\ Rows /\ Columns /\ Loaded /\ Told
    BY DEF IInv
<1>2. Shape'
    BY <1>1 DEF Shape, Sent, Writing
<1>3. Rows'
    BY <1>1 DEF Rows, Sent
<1>4. Columns'
    BY <1>1 DEF Columns, Sent
<1>5. Loaded'
    BY DEF Loaded, Sent
<1>6. Told'
    <2>1. Position' = Position
        BY DEF Position, Sent
    <2>2. trusted \in BOOLEAN /\ (trusted => main.tmp = Position)
        BY <1>1 DEF Shape, Told
    <2> QED
        BY <2>1, <2>2 DEF Told, Sent
<1> QED
    BY <1>2, <1>3, <1>4, <1>5, <1>6 DEF IInv

(* kc_move_cursor up to the second half.                                    *)
LEMMA MoveCursorKeeps ==
    ASSUME IInv, said = 0, said' = 0, UNCHANGED trusted, MoveCursor
    PROVE  IInv'
<1>1. Shape /\ Rows /\ Columns /\ Loaded /\ Told
    BY DEF IInv
<1>2. main.tmp \in Int /\ kc.index \in {14, 15} /\ kc.high \in Int /\ kc.low \in Int /\ trusted \in BOOLEAN
    BY <1>1 DEF Shape
<1>3. CASE AtLoad("position", "select_high", Position) /\ UNCHANGED kc
    <2>1. main.pc = "position" /\ Moved(kc.x, kc.y, "select_high", Position)
        BY <1>1, <1>3 DEF AtLoad, Moved, Shape
    <2>2. kc.x \in 0 .. W /\ kc.y \in 0 .. H /\ kc.x # W /\ kc.y # H
        BY <1>1, <2>1 DEF Shape, Rows, Columns
    <2>3. Allowed(kc.x, kc.y, "select_high", Position)
        BY <1>1, <2>2, PositionFacts DEF Allowed, Position, Writing
    <2> QED
        BY <2>1, <2>3, MovedKeeps
<1>4. CASE At("select_high", "high") /\ Select(14)
    <2>1. main.pc = "select_high" /\ Sent(14, kc.high, kc.low, "high")
        BY <1>1, <1>4 DEF At, Select, Sent, Shape
    <2> QED
        BY <1>2, <2>1, SentKeeps
<1>5. CASE At("high", "select_low") /\ Out((main.tmp \div Byte) % Byte)
    <2> DEFINE b == (main.tmp \div Byte) % Byte
    <2>1. b \in Int
        BY <1>2, ByteFacts
    <2>2. main.pc = "high"
        BY <1>5 DEF At
    <2>3. trusted => b = (Position \div Byte) % Byte /\ kc.index = 14
        BY <1>1, <2>2 DEF Told
    <2>4. At("high", "select_low") /\ Out(b)
        BY <1>5
    <2> HIDE DEF b
    <2>5. CASE kc.index = 14
        <3>1. Sent(kc.index, b, kc.low, "select_low")
            BY <1>1, <2>4, <2>5 DEF At, Out, Sent, Shape
        <3> QED
            BY <1>2, <2>1, <2>2, <2>3, <3>1, SentKeeps
    <2>6. CASE kc.index # 14
        <3>1. Sent(kc.index, kc.high, b, "select_low")
            BY <1>1, <2>4, <2>6 DEF At, Out, Sent, Shape
        <3> QED
            BY <1>2, <2>1, <2>2, <2>3, <2>6, <3>1, SentKeeps
    <2> QED
        BY <2>5, <2>6
<1>6. CASE At("select_low", "low") /\ Select(15)
    <2>1. main.pc = "select_low" /\ Sent(15, kc.high, kc.low, "low")
        BY <1>1, <1>6 DEF At, Select, Sent, Shape
    <2>2. trusted => kc.high = (Position \div Byte) % Byte
        BY <1>1, <2>1 DEF Told
    <2> QED
        BY <1>2, <2>1, <2>2, SentKeeps
<1> QED
    BY <1>3, <1>4, <1>5, <1>6 DEF MoveCursor

(* With the second half the chip has the position.                             *)
LEMMA ReturnKeeps ==
    ASSUME IInv, said = 0, said' = 0, Return
    PROVE  IInv'
<1>1. Shape /\ Rows /\ Columns /\ Loaded /\ Told
    BY DEF IInv
<1> DEFINE b  == main.tmp % Byte
           pc == IF main.tab THEN "tab" ELSE "idle"
<1>2. main.tmp \in Int /\ kc.index \in {14, 15} /\ kc.high \in Int /\ kc.low \in Int /\ trusted \in BOOLEAN
    BY <1>1 DEF Shape
<1>3. At("low", pc) /\ Out(b) /\ trusted' = trusted
    BY DEF Return
<1>4. main.pc = "low" /\ b \in Int /\ pc \in {"tab", "idle"}
    BY <1>2, <1>3, ByteFacts DEF At
<1>5. trusted => kc.index = 15 /\ kc.high * Byte + b = Position
    <2>1. kc.x < W /\ kc.y < H
        BY <1>1, <1>4, Sizes DEF Shape, Rows, Columns
    <2>2. Position \in 0 .. W * H - 1
        BY <1>1, <2>1, PositionFacts
    <2>3. trusted => kc.index = 15 /\ main.tmp = Position /\ kc.high = (Position \div Byte) % Byte
        BY <1>1, <1>4 DEF Told
    <2> QED
        BY <2>2, <2>3, HalvesFacts
<1> HIDE DEF b, pc
<1>6. CASE kc.index = 14
    <2>1. Sent(kc.index, b, kc.low, pc)
        BY <1>1, <1>3, <1>6 DEF At, Out, Sent, Shape
    <2> QED
        BY <1>2, <1>4, <1>5, <1>6, <2>1, SentKeeps
<1>7. CASE kc.index # 14
    <2>1. Sent(kc.index, kc.high, b, pc)
        BY <1>1, <1>3, <1>7 DEF At, Out, Sent, Shape
    <2> QED
        BY <1>2, <1>4, <1>5, <2>1, SentKeeps
<1> QED
    BY <1>6, <1>7

-----------------------------------------------------------------------------
(* is_c8259, the other actions, and the theorems. *)

(* What a character of the message changes: from below the screen the cursor    *)
(* comes back with anything but a line break.                                 *)
LEMMA WriteFacts ==
    ASSUME Shape, NEW c, NEW s, s = WriteCharacter(kc, c),
           c = "\n" \/ (kc.x < W /\ (kc.y = H => kc.x = 0))
    PROVE  /\ DOMAIN s = DOMAIN kc /\ s.fault = FALSE /\ s.index = 15
           /\ s.x \in 0 .. W - 1 /\ s.y \in 0 .. H
           /\ s.y = H => kc.y = H /\ s.x = 0
           /\ kc.y >= H - 1 => s.y >= H - 1
           /\ c = "\n" => s.x = 0
           /\ s.high = ((s.y * W + s.x) \div Byte) % Byte /\ s.low = (s.y * W + s.x) % Byte
<1> DEFINE nl == c = "\n" \/ kc.x + 1 >= W
           x  == IF nl THEN 0 ELSE kc.x + 1
           y  == IF nl THEN kc.y + 1 ELSE kc.y
           u  == IF Below(y) THEN y - 1 ELSE y
           p  == u * W + x
           t  == IF c = "\n" THEN kc ELSE Poke(kc, c)
           d  == (p \div Byte) % Byte
           e  == p % Byte
<1>1. kc.x \in 0 .. W /\ kc.y \in 0 .. H /\ W \in 1 .. 255 /\ H \in 2 .. 254
    BY Sizes DEF Shape
<1>2. DOMAIN t = DOMAIN kc /\ t.fault = FALSE
    <2>1. CASE c = "\n"
        BY <2>1 DEF Shape
    <2>2. CASE c # "\n"
        <3>1. kc.x + kc.y * W \in Cell
            <4>1. kc.x \in Nat /\ kc.y \in Nat /\ kc.x < W /\ (kc.y < H \/ (kc.x = 0 /\ kc.y = H))
                BY <1>1, <2>2
            <4> QED
                BY <4>1, CellFacts
        <3>2. PICK g : t = [kc EXCEPT !.text = g, !.fault = kc.fault \/ kc.x + kc.y * W \notin Cell]
            BY <2>2 DEF Poke
        <3>3. t = [kc EXCEPT !.text = g, !.fault = FALSE]
            BY <3>1, <3>2 DEF Shape
        <3> QED
            BY <3>3 DEF Shape
    <2> QED
        BY <2>1, <2>2
<1>3. PICK k : s = [t EXCEPT !.x = x, !.y = u, !.text = k, !.index = 15, !.high = d, !.low = e]
    BY DEF WriteCharacter
<1>4. /\ x \in 0 .. W - 1 /\ u \in 0 .. H
      /\ u = H => kc.y = H /\ x = 0
      /\ kc.y >= H - 1 => u >= H - 1
      /\ c = "\n" => x = 0
    BY <1>1 DEF Below
<1>5. d = ((u * W + x) \div Byte) % Byte /\ e = (u * W + x) % Byte
    OBVIOUS
<1> HIDE DEF nl, x, y, u, p, t, d, e
<1>6. /\ DOMAIN s = DOMAIN kc /\ s.fault = FALSE /\ s.index = 15
      /\ s.x = x /\ s.y = u /\ s.high = d /\ s.low = e
    BY <1>2, <1>3 DEF Shape
<1> QED
    BY <1>4, <1>5, <1>6

(* A character of the message, wherever main() has been interrupted.        *)
LEMMA SayKeeps == ASSUME IInv, Say PROVE IInv'
<1>1. Shape /\ Rows /\ Columns /\ Loaded /\ Told
    BY DEF IInv
<1> DEFINE c == IF said \in {1, Ending} THEN "\n" ELSE Message[said - 1]
<1>2. /\ said # 0 /\ said' = (IF said = Ending THEN 0 ELSE said + 1)
      /\ kc' = WriteCharacter(kc, c) /\ main' = main /\ trusted' = trusted
    BY DEF Say
<1>3. said \in 1 .. Ending /\ Ending \in Nat /\ Ending >= 2
    BY <1>1, <1>2, MessageFacts DEF Shape
<1>4. said' \in 0 .. Ending /\ (said' = 0 \/ said' >= 2) /\ (said' = 0 => c = "\n")
    BY <1>2, <1>3
<1>5. c = "\n" \/ (kc.x < W /\ (kc.y = H => kc.x = 0))
    BY <1>1, <1>3 DEF Columns
<1> HIDE DEF c
<1>6. /\ DOMAIN kc' = DOMAIN kc /\ kc'.fault = FALSE /\ kc'.index = 15
      /\ kc'.x \in 0 .. W - 1 /\ kc'.y \in 0 .. H
      /\ kc'.y = H => kc.y = H /\ kc'.x = 0
      /\ kc.y >= H - 1 => kc'.y >= H - 1
      /\ c = "\n" => kc'.x = 0
      /\ kc'.high = ((kc'.y * W + kc'.x) \div Byte) % Byte
      /\ kc'.low = (kc'.y * W + kc'.x) % Byte
    BY <1>1, <1>2, <1>5, WriteFacts
<1>7. Position' = kc'.y * W + kc'.x
    BY DEF Position
<1>8. /\ kc'.high = (Position' \div Byte) % Byte /\ kc'.low = Position' % Byte
    BY <1>6, <1>7
<1>9. Position' \in Int /\ (kc'.y < H => Position' \in 0 .. W * H - 1)
    <2>1. kc'.x \in Nat /\ kc'.y \in Nat /\ kc'.x < W /\ W \in Nat
        BY <1>6, Sizes
    <2>2. kc'.y < H => kc'.y * W + kc'.x \in 0 .. W * H - 1
        BY <2>1, CellFacts
    <2>3. kc'.y * W + kc'.x \in Int
        BY <2>1
    <2> QED
        BY <1>7, <2>2, <2>3
<1>10. kc'.high \in Int /\ kc'.low \in Int
    BY <1>8, <1>9, ByteFacts
<1>11. Shape'
    <2>1. kc'.x \in 0 .. W
        BY <1>6, Sizes
    <2> QED
        BY <1>1, <1>2, <1>4, <1>6, <1>10, <2>1 DEF Shape
<1>12. Rows'
    BY <1>1, <1>2, <1>6 DEF Rows
<1>13. Columns'
    <2>1. kc'.x # W /\ kc'.x < W
        BY <1>6, Sizes
    <2> QED
        BY <1>4, <1>6, <2>1 DEF Columns
<1>14. Loaded'
    <2>1. kc.y \in {H - 1, H} => kc'.y \in {H - 1, H}
        BY <1>6, Sizes
    <2> QED
        BY <1>1, <1>2, <2>1 DEF Loaded
<1>15. Told'
    <2>1. trusted \in BOOLEAN /\ (trusted => main.pc = "idle")
        BY <1>1, <1>2 DEF Shape, Told
    <2>2. trusted => kc'.y < H
        <3>1. trusted => kc'.y # H
            BY <1>1, <1>6, <2>1 DEF Rows
        <3> QED
            BY <1>6, <3>1, Sizes
    <2>3. trusted => kc'.high * Byte + kc'.low = Position'
        BY <1>8, <1>9, <2>2, HalvesFacts
    <2> QED
        BY <1>2, <2>1, <2>3 DEF Told
<1> QED
    BY <1>11, <1>12, <1>13, <1>14, <1>15 DEF IInv

(* The interrupt comes between any two statements.                             *)
LEMMA SpuriousKeeps == ASSUME IInv, Spurious PROVE IInv'
<1>1. Shape /\ Rows /\ Columns /\ Loaded /\ Told
    BY DEF IInv
<1>2. said = 0 /\ said' = 1 /\ kc' = kc /\ main' = main /\ trusted' = (trusted /\ main.pc = "idle")
    BY DEF Spurious
<1>3. trusted \in BOOLEAN /\ trusted' \in BOOLEAN /\ (trusted' => trusted /\ main.pc = "idle")
    BY <1>1, <1>2 DEF Shape
<1>4. Shape'
    BY <1>1, <1>2, <1>3, MessageFacts DEF Shape
<1>5. Rows' /\ Columns' /\ Loaded'
    BY <1>1, <1>2 DEF Rows, Columns, Loaded
<1>6. Told'
    <2>1. Position' = Position
        BY <1>2 DEF Position
    <2> QED
        BY <1>1, <1>2, <1>3, <2>1 DEF Told
<1> QED
    BY <1>4, <1>5, <1>6 DEF IInv

(* Nothing of this depends on what is written.                                *)
LEMMA StutterKeeps == ASSUME IInv, UNCHANGED <<kc, main, said, trusted>> PROVE IInv'
<1>1. Position' = Position
    BY DEF Position
<1> QED
    BY <1>1 DEF IInv, Shape, Rows, Columns, Loaded, Told

(* The console as setup_console leaves it.                                  *)
LEMMA InitIInv == Init => IInv
<1> SUFFICES ASSUME Init PROVE IInv
    OBVIOUS
<1>1. /\ DOMAIN kc = {"text", "x", "y", "index", "high", "low", "fault"}
      /\ kc.x = 0 /\ kc.y = 0 /\ kc.index = 15 /\ kc.high = 0 /\ kc.low = 0 /\ kc.fault = FALSE
    BY DEF Init
<1>2. DOMAIN main = {"pc", "tab", "tmp", "i"} /\ main.pc = "idle" /\ main.tmp = 0
    BY DEF Init
<1>3. said = 0 /\ trusted = TRUE
    BY DEF Init
<1>4. Shape
    BY <1>1, <1>2, <1>3, Sizes, MessageFacts DEF Shape
<1>5. Rows /\ Columns /\ Loaded
    BY <1>1, <1>2, <1>3, Sizes DEF Rows, Columns, Loaded
<1>6. Position = 0
    BY <1>1, Sizes DEF Position
<1>7. 0 * Byte + 0 = 0
    BY ByteFacts
<1> QED
    BY <1>1, <1>2, <1>3, <1>4, <1>5, <1>6, <1>7 DEF IInv, Told

(* Every step keeps the invariant.                                          *)
LEMMA NextIInv == IInv /\ [Next]_vars => IInv'
<1> SUFFICES ASSUME IInv, [Next]_vars PROVE IInv'
    OBVIOUS
<1>1. CASE said = 0 /\ Call
    BY <1>1, StutterKeeps DEF Call
<1>2. CASE said = 0 /\ kc_write_character
    <2>1. said' = 0
        BY <1>2 DEF kc_write_character
    <2>2. CASE Begin
        <3>1. trusted' = trusted
            BY <2>2 DEF Begin
        <3> QED
            BY <1>2, <2>1, <2>2, <3>1, CursorKeeps
    <2>3. CASE Return
        BY <1>2, <2>1, <2>3, ReturnKeeps
    <2>4. CASE Statement /\ UNCHANGED <<todo, trusted, before>>
        BY <1>2, <2>1, <2>4, CursorKeeps, MoveCursorKeeps DEF Statement
    <2> QED
        BY <1>2, <2>2, <2>3, <2>4 DEF kc_write_character
<1>3. CASE is_c8259
    BY <1>3, SpuriousKeeps, SayKeeps DEF is_c8259
<1>4. CASE UNCHANGED vars
    BY <1>4, StutterKeeps DEF vars
<1> QED
    BY <1>1, <1>2, <1>3, <1>4 DEF Next

(* The inductive invariant holds in every reachable state of Console.          *)
THEOREM Invariance == Spec => []IInv
<1> QED BY InitIInv, NextIInv, PTL DEF Spec

(* Whenever no character is being written the cursor is on the screen, even if   *)
(* is_c8259 has printed in the middle of one; no interrupt makes                *)
(* kc_write_character write behind the page of the screen; and the chip shows    *)
(* the cursor where it is unless a message came within a character.            *)
THEOREM CursorCorrect == Spec => []CursorOnScreen
<1>1. IInv => CursorOnScreen
    <2> SUFFICES ASSUME IInv PROVE CursorOnScreen
        OBVIOUS
    <2>1. Shape /\ Rows /\ Columns /\ Told
        BY DEF IInv
    <2>2. Idle => kc.x < W /\ kc.y < H
        BY <2>1, Sizes DEF Idle, Shape, Rows, Columns
    <2>3. ~ kc.fault
        BY <2>1 DEF Shape
    <2>4. trusted /\ Idle => kc.high * Byte + kc.low = Position
        BY <2>1 DEF Idle, Told, Shape
    <2> QED
        BY <2>2, <2>3, <2>4 DEF CursorOnScreen
<1> QED BY <1>1, Invariance, PTL
=============================================================================
