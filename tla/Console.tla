-------------------------------- MODULE Console --------------------------------
(***************************************************************************)
(* The console (console.cpp): text memory, cursor, scrolling, numbers.       *)
(*                                                                         *)
(* main() prints with interrupts on.  A spurious interrupt of the PICs is    *)
(* answered by is_c8259, which prints as well (interrupt.cpp:146) and may do *)
(* so between any two statements of kc_write_character; the other handlers   *)
(* main() meets are silent.  Handlers are not interrupted, so for them a     *)
(* character is one step.                                                  *)
(***************************************************************************)
EXTENDS Integers, Sequences, SequencesExt

CONSTANTS
    kc_screen_width, kc_screen_height,
    Spare,      \* characters that fit between the screen and the end of its page
    Tab,        \* 8
    Byte,       \* values of a register of the video chip: 256
    IntDigits, HexDigits,   \* digits of a word: 10 and 8
    Strings, Numbers,   \* what is printed
    Message,    \* of is_c8259
    MaxPrints,  \* bound: calls
    MaxSpurious \* bound: spurious interrupts

ASSUME ScreenAssumption ==
    /\ kc_screen_width \in Nat \ {0} /\ kc_screen_height \in Nat \ {0, 1} /\ Spare \in Nat \ {0}
    /\ Tab \in Nat \ {0} /\ kc_screen_width % Tab = 0
    /\ Byte \in Nat /\ kc_screen_width * kc_screen_height < Byte * Byte
    /\ kc_screen_width < 256 /\ kc_screen_height < 255    \* in variables of eight bits

ASSUME MessageAssumption == Len(Message) \in Nat

VARIABLES
    kc,         \* memory and chip: text, x, y; index, high and low registers; fault
    main,       \* main(): statement, in a tabulator, operand or position, scrolled rows
    todo,       \* the rest of the text, with the character being written
    said,       \* is_c8259(): the character it writes next; 0 if it does not run
    prints, spurious,   \* bounded
    trusted, before     \* history: not disturbed; the lines before the character

vars == <<kc, main, todo, said, prints, spurious, trusted, before>>

Nul  == ""
W    == kc_screen_width
H    == kc_screen_height
Cell == 0 .. W * H + Spare - 1

kc_hex_chars == <<"0", "1", "2", "3", "4", "5", "6", "7", "8", "9", "A", "B", "C", "D", "E", "F">>

(* setup_console, and kc_clear: main() has not printed yet.  fault tells that   *)
(* a write went past the end of the page.                                     *)
Init ==
    /\ kc = [text |-> [a \in Cell |-> Nul], x |-> 0, y |-> 0,
             index |-> 15, high |-> 0, low |-> 0, fault |-> FALSE]
    /\ main = [pc |-> "idle", tab |-> FALSE, tmp |-> 0, i |-> 0]
    /\ todo = <<>> /\ said = 0 /\ prints = 0 /\ spurious = 0
    /\ trusted = TRUE /\ before = << <<>> >>

-----------------------------------------------------------------------------
(* What there is to write. *)

(* The digits of nr for the given weights, from the first that is not 0 on.    *)
DigitsOf(nr, weights, radix) ==
    LET all   == [k \in DOMAIN weights |-> (nr \div weights[k]) % radix]
        first == CHOOSE k \in DOMAIN all : all[k] # 0 /\ \A j \in 1 .. k - 1 : all[j] = 0
    IN  [k \in 1 .. Len(all) - first + 1 |-> kc_hex_chars[all[first + k - 1] + 1]]

PrintInteger(nr) ==
    IF nr = 0 THEN <<"0">>
    ELSE DigitsOf(nr, [k \in 1 .. IntDigits |-> 10^(IntDigits - k)], 10)

PrintHex(nr) ==
    <<"0", "x">> \o
        IF nr = 0 THEN <<"0">>
        ELSE DigitsOf(nr, [k \in 1 .. HexDigits |-> 16^(HexDigits - k)], 16)

Call ==
    /\ todo = <<>> /\ prints < MaxPrints /\ prints' = prints + 1
    /\ todo' \in Strings \cup {PrintInteger(n) : n \in Numbers} \cup {PrintHex(n) : n \in Numbers}
    /\ UNCHANGED <<kc, main, said, spurious, trusted, before>>

-----------------------------------------------------------------------------
(* The screen. *)

(* A character is stored at the cursor.                                       *)
Poke(s, c) ==
    LET a == s.x + s.y * W
    IN  [s EXCEPT !.text = [b \in Cell |-> IF b = a THEN c ELSE @[b]],
                  !.fault = @ \/ a \notin Cell]

ScrollRow(t, k) == [b \in Cell |-> IF b \div W = k - 1 THEN t[b + W] ELSE t[b]]

(* Mutant: the last line is left as it was. *)
ClearRowForgotten(t) == t

ClearRow(t) == [b \in Cell |-> IF b \div W = H - 1 THEN Nul ELSE t[b]]

Scroll(t) == ClearRow(FoldLeft(ScrollRow, t, [k \in 1 .. H - 1 |-> k]))

(* Lines as they can be read, up to the one with the cursor.                  *)
Line(t, r) ==
    LET n == CHOOSE n \in 0 .. W :
                /\ n < W => t[r * W + n] = Nul
                /\ \A k \in 0 .. n - 1 : t[r * W + k] # Nul
    IN  [k \in 1 .. n |-> t[r * W + k - 1]]

Lines == [r \in 1 .. kc.y + 1 |-> Line(kc.text, r - 1)]

-----------------------------------------------------------------------------
(* kc_write_character, statement by statement; a step up or down is a load and a *)
(* store, or, without an interrupt in between, one instruction.               *)

At(here, there) == main.pc = here /\ main' = [main EXCEPT !.pc = there]
AtLoad(here, there, v) == main.pc = here /\ main' = [main EXCEPT !.pc = there, !.tmp = v]

Begin ==
    /\ todo # <<>>
    /\ At("idle", CASE Head(todo) = "\n" -> "newline"
                    [] Head(todo) = "\t" -> "tab"
                    [] OTHER -> "store")
    /\ before' = IF trusted THEN Lines ELSE before
    /\ UNCHANGED <<kc, todo, trusted>>

Newline == At("newline", "load_y") /\ kc' = [kc EXCEPT !.x = 0]

(* Blanks are written one by one, by the function itself.                     *)
TabLoop ==
    LET more == kc.x % Tab # 0 IN
    /\ main.pc = "tab"
    /\ main' = [main EXCEPT !.tab = more, !.pc = IF more THEN "store" ELSE "wrap"]
    /\ UNCHANGED kc

StoreCharacter == At("store", "load_x") /\ kc' = Poke(kc, IF main.tab THEN " " ELSE Head(todo))

IncrementX ==
    \/ AtLoad("load_x", "store_x", kc.x) /\ UNCHANGED kc
    \/ At("store_x", "wrap") /\ kc' = [kc EXCEPT !.x = (main.tmp + 1) % 256]

Wrap ==
    IF kc.x >= W
    THEN At("wrap", "load_y") /\ kc' = [kc EXCEPT !.x = 0]
    ELSE At("wrap", "bottom") /\ UNCHANGED kc

IncrementY ==
    \/ AtLoad("load_y", "store_y", kc.y) /\ UNCHANGED kc
    \/ /\ At("store_y", IF Head(todo) = "\n" THEN "wrap" ELSE "bottom")
       /\ kc' = [kc EXCEPT !.y = (main.tmp + 1) % 256]

Below(y) == y > H - 1

Bottom == At("bottom", IF Below(kc.y) THEN "up" ELSE "position") /\ UNCHANGED kc

(* The row is read again: what was compared may have gone up meanwhile.       *)
Up ==
    \/ AtLoad("up", "lower", kc.y) /\ UNCHANGED kc
    \/ /\ main.pc = "lower" /\ main' = [main EXCEPT !.pc = "scroll", !.i = 1]
       /\ kc' = [kc EXCEPT !.y = (main.tmp - 1) % 256]

ScrollStep ==
    /\ main.pc = "scroll"
    /\ IF main.i < H
       THEN /\ main' = [main EXCEPT !.i = @ + 1]
            /\ kc' = [kc EXCEPT !.text = ScrollRow(@, main.i)]
       ELSE /\ main' = [main EXCEPT !.pc = "position", !.i = 0]
            /\ kc' = [kc EXCEPT !.text = ClearRow(@)]

(* kc_move_cursor: two registers behind one index register.                   *)
Position == kc.y * W + kc.x

Select(n) == kc' = [kc EXCEPT !.index = n]
Out(b)    == kc' = IF kc.index = 14 THEN [kc EXCEPT !.high = b] ELSE [kc EXCEPT !.low = b]

(* Mutant: the low byte goes to the register of the high one. *)
MoveCursorOnce ==
    \/ AtLoad("position", "select_high", Position) /\ UNCHANGED kc
    \/ At("select_high", "high") /\ Select(14)
    \/ At("high", "select_low")  /\ Out((main.tmp \div Byte) % Byte)
    \/ At("select_low", "low")   /\ UNCHANGED kc

MoveCursor ==
    \/ AtLoad("position", "select_high", Position) /\ UNCHANGED kc
    \/ At("select_high", "high") /\ Select(14)
    \/ At("high", "select_low")  /\ Out((main.tmp \div Byte) % Byte)
    \/ At("select_low", "low")   /\ Select(15)

(* The end of a character, which may be a blank for a tabulator.              *)
Return ==
    /\ At("low", IF main.tab THEN "tab" ELSE "idle") /\ Out(main.tmp % Byte)
    /\ todo' = IF main.tab THEN todo ELSE Tail(todo)
    /\ UNCHANGED <<trusted, before>>

Statement ==
    \/ Newline \/ TabLoop \/ StoreCharacter \/ IncrementX \/ Wrap
    \/ IncrementY \/ Bottom \/ Up \/ ScrollStep \/ MoveCursor

kc_write_character ==
    /\ Begin \/ Return \/ (Statement /\ UNCHANGED <<todo, trusted, before>>)
    /\ UNCHANGED <<said, prints, spurious>>

-----------------------------------------------------------------------------
(* is_c8259, which nothing interrupts. *)

(* kc_write_character as one step, without tabulators.                        *)
WriteCharacter(s, c) ==
    LET t  == IF c = "\n" THEN s ELSE Poke(s, c)
        nl == c = "\n" \/ s.x + 1 >= W
        x  == IF nl THEN 0 ELSE s.x + 1
        y  == IF nl THEN s.y + 1 ELSE s.y
        u  == IF Below(y) THEN y - 1 ELSE y
        p  == u * W + x
    IN  [t EXCEPT !.x = x, !.y = u, !.text = IF Below(y) THEN Scroll(@) ELSE @,
                  !.index = 15, !.high = (p \div Byte) % Byte, !.low = p % Byte]

Spurious ==
    /\ said = 0 /\ said' = 1
    /\ spurious < MaxSpurious /\ spurious' = spurious + 1
    /\ trusted' = (trusted /\ main.pc = "idle")
    /\ before' = IF trusted' THEN Lines ELSE before
    /\ UNCHANGED <<kc, main, todo, prints>>

(* The message begins and ends with a line break.                             *)
Ending == Len(Message) + 2

Say ==
    /\ said # 0 /\ said' = IF said = Ending THEN 0 ELSE said + 1
    /\ kc' = WriteCharacter(kc, IF said \in {1, Ending} THEN "\n" ELSE Message[said - 1])
    /\ UNCHANGED <<main, todo, prints, spurious, trusted, before>>

is_c8259 == Spurious \/ Say

Next == (said = 0 /\ (Call \/ kc_write_character)) \/ is_c8259

Spec == Init /\ [][Next]_vars

-----------------------------------------------------------------------------
(* Properties. *)

(* No character is being written. *)
Idle == main.pc = "idle" /\ said = 0

(* Between characters the cursor is on the screen, even if an interrupt wrote   *)
(* its message in the middle of one; no interrupt makes a write miss the page   *)
(* of the screen; and without such an interrupt the cursor the chip shows is   *)
(* the one in memory.                                                         *)
CursorOnScreen ==
    /\ Idle => kc.x < W /\ kc.y < H
    /\ ~ kc.fault
    /\ trusted /\ Idle => kc.high * Byte + kc.low = Position

Window == INSTANCE Terminal WITH
    Width <- W, Height <- H, Digits <- kc_hex_chars,
    lines <- IF ~ trusted THEN <<>> ELSE IF Idle THEN Lines ELSE before,
    rest  <- todo

(* The console shows the last lines written, with numbers as numerals without   *)
(* leading zeros and tabulators filled up, and the messages of interrupts on    *)
(* lines of their own, unless one comes in the middle of a character.          *)
ImplementsTerminal == Window!Spec

=============================================================================
