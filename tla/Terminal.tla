------------------------------- MODULE Terminal -------------------------------
(***************************************************************************)
(* What the console promises: a window on the last lines that were written, *)
(* in which every call has written its text, one character after the other, *)
(* and a message of an interrupt has a line of its own.  If the interrupt    *)
(* comes in the middle of a character nothing is promised any more.          *)
(***************************************************************************)
EXTENDS Integers, Sequences

CONSTANTS
    Width, Height,  \* of the window
    Tab,            \* distance of tabulators
    Digits,         \* the digits of both radices
    Strings,        \* texts that are printed
    Numbers,        \* numbers that are printed
    Message         \* of the interrupt, without its line breaks

VARIABLES
    lines,      \* the lines shown; the last one is being written to
    rest,       \* what the call in progress has still to write
    trusted

Break(ls) == IF Len(ls) = Height THEN Append(Tail(ls), <<>>) ELSE Append(ls, <<>>)

Extend(ls, text) ==
    LET line == ls[Len(ls)] \o text
        ll   == [ls EXCEPT ![Len(ls)] = line]
    IN  IF Len(line) = Width THEN Break(ll) ELSE ll

Blanks(ls) == [i \in 1 .. (Tab - (Len(ls[Len(ls)]) % Tab)) % Tab |-> " "]

Put(ls, c) ==
    CASE c = "\n" -> Break(ls)
      [] c = "\t" -> Extend(ls, Blanks(ls))
      [] OTHER    -> Extend(ls, <<c>>)

(* The value of a numeral, and numerals without leading zeros.                *)
Value(s, radix) ==
    LET v[k \in 0 .. Len(s)] ==
          IF k = 0 THEN 0
          ELSE radix * v[k - 1] + (CHOOSE d \in DOMAIN Digits : Digits[d] = s[k]) - 1
    IN  v[Len(s)]

IsNumeral(s, radix, n) ==
    /\ s # <<>> /\ \A k \in DOMAIN s : \E d \in 1 .. radix : s[k] = Digits[d]
    /\ Value(s, radix) = n
    /\ Len(s) = 1 \/ s[1] # Digits[1]

Init == lines = << <<>> >> /\ rest = <<>> /\ trusted = TRUE

Call ==
    /\ rest = <<>>
    /\ \/ rest' \in Strings
       \/ \E n \in Numbers :
            \/ IsNumeral(rest', 10, n)
            \/ Len(rest') > 2 /\ SubSeq(rest', 1, 2) = <<"0", "x">> /\ IsNumeral(Tail(Tail(rest')), 16, n)
    /\ UNCHANGED <<lines, trusted>>

Write ==
    /\ rest # <<>> /\ rest' = Tail(rest)
    /\ lines' = Put(lines, Head(rest))
    /\ UNCHANGED trusted

Interrupt ==
    /\ lines' = Break(Extend(Break(lines), Message))
    /\ UNCHANGED <<rest, trusted>>

Disturb == ~ trusted'

Next == (trusted /\ (Call \/ Write \/ Interrupt)) \/ Disturb

Spec == Init /\ [][Next]_<<lines, rest, trusted>>

=============================================================================
