------------------------------ MODULE Printf ------------------------------
(***************************************************************************)
(* vsprintf: numbers of Width bits in the bases of its conversions, and    *)
(* the flags, which one conversion leaves to the next.                     *)
(*                                                                         *)
(* A format is a sequence of directives: conversions.  Literal text, %c    *)
(* and %s are copied and left out.                                         *)
(***************************************************************************)
EXTENDS Integers, Sequences, SequencesExt

CONSTANT Width    \* the bits of an int

ASSUME PrintfAssumption == Width \in Nat \ {0}

Minus == 45
Unsigned(n) == n % 2 ^ Width
Signed(n) == IF Unsigned(n) < 2 ^ (Width - 1) THEN Unsigned(n) ELSE Unsigned(n) - 2 ^ Width

\* The characters '0', ..., '9', and from 'A' or 'a' on.
digit_char(d, flags) ==
    IF d < 10 THEN 48 + d ELSE (IF "LOWERCASE" \in flags THEN 97 ELSE 65) + d - 10

\* Mutant: the padding does not count the digits.
pad_always(width, n) == width
pad(width, n) == IF n < width THEN width - n ELSE 0

itoa_base(num, base, width, flags) ==
    LET digits[n \in 0 .. 2 ^ Width - 1] ==
            IF n < base THEN <<n>> ELSE Append(digits[n \div base], n % base)
        ds == digits[num]
        zeros == IF "ZEROPAD" \in flags THEN pad(width, Len(ds)) ELSE 0
    IN  [k \in 1 .. zeros |-> 48] \o [k \in DOMAIN ds |-> digit_char(ds[k], flags)]

\* What a conversion leaves of its flags to the next.
flags_left(flags, width) == flags

\* One directive [zero, width, conv] with its argument.
convert(acc, d) ==
    LET num   == d.arg
        flags == acc.flags
                     \cup (IF d.zero THEN {"ZEROPAD"} ELSE {})
                     \cup (IF d.conv = "x" THEN {"LOWERCASE"} ELSE {})
        text  == CASE d.conv \in {"d", "i"} ->
                          IF Signed(num) < 0
                          THEN <<Minus>> \o itoa_base(Unsigned(-Signed(num)), 10, d.width, flags)
                          ELSE itoa_base(Unsigned(num), 10, d.width, flags)
                   [] d.conv = "u" -> itoa_base(Unsigned(num), 10, d.width, flags)
                   [] d.conv = "o" -> itoa_base(Unsigned(num), 8, d.width, flags)
                   [] d.conv \in {"x", "X"} -> itoa_base(Unsigned(num), 16, d.width, flags)
                   [] d.conv = "p" -> itoa_base(Unsigned(num), 16, Width \div 4, flags)
                   [] OTHER -> <<>>
    IN  [flags |-> flags_left(flags, d.width), text |-> acc.text \o text]

vsprintf(fmt) == FoldLeft(convert, [flags |-> {}, text |-> <<>>], fmt).text
=============================================================================
