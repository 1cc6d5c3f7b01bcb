-------------------------------- MODULE Text --------------------------------
(***************************************************************************)
(* alt_printf (alt_printf.c), with which the program reports an SPI error: *)
(* the walk over the format, the escapes and the hexadecimal digits, and   *)
(* what the whole of it should print.                                      *)
(*                                                                         *)
(* A character is a string of one; a digit is the number it stands for.    *)
(***************************************************************************)
EXTENDS Integers, Sequences, SequencesExt, Powers

CONSTANTS
  Formats,      \* formats, without their terminating zeros
  Chars, Words, Strings,   \* arguments of %c, %x and %s
  TopShift      \* the shift of the leading digit, counted in digits: 7

ASSUME TextAssumption ==
  /\ Formats \subseteq Seq(STRING) /\ Chars \subseteq STRING /\ Strings \subseteq Seq(STRING)
  /\ TopShift \in Nat /\ Words \subseteq 0..(Power(16)[TopShift + 1] - 1)

VARIABLES
  fmt, args,    \* the format; the arguments [c, x, s] of every escape in it
  w,            \* the index of the next character
  shift,        \* digit_shift in digits, -1 outside the loops over digits
  digits,       \* the leading digit has been found
  out,          \* what alt_putchar was given
  done

text == <<fmt, args, w, shift, digits, out, done>>

Hidden == -1

TextInit ==
  /\ fmt \in Formats
  /\ args \in [c : Chars, x : Words, s : Strings]
  /\ w = 1 /\ shift = Hidden /\ digits = FALSE /\ out = <<>> /\ done = FALSE

Put(chars) == out' = out \o chars

Next_c      == fmt[w]
Escape(c)   == shift = Hidden /\ ~done /\ w < Len(fmt) /\ Next_c = "%" /\ fmt[w + 1] = c
Past(n)     == w' = w + n

\* Not a format escape character.
Plain ==
  /\ shift = Hidden /\ w <= Len(fmt) /\ Next_c # "%"
  /\ Put(<<Next_c>>) /\ Past(1)
  /\ UNCHANGED <<fmt, args, shift, digits, done>>

Percent ==
  /\ Escape("%") /\ Put(<<"%">>) /\ Past(2)
  /\ UNCHANGED <<fmt, args, shift, digits, done>>

Character ==
  /\ Escape("c") /\ Put(<<args.c>>) /\ Past(2)
  /\ UNCHANGED <<fmt, args, shift, digits, done>>

\* Up to the terminating zero.
String ==
  /\ Escape("s") /\ Put(args.s) /\ Past(2)
  /\ UNCHANGED <<fmt, args, shift, digits, done>>

\* Printed and left behind without a word, and without taking an argument.
Unknown ==
  /\ \E c \in {fmt[n] : n \in DOMAIN fmt} \ {"%", "c", "s", "x"} : Escape(c)
  /\ Past(2)
  /\ UNCHANGED <<fmt, args, shift, digits, out, done>>

HexZero ==
  /\ Escape("x") /\ args.x = 0
  /\ Put(<<0>>) /\ Past(2)
  /\ UNCHANGED <<fmt, args, shift, digits, done>>

HexBegins ==
  /\ Escape("x") /\ args.x # 0
  /\ shift' = TopShift /\ digits' = FALSE
  /\ UNCHANGED <<fmt, args, w, out, done>>

Digit(n) == (args.x \div Power(16)[n]) % 16

\* Find the first non-zero digit.
SkipZero ==
  /\ shift # Hidden /\ ~digits
  /\ IF Digit(shift) = 0 THEN shift' = shift - 1 /\ UNCHANGED digits
                         ELSE digits' = TRUE /\ UNCHANGED shift
  /\ UNCHANGED <<fmt, args, w, out, done>>

\* Fault: zeros are left out after the first digit too.
PrintSome ==
  /\ shift # Hidden /\ digits
  /\ IF Digit(shift) = 0 THEN UNCHANGED out ELSE Put(<<Digit(shift)>>)
  /\ shift' = shift - 1
  /\ w' = IF shift = 0 THEN w + 2 ELSE w
  /\ UNCHANGED <<fmt, args, digits, done>>

PrintDigit ==
  /\ shift # Hidden /\ digits
  /\ Put(<<Digit(shift)>>)
  /\ shift' = shift - 1
  /\ w' = IF shift = 0 THEN w + 2 ELSE w
  /\ UNCHANGED <<fmt, args, digits, done>>

\* The zero, also where it follows a %.
Ends ==
  /\ shift = Hidden /\ ~done
  /\ w > Len(fmt) \/ (w = Len(fmt) /\ Next_c = "%")
  /\ done' = TRUE
  /\ UNCHANGED <<fmt, args, w, shift, digits, out>>

TextNext ==
  \/ Plain \/ Percent \/ Character \/ String \/ Unknown
  \/ HexZero \/ HexBegins \/ SkipZero \/ PrintDigit \/ Ends

TextSpec == TextInit /\ [][TextNext]_text

-----------------------------------------------------------------------------
(* What it should print, without a walk *)

\* A % that an even number of others precede begins an escape.
Percents(f, n)  == CHOOSE k \in 0..n : /\ \A j \in (n - k + 1)..n : f[j] = "%"
                                       /\ k < n => f[n - k] # "%"
EscapeAt(f, n)  == f[n] = "%" /\ Percents(f, n) % 2 = 1
EscapedAt(f, n) == n > 1 /\ EscapeAt(f, n - 1)

\* A number without leading zeros.
HexDigits(v)   == CHOOSE n \in 1..(TopShift + 1) :
                    v < Power(16)[n] /\ (n = 1 \/ v >= Power(16)[n - 1])
Hexadecimal(v) == [n \in 1..HexDigits(v) |-> (v \div Power(16)[HexDigits(v) - n]) % 16]

Shows(f, a, n) ==
  CASE EscapeAt(f, n) -> <<>>
    [] EscapedAt(f, n) -> CASE f[n] = "c" -> <<a.c>>
                            [] f[n] = "s" -> a.s
                            [] f[n] = "x" -> Hexadecimal(a.x)
                            [] f[n] = "%" -> <<"%">>
                            [] OTHER -> <<>>
    [] OTHER -> <<f[n]>>

\* alt_printf prints every character that is not part of an escape, the argument
\* of every escape, numbers in full and without leading zeros, and stops at the
\* end of the format even if that is in the middle of an escape.
PrintsFormat == done => out = FlattenSeq([n \in 1..Len(fmt) |-> Shows(fmt, args, n)])
=============================================================================
