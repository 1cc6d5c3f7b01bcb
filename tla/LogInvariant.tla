---------------------------- MODULE LogInvariant ----------------------------
(***************************************************************************)
(* The inductive invariant of Log: what the formatter has printed when it  *)
(* has come to a place of its format, and what its locals hold there       *)
(* (alt_log_printf.c 127-341).                                             *)
(***************************************************************************)
EXTENDS Log

\* The characters that a log may hold; those that the formatter writes itself
\* are named because the provers do not know that a literal is in STRING.
Literals == {"0", "1", "2", "3", "4", "5", "6", "7", "8", "9", "a", "b", "c", "d", "e", "f",
             "A", "B", "C", "D", "E", "F", "-", " ", "%", ".", "l", "u", "o", "x", "X", "s",
             "q", "\n", "\r", "h", "i", "Startup"}
LogChar  == (STRING \cup Literals) \ {"EOT"}

Locals ==
  [w : Nat \ {0}, state : {"chars", "first", "other"}, zero : BOOLEAN, base : Nat,
   signed : BOOLEAN, upper : BOOLEAN, before : Int, after : Int]

LogTypes ==
  /\ level \in Level
  /\ message \in Seq(LogChar) /\ tx \in Seq(LogChar) /\ given \in Seq(LogChar)
  /\ arg.s \in Seq(LogChar)
  /\ pf \in Locals
  /\ message = <<>> => tx = <<>>

\* The program is past the test and no handler has come since: there is space.
SpaceSeen ==
  /\ fifo \in 0..Depth /\ dropped \in Nat /\ races \in Nat
  /\ ready => tx # <<>> /\ (raced \/ fifo < Depth)
  /\ dropped <= races

BeatCounted ==
  beat \in [count : 0..Interval, sec : Nat, ticks : Nat] /\ HeartbeatCounts

\* The value of the first n digits of a width.
PartWidth(f) ==
  LET d[n \in 0..Len(f.width)] ==
        IF n = 0 THEN 0
        ELSE 10 * d[n - 1] + (CHOOSE k \in 0..9 : Digit10[k + 1] = f.width[n])
  IN  d

\* Where the flag and the width of a conversion end, and the conversion itself.
FlagEnd(f)  == IF f.zero THEN 2 ELSE 1
WidthEnd(f) == FlagEnd(f) + Len(f.width)
Span(f)     == WidthEnd(f) + Len(f.rest) + 1

\* A text without conversions: what is printed is what the walk has passed.
InText(m, a, p, printed) ==
  /\ a.conversion = {} /\ m = a.s /\ \A n \in 1..Len(m) : m[n] # "%"
  /\ p.state = "chars" /\ p.w <= Len(m) + 1 /\ printed = SubSeq(m, 1, p.w - 1)

InEcho(m, a, p, printed) ==
  /\ a.conversion = {} /\ m = <<"%", "s">>
  /\ \/ p.w = 1 /\ p.state = "chars" /\ printed = <<>>
     \/ p.w = 2 /\ p.state = "first" /\ p.before = -1 /\ printed = <<>>
     \/ p.w = 3 /\ p.state = "chars" /\ printed = a.s

\* On the way through a conversion: what the locals hold of what was passed.
Parsing(f, p) ==
  /\ p.w \in 2..Span(f) /\ p.state = IF p.w = 2 THEN "first" ELSE "other"
  /\ p.zero = (f.zero /\ p.w > 2)
  /\ p.before = IF f.width = <<>> \/ p.w <= FlagEnd(f) + 1 THEN -1
                ELSE IF p.w > WidthEnd(f) THEN WidthOf(f)
                ELSE PartWidth(f)[p.w - 1 - FlagEnd(f)]
  /\ p.after >= -1
  /\ p.w <= WidthEnd(f) + 1 => p.after = -1
  /\ (\E n \in 1..Len(f.rest) : f.rest[n] = "." /\ WidthEnd(f) + n < p.w) => p.after >= 0

InConversion(m, a, p, printed, f) ==
  /\ IsConversion(f) /\ a.conversion = {f} /\ m = Text2(f) \o <<"\n">>
  /\ a.s # <<>> /\ a.v \in 0..(Power(2)[LogWord] - 1)
  /\ \/ p.w = 1 /\ p.state = "chars" /\ printed = <<>>
     \/ Parsing(f, p) /\ printed = <<>>
     \/ /\ p.w = Span(f) + 1 /\ p.state = "chars"
        /\ printed = WithoutPrecision(f, a.v, a.s)
     \/ /\ p.w = Span(f) + 2 /\ p.state = "chars"
        /\ printed = WithoutPrecision(f, a.v, a.s) \o <<"\n">>

Printing(m, a, p, printed) ==
  \/ InText(m, a, p, printed)
  \/ InEcho(m, a, p, printed)
  \/ \E f \in a.conversion : InConversion(m, a, p, printed, f)

\* What a call has printed when it returns.
WholeOf(a) ==
  IF a.conversion = {} THEN a.s
  ELSE WithoutPrecision(CHOOSE f \in a.conversion : TRUE, a.v, a.s) \o <<"\n">>

LogText ==
  IF message = <<>> THEN given = <<>> \/ given = WholeOf(arg)
                    ELSE Printing(message, arg, pf, given \o tx)

LogInv == LogTypes /\ SpaceSeen /\ BeatCounted /\ LogText
=============================================================================
