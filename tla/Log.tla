--------------------------------- MODULE Log ---------------------------------
(***************************************************************************)
(* The logging of builds with ALT_LOG_ENABLE (alt_log_printf.c): the       *)
(* formatter, the wait for space in the FIFO of the JTAG UART, and the two *)
(* levels that write to it: the program (boot messages and the echo of     *)
(* write) and interrupt handlers (the heartbeat of the clock, the reports  *)
(* on the control register), which come between any two steps of it.       *)
(*                                                                         *)
(* A character is a string of one or the name of a control character.      *)
(***************************************************************************)
EXTENDS Integers, Sequences, FiniteSets, SequencesExt, FiniteSetsExt, Powers

CONSTANTS
  Level,         \* values of ALT_LOG_FLAGS, -1 to 3
  Conversion,    \* bound: at each level the conversions, [zero, width, rest, letter]
  LogWord,       \* the bits of an int; 32
  Number,        \* arguments of the conversions of integers
  Written,       \* arguments of write
  EchoLen,       \* ALT_LOG_WRITE_ECHO_LEN; 15
  Interval,      \* ALT_LOG_SYS_CLK_INTERVAL, in ticks
  Depth,         \* the write FIFO of the JTAG UART
  MaxInterrupts  \* bound: handlers that run

Digit10 == <<"0", "1", "2", "3", "4", "5", "6", "7", "8", "9">>

\* A width has no zero in front, and in the rest a digit follows a point: else it
\* would be the flag of zeros, or belong to the width.  No width is bounded here;
\* an int holds those of nine digits.
IsConversion(f) ==
  /\ f.zero \in BOOLEAN /\ f.letter \in {"d", "u", "o", "x", "X", "c", "s", "q", "%"}
  /\ f.width \in Seq(ToSet(Digit10)) /\ (f.width # <<>> => f.width[1] # "0")
  /\ f.rest \in Seq(ToSet(Digit10) \cup {".", "l"})
  /\ \A n \in DOMAIN f.rest :
       f.rest[n] \in ToSet(Digit10) => \E k \in 1..n : f.rest[k] = "."

ASSUME LogAssumption ==
  /\ Level \subseteq -1..3
  /\ \A l \in Level : \A f \in Conversion[l] : IsConversion(f)
  /\ LogWord \in Nat \ {0} /\ Number \subseteq 0..(Power(2)[LogWord] - 1)
  /\ Written \subseteq Seq(STRING)
  /\ {EchoLen, Depth} \subseteq Nat \ {0} /\ {Interval, MaxInterrupts} \subseteq Nat

\* A number is not printed as a percent sign or a control character.
ASSUME NumbersPrinted == \A n \in 0..Depth : ToString(n) \in STRING \ {"%", "EOT"}

VARIABLES
  level,
  message, arg,  \* the format and the argument of the call of the program
  pf,            \* the locals of alt_log_private_printf
  tx,            \* what the step it is at has still to give to alt_log_txchar
  ready,         \* alt_log_txchar of the program has seen space
  raced,         \* since then a handler has written
  fifo,          \* characters in the FIFO
  given, dropped, races,   \* of the program: characters written, dropped, and
                        \* written after a handler got between test and write
  irqTx,         \* what the handler that runs has still to write
  handlers,    \* handlers still to run
  beat           \* [count, sec, ticks] of the heartbeat

logging == <<level, message, arg, pf, tx, ready, raced, fifo, given, dropped, races,
         irqTx, handlers, beat>>

\* What ALT_LOG_FLAGS turns on.
On(flag) ==
  CASE flag = "boot"                 -> level # -1
    [] flag \in {"sys_clk", "startup"} -> level \in {1, 2, 3}
    [] flag \in {"write", "alarm"}     -> level \in {2, 3}
    [] flag = "isr"                  -> level = 3

Begin == [w |-> 1, state |-> "chars", zero |-> FALSE, base |-> 10, signed |-> TRUE,
          upper |-> FALSE, before |-> -1, after |-> -1]

NoArg == [conversion |-> {}, v |-> 0, s |-> <<>>]

LogInit ==
  /\ level \in Level
  /\ message = <<>> /\ arg = NoArg /\ pf = Begin /\ tx = <<>>
  /\ ready = FALSE /\ raced = FALSE /\ fifo = 0
  /\ given = <<>> /\ dropped = 0 /\ races = 0
  /\ irqTx = <<>> /\ handlers = MaxInterrupts
  /\ beat = [count |-> 0, sec |-> 0, ticks |-> 0]

TheCall  == <<message, arg>>
Wire  == <<ready, raced, fifo, given, dropped, races>>
Irq   == <<irqTx, handlers, beat>>

-----------------------------------------------------------------------------
(* Calls of the program *)

Text2(f) == <<"%">> \o (IF f.zero THEN <<"0">> ELSE <<>>) \o f.width \o f.rest \o <<f.letter>>

LogIdle == message = <<>> /\ given = <<>> /\ irqTx = <<>>

CallPrintf(format, a) ==
  /\ message' = format /\ arg' = a /\ pf' = Begin
  /\ UNCHANGED <<level, tx>> /\ UNCHANGED Wire /\ UNCHANGED Irq

\* alt_log_jtag_uart_print_control_reg, its fields in one character.
ControlRegister(header) == <<header, ToString(Depth - fifo)>>

\* alt_log_jtag_uart_startup_info, which the start of the driver calls.
StartupInfo ==
  /\ LogIdle /\ On("startup")
  /\ LET s == ControlRegister("Startup") IN CallPrintf(s, [NoArg EXCEPT !.s = s])

\* ALT_LOG_PRINT_BOOT, with any conversion.
PrintBoot ==
  /\ LogIdle /\ On("boot")
  /\ \E f \in Conversion[level] : \E v \in IF f.letter \in {"d", "u", "o", "x", "X"}
                                    THEN Number ELSE {0} :
       CallPrintf(Text2(f) \o <<"\n">>, [conversion |-> {f}, v |-> v, s |-> <<"h", "i">>])

\* What alt_log_write makes of the beginning of the text: its last character
\* gives way to the end of the line, a Ctrl-D becomes a D, and a zero ends it.
Echo(t) ==
  LET length == IF EchoLen > Len(t) THEN Len(t) ELSE EchoLen
      zeros  == {n \in 1..length - 1 : t[n] = "NUL"}
  IN  [n \in 1..(IF zeros = {} THEN length + 1 ELSE Min(zeros) - 1) |->
         CASE n = length     -> "\n"
           [] n = length + 1 -> "\r"
           [] t[n] = "EOT"   -> "D"
           [] OTHER          -> t[n]]

\* alt_log_write; less than two characters are not echoed.
WriteEcho ==
  /\ LogIdle /\ On("write")
  /\ \E t \in Written : /\ Len(t) >= 2
                        /\ CallPrintf(<<"%", "s">>, [NoArg EXCEPT !.s = Echo(t)])

-----------------------------------------------------------------------------
(* alt_log_private_printf, a character of the format at a time *)

Lower     == Digit10 \o <<"a", "b", "c", "d", "e", "f">>
Upper     == Digit10 \o <<"A", "B", "C", "D", "E", "F">>
Repeat(c, r) == [n \in 1..r |-> c]      \* none if r is negative

Formatting == message # <<>> /\ tx = <<>> /\ irqTx = <<>> /\ pf.w <= Len(message)
C(chars)   == Formatting /\ message[pf.w] \in chars
Quiet      == UNCHANGED <<tx, level>> /\ UNCHANGED TheCall /\ UNCHANGED Wire /\ UNCHANGED Irq
Send(chars) == tx' = chars /\ UNCHANGED level /\ UNCHANGED TheCall /\ UNCHANGED Wire /\ UNCHANGED Irq
Next_w     == pf.w + 1

LogPlain ==
  /\ Formatting /\ pf.state = "chars" /\ message[pf.w] # "%"
  /\ Send(<<message[pf.w]>>) /\ pf' = [pf EXCEPT !.w = Next_w]

LogOpens ==
  /\ C({"%"}) /\ pf.state = "chars"
  /\ pf' = [Begin EXCEPT !.w = Next_w, !.state = "first"] /\ Quiet

LeadingZero ==
  /\ C({"0"}) /\ pf.state = "first"
  /\ pf' = [pf EXCEPT !.w = Next_w, !.state = "other", !.zero = TRUE] /\ Quiet

LogPercent ==
  /\ C({"%"}) /\ pf.state = "first"
  /\ Send(<<"%">>) /\ pf' = [pf EXCEPT !.w = Next_w, !.state = "chars"]

\* The state otherFmtChar, to which the first character goes too if it is
\* neither a zero nor a %.
Other(chars) ==
  /\ C(chars)
  /\ pf.state = "other" \/ (pf.state = "first" /\ message[pf.w] \notin {"0", "%"})

Point ==
  /\ Other({"."})
  /\ pf' = [pf EXCEPT !.w = Next_w, !.state = "other", !.after = 0] /\ Quiet

\* A digit of the width, or of the precision, which nothing uses.
WidthDigit ==
  /\ Other(ToSet(Digit10))
  /\ LET d == (CHOOSE n \in 1..10 : Digit10[n] = message[pf.w]) - 1
     IN  pf' = IF pf.after < 0
               THEN [pf EXCEPT !.w = Next_w, !.state = "other",
                               !.before = (IF @ < 0 THEN 0 ELSE @ * 10) + d]
               ELSE [pf EXCEPT !.w = Next_w, !.state = "other", !.after = @ * 10 + d]
  /\ Quiet

\* An int is as long as a long.
LongFlag ==
  /\ Other({"l"})
  /\ pf' = [pf EXCEPT !.w = Next_w, !.state = "other"] /\ Quiet

LogBase(c) == IF c = "o" THEN 8 ELSE IF c \in {"x", "X"} THEN 16 ELSE 10

\* The digits of v from the largest place on, which a first loop looks for.
Numerals(v, base, table) ==
  LET size[x \in 0..v] == IF x \div base > 0 THEN 1 + size[x \div base] ELSE 1
  IN  [n \in 1..size[v] |-> table[1 + ((v \div Power(base)[size[v] - n]) % base)]]

\* Fault: with leading zeros the sign is not counted in the width.
ConvertWide ==
  /\ Other({"d", "i", "u", "o", "x", "X"})
  /\ LET c    == message[pf.w]
         sign == c \in {"d", "i"} /\ arg.v >= Power(2)[LogWord - 1]
         v    == IF sign THEN Power(2)[LogWord] - arg.v ELSE arg.v
         num  == Numerals(v, LogBase(c), IF c = "X" THEN Upper ELSE Lower)
         fill == pf.before - Len(num)
         minus == IF sign THEN <<"-">> ELSE <<>>
     IN  Send(IF pf.zero THEN minus \o Repeat("0", fill) \o num
                         ELSE Repeat(" ", fill - Len(minus)) \o minus \o num)
  /\ pf' = [pf EXCEPT !.w = Next_w, !.state = "chars"]

\* doIntegerPrint: the sign is stripped, and comes before leading zeros and
\* after leading spaces.
ConvertInteger ==
  /\ Other({"d", "i", "u", "o", "x", "X"})
  /\ LET c    == message[pf.w]
         sign == c \in {"d", "i"} /\ arg.v >= Power(2)[LogWord - 1]
         v    == IF sign THEN Power(2)[LogWord] - arg.v ELSE arg.v
         num  == Numerals(v, LogBase(c), IF c = "X" THEN Upper ELSE Lower)
         minus == IF sign THEN <<"-">> ELSE <<>>
         fill == pf.before - Len(num) - Len(minus)
     IN  Send(IF pf.zero THEN minus \o Repeat("0", fill) \o num
                         ELSE Repeat(" ", fill) \o minus \o num)
  /\ pf' = [pf EXCEPT !.w = Next_w, !.state = "chars"]

\* %c takes the first character of the argument, %s all of it.
ConvertText ==
  /\ Other({"c", "s"})
  /\ LET s == IF message[pf.w] = "c" THEN <<Head(arg.s)>> ELSE arg.s
     IN  Send(Repeat(" ", pf.before - Len(s)) \o s)
  /\ pf' = [pf EXCEPT !.w = Next_w, !.state = "chars"]

\* Any other letter ends the conversion and prints nothing.
ConvertNothing ==
  /\ Other({"q", "%"})
  /\ pf' = [pf EXCEPT !.w = Next_w, !.state = "chars"] /\ Quiet

PrintfReturns ==
  /\ message # <<>> /\ tx = <<>> /\ irqTx = <<>> /\ pf.w > Len(message)
  /\ message' = <<>>
  /\ UNCHANGED <<level, arg, pf, tx>> /\ UNCHANGED Wire /\ UNCHANGED Irq

-----------------------------------------------------------------------------
(* The register of the FIFO *)

\* alt_log_txchar of the program: the test, and then the write, with interrupts
\* enabled all the while.
TxTest ==
  /\ tx # <<>> /\ ~ready /\ irqTx = <<>> /\ fifo < Depth
  /\ ready' = TRUE /\ raced' = FALSE
  /\ UNCHANGED <<level, pf, tx, fifo, given, dropped, races>>
  /\ UNCHANGED TheCall /\ UNCHANGED Irq

\* A full FIFO drops what is written.
TxWrite ==
  /\ ready /\ irqTx = <<>>
  /\ ready' = FALSE /\ tx' = Tail(tx) /\ given' = Append(given, Head(tx))
  /\ IF fifo < Depth THEN fifo' = fifo + 1 /\ UNCHANGED dropped
                     ELSE dropped' = dropped + 1 /\ UNCHANGED fifo
  /\ races' = IF raced THEN races + 1 ELSE races
  /\ UNCHANGED <<level, pf, raced>> /\ UNCHANGED TheCall /\ UNCHANGED Irq

HostReads ==
  /\ fifo > 0 /\ fifo' = fifo - 1
  /\ UNCHANGED <<level, pf, tx, ready, raced, given, dropped, races>>
  /\ UNCHANGED TheCall /\ UNCHANGED Irq

-----------------------------------------------------------------------------
(* Handlers, each from its beginning to its end *)

InterruptLogs(chars) ==
  /\ handlers > 0 /\ irqTx = <<>>
  /\ handlers' = handlers - 1 /\ irqTx' = chars
  /\ UNCHANGED <<level, pf, tx>> /\ UNCHANGED TheCall /\ UNCHANGED Wire

\* The wait for space and the write: nothing comes between them here.
HandlerWrites ==
  /\ irqTx # <<>> /\ fifo < Depth
  /\ irqTx' = Tail(irqTx) /\ fifo' = fifo + 1
  /\ raced' = TRUE
  /\ UNCHANGED <<level, pf, tx, ready, given, dropped, races, handlers, beat>>
  /\ UNCHANGED TheCall

\* altera_avalon_jtag_uart_report_log, the callback of an alarm.
Report == On("alarm") /\ InterruptLogs(ControlRegister("Alarm")) /\ UNCHANGED beat

\* alt_log_jtag_uart_isr_proc, in each interrupt of the JTAG UART.
IsrReport == On("isr") /\ InterruptLogs(ControlRegister("IRQ")) /\ UNCHANGED beat

\* alt_log_system_clock, of the handler of the timer.
Heartbeat ==
  /\ On("sys_clk")
  /\ IF beat.count + 1 > Interval
     THEN /\ beat' = [count |-> 0, sec |-> beat.sec + 1, ticks |-> beat.ticks + 1]
          /\ InterruptLogs(<<"On", ToString(beat.sec)>>)
     ELSE /\ beat' = [beat EXCEPT !.count = @ + 1, !.ticks = @ + 1]
          /\ InterruptLogs(<<>>)

LogNext ==
  \/ PrintBoot \/ WriteEcho \/ StartupInfo
  \/ LogPlain \/ LogOpens \/ LeadingZero \/ LogPercent \/ Point \/ WidthDigit \/ LongFlag
  \/ ConvertInteger \/ ConvertText \/ ConvertNothing \/ PrintfReturns
  \/ TxTest \/ TxWrite \/ HostReads \/ HandlerWrites \/ Report
  \/ IsrReport \/ Heartbeat

LogSpec == LogInit /\ [][LogNext]_logging

-----------------------------------------------------------------------------
(* Properties *)

\* A number in full and without leading zeros.
Numeral(v, base, table) ==
  LET size == CHOOSE n \in 1..LogWord :
                v < Power(base)[n] /\ (n = 1 \/ v >= Power(base)[n - 1])
  IN  [n \in 1..size |-> table[1 + ((v \div Power(base)[size - n]) % base)]]

WidthOf(f) ==
  LET d[n \in 0..Len(f.width)] ==
        IF n = 0 THEN 0
        ELSE 10 * d[n - 1] + (CHOOSE k \in 0..9 : Digit10[k + 1] = f.width[n])
  IN  d[Len(f.width)]

\* What printf prints for a conversion whose precision is left out, the flag of
\* zeros for integers only; a letter that is no conversion gives nothing.
WithoutPrecision(f, v, s) ==
  LET integer  == f.letter \in {"d", "u", "o", "x", "X"}
      negative == f.letter = "d" /\ v >= Power(2)[LogWord - 1]
      body     == IF integer
                  THEN Numeral(IF negative THEN Power(2)[LogWord] - v ELSE v, LogBase(f.letter),
                               IF f.letter = "X" THEN Upper ELSE Lower)
                  ELSE IF f.letter = "c" THEN <<s[1]>> ELSE s
      sign     == IF negative THEN <<"-">> ELSE <<>>
      room     == WidthOf(f) - Len(sign \o body)
  IN  CASE f.letter = "q" -> <<>>
        [] f.letter = "%" -> IF Len(Text2(f)) = 2 THEN <<"%">> ELSE <<>>
        [] integer /\ f.zero -> sign \o Repeat("0", room) \o body
        [] OTHER -> Repeat(" ", room) \o sign \o body

\* A conversion without a precision prints what printf would: the width counts the
\* sign, zeros come between sign and digits and spaces before both, the most
\* negative number prints its magnitude, and the text after a conversion is printed
\* as text whatever the conversion was.  A precision is read and has no effect
\* (alt_log_printf.c:191-194): the conversion prints what it would without it, which
\* is not what printf prints, 0 for a zero in %.2d and all of the text in %.1s.
LogPrintsFormat ==
  message = <<>> /\ given # <<>> =>
    given = IF arg.conversion = {} THEN arg.s
            ELSE WithoutPrecision(CHOOSE f \in arg.conversion : TRUE, arg.v, arg.s) \o <<"\n">>

\* A character of the program is lost only where a handler wrote to the FIFO
\* between its test and its write, one at most each time.
LossNeedsRace == dropped <= races

\* No Ctrl-D of the text that the program writes reaches the terminal of the log,
\* which it might close.
NoCtrlD == "EOT" \notin ToSet(given)

\* No tick is lost between heartbeats or counted in two, but they come every
\* Interval + 1 ticks, because the count has to exceed the interval (471), and not
\* every Interval ticks, as the comment says (466): the seconds that the heartbeat
\* prints fall behind by one in each Interval + 1.
HeartbeatCounts == beat.ticks = beat.sec * (Interval + 1) + beat.count

\* Nothing but a race loses a character, the others are what the conversions give
\* without their precision, and the heartbeat counts intervals one tick too long.
LogSound == LogPrintsFormat /\ LossNeedsRace /\ NoCtrlD /\ HeartbeatCounts
=============================================================================
