------------------------------ MODULE MCLibrary ------------------------------
(***************************************************************************)
(* Files: two descriptors beside the standard ones; the JTAG UART as       *)
(* console, which /dev/null, the other device, has no open function like,  *)
(* and a file system that has one.  Text: every format of up to four of    *)
(* five characters.  Log: every conversion at level 0, where no handler    *)
(* logs, and one conversion above.                                         *)
(***************************************************************************)
EXTENDS Library

CONSTANTS uart, rozipfs, null

Functions ==
  uart    :> {"read", "write", "close", "ioctl"} @@ null :> {"write"} @@
  rozipfs :> {"open", "read", "lseek", "fstat"}

\* A program that is three instructions long, the first and the last of which
\* no exception can come from.
Lengths == [program |-> 3, isr |-> 2, handler |-> 2]
Raising == {<<"program", 1>>, <<"isr", 0>>, <<"handler", 0>>}

\* Both signs, one to three digits, zeros in either place.
Values == {-127, -100, -99, -9, 0, 42, 127}

AllFormats == UNION {[1..n -> {"a", "%", "c", "x", "s"}] : n \in 0..4}
SomeText   == {<<>>, <<"h", "i">>}

AllConversions ==
  [zero : BOOLEAN, width : {<<>>, <<"3">>, <<"1", "2">>},
   rest : {<<>>, <<".", "2">>, <<"l">>},
   letter : {"d", "u", "o", "x", "X", "c", "s", "q", "%"}]
OneConversion == [zero : {TRUE}, width : {<<"3">>}, rest : {<<>>}, letter : {"d"}]

Levels      == -1..3
Conversions == [l \in Levels |-> IF l = 0 THEN AllConversions ELSE OneConversion]
LogWrites   == {<<"a">>, <<"a", "b">>, <<"EOT", "a", "b", "c">>, <<"a", "EOT", "NUL", "b", "c">>}
=============================================================================
