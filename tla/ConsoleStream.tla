--------------------------- MODULE ConsoleStream ---------------------------
(***************************************************************************)
(* What the console promises: two streams of bytes, from the firmware to   *)
(* the host and back, in which no byte is lost, doubled or overtaken.      *)
(* Bytes are numbered in the order they enter a stream, modulo Numbers, a  *)
(* number larger than the bytes a stream can hold.                         *)
(***************************************************************************)
EXTENDS Naturals, Sequences

CONSTANT Numbers

VARIABLES
  out,     \* [next, queue]: written by the firmware, not yet taken by the host
  in       \* [next, queue]: sent by the host, not yet read by the firmware

Empty == [next |-> 0, queue |-> <<>>]

\* The stream s after n more bytes.
Longer(s, n) ==
  [next  |-> (s.next + n) % Numbers,
   queue |-> s.queue \o [i \in 1..n |-> (s.next + i - 1) % Numbers]]

\* The stream s after its first n bytes have left.
Shorter(s, n) == [s EXCEPT !.queue = SubSeq(@, n + 1, Len(@))]

Init == out = Empty /\ in = Empty

Enter(s, t) == \E n \in 1..(Numbers - 1 - Len(s.queue)) : t = Longer(s, n)
Leave(s, t) == \E n \in 1..Len(s.queue) : t = Shorter(s, n)

Next ==
  \/ (Enter(out, out') \/ Leave(out, out')) /\ UNCHANGED in
  \/ (Enter(in, in') \/ Leave(in, in')) /\ UNCHANGED out

Spec == Init /\ [][Next]_<<out, in>>
=============================================================================
