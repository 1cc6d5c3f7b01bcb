---------------------------- MODULE SpiExchange ----------------------------
(***************************************************************************)
(* What alt_avalon_spi_command promises its callers in MAX3421E.c: one     *)
(* chip-select frame in which the slave receives exactly the w bytes of    *)
(* write_data followed by r zero bytes, and in which the caller gets the   *)
(* slave's answers to those r zeros, in order, and nothing else.           *)
(*                                                                         *)
(* A byte sent is identified by its index in write_data (1, 2, ...) or is  *)
(* 0 for the filler byte; a byte answered by the slave is identified by    *)
(* its index in the frame.                                                 *)
(***************************************************************************)
EXTENDS Naturals, Sequences

CONSTANTS MaxWrite,     \* longest write_data of a call
          MaxRead       \* longest read_data of a call

VARIABLES busy,         \* a call is in progress
          request,      \* its [write, read] lengths
          frame,        \* the bytes the slave received in the last frame
          answer        \* the bytes returned in read_data by the last call

vars == <<busy, request, frame, answer>>

\* The lengths the callers use: the register byte is always written.
Requests == [write : 1..MaxWrite, read : 0..MaxRead]

\* The frame a request must produce, and the part of it that is answered.
Frame(q)  == [i \in 1..(q.write + q.read) |-> IF i <= q.write THEN i ELSE 0]
Answer(q) == [i \in 1..q.read |-> q.write + i]

Init == /\ busy = FALSE
        /\ request = [write |-> 1, read |-> 0]
        /\ frame = <<>>
        /\ answer = <<>>

Begin(q) == /\ ~busy
            /\ busy' = TRUE
            /\ request' = q
            /\ frame' = <<>>
            /\ answer' = <<>>

End == /\ busy
       /\ busy' = FALSE
       /\ frame' = Frame(request)
       /\ answer' = Answer(request)
       /\ UNCHANGED request

Next == (\E q \in Requests : Begin(q)) \/ End

Spec == Init /\ [][Next]_vars /\ WF_vars(End)
=============================================================================
