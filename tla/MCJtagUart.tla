----------------------------- MODULE MCJtagUart -----------------------------
(* JtagUart with a writer, as the firmware is, a reader, and a program that only sets the time-out
   and closes without waiting. *)
EXTENDS JtagUart

Uses ==
  {[does |-> {"write"}, nonblock |-> FALSE, timeouts |-> {}],
   [does |-> {"read"},  nonblock |-> FALSE, timeouts |-> {}],
   [does |-> {},        nonblock |-> TRUE,  timeouts |-> {0, 2}]}
=============================================================================
