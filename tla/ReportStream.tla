---------------------------- MODULE ReportStream ----------------------------
(***************************************************************************)
(* What polling an interrupt endpoint promises: the host receives the      *)
(* reports the device makes, each once, whole and in order.  A report is   *)
(* the sequence of the packets that carry it, a packet the number of its   *)
(* report.                                                                 *)
(***************************************************************************)
EXTENDS Naturals, Sequences

VARIABLES
  made,      \* the number of reports the device has made
  received   \* the reports the host has received

Init == made = 0 /\ received = <<>>

Make == made' = made + 1 /\ UNCHANGED received

Receive ==
  /\ Len(received) < made
  /\ received' = Append(received, <<Len(received) + 1>>)
  /\ UNCHANGED made

Next == Make \/ Receive

Spec == Init /\ [][Next]_<<made, received>>
=============================================================================
