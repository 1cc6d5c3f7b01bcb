--------------------------- MODULE ControlRequest ---------------------------
(***************************************************************************)
(* What a control transfer promises its caller: an answer of 0 means that  *)
(* the device took the request and, where it was to send something, that   *)
(* all of it has arrived.  An error may come at any time and means         *)
(* nothing: the device may have done the request or not.                   *)
(***************************************************************************)

VARIABLE progress

Init == progress = "ok"

Ask == progress \in {"ok", "error"} /\ progress' = "asked"

\* The device takes the request; with nothing to send it is complete.
Hear == progress = "asked" /\ progress' \in {"heard", "whole"}

Arrive == progress = "heard" /\ progress' = "whole"

AnswerOk == progress = "whole" /\ progress' = "ok"

AnswerError == progress \in {"asked", "heard", "whole"} /\ progress' = "error"

Next == Ask \/ Hear \/ Arrive \/ AnswerOk \/ AnswerError

Spec == Init /\ [][Next]_progress
=============================================================================
