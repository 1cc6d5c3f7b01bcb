------------------------------- MODULE Library -------------------------------
(***************************************************************************)
(* The parts of the board support package that share no state, side by     *)
(* side: a behaviour follows one of them and leaves the others as they     *)
(* start.  Each of them keeps its own specification.                       *)
(***************************************************************************)
EXTENDS Files, Profile, Exceptions, Board, Interrupts, Process, Text, Log, Timestamp

VARIABLE part   \* the part that is followed

Part == {"files", "profile", "exceptions", "board", "interrupts", "process", "text",
         "log", "timestamp"}

library == <<vars, profile, exceptions, board, interrupts, process, text, logging,
             timestamp, part>>

OneFormat    == CHOOSE f \in Formats : TRUE
OneArguments == CHOOSE a \in [c : Chars, x : Words, s : Strings] : TRUE
OneLevel     == CHOOSE l \in Level : TRUE

\* Of a part that is not followed one initial state will do.
LibraryInit ==
  /\ part \in Part
  /\ Init /\ ProfileInit /\ ExceptionsInit /\ BoardInit /\ InterruptsInit /\ ProcessInit
  /\ part # "text" => fmt = OneFormat /\ args = OneArguments
  /\ TextInit
  /\ part # "log" => level = OneLevel
  /\ LogInit
  /\ part # "timestamp" => freq = 0 /\ writable = TRUE
  /\ TimestampInit

FilesSteps ==
  /\ part = "files" /\ Next
  /\ UNCHANGED <<profile, exceptions, board, interrupts, process, text, logging, timestamp, part>>

ProfileSteps ==
  /\ part = "profile" /\ ProfileNext
  /\ UNCHANGED <<vars, exceptions, board, interrupts, process, text, logging, timestamp, part>>

ExceptionsSteps ==
  /\ part = "exceptions" /\ ExceptionsNext
  /\ UNCHANGED <<vars, profile, board, interrupts, process, text, logging, timestamp, part>>

BoardSteps ==
  /\ part = "board" /\ BoardNext
  /\ UNCHANGED <<vars, profile, exceptions, interrupts, process, text, logging, timestamp, part>>

InterruptsSteps ==
  /\ part = "interrupts" /\ InterruptsNext
  /\ UNCHANGED <<vars, profile, exceptions, board, process, text, logging, timestamp, part>>

ProcessSteps ==
  /\ part = "process" /\ ProcessNext
  /\ UNCHANGED <<vars, profile, exceptions, board, interrupts, text, logging, timestamp, part>>

TextSteps ==
  /\ part = "text" /\ TextNext
  /\ UNCHANGED <<vars, profile, exceptions, board, interrupts, process, logging, timestamp, part>>

LogSteps ==
  /\ part = "log" /\ LogNext
  /\ UNCHANGED <<vars, profile, exceptions, board, interrupts, process, text, timestamp, part>>

TimestampSteps ==
  /\ part = "timestamp" /\ TimestampNext
  /\ UNCHANGED <<vars, profile, exceptions, board, interrupts, process, text, logging, part>>

LibraryNext ==
  \/ FilesSteps \/ ProfileSteps \/ ExceptionsSteps \/ BoardSteps
  \/ InterruptsSteps \/ ProcessSteps \/ TextSteps \/ LogSteps
  \/ TimestampSteps

LibrarySpec == LibraryInit /\ [][LibraryNext]_library

-----------------------------------------------------------------------------
\* main finds its variables, its constructors called and its standard input and
\* output open, whenever a debugger reset the processor and whichever driver failed.
StartedUp == StartsFresh /\ RunsOnce /\ StdHasDriver
=============================================================================
