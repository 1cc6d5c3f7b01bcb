----------------------------- MODULE Interrupts -----------------------------
(***************************************************************************)
(* The interrupt interface of the HAL: the table of handlers and the lines *)
(* enabled (alt_irq_handler.c, alt_iic.c, alt_iic_isr_register.c), critical *)
(* sections (alt_irq.h) and handlers that let lines of higher priority     *)
(* interrupt them (alt_legacy_irq.h).  A lower number is a higher priority. *)
(*                                                                         *)
(* A device asks until its handler has served it.  Exceptions models how a *)
(* handler is entered and left.                                            *)
(***************************************************************************)
EXTENDS Integers, Sequences, FiniteSets, FiniteSetsExt

CONSTANTS
  Lines,        \* ALT_NIRQ: the lines are 0..Lines-1
  MaxSections   \* bound on the critical sections open at once

ASSUME InterruptsAssumption == Lines \in Nat \ {0} /\ MaxSections \in Nat

Line == 0..(Lines - 1)

VARIABLES
  table,      \* alt_irq: the lines that have a handler
  active,     \* alt_irq_active: the lines enabled
  ienable,    \* the control register
  mask,       \* alt_priority_mask
  status,     \* PIE
  requests,   \* the lines whose devices ask
  running,    \* the handlers on the stack, the oldest first: [line, open, old]
  sections    \* the contexts of alt_irq_disable_all, the oldest first

controller == <<table, active, ienable, mask, status>>
interrupts == <<controller, requests, running, sections>>

\* alt_irq_pending.
Pending(r) == r \cap ienable

InterruptsInit ==
  /\ table = {} /\ active = {} /\ ienable = {} /\ mask = Line
  /\ status = TRUE
  /\ requests = {} /\ running = <<>> /\ sections = <<>>

InProgram == running = <<>>
Current      == running[Len(running)]

\* Where a handler may call the functions below: it has not opened itself, and
\* nor has the one it interrupted.  (alt_irq_enable disregards alt_priority_mask.)
InHandler == running # <<>> /\ mask = Line /\ ~Current.open

Asks(i) ==
  /\ i \notin requests /\ requests' = requests \cup {i}
  /\ UNCHANGED <<controller, running, sections>>

-----------------------------------------------------------------------------
(* Critical sections *)

\* alt_irq_disable_all and alt_irq_enable_all around what a caller does.
Disable_all ==
  /\ InProgram /\ Len(sections) < MaxSections
  /\ sections' = Append(sections, status)
  /\ status' = FALSE
  /\ UNCHANGED <<table, active, ienable, mask, requests, running>>

Enable_all ==
  /\ InProgram /\ sections # <<>>
  /\ status' = sections[Len(sections)]
  /\ sections' = SubSeq(sections, 1, Len(sections) - 1)
  /\ UNCHANGED <<table, active, ienable, mask, requests, running>>

-----------------------------------------------------------------------------
(* Lines; each of these is a critical section of its own *)

Irq_enable(i) ==
  /\ active' = active \cup {i} /\ ienable' = active'

Irq_disable(i) ==
  /\ active' = active \ {i} /\ ienable' = active'

\* alt_ic_irq_enable, of a line that has a handler.
EnableLine(i) ==
  /\ InProgram \/ InHandler
  /\ i \in table /\ Irq_enable(i)
  /\ UNCHANGED <<table, mask, status, requests, running, sections>>

DisableLine(i) ==
  /\ InProgram \/ InHandler
  /\ Irq_disable(i)
  /\ UNCHANGED <<table, mask, status, requests, running, sections>>

\* alt_ic_isr_register with a handler: the line is enabled with it.
Isr_register(i) ==
  /\ InProgram
  /\ table' = table \cup {i} /\ Irq_enable(i)
  /\ UNCHANGED <<mask, status, requests, running, sections>>

\* ... and without one: it is disabled.
Isr_unregister(i) ==
  /\ InProgram
  /\ table' = table \ {i} /\ Irq_disable(i)
  /\ UNCHANGED <<mask, status, requests, running, sections>>

-----------------------------------------------------------------------------
(* alt_irq_handler *)

\* The bits are tested from the lowest.
FirstOf(S) == Min(S)

Handler(i) == [line |-> i, open |-> FALSE, old |-> {}]

\* An interrupt is taken and the loop begins.
Irq_handler ==
  /\ status /\ Pending(requests) # {}
  /\ status' = FALSE
  /\ running' = Append(running, Handler(FirstOf(Pending(requests))))
  /\ UNCHANGED <<table, active, ienable, mask, requests, sections>>

\* A handler returns; the next line is looked for, the loop ends without one.
HandlerDone ==
  /\ running # <<>> /\ ~Current.open
  /\ LET left == requests \ {Current.line}
         rest == SubSeq(running, 1, Len(running) - 1) IN
       /\ requests' = left
       /\ IF Pending(left) # {}
            THEN running' = Append(rest, Handler(FirstOf(Pending(left)))) /\ UNCHANGED status
            ELSE running' = rest /\ status' = TRUE
  /\ UNCHANGED <<table, active, ienable, mask, sections>>

SetCurrent(h) == running' = [running EXCEPT ![Len(running)] = h]

\* Fault: the handler's own line stays on.
AtMost(i) == 0..i

Higher(i) == 0..(i - 1)

Irq_interruptible ==
  /\ running # <<>> /\ ~Current.open
  /\ SetCurrent([Current EXCEPT !.open = TRUE, !.old = mask])
  /\ mask' = Higher(Current.line)
  /\ ienable' = active \cap mask'
  /\ status' = TRUE
  /\ UNCHANGED <<table, active, requests, sections>>

Irq_non_interruptible ==
  /\ running # <<>> /\ Current.open
  /\ SetCurrent([Current EXCEPT !.open = FALSE])
  /\ status' = FALSE
  /\ mask' = Current.old
  /\ ienable' = Current.old \cap active
  /\ UNCHANGED <<table, active, requests, sections>>

InterruptsNext ==
  \/ \E i \in Line : \/ Asks(i) \/ EnableLine(i) \/ DisableLine(i)
                     \/ Isr_register(i) \/ Isr_unregister(i)
  \/ Disable_all \/ Enable_all
  \/ Irq_handler \/ HandlerDone \/ Irq_interruptible \/ Irq_non_interruptible

InterruptsSpec == InterruptsInit /\ [][InterruptsNext]_interrupts

-----------------------------------------------------------------------------
(* Properties *)

\* A handler is interrupted by lines of higher priority only, so never by its
\* own, however the sections that allow it are nested; when the last handler has
\* returned the mask and the status are what they were.
PriorityKept ==
  /\ \A m, n \in DOMAIN running : m < n => running[n].line < running[m].line
  /\ \A n \in DOMAIN running : n < Len(running) => running[n].open
  /\ InProgram => mask = Line /\ (status <=> sections = <<>>)

\* Every handler that is called exists, and the processor sees the lines that
\* are enabled, as far as the priority of the running handler allows: the table,
\* alt_irq_active and the register are changed one after the other.
TablesAgree ==
  /\ ienable = active \cap mask
  /\ active \subseteq table
  /\ \A n \in DOMAIN running : running[n].line \in table

\* No handler runs inside a critical section, however sections are nested.
SectionKept == sections # <<>> => running = <<>>

\* Handlers run by priority, for enabled lines, and outside critical sections,
\* however registration, sections and nested handlers interleave.
InterruptsSound == PriorityKept /\ TablesAgree /\ SectionKept
=============================================================================
