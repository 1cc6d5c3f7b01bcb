----------------------------- MODULE Exceptions -----------------------------
(***************************************************************************)
(* Entry into and return from exceptions: the common entry                 *)
(* (alt_exception_entry.S), the test for an interrupt (alt_irq_entry.S)    *)
(* and the handler of the instructions that raise an exception themselves  *)
(* (alt_instruction_exception_entry.c, alt_instruction_exception_register.c). *)
(*                                                                         *)
(* An instruction is a pair <<routine, number>>.  The program runs in a    *)
(* loop, the interrupt routine and the registered handler from their first *)
(* instruction to their last.  Instructions of each may raise an exception. *)
(***************************************************************************)
EXTENDS Integers, Sequences

CONSTANTS
  Length,        \* the number of instructions of "program", "isr" and "handler"
  Raises,        \* the instructions that may raise an exception
  MaxNesting     \* bound on the frames on the stack

Routine == {"program", "isr", "handler"}
Instruction == Routine \X Nat

ASSUME ExceptionsAssumption ==
  /\ Length \in [Routine -> Nat \ {0}]
  /\ Raises \subseteq Instruction /\ MaxNesting \in Nat

VARIABLES
  at,           \* the instruction to execute
  state,        \* "runs", or where the entry is: "test", "exit", "halted"
  pie,          \* interrupts are on
  ea, estatus,  \* the registers the hardware fills at an exception
  frames,       \* what is saved on the stack, the oldest first
  pending,      \* ipending: a device asks for an interrupt
  handled       \* alt_instruction_exception_handler is set

control    == <<at, state, pie, frames>>
registers  == <<ea, estatus>>
exceptions == <<control, registers, pending, handled>>

\* ret and pie are at 72(sp) and 68(sp).  History: the instruction that was
\* interrupted or raised the exception, and whether it was skipped as told.
Frame(ret, irq) ==
  [ret |-> ret, pie |-> pie, from |-> at, raised |-> ~irq, skip |-> FALSE, nested |-> FALSE]

After(i)  == <<i[1], i[2] + 1>>
Before(i) == <<i[1], i[2] - 1>>
Top       == frames[Len(frames)]
SetTop(f) == frames' = [frames EXCEPT ![Len(frames)] = f]

ExceptionsInit ==
  /\ at = <<"program", 0>> /\ state = "runs" /\ pie = TRUE
  /\ ea = at /\ estatus = FALSE /\ frames = <<>>
  /\ pending = FALSE /\ handled = FALSE

-----------------------------------------------------------------------------
(* Programs and devices *)

IsLast(i) == i[2] + 1 = Length[i[1]]

\* The interrupt routine and the handler return after their last instruction.
Execute ==
  /\ state = "runs" /\ ~(at[1] # "program" /\ IsLast(at))
  /\ at' = IF IsLast(at) THEN <<"program", 0>> ELSE After(at)
  /\ UNCHANGED <<state, pie, frames, registers, pending, handled>>

\* alt_instruction_exception_register, with a handler or with null.
Register(h) ==
  /\ state = "runs" /\ at[1] = "program"
  /\ handled' = h
  /\ UNCHANGED <<control, registers, pending>>

\* Only the interrupt routine ends a request: see NeverSpurious of JtagUart.
Request ==
  /\ ~pending /\ pending' = TRUE
  /\ UNCHANGED <<control, registers, handled>>

-----------------------------------------------------------------------------
(* The hardware, and .exceptions.entry, which saves what it left *)

Enter(irq) ==
  /\ Len(frames) < MaxNesting
  /\ ea' = After(at) /\ estatus' = pie /\ pie' = FALSE
  /\ frames' = Append(frames, Frame(at, irq))
  /\ state' = "test"
  /\ UNCHANGED <<at, pending, handled>>

Interrupt == state = "runs" /\ pie /\ pending /\ Enter(TRUE)

Raise == state = "runs" /\ at \in Raises /\ Enter(FALSE)

-----------------------------------------------------------------------------
(* .exceptions.irqtest *)

\* A request that came after an instruction raised its exception makes it an
\* interrupt: the instruction is executed again and raises it again.
IsInterrupt == estatus /\ pending

GoToIsr ==
  /\ state = "test" /\ IsInterrupt
  /\ at' = <<"isr", 0>> /\ state' = "runs"
  /\ UNCHANGED <<pie, frames, registers, pending, handled>>

\* .exceptions.notirq and alt_instruction_exception_entry: the instruction is to
\* be skipped, until the handler says otherwise.  Without a handler: break.
GoToHandler ==
  /\ state = "test" /\ ~IsInterrupt
  /\ SetTop([Top EXCEPT !.ret = ea])
  /\ IF handled THEN at' = <<"handler", 0>> /\ state' = "runs" ELSE state' = "halted" /\ at' = at
  /\ UNCHANGED <<pie, registers, pending, handled>>

\* alt_irq_handler returns when no request is left.
IsrReturns ==
  /\ state = "runs" /\ at[1] = "isr" /\ IsLast(at)
  /\ pending' = FALSE /\ state' = "exit"
  /\ UNCHANGED <<at, pie, frames, registers, handled>>

\* Fault: the meaning of the comment at .exceptions.unknown: 0 skips.
VerdictTurned(skip) ==
  IF ~skip THEN SetTop([Top EXCEPT !.skip = skip])
           ELSE SetTop([Top EXCEPT !.skip = skip, !.ret = Before(ea)])

\* NIOS2_EXCEPTION_RETURN_SKIP_INST leaves 72(sp) alone; to re-issue, it is
\* computed from ea, as ea is after the handler ran.
Verdict(skip) ==
  IF skip THEN SetTop([Top EXCEPT !.skip = skip])
          ELSE SetTop([Top EXCEPT !.skip = skip, !.ret = Before(ea)])

HandlerReturns(skip) ==
  /\ state = "runs" /\ at[1] = "handler" /\ IsLast(at)
  /\ Verdict(skip) /\ state' = "exit"
  /\ UNCHANGED <<at, pie, registers, pending, handled>>

\* ea is no longer that of this exception: another one nested in the handler.
StaleEa == at[1] = "handler" /\ ~Top.skip /\ Top.nested

\* .exceptions.exit and eret.  History: the frame below has seen a nested one.
\* Bound: a program that was sent astray is not followed.
Exit_eret ==
  /\ state = "exit" /\ ~StaleEa /\ state' = "runs"
  /\ ea' = Top.ret /\ estatus' = Top.pie
  /\ at' = Top.ret /\ pie' = Top.pie
  /\ frames' = [n \in 1..(Len(frames) - 1) |->
                  IF n = Len(frames) - 1 THEN [frames[n] EXCEPT !.nested = TRUE] ELSE frames[n]]
  /\ UNCHANGED <<pending, handled>>

ExceptionsNext ==
  \/ Execute \/ Request \/ Interrupt \/ Raise
  \/ GoToIsr \/ GoToHandler \/ IsrReturns \/ Exit_eret
  \/ \E b \in BOOLEAN : Register(b) \/ HandlerReturns(b)

ExceptionsSpec == ExceptionsInit /\ [][ExceptionsNext]_exceptions

-----------------------------------------------------------------------------
(* Properties *)

\* Every exception returns to the instruction it came from, and past it exactly
\* if the instruction raised the exception and the handler had it skipped, whatever
\* interrupts or other exceptions came in between.  Not claimed where an
\* exception nested in the handler itself: alt_exception_entry.S computes the
\* instruction to re-issue from ea, which the nested one has overwritten.
ReturnsWhereItShould ==
  state = "exit" /\ ~StaleEa =>
    Top.ret = IF Top.raised /\ Top.skip THEN After(Top.from) ELSE Top.from

\* The handler is called for instructions that raised an exception and for
\* nothing else, whatever is pending when the entry comes to its test.
HandlerOnlyForRaised == at[1] = "handler" /\ state = "runs" => Top.raised

\* The interrupt routine is not entered again before it has returned, although
\* its instructions may raise exceptions while requests are pending, and what
\* an exception interrupted gets its interrupts back on and off as they were.
IsrNotReentered ==
  /\ \A n \in DOMAIN frames : frames[n].from[1] # "program" => ~frames[n].pie
  /\ at[1] = "isr" /\ state = "runs" =>
       ~ \E n \in DOMAIN frames : frames[n].from[1] = "isr"
  /\ state = "runs" /\ at[1] = "program" => pie /\ frames = <<>>

\* What an exception interrupts goes on as if nothing had happened.
ExceptionsTransparent ==
  ReturnsWhereItShould /\ HandlerOnlyForRaised /\ IsrNotReentered
=============================================================================
