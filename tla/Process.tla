------------------------------ MODULE Process ------------------------------
(***************************************************************************)
(* From a reset to main and on to exit: crt0.S clears .bss and calls       *)
(* alt_load, which copies .rwdata from its image (alt_load.c, alt_load.h), *)
(* alt_main runs the constructors, main and, at exit, the destructors      *)
(* (alt_main.c, alt_do_ctors.c, alt_do_dtors.c).  A debugger may reset the *)
(* processor at any moment; the memory keeps what the program wrote.  The  *)
(* button of the board does not: lab62.sv ties reset_reset_n to 1.         *)
(*                                                                         *)
(* The layout is that of linker.x: .rwdata, its image, .bss.               *)
(***************************************************************************)
EXTENDS Integers, Sequences

CONSTANTS
  DataWords, BssWords,   \* the sizes of .rwdata and .bss
  Ctors                  \* the length of the lists of constructors and destructors

ASSUME ProcessAssumption == DataWords \in Nat /\ BssWords \in Nat /\ Ctors \in Nat

VARIABLES
  ram,          \* what is in each word: "i" and its place in .rwdata, "zero" or "written"
  step,         \* "bss", "load", "ctors", "main", "dtors", "spin"
  next_,        \* the word or the list entry the loop has come to
  log,          \* history: the constructors and destructors called since the reset
  errno         \* ALT_ERRNO

process == <<ram, step, next_, log, errno>>

Ram_rwdata_start   == 0
Flash_rwdata_start == DataWords

\* Fault: .bss follows .rwdata itself, not its image.
BssAfterData == DataWords

Bss_start == 2 * DataWords
Bss_end   == Bss_start + BssWords

Address  == 0..(Bss_end - 1)
Data     == Ram_rwdata_start..(Ram_rwdata_start + DataWords - 1)
Bss      == Bss_start..(Bss_end - 1)
Initial(n) == <<"i", n>>

\* The program was loaded with its image; the rest of the memory is anything.
ProcessInit ==
  /\ ram = [a \in Address |-> IF a \in Flash_rwdata_start..(Flash_rwdata_start + DataWords - 1)
                                THEN Initial(a - Flash_rwdata_start) ELSE <<"written">>]
  /\ step = "bss" /\ next_ = Bss_start /\ log = <<>> /\ errno = "none"

\* rst_controller passes the debug module's request on to the processor, which
\* starts again at _start.
DebugReset ==
  /\ step' = "bss" /\ next_' = Bss_start /\ log' = <<>>
  /\ UNCHANGED <<ram, errno>>

ClearBss ==
  /\ step = "bss" /\ next_ < Bss_end
  /\ ram' = [ram EXCEPT ![next_] = <<"zero">>]
  /\ next_' = next_ + 1
  /\ UNCHANGED <<step, log, errno>>

BssCleared ==
  /\ step = "bss" /\ next_ = Bss_end
  /\ step' = "load" /\ next_' = 0
  /\ UNCHANGED <<ram, log, errno>>

\* alt_load_section, if the section is not where it was loaded.
LoadWord ==
  /\ step = "load" /\ Ram_rwdata_start # Flash_rwdata_start /\ next_ < DataWords
  /\ ram' = [ram EXCEPT ![Ram_rwdata_start + next_] = ram[Flash_rwdata_start + next_]]
  /\ next_' = next_ + 1
  /\ UNCHANGED <<step, log, errno>>

\* .exceptions and .rodata are where they were loaded.
Loaded ==
  /\ step = "load" /\ (Ram_rwdata_start = Flash_rwdata_start \/ next_ = DataWords)
  /\ step' = "ctors" /\ next_' = Ctors
  /\ errno' = "none"
  /\ UNCHANGED <<ram, log>>

\* _do_ctors, from the last of the list.
Ctor ==
  /\ step = "ctors"
  /\ IF next_ >= 1 THEN /\ log' = Append(log, <<"ctor", next_>>) /\ next_' = next_ - 1
                        /\ UNCHANGED step
                   ELSE step' = "main" /\ next_' = 0 /\ UNCHANGED log
  /\ UNCHANGED <<ram, errno>>

\* main and whatever it calls.
Writes(a) ==
  /\ step = "main"
  /\ ram' = [ram EXCEPT ![a] = <<"written">>]
  /\ UNCHANGED <<step, next_, log, errno>>

\* main returns or calls exit: the function given to atexit runs.
Exits ==
  /\ step = "main" /\ step' = "dtors" /\ next_' = Ctors
  /\ UNCHANGED <<ram, log, errno>>

\* _do_dtors, from the last of the list as well.
Dtor ==
  /\ step = "dtors"
  /\ IF next_ >= 1 THEN /\ log' = Append(log, <<"dtor", next_>>) /\ next_' = next_ - 1
                        /\ UNCHANGED step
                   ELSE step' = "spin" /\ next_' = 0 /\ UNCHANGED log
  /\ UNCHANGED <<ram, errno>>

-----------------------------------------------------------------------------
(* Calls of the C library that one process without links or DMA cannot serve: *)
(* they leave memory and program as they are and say why in errno.            *)

Fails(e) ==
  /\ step = "main" /\ errno' = e
  /\ UNCHANGED <<ram, step, next_, log>>

Fork   == Fails("ENOSYS")
Execve == Fails("ENOSYS")
Link_  == Fails("ENOSYS")
Unlink == Fails("ENOSYS")
Rename == Fails("ENOSYS")
Wait   == Fails("ECHILD")

\* No channel is registered in this system.
Dma_txchan_open == Fails("ENODEV")
Dma_rxchan_open == Fails("ENODEV")

ProcessNext ==
  \/ DebugReset \/ ClearBss \/ BssCleared \/ LoadWord \/ Loaded
  \/ Ctor \/ Exits \/ Dtor
  \/ \E a \in Data \cup Bss : Writes(a)
  \/ Fork \/ Execve \/ Link_ \/ Unlink \/ Rename \/ Wait
  \/ Dma_txchan_open \/ Dma_rxchan_open

ProcessSpec == ProcessInit /\ [][ProcessNext]_process

-----------------------------------------------------------------------------
(* Properties *)

\* Whenever a debugger resets the processor, before, in or after main or while
\* sections are copied, the constructors and main find initialised variables with their
\* initial values and the others zero: the image that .rwdata is copied from is
\* never written.
StartsFresh ==
  step = "ctors" =>
    /\ \A n \in 0..(DataWords - 1) : ram[Ram_rwdata_start + n] = Initial(n)
    /\ \A a \in Bss : ram[a] = <<"zero">>

\* Every constructor runs once before main, every destructor once after it, each
\* list from its end; none of them runs again before the next reset.
RunsOnce ==
  LET Called(what, from) == [n \in 1..(Ctors - from) |-> <<what, Ctors + 1 - n>>] IN
    CASE step \in {"bss", "load"} -> log = <<>>
      [] step = "ctors" -> log = Called("ctor", next_)
      [] step = "main"  -> log = Called("ctor", 0)
      [] step = "dtors" -> log = Called("ctor", 0) \o Called("dtor", next_)
      [] step = "spin"  -> log = Called("ctor", 0) \o Called("dtor", 0)
=============================================================================
