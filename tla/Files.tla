------------------------------- MODULE Files -------------------------------
(***************************************************************************)
(* The file descriptors of the HAL: the pool alt_fd_list with its high     *)
(* water mark, the redirection of standard input and output at start-up    *)
(* (alt_main.c, alt_io_redirect.c), the calls of the C library that the    *)
(* HAL vectors to device drivers and file systems, and the exclusive lock. *)
(*                                                                         *)
(* The build has one thread and no interrupt routine uses descriptors: a   *)
(* call is one step.  An application uses the descriptors it was given and *)
(* -1; a free descriptor has no driver to call.                            *)
(***************************************************************************)
EXTENDS Integers, FiniteSets

CONSTANTS
  MAX_FD,         \* ALT_MAX_FD
  Device,         \* the drivers that alt_dev_reg may register, the console among them
  FileSystem,     \* the drivers that alt_fs_reg may register
  Console,        \* the device of ALT_STDIN, ALT_STDOUT and ALT_STDERR
  DevNull,        \* alt_dev_null
  None,
  Provides,       \* the functions of each driver that are not NULL
  Mode, Flag,     \* O_ACCMODE; the flags F_SETFL can set
  Found           \* the sets of drivers whose registration succeeds at start-up

FD   == 0..(MAX_FD - 1)
Std  == 0..2
File == Device \cup FileSystem \cup {DevNull}

ASSUME FilesAssumption ==
  /\ MAX_FD \in Nat /\ MAX_FD > 2
  /\ Console \in Device /\ None \notin File /\ DevNull \notin Device \cup FileSystem
  /\ Device \cap FileSystem = {}
  /\ {"RDONLY", "WRONLY"} \subseteq Mode
  /\ Found \subseteq SUBSET (Device \cup FileSystem)

VARIABLES
  fd_list,      \* alt_fd_list: [dev, mode, set, isdev, excl]
  max_fd,       \* alt_max_fd
  registered,   \* alt_dev_list and alt_fs_list
  pc,           \* the step of alt_main
  served        \* [op, fd, by]: the function of a driver the last call made

vars == <<fd_list, max_fd, registered, pc, served>>

Unused == [dev |-> None, mode |-> "RDONLY", set |-> {}, isdev |-> FALSE, excl |-> FALSE]

NoCall == [op |-> "none", fd |-> -1, by |-> None]

\* What the driver answers is handed to the caller.
Calls(op, i) ==
  served' = IF op \in Provides[fd_list[i].dev] THEN [op |-> op, fd |-> i, by |-> fd_list[i].dev] ELSE NoCall

Init ==
  /\ fd_list = [i \in FD |-> IF i \in Std THEN [Unused EXCEPT !.dev = DevNull] ELSE Unused]
  /\ max_fd = -1
  /\ registered = {DevNull}
  /\ pc = "sys_init"
  /\ served = NoCall

InUse(i) == fd_list[i].dev # None

-----------------------------------------------------------------------------
(* open *)

\* alt_find_dev and alt_find_file, for a name that means f.
FindDev(f)  == f \in registered \ FileSystem
FindFile(f) == f \in registered \cap FileSystem
Finds(f)    == FindDev(f) \/ FindFile(f)

Full == \A i \in FD : InUse(i)

\* alt_get_fd allocates the first free descriptor.
FirstFree(i) == ~InUse(i) /\ \A j \in 0..(i - 1) : InUse(j)

Raised(i) == IF i > max_fd THEN i ELSE max_fd

\* alt_file_locked, for the device f about to get descriptor i.
FileLocked(f, i) == \E j \in 0..Raised(i) : j # i /\ fd_list[j].dev = f /\ fd_list[j].excl

Entry(f, m, s) == [dev |-> f, mode |-> m, set |-> s, isdev |-> f \notin FileSystem, excl |-> FALSE]

\* alt_release_fd: the first three stay allocated.
Released(i) == IF i > 2 THEN [fd_list EXCEPT ![i] = Unused] ELSE fd_list

Allowed(f, i) == f \in FileSystem \/ ~FileLocked(f, i)

Open(f, m, s) ==
  /\ pc = "main" /\ Finds(f)
  /\ \E i \in FD :
       /\ FirstFree(i) /\ Allowed(f, i)
       /\ fd_list' = [fd_list EXCEPT ![i] = Entry(f, m, s)]
       /\ max_fd' = Raised(i)
       /\ served' = [op |-> "open", fd |-> i, by |-> f]
  /\ UNCHANGED <<registered, pc>>

\* No such file, or no free descriptor.
OpenFindsNothing(f) ==
  /\ pc = "main" /\ (~Finds(f) \/ Full)
  /\ served' = NoCall
  /\ UNCHANGED <<fd_list, max_fd, registered, pc>>

\* Fault: the descriptor is not released.
OpenFailsLeaks(f) ==
  /\ pc = "main" /\ Finds(f)
  /\ \E i \in FD :
       /\ FirstFree(i) /\ (~Allowed(f, i) \/ "open" \in Provides[f])
       /\ fd_list' = [fd_list EXCEPT ![i] = Entry(f, "RDONLY", {})]
       /\ max_fd' = Raised(i)
  /\ served' = NoCall
  /\ UNCHANGED <<registered, pc>>

\* A locked device, or a driver that refuses: the descriptor taken is released,
\* the mark stays raised.
OpenFails(f) ==
  /\ pc = "main" /\ Finds(f)
  /\ \E i \in FD :
       /\ FirstFree(i) /\ (~Allowed(f, i) \/ "open" \in Provides[f])
       /\ max_fd' = Raised(i)
  /\ served' = NoCall
  /\ UNCHANGED <<fd_list, registered, pc>>

-----------------------------------------------------------------------------
(* Start-up *)

Registers(f) == \E S \in Found : registered \cup {f} \subseteq S \cup {DevNull}

\* alt_dev_reg, called for every device by alt_sys_init.
DevReg(f) ==
  /\ pc = "sys_init" /\ f \in Device /\ Registers(f)
  /\ registered' = registered \cup {f}
  /\ UNCHANGED <<fd_list, max_fd, pc, served>>

FsReg(f) ==
  /\ pc = "sys_init" /\ f \in FileSystem /\ Registers(f)
  /\ registered' = registered \cup {f}
  /\ UNCHANGED <<fd_list, max_fd, pc, served>>

SysInitEnds ==
  /\ pc = "sys_init" /\ pc' = "stdout"
  /\ registered \ {DevNull} \in Found
  /\ UNCHANGED <<fd_list, max_fd, registered, served>>

\* alt_open_fd: open a descriptor, copy it to a standard one and release it; if
\* open fails, the standard one stays with alt_dev_null.
Redirect(step, std, m, then) ==
  /\ pc = step /\ pc' = then
  /\ IF Finds(Console) /\ ~Full
       THEN /\ \E i \in FD : FirstFree(i) /\ max_fd' = Raised(i)
            /\ \/ fd_list' = [fd_list EXCEPT ![std] = Entry(Console, m, {})]
               \/ "open" \in Provides[Console] /\ UNCHANGED fd_list
       ELSE UNCHANGED <<max_fd, fd_list>>
  /\ UNCHANGED <<registered, served>>

-----------------------------------------------------------------------------
(* The other calls *)

Close(i) ==
  /\ pc = "main" /\ InUse(i)
  /\ fd_list' = Released(i)
  /\ Calls("close", i)
  /\ UNCHANGED <<max_fd, registered, pc>>

\* An error if the driver has no such function or the mode forbids it.
Read(i) ==
  /\ pc = "main" /\ InUse(i)
  /\ IF fd_list[i].mode # "WRONLY" THEN Calls("read", i) ELSE served' = NoCall
  /\ UNCHANGED <<fd_list, max_fd, registered, pc>>

Write(i) ==
  /\ pc = "main" /\ InUse(i)
  /\ IF fd_list[i].mode # "RDONLY" THEN Calls("write", i) ELSE served' = NoCall
  /\ UNCHANGED <<fd_list, max_fd, registered, pc>>

Lseek(i) ==
  /\ pc = "main" /\ InUse(i)
  /\ Calls("lseek", i)
  /\ UNCHANGED <<fd_list, max_fd, registered, pc>>

\* Without a function in the driver: a character device.
Fstat(i) ==
  /\ pc = "main" /\ InUse(i)
  /\ Calls("fstat", i)
  /\ UNCHANGED <<fd_list, max_fd, registered, pc>>

\* A terminal unless fstat of the driver says otherwise.
Isatty(i) == Fstat(i)

\* stat opens the file, asks fstat and closes it; any of that may fail.
Stat(f) ==
  /\ pc = "main" /\ Finds(f)
  /\ \E i \in FD :
       /\ FirstFree(i)
       /\ max_fd' = Raised(i)
       /\ \/ /\ Allowed(f, i) /\ "fstat" \in Provides[f]
             /\ served' = [op |-> "fstat", fd |-> -1, by |-> f]
          \/ /\ ~Allowed(f, i) \/ "open" \in Provides[f] \/ "fstat" \notin Provides[f]
             /\ served' = NoCall
  /\ UNCHANGED <<fd_list, registered, pc>>

\* Any call on the -1 of an open that failed.
UseFailedOpen ==
  /\ pc = "main"
  /\ served' = NoCall
  /\ UNCHANGED <<fd_list, max_fd, registered, pc>>

SetFlags(i, s) ==
  /\ pc = "main" /\ InUse(i)
  /\ fd_list' = [fd_list EXCEPT ![i].set = s]
  /\ served' = NoCall
  /\ UNCHANGED <<max_fd, registered, pc>>

-----------------------------------------------------------------------------
(* ioctl *)

\* Fault: only the descriptors after its own are looked at.
OthersAfter(i) == {j \in (i + 1)..(max_fd - 1) : fd_list[j].dev = fd_list[i].dev}

\* The other users of the device, as far as alt_fd_lock looks: below the mark.
Others(i) == {j \in 0..(max_fd - 1) : j # i /\ fd_list[j].dev = fd_list[i].dev}

Lock(i) ==
  /\ pc = "main" /\ InUse(i) /\ fd_list[i].isdev
  /\ fd_list' = IF Others(i) = {} THEN [fd_list EXCEPT ![i].excl = TRUE] ELSE fd_list
  /\ served' = NoCall
  /\ UNCHANGED <<max_fd, registered, pc>>

Unlock(i) ==
  /\ pc = "main" /\ InUse(i) /\ fd_list[i].isdev
  /\ fd_list' = [fd_list EXCEPT ![i].excl = FALSE]
  /\ served' = NoCall
  /\ UNCHANGED <<max_fd, registered, pc>>

\* For devices TIOCEXCL and TIOCNXCL do not reach the driver.
Ioctl(i, req) ==
  \/ req = "TIOCEXCL" /\ Lock(i)
  \/ req = "TIOCNXCL" /\ Unlock(i)
  \/ /\ pc = "main" /\ InUse(i)
     /\ fd_list[i].isdev => req \notin {"TIOCEXCL", "TIOCNXCL"}
     /\ Calls("ioctl", i)
     /\ UNCHANGED <<fd_list, max_fd, registered, pc>>

-----------------------------------------------------------------------------
(* The end *)

\* _exit closes nothing and does not return.
Exit == pc' = "exit"

\* main returns: alt_main closes standard output.
MainReturns ==
  /\ pc = "main" /\ Exit
  /\ fd_list' = Released(1)
  /\ Calls("close", 1)
  /\ UNCHANGED <<max_fd, registered>>

\* kill of the only process; signals that are ignored or unknown do nothing.
Kill(fatal) ==
  /\ pc = "main" /\ IF fatal THEN Exit ELSE UNCHANGED pc
  /\ served' = NoCall
  /\ UNCHANGED <<fd_list, max_fd, registered>>

-----------------------------------------------------------------------------
Next ==
  \/ \E f \in File : DevReg(f) \/ FsReg(f)
  \/ SysInitEnds
  \/ Redirect("stdout", 1, "WRONLY", "stdin")
  \/ Redirect("stdin", 0, "RDONLY", "stderr")
  \/ Redirect("stderr", 2, "WRONLY", "main")
  \/ \E f \in File : \/ OpenFindsNothing(f) \/ OpenFails(f) \/ Stat(f)
                     \/ \E m \in Mode, s \in SUBSET Flag : Open(f, m, s)
  \/ \E i \in FD : \/ Close(i) \/ Read(i) \/ Write(i) \/ Lseek(i) \/ Fstat(i) \/ Isatty(i)
                   \/ \E req \in {"TIOCEXCL", "TIOCNXCL", "other"} : Ioctl(i, req)
                   \/ \E s \in SUBSET Flag : SetFlags(i, s)
  \/ UseFailedOpen \/ MainReturns
  \/ \E fatal \in BOOLEAN : Kill(fatal)

Spec == Init /\ [][Next]_vars

-----------------------------------------------------------------------------
(* Properties *)

\* Descriptors refer to drivers, the mark is one or -1.
TypeOK ==
  /\ fd_list \in [FD -> [dev : File \cup {None}, mode : Mode, set : SUBSET Flag,
                         isdev : BOOLEAN, excl : BOOLEAN]]
  /\ max_fd \in {-1} \cup FD
  /\ registered \subseteq File /\ DevNull \in registered
  /\ pc \in {"sys_init", "stdout", "stdin", "stderr", "main", "exit"}

\* Everything alt_file_locked and alt_fd_lock look for lies below the mark: a
\* descriptor that was ever allocated or locked, although descriptors are
\* released and reused in any order (alt_get_fd.c:82).
MarkIsHigh == \A i \in FD : (i > 2 /\ InUse(i)) \/ fd_list[i].excl => i <= max_fd

\* No two descriptors hold the lock of one device, although alt_fd_lock does not
\* look at the highest descriptor (alt_fd_lock.c:61).
OneHolder ==
  \A i, j \in FD :
    fd_list[i].excl /\ fd_list[j].excl /\ fd_list[i].dev = fd_list[j].dev => i = j

Holder(f) ==
  LET H == {i \in FD : fd_list[i].dev = f /\ fd_list[i].excl} IN
    IF H = {} THEN None ELSE CHOOSE i \in H : TRUE

Promise == INSTANCE Descriptors WITH
  Nobody <- None,
  files  <- [i \in FD |-> [file |-> fd_list[i].dev, set |-> fd_list[i].set,
                           mode |-> IF InUse(i) THEN fd_list[i].mode ELSE None]],
  lock   <- [f \in File |-> Holder(f)]

\* Whatever fails on the way, a descriptor stays with its file until it is
\* closed, calls reach that file's driver and no other, nothing is leaked by a
\* call that fails, and a locked device takes no new descriptors.
ImplementsDescriptors == Promise!Spec

\* Standard input, output and error are never without a driver: printf is safe
\* before, during and after the redirection (alt_dev.c:84), and if one of them
\* reaches the console without an error in between all three do.
StdHasDriver ==
  /\ \A i \in Std : fd_list[i].dev \in {DevNull, Console} \cap registered
  /\ pc \in {"main", "exit"} /\ "open" \notin Provides[Console] =>
       \A i \in Std : fd_list[i].dev = IF Console \in registered THEN Console ELSE DevNull

\* What alt_fd_lock.c:43 says: the lock is granted to the only user of a device.
\* It is not so: the highest descriptor ever allocated is not looked at.
LockIsExclusive ==
  \A i, j \in FD : i # j /\ InUse(i) /\ fd_list[i].excl => fd_list[j].dev # fd_list[i].dev
=============================================================================
