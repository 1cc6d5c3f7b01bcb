---------------------------- MODULE Descriptors ----------------------------
(***************************************************************************)
(* What the file descriptors of the HAL promise an application: a          *)
(* descriptor stays with the file it was opened for until it is closed, a  *)
(* call on it reaches the driver of that file and no other, a call that    *)
(* fails leaves everything as it was, and a locked device takes no new     *)
(* descriptors.  That a lock is granted only to a descriptor alone on its  *)
(* device is not promised: see LockIsExclusive in Files.                   *)
(***************************************************************************)
EXTENDS Integers

CONSTANTS FD, File, Mode, Flag, Nobody

VARIABLES
  files,     \* what each descriptor refers to, Closed when it is free
  lock,      \* the descriptor that has locked a device, or Nobody
  served     \* [op, fd, by]: the function of a driver the last call made

Std    == 0..2
Closed == [file |-> Nobody, mode |-> Nobody, set |-> {}]
Quiet  == served'.by = Nobody

Init ==
  /\ \E f \in File, m \in Mode :
       files = [i \in FD |-> IF i \in Std THEN [file |-> f, mode |-> m, set |-> {}] ELSE Closed]
  /\ lock = [f \in File |-> Nobody]
  /\ served.by = Nobody

Opened == [file : File, mode : Mode, set : SUBSET Flag]

\* A descriptor comes to refer to a file nobody has locked.
Attach(i) ==
  /\ files'[i] \in Opened /\ lock[files'[i].file] = Nobody
  /\ files' = [files EXCEPT ![i] = files'[i]]
  /\ UNCHANGED lock

\* Standard input, output and error go to another file before main starts.
Redirect(i) == UNCHANGED served /\ Attach(i)

Open(i) ==
  /\ served'.op = "open" /\ served'.fd = i
  /\ files[i] = Closed /\ Attach(i)
  /\ served'.by = files'[i].file

Close(i) ==
  /\ Quiet \/ served' = [op |-> "close", fd |-> i, by |-> files[i].file]
  /\ files[i] # Closed
  /\ IF i \in Std THEN UNCHANGED <<files, lock>>
     ELSE /\ files' = [files EXCEPT ![i] = Closed]
          /\ lock' = [f \in File |-> IF lock[f] = i THEN Nobody ELSE lock[f]]

Lock(i) ==
  /\ Quiet
  /\ files[i] # Closed /\ lock[files[i].file] \in {Nobody, i}
  /\ lock' = [lock EXCEPT ![files[i].file] = i]
  /\ UNCHANGED files

Unlock(i) ==
  /\ Quiet
  /\ lock' = [f \in File |-> IF lock[f] = i THEN Nobody ELSE lock[f]]
  /\ UNCHANGED files

SetFlags(i) ==
  /\ Quiet
  /\ files[i] # Closed /\ files'[i].set \subseteq Flag
  /\ files' = [files EXCEPT ![i].set = files'[i].set]
  /\ UNCHANGED lock

\* A call that reaches the driver of the file, if the file was opened for it.
Serve(i, op) ==
  /\ served'.op = op /\ served'.fd = i
  /\ files[i] # Closed
  /\ op = "read" => files[i].mode # "WRONLY"
  /\ op = "write" => files[i].mode # "RDONLY"
  /\ served'.by = files[i].file
  /\ UNCHANGED <<files, lock>>

\* A driver describes a file that nobody has locked, without a descriptor.
Describe(f) ==
  /\ served' = [op |-> "fstat", fd |-> -1, by |-> f]
  /\ lock[f] = Nobody
  /\ UNCHANGED <<files, lock>>

\* A call that no driver sees, or one that failed.
Refuse == Quiet /\ UNCHANGED <<files, lock>>

Next ==
  \/ Refuse
  \/ \E i \in Std : Redirect(i)
  \/ \E i \in FD \ Std : Open(i)
  \/ \E f \in File : Describe(f)
  \/ \E i \in FD : \/ Close(i) \/ Lock(i) \/ Unlock(i) \/ SetFlags(i)
                   \/ \E op \in {"read", "write", "lseek", "fstat", "ioctl"} : Serve(i, op)

Spec == Init /\ [][Next]_<<files, lock, served>>
=============================================================================
