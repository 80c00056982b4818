----------------------------- MODULE FileGuard -----------------------------
(***************************************************************************)
(* EmmaFileSecure: FileMask, which locks a file while it is read or        *)
(* written, and FileMonitor, which waits for changes of its directory.     *)
(*                                                                         *)
(* Several threads of several Java machines call them on one file.  A      *)
(* byte of the file is the caller that wrote it, or a Hole that a write    *)
(* beyond the end leaves.                                                  *)
(***************************************************************************)
EXTENDS Integers, Sequences

CONSTANTS Callers, Machines,
          MachineOf,     \* [Callers -> the Java machine of the thread]
          Nobody, Hole,
          BufferLength   \* the bytes a caller writes

VARIABLES
    file,      \* its bytes
    lock,      \* the caller that holds the lock of the file
    pc,        \* [Callers -> what the thread is doing]
    pos,       \* [Callers -> the position of its channel]
    unread     \* the callers that have an event where nobody takes it
vars == <<file, lock, pc, pos, unread>>

Init ==
    /\ file = << >> /\ lock = Nobody
    /\ pc = [c \in Callers |-> "idle"] /\ pos = [c \in Callers |-> 0]
    /\ unread = {}

Goes(c, from, to) == pc[c] = from /\ pc' = [pc EXCEPT ![c] = to]
Waiting == {c \in Callers : pc[c] = "taking"}
\* A change of the file reaches the watch service it is registered with.
Changed == unread' = unread \cup Waiting

----------------------------------------------------------------------------
\* LockFileOutputStream: the file is opened, and so emptied; then the lock is
\* tried.  Another machine's lock gives null, one of the same machine throws.
OpenToWrite(c) ==
    /\ Goes(c, "idle", "opened")
    /\ file' = << >> /\ pos' = [pos EXCEPT ![c] = 0]
    /\ Changed /\ UNCHANGED lock
TryLock(c) ==
    \/ /\ lock = Nobody
       /\ Goes(c, "opened", "locked") /\ lock' = c
       /\ UNCHANGED <<file, pos, unread>>
    \/ /\ lock # Nobody /\ MachineOf[lock] # MachineOf[c]
       /\ Goes(c, "opened", "noLock")
       /\ UNCHANGED <<file, lock, pos, unread>>
    \/ /\ lock # Nobody /\ MachineOf[lock] = MachineOf[c]
       /\ Goes(c, "opened", "threw")
       /\ UNCHANGED <<file, lock, pos, unread>>

\* WriteToLockedFile: the loop writes what is left of the buffer, perhaps not
\* all at once, and then nothing for ever.  Without a lock it does not begin.
WriteSome(c) ==
    /\ pc[c] = "locked" /\ pos[c] < BufferLength
    /\ file' = [i \in 1..(IF Len(file) > pos[c] THEN Len(file) ELSE pos[c] + 1) |->
                    IF i = pos[c] + 1 THEN c
                    ELSE IF i <= Len(file) THEN file[i] ELSE Hole]
    /\ pos' = [pos EXCEPT ![c] = @ + 1]
    /\ Changed /\ UNCHANGED <<lock, pc>>
ReturnUnwritten(c) ==
    Goes(c, "noLock", "returned") /\ UNCHANGED <<file, lock, pos, unread>>

\* A caller of LockFileOutputStream may call CloseResources.
CloseResources(c) ==
    /\ Goes(c, "locked", "returned")
    /\ lock' = Nobody
    /\ UNCHANGED <<file, pos, unread>>

\* LockFileInputStream: an exclusive lock on a stream that only reads throws.
OpenToRead(c) ==
    Goes(c, "idle", "threw") /\ UNCHANGED <<file, lock, pos, unread>>

\* EventKind and EventContext register the directory with the watch service
\* FileEvent makes, and take from another one.
TakeEvent(c) ==
    Goes(c, "idle", "taking") /\ UNCHANGED <<file, lock, pos, unread>>

\* The user ends a machine; the system frees its locks.
Kill(m) ==
    /\ \E c \in Callers : MachineOf[c] = m /\ pc[c] # "gone"
    /\ pc' = [c \in Callers |-> IF MachineOf[c] = m THEN "gone" ELSE pc[c]]
    /\ lock' = IF lock # Nobody /\ MachineOf[lock] = m THEN Nobody ELSE lock
    /\ UNCHANGED <<file, pos, unread>>

Next ==
    \/ \E c \in Callers :
        \/ OpenToWrite(c) \/ TryLock(c) \/ WriteSome(c) \/ ReturnUnwritten(c)
        \/ CloseResources(c) \/ OpenToRead(c) \/ TakeEvent(c)
    \/ \E m \in Machines : Kill(m)
Spec == Init /\ [][Next]_vars

----------------------------------------------------------------------------
\* While a caller holds the lock the file changes by its own writes only: the
\* lock is there to thwart the access of others (LockFileOutputStream).
HeldFileIsUntouched ==
    [][\A c \in Callers :
        lock = c /\ lock' = c /\ file' # file => pos'[c] = pos[c] + 1]_vars
=============================================================================
