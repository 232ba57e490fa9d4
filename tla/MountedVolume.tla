--------------------------- MODULE MountedVolume ---------------------------
(***************************************************************************)
(* What 9p-dokany promises the users of the mounted volume, with the 9P    *)
(* protocol left out (main.cpp, 9pfs_operations.cpp, protocol/Client.h):   *)
(* the volume appears once the client is attached to the server; then      *)
(* operations are served one at a time.  A read that fails is reported as  *)
(* -1 and the volume stays; the failure of another operation takes the     *)
(* whole volume away.                                                      *)
(***************************************************************************)
EXTENDS Integers

CONSTANT Calls      \* the operations of class Client

VARIABLES
    phase,      \* "mounting", "ready", "busy" with an operation, or "gone"
    serving,    \* the operation it is busy with
    answered,   \* the operation that returned last, if none was begun since
    ret         \* what it returned

vars == <<phase, serving, answered, ret>>

Init ==
    /\ phase = "mounting"
    /\ serving = "none" /\ answered = "none" /\ ret = 0

Mount ==
    /\ phase = "mounting" /\ phase' = "ready"
    /\ UNCHANGED <<serving, answered, ret>>

MountFails ==
    /\ phase = "mounting" /\ phase' = "gone"
    /\ UNCHANGED <<serving, answered, ret>>

Begin(c) ==
    /\ phase = "ready" /\ phase' = "busy"
    /\ serving' = c /\ answered' = "none" /\ ret' = 0

Succeed ==
    /\ phase = "busy" /\ phase' = "ready"
    /\ serving' = "none" /\ answered' = serving
    /\ ret' \in Nat

FailRead ==
    /\ phase = "busy" /\ serving = "read" /\ phase' = "ready"
    /\ serving' = "none" /\ answered' = "read" /\ ret' = -1

Abort ==
    /\ phase = "busy" /\ serving # "read" /\ phase' = "gone"
    /\ serving' = "none"
    /\ UNCHANGED <<answered, ret>>

Unmount ==
    /\ phase = "ready" /\ phase' = "gone"
    /\ UNCHANGED <<serving, answered, ret>>

Next ==
    \/ Mount \/ MountFails
    \/ \E c \in Calls : Begin(c)
    \/ Succeed \/ FailRead \/ Abort
    \/ Unmount

Spec == Init /\ [][Next]_vars
=============================================================================
