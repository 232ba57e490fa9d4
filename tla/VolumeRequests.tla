--------------------------- MODULE VolumeRequests ---------------------------
(***************************************************************************)
(* The callbacks of 9pfs_operations.cpp that do not reach the client, from *)
(* the command line that mounts the volume on.  They return constants, a   *)
(* success for most changes an application may ask for; what keeps such a  *)
(* change from being acknowledged is the write protection of the mount.    *)
(***************************************************************************)
EXTENDS CommandLine

VARIABLES
    told        \* the last request of an application, and what it was told

\* What Dokan may ask of a volume, besides the reads that reach the client.
Changes == {"WriteFile", "SetFileAttributes", "SetFileTime", "DeleteFile",
            "DeleteDirectory", "MoveFile", "SetEndOfFile", "SetAllocationSize",
            "SetFileSecurity"}
Questions == {"FlushFileBuffers", "LockFile", "UnlockFile", "GetDiskFreeSpace",
              "GetVolumeInformation", "GetFileSecurity", "FindStreams",
              "Mounted", "Unmounted"}

\* CreateFile with a name of Windows' own, with another, and of the latter
\* those that create, overwrite or write.
Opens == {"OpenSpecial", "OpenOther"}
ChangingOpens == {"CreateOther"}

Nothing == [request |-> "none", status |-> "SUCCESS"]

\* The status each callback returns.
Status(request) ==
    CASE request \in {"LockFile", "UnlockFile", "GetFileSecurity"} -> "NOT_IMPLEMENTED"
      [] request = "OpenSpecial" -> "NO_SUCH_FILE"
      [] OTHER -> "SUCCESS"

VolumeInit == Init /\ told = Nothing

Ask(request) ==
    /\ phase = "mounted"
    /\ told' = [request |-> request, status |-> Status(request)]
    /\ UNCHANGED vars

\* Dokan (external) answers a change itself when the volume is protected.
Change(request) ==
    /\ phase = "mounted"
    /\ told' = [request |-> request,
                status |-> IF "WRITE_PROTECT" \in options.flags
                           THEN "MEDIA_WRITE_PROTECTED" ELSE Status(request)]
    /\ UNCHANGED vars

Ended ==
    /\ phase \in {"error", "terminated"}
    /\ UNCHANGED <<vars, told>>

VolumeNext ==
    \/ Configure /\ UNCHANGED told
    \/ \E request \in Questions \cup Opens : Ask(request)
    \/ \E request \in Changes \cup ChangingOpens : Change(request)
    \/ Ended

VolumeSpec == VolumeInit /\ [][VolumeNext]_<<vars, told>>

-----------------------------------------------------------------------------
(* Properties *)

\* The callbacks change nothing at the server and return STATUS_SUCCESS all the
\* same (9pfs_operations.cpp:77-89, 167-215).  However the volume is mounted, no
\* application is told that a change it asked for has been made.
NoChangeAcknowledged ==
    told.request \in Changes \cup ChangingOpens => told.status # "SUCCESS"
=============================================================================
