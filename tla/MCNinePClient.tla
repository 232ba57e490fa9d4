--------------------------- MODULE MCNinePClient ---------------------------
(***************************************************************************)
(* NinePClient for TLC.  The .cfg files give the constants; this module    *)
(* adds what comments and docs of the repository say of the client and the *)
(* code does not keep, for the runs that show it.                          *)
(***************************************************************************)
EXTENDS NinePClient

\* TLC follows paths of a few components and files of a few units; the bounds
\* must at least let an operation ask for something.
ASSUME BoundsAreUseful == MaxWant > 0 /\ MaxCalls > 0

\* Client.cpp:483 "It is possible that server sent back more data than what we
\* requested": readFile is meant to cope, so it says it has read no more than
\* was asked for.
ReadCountFitsBuffer == result.call = "read" => result.ret <= result.want

\* README.md:9 "implements a 9P client which uses the dokany framework in order
\* to mount the corresponding virtual filesystem": reading a file of the
\* volume returns bytes of that file, however TCP delivers the reply.  It is
\* said of the step of readFile that reads an RRead the server has sent, where
\* every recv before it returned a whole frame: what the client makes of a
\* stream it has lost its place in earlier is not meant.
ServersRead ==
    /\ step = "read" /\ op.call = "read"
    /\ ~shortRecv /\ stream # <<>> /\ Head(stream).type = "RRead"

ReadReturnsFileData ==
    [][ServersRead /\ step' = "clunk" =>
           op'.data = Units(op.offset, Len(op'.data))]_vars
=============================================================================
