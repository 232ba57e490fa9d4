-------------------------- MODULE MCDokanCallbacks --------------------------
(***************************************************************************)
(* DokanCallbacks for TLC, with what the repository says of the volume and *)
(* the callbacks do not keep.                                              *)
(***************************************************************************)
EXTENDS DokanCallbacks

\* A file of several units, and an application that reads it to the end.
ASSUME CopyFits == MaxSize > 1 /\ MaxCalls > MaxSize

\* README.md:9 "mount the corresponding virtual filesystem in Windows": what an
\* application gets from reads that succeed are the bytes of the file.
SuccessfulReadsGiveFile == copied = Units(0, Len(copied))
=============================================================================
