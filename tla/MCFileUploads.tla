----------------------------- MODULE MCFileUploads -----------------------------
(***************************************************************************)
(* An instance of FileUploads for TLC: a certificate that is just as large   *)
(* as it may be, one byte too large, or infected.                           *)
(***************************************************************************)
EXTENDS FileUploads

Bytes(size, mime, infected) == [size |-> size, mime |-> mime, infected |-> infected]

MCContents == {Bytes(15728640, "pdf", FALSE), Bytes(15728641, "pdf", FALSE),
               Bytes(1, "pdf", TRUE)}

MCMaxAttempts == [k \in Keys |-> 1]
================================================================================
