------------------------------- MODULE MCReads -------------------------------
(***************************************************************************)
(* Reads with objects of up to three bytes and three versions.             *)
(***************************************************************************)
EXTENDS Reads
=============================================================================
