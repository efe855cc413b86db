----------------------------- MODULE MCSftpLazy -----------------------------
(***************************************************************************)
(* SftpLazy with two callers, one closer and the connections they can use. *)
(***************************************************************************)
EXTENDS SftpLazy
=============================================================================
