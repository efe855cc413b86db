---------------------------- MODULE MCEncRange -----------------------------
(***************************************************************************)
(* EncRange with chunks of two bytes and objects on both sides of          *)
(* wholeObjectSize.                                                        *)
(***************************************************************************)
EXTENDS EncRange
=============================================================================
