----------------------------- MODULE MCCopyAll -----------------------------
(***************************************************************************)
(* CopyAll over names that meet every filter of the engine: plain objects, *)
(* one named like the destination, one under it, a folder marker and a key *)
(* that is not a clean path.                                               *)
(***************************************************************************)
EXTENDS CopyAll

MCSorted == << <<"..", "x">>, <<"b">>, <<"b", "">>, <<"b", "x">>, <<"x">> >>

\* Two prefixes apart, the destination inside the source, the whole storage as
\* the source, and one prefix onto itself.
MCPairs == { << <<"a">>, <<"c">> >>, << <<"a">>, <<"a", "b">> >>,
                << <<>>, <<"b">> >>, << <<"a">>, <<"a">> >> }

\* The source inside the destination.
MCInverted == { << <<"a", "b">>, <<"a">> >> }
=============================================================================
