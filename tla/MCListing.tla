------------------------------ MODULE MCListing ------------------------------
(***************************************************************************)
(* A prefix p with an object a.txt, which the walk meets after the         *)
(* directory a and the keys before it, a directory a with two objects, the *)
(* temporaries of both, the folder marker and an object beside the prefix. *)
(***************************************************************************)
EXTENDS Listing

MCAbove == [n \in Names \cup Dirs |->
              CASE n \in {"p/a/x", "p/a/y", "p/a/.copy-2"} -> {"p", "p/a"}
                [] n = "o/q" -> {"o"}
                [] n \in {"p", "o"} -> {}
                [] OTHER -> {"p"}]
PlaceIn(order) == [n \in Range(order) |-> CHOOSE i \in DOMAIN order : order[i] = n]
MCKeyRank == PlaceIn(<<"o/q", "p/", "p/.copy-1", "p/a.txt", "p/a/.copy-2", "p/a/x", "p/a/y">>)
MCWalkRank == PlaceIn(<<"o", "o/q", "p", "p/", "p/.copy-1", "p/a", "p/a/.copy-2", "p/a/x", "p/a/y", "p/a.txt">>)
=============================================================================
