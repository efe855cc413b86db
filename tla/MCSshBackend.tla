---------------------------- MODULE MCSshBackend ----------------------------
(***************************************************************************)
(* SshBackend with a copy, a put and a deletion at the same time; a path   *)
(* that is an object or a directory, an object below it, and another one   *)
(* beside it; temporaries in the root and in the directory.                *)
(***************************************************************************)
EXTENDS SshBackend, TLC

CONSTANTS e, d, x, t1, t2, t3, t4, t5, p1, p2, p3

MCDirOf == [n \in Names |-> IF n \in {x, t5} THEN d ELSE Root]
MCOps == (p1 :> {"copy"}) @@ (p2 :> {"put"}) @@ (p3 :> {"delete", "deleteall"})

Symmetry == Permutations(Temps \ {t5})

\* How a call ended, and what it had written, changes nothing afterwards.
View == <<tree, pc, args, tmp, aside, delVars,
          [p \in Procs |-> IF pc[p] = "idle" THEN res[p] = "none" ELSE wrote[p]]>>
=============================================================================
