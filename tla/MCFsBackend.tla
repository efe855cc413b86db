---------------------------- MODULE MCFsBackend ----------------------------
(***************************************************************************)
(* Small instances of FsBackend: two callers, two objects of one directory *)
(* and the temporaries they can leave in it.                               *)
(***************************************************************************)
EXTENDS FsBackend, TLC

CONSTANTS k1, k2, d1, t1, t2

MCDirOf == [n \in {k1, k2, t1, t2} |-> d1]

Symmetry == Permutations(Procs) \cup Permutations(Inos) \cup Permutations(Values)
              \cup Permutations(Temps)

\* What is left in a free inode cannot be read again.
Live(i) == (\E n \in Names : entry[n] = i) \/ (\E p \in Procs : i \in {in[p], out[p]})
View == <<entry, [i \in Inos |-> IF Live(i) THEN data[i] ELSE <<>>], dirs, pc, op,
          from, to, copyVars, delVars, orphans>>
=============================================================================
