---------------------------- MODULE MCKeyGuard ----------------------------
(***************************************************************************)
(* An instance of KeyGuard: every key of up to three segments, which covers *)
(* going up, coming back, empty and dot segments and a backslash; and      *)
(* names a bucket may hold although path.Clean would change them.          *)
(***************************************************************************)
EXTENDS KeyGuard

a == <<"a">>
ab == <<"ab">>
up == <<"..", "a">>

Segments == {a, Empty, Dot, DotDot, up}
MCKeys == {Str(k) : k \in SeqOf(Segments, 3)}
MCPairKeys == {<<>>, <<a>>, <<a, DotDot>>, <<DotDot, a>>, <<a, up>>}
MCRoots == {<<>>, <<a, Empty>>, <<Empty, a>>, <<a, DotDot, ab>>, <<Empty, Empty>>, <<DotDot>>, <<a>>}
MCObjects == {<<a, a>>, <<a, ab>>, <<ab>>, <<ab, a>>, <<a, a, a>>,
              <<Empty, a, a>>, <<Empty, ab, a>>,
              <<a, DotDot, ab>>, <<a, a, DotDot, DotDot, ab>>, <<a, Empty, a>>, <<a, Empty>>}
MCStarts == {<<a, ab>>}
=============================================================================
