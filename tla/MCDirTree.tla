----------------------------- MODULE MCDirTree -----------------------------
(***************************************************************************)
(* Two calls below one root with a directory in common, one of them with a *)
(* part that may be there already, and one with a relative path.           *)
(***************************************************************************)
EXTENDS DirTree, TLC

CONSTANTS m1, m2, m3

MCPath ==
    (m1 :> <<"C:", "out", "obj">>) @@ (m2 :> <<"C:", "out", "lib", "x">>)
        @@ (m3 :> <<"doc", "api">>)
Root == {<<"C:">>}
Out == {<<"C:", "out">>}
Doc == {<<"doc">>}
Lib == {<<"C:", "out", "lib">>}
MCTrees == {Root, Root \cup Doc, Root \cup Out, Root \cup Out \cup Lib \cup Doc}
MCRoots == Root
MCObstacles == {<<"doc", "api">>}
=============================================================================
