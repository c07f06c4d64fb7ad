------------------------------- MODULE MCWiki -------------------------------
(* Two pages and two sources for the run of Wiki. *)
EXTENDS Wiki, TLC

MCPages == {1, 2}
MCSources == {1, 2}

\* Complete with and, to be refused, without sources; incomplete; a page that
\* declares no source.
MCDeclarations ==
    {[sources |-> {1, 2}, complete |-> TRUE], [sources |-> {2}, complete |-> FALSE],
     [sources |-> {}, complete |-> FALSE], [sources |-> {}, complete |-> TRUE]}

MCSymmetry == Permutations(Procs) \cup Permutations(Dirs)
=============================================================================
