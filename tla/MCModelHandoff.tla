--------------------------- MODULE MCModelHandoff ---------------------------
(* A workspace of two files and the candidates for the runs of ModelHandoff. *)
EXTENDS ModelHandoff

\* "out" resolves outside the workspace.
MCPaths == {"a", "b", "out"}
MCInside == {"a", "b"}
MCContents == {"x", "y"}
MCFirstFiles == {"x"}
MCReads == [c \in MCContents |-> IF c = "x" THEN 1 ELSE 0]

Fact(i, f, c, v) == [id |-> i, path |-> f, content |-> c, value |-> v]
Change(f, c) == [path |-> f, content |-> c]
Claims(changes, facts, claims) ==
    [changes |-> changes, facts |-> facts, claims |-> claims, unresolved |-> FALSE,
     shaped |-> TRUE]

\* A change with more facts than a state carries; a deletion with an older fact
\* verified again, and a claim on it; a value the bytes do not have; a claim on a
\* fact not declared; an open item and a path outside; no shape.
MCBodies == {
    Claims(<<Change("a", "x")>>, <<Fact("h", "a", "x", 1), Fact("f", "a", "x", 1), Fact("g", "b", "x", 1)>>, {}),
    Claims(<<Change("b", Absent)>>, <<Fact("f", "a", "x", 1)>>, {{"f"}}),
    Claims(<<>>, <<Fact("f", "a", "y", 1)>>, {}),
    Claims(<<>>, <<>>, {{"g"}}),
    [Claims(<<Change("out", "x")>>, <<>>, {}) EXCEPT !.unresolved = TRUE],
    [Claims(<<>>, <<>>, {}) EXCEPT !.shaped = FALSE]}

MCSymmetry == Permutations(Procs)
=============================================================================
