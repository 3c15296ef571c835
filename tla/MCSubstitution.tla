--------------------------- MODULE MCSubstitution ---------------------------
(* An instance of Substitution for TLC.                                    *)
EXTENDS Substitution

(* C:/Q, a directory below it, one beside it whose name begins the same,   *)
(* another one, and one that is too long.  C stands for the drive.         *)
Qt == <<"C", "/", "Q">>
Below == <<"C", "/", "Q", "/", "R">>
Beside == <<"C", "/", "Q", "R">>
Other == <<"C", "/", "R">>
Long == <<"C", "/", "Q", "/", "R", "/", "R">>
MCChar == {"C", "/", "\\", "Q", "R", "p", "d", "=", "D", "NUL"}
MCPaths == {Qt, Below, Beside, Other, Long}

MCParams ==
    <<[prefix |-> <<"p", "=">>, dir |-> <<>>],
      [prefix |-> <<"d", "=">>, dir |-> <<"D">>]>>

(* Up to three of: the path in each spelling, parts of paths, separators.  *)
Fragments(p) ==
    {Spelled(p, s) : s \in Spellings} \union {<<"C">>, <<"R">>, <<Slash>>, <<Backslash>>}
MCTexts(p) == {FlattenSeq(f) : f \in UNION {[1..n -> Fragments(p)] : n \in 1..3}}
=============================================================================
