------------------------------ MODULE MCPrograms ------------------------------
\* The instance of Programs that TLC explores.
EXTENDS Programs, TLC

\* A detail with a bar reads like two fields.
MCDeeds   == {"login", "destroy"}
MCDetails == {<<"a">>, <<"a", "b">>}
MCTexts   == {"login", "destroy", "a", "b"}

Symmetry == Permutations(Apps) \cup Permutations(Requests)
=============================================================================
