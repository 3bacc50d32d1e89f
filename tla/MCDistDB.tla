------------------------------ MODULE MCDistDB ------------------------------
(***************************************************************************)
(* Values of the constants of DistDB for TLC: two transaction ids, two     *)
(* data sources, and the lists newDistTransaction is given.                *)
(***************************************************************************)
EXTENDS DistDB, TLC

CONSTANTS d1, d2, d3

\* What newDistTransaction is given; d3 is misconfigured where it is used.
BothSources == {{d1, d2}}
OneSource == {{d1}}
ListsWithBad == {{d1}, {d3}}

\* Threads are interchangeable, ids are, and data sources are as long as they
\* are only given together.
Symmetric == {p @@ q : p \in Permutations(Threads), q \in Permutations(TransIds)}
AllSymmetric == {p @@ q : p \in Symmetric, q \in Permutations(DataSources)}
=============================================================================
