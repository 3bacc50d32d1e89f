--------------------------- MODULE MCSqlTemplate ---------------------------
(***************************************************************************)
(* Statements and parameter lists for TLC.                                 *)
(***************************************************************************)
EXTENDS SqlTemplate, TLC

CONSTANTS p, q

T == Plain("text")
Ref(kind, name) == [kind |-> kind, name |-> name, exact |-> TRUE]
OtherCase(name) == [kind |-> "bind", name |-> name, exact |-> FALSE]
P == Ref("bind", p)
Q == Ref("bind", q)

\* References alone, repeated, in two orders, in one line and in several, in
\* another case; mixed with substitutions, placeholders and a lone delimiter.
AllSqls ==
    {<<<<T>>>>, <<<<T>>, <<T, P>>>>, <<<<T, Q>>, <<T, P>>>>, <<<<T, P, T, Q>>>>,
     <<<<T, P, P>>>>, <<<<T>>, <<T, P>>, <<T, Q, T, P>>>>, <<<<T, OtherCase(p)>>>>,
     <<<<T, Ref("subst", p)>>, <<T, Q>>>>, <<<<T, Ref("subst", p), P>>>>,
     <<<<T, Plain("mark")>>>>, <<<<T, Plain("mark"), T, P>>>>, <<<<T, P>>, <<T, Plain("delim")>>>>}

Param1 == [name: {p, q}, inOut: {"in", "out"}, required: BOOLEAN, value: {Null, Blank, Given}]
AllLists == {<< >>} \cup {<<a>> : a \in Param1}
                \cup {l \in Param1 \X Param1 : l[1].name # l[2].name}
InLists == {l \in AllLists : \A i \in 1 .. Len(l) : l[i].inOut = "in"}
=============================================================================
