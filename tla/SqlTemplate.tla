---------------------------- MODULE SqlTemplate ----------------------------
(***************************************************************************)
(* How SQLEngine turns a statement with named parameters into one with     *)
(* placeholders, and SQLExecutor binds the parameters to it: one caller    *)
(* that passes its list of SqlParam objects to call after call.  The list  *)
(* is shared with the engine, which removes parameters from it and sets    *)
(* their values.                                                           *)
(*                                                                         *)
(* A statement is a sequence of lines, a line a sequence of tokens:        *)
(*   text   anything without a delimiter     mark   a placeholder: ?       *)
(*   bind   a reference: #name#              subst  #$name#                *)
(*   delim  a delimiter # without a partner                                *)
(* exact says that a reference has the case of the parameter's name, which *)
(* String.contains looks at and equalsIgnoreCase does not.                 *)
(***************************************************************************)
EXTENDS Naturals, Sequences, SequencesExt

CONSTANTS
    Names,        \* names of parameters, taken without regard to case
    NoName,
    Sqls,         \* statements the caller executes
    Lists,        \* lists of parameters the caller makes
    Null, Blank, Given,  \* values of a parameter: null, blank, anything else
    MaxRuns       \* bound: statements handed to the driver

Kinds == {"text", "mark", "bind", "subst", "delim"}
Token == [kind: Kinds, name: Names \cup {NoName}, exact: BOOLEAN]
Plain(k) == [kind |-> k, name |-> NoName, exact |-> FALSE]

\* A value read back from the database is the number of the execution it came from.
Values == {Null, Blank, Given} \cup 1 .. MaxRuns
SqlParam == [name: Names, inOut: {"in", "out"}, required: BOOLEAN, value: Values]

\* Statements do not start with a reference, nor do their lines; so an index
\* that is 0 in the code does not arise.  A list names a parameter once.
ASSUME InputsAssumption ==
    /\ Sqls \subseteq Seq(Seq(Token) \ {<< >>}) \ {<< >>}
    /\ \A sql \in Sqls : \A i \in 1 .. Len(sql) : sql[i][1].kind = "text"
    /\ Lists \subseteq Seq(SqlParam)
    /\ \A l \in Lists : \A i, j \in 1 .. Len(l) : l[i].name = l[j].name => i = j
    /\ NoName \notin Names /\ MaxRuns \in Nat

VARIABLES
    params,   \* the caller's list
    pc,       \* idle, or the next method of the call in progress
    op,       \* query (executeQuery) or update (executeUpdate)
    sql,      \* the statement of the last call, as the caller wrote it
    given,    \* the list as it was passed to the last call
    lines,    \* its lines, after replaceParamInSql
    text,     \* its tokens, in convertSql
    bound,    \* names of the parameters bound to the placeholders, in order
    res,      \* how the last call ended
    runs      \* statements handed to the driver so far

vars == <<params, pc, op, sql, given, lines, text, bound, res, runs>>
input == <<op, sql, given>>

Return(r) == pc' = "idle" /\ res' = r

\* The line holds #name# (bind) or #$name# (subst) as the parameter is spelled.
Refers(line, kind, name) ==
    \E i \in 1 .. Len(line) : line[i] = [kind |-> kind, name |-> name, exact |-> TRUE]
Mentions(line, name) == Refers(line, "bind", name)
Param(name) == params[SelectInSeq(params, LAMBDA p : p.name = name)]
Listed(name) == \E i \in 1 .. Len(params) : params[i].name = name

\* The elements of s at the positions in K, in their order.  It says what
\* SelectSeq would, of which the proof system knows nothing.
Pick(s, K) ==
    LET pick[i \in 0 .. Len(s)] ==
            IF i = 0 THEN << >>
            ELSE IF i \in K THEN Append(pick[i - 1], s[i]) ELSE pick[i - 1]
    IN  pick[Len(s)]

-----------------------------------------------------------------------------
NewList ==
    /\ pc = "idle"
    /\ \E l \in Lists : params' = l /\ given' = l
    /\ sql' = << >> /\ lines' = << >> /\ text' = << >> /\ bound' = << >>
    /\ res' = "none"
    /\ UNCHANGED <<pc, op, runs>>

\* executeUpdate does not call replaceParamInSql.
Start(o, s) ==
    /\ pc = "idle" /\ runs < MaxRuns
    /\ op' = o /\ sql' = s /\ given' = params
    /\ lines' = s /\ text' = << >> /\ bound' = << >>
    /\ pc' = IF o = "query" THEN "substitute" ELSE "drop"
    /\ UNCHANGED <<params, res, runs>>

\* replaceParamInSql: the parameters that were replaced leave the caller's list.
Replaced(name) == \E i \in 1 .. Len(lines) : Refers(lines[i], "subst", name)

Substitute ==
    /\ pc = "substitute"
    /\ IF \E i \in 1 .. Len(params) : Replaced(params[i].name) /\ params[i].value = Null
       THEN /\ Return("NullPointerException")
            /\ UNCHANGED <<params, lines>>
       ELSE /\ lines' = [i \in DOMAIN lines |-> [j \in DOMAIN lines[i] |->
                            IF lines[i][j].kind = "subst" /\ lines[i][j].exact /\ Listed(lines[i][j].name)
                            THEN Plain("text") ELSE lines[i][j]]]
            /\ params' = Pick(params, {i \in 1 .. Len(params) : ~Replaced(params[i].name)})
            /\ pc' = "drop"
            /\ UNCHANGED res
    /\ UNCHANGED <<input, text, bound, runs>>

\* deleteNullParamClauseInSQL, called by convertSql.  && binds tighter than ||:
\* a required parameter that is null is dereferenced, one that is blank deletes
\* its lines.  So does a line, already deleted, that the next parameter is
\* looked for in.
Dereferenced(p) == p.required /\ p.value = Null
Deletes(p)      == (~p.required /\ p.value = Null) \/ p.value = Blank

DropFails ==
    \/ \E i \in 1 .. Len(params) : Dereferenced(params[i])
    \/ \E i, j \in 1 .. Len(params), k \in 1 .. Len(lines) :
           /\ i < j /\ Deletes(params[i]) /\ Deletes(params[j])
           /\ Mentions(lines[k], params[i].name)

Dropped(line) == \E i \in 1 .. Len(params) : Deletes(params[i]) /\ Mentions(line, params[i].name)

\* Without parameters nothing is deleted and nothing converted.
DropLines ==
    /\ pc = "drop"
    /\ IF DropFails
       THEN Return("NullPointerException") /\ UNCHANGED text
       ELSE /\ text' = FlattenSeq(Pick(lines, {k \in 1 .. Len(lines) : ~Dropped(lines[k])}))
            /\ pc' = IF params = << >> THEN "run" ELSE "convert"
            /\ UNCHANGED res
    /\ UNCHANGED <<params, input, lines, bound, runs>>

\* One iteration of the loop of convertSql.
NextDelimiter == SelectInSeq(text, LAMBDA k : k.kind \in {"bind", "subst", "delim"})

\* WRONG variant: what a delimiter starts is not looked up in the list.
ConvertUnchecked ==
    /\ pc = "convert"
    /\ IF NextDelimiter = 0
       THEN pc' = "run" /\ UNCHANGED <<text, bound, res>>
       ELSE /\ text' = [text EXCEPT ![NextDelimiter] = Plain("mark")]
            /\ bound' = Append(bound, text[NextDelimiter].name)
            /\ UNCHANGED <<pc, res>>
    /\ UNCHANGED <<params, input, lines, runs>>

\* WRONG variant: a reference to an unknown parameter is passed over.
ConvertSkip ==
    /\ pc = "convert"
    /\ LET next == NextDelimiter IN
       IF next = 0
       THEN pc' = "run" /\ UNCHANGED <<text, bound>>
       ELSE IF text[next].kind = "bind" /\ Listed(text[next].name)
            THEN /\ text' = [text EXCEPT ![next] = Plain("mark")]
                 /\ bound' = Append(bound, text[next].name)
                 /\ UNCHANGED pc
            ELSE UNCHANGED <<text, bound, pc>>
    /\ UNCHANGED <<params, input, lines, res, runs>>

\* WRONG variant: the last delimiter is replaced first.
ConvertLastFirst ==
    /\ pc = "convert"
    /\ LET next == SelectLastInSeq(text, LAMBDA k : k.kind \in {"bind", "subst", "delim"}) IN
       IF next = 0
       THEN pc' = "run" /\ UNCHANGED <<text, bound, res>>
       ELSE IF text[next].kind = "bind" /\ Listed(text[next].name)
            THEN /\ text' = [text EXCEPT ![next] = Plain("mark")]
                 /\ bound' = Append(bound, text[next].name)
                 /\ UNCHANGED <<pc, res>>
            ELSE Return("DBAccessCheckedException") /\ UNCHANGED <<text, bound>>
    /\ UNCHANGED <<params, input, lines, runs>>

Convert ==
    /\ pc = "convert"
    /\ LET next == NextDelimiter IN
       IF next = 0
       THEN pc' = "run" /\ UNCHANGED <<text, bound, res>>
       ELSE IF text[next].kind = "bind" /\ Listed(text[next].name)
            THEN /\ text' = [text EXCEPT ![next] = Plain("mark")]
                 /\ bound' = Append(bound, text[next].name)
                 /\ UNCHANGED <<pc, res>>
            ELSE Return("DBAccessCheckedException") /\ UNCHANGED <<text, bound>>
    /\ UNCHANGED <<params, input, lines, runs>>

-----------------------------------------------------------------------------
(* SQLExecutor: setParameters, the statement itself, getOutParameters.     *)
(* unbindable is the SQLException of a statement that no values could save. *)

\* executeQuery falls back on the whole list when no reference was found.
ToBind == IF op = "query" /\ bound = << >>
          THEN [i \in 1 .. Len(params) |-> params[i].name] ELSE bound

\* What setParameter sets or registers: an OUT parameter of a query is passed
\* over.  The driver refuses a position that is not in the statement, one that
\* nothing was set for, and a delimiter in the text.
SetAt(i) == op = "query" => Param(ToBind[i]).inOut = "in"
Marks == Cardinality({i \in 1 .. Len(text) : text[i].kind = "mark"})
Bindable ==
    /\ {i \in 1 .. Len(ToBind) : SetAt(i)} = 1 .. Marks
    /\ NextDelimiter = 0 /\ text # << >>

\* The OUT parameters of an update that take what is read back: those that have
\* no value.  got are those read back with a value: the database may answer null.
ReadableOver == \* WRONG variant: the value that was passed in is overwritten
    {i \in 1 .. Len(params) : /\ op = "update" /\ params[i].inOut = "out"
                              /\ Contains(ToBind, params[i].name)}
Readable ==
    {i \in 1 .. Len(params) : /\ op = "update" /\ params[i].inOut = "out"
                              /\ params[i].value = Null /\ Contains(ToBind, params[i].name)}
Answered(got) ==
    [i \in DOMAIN params |->
        IF i \in got THEN [params[i] EXCEPT !.value = runs + 1] ELSE params[i]]

Run ==
    /\ pc = "run"
    /\ IF Bindable
       THEN /\ Return("ok")
            /\ runs' = runs + 1
            /\ \E got \in SUBSET Readable : params' = Answered(got)
            /\ bound' = ToBind
       ELSE /\ Return("unbindable")
            /\ UNCHANGED <<runs, params, bound>>
    /\ UNCHANGED <<input, lines, text>>

\* A value that does not convert to its type, or an error of the database: it may
\* come while the OUT parameters are read back, with some of them set.
RunFails ==
    /\ pc = "run"
    /\ Return("SQLException")
    /\ runs' = runs + 1
    /\ \E got \in SUBSET (IF Bindable THEN Readable ELSE {}) : params' = Answered(got)
    /\ UNCHANGED <<input, lines, text, bound>>

-----------------------------------------------------------------------------
Init ==
    /\ params \in Lists /\ given = params
    /\ pc = "idle" /\ op = "query" /\ res = "none" /\ runs = 0
    /\ sql = << >> /\ lines = << >> /\ text = << >> /\ bound = << >>

\* A call, once made, runs on: nothing in it waits.
Step == Substitute \/ DropLines \/ Convert \/ Run \/ RunFails

Next == NewList \/ Step \/ \E o \in {"query", "update"}, s \in Sqls : Start(o, s)

Spec == Init /\ [][Next]_vars /\ WF_vars(Step)

-----------------------------------------------------------------------------
(* Properties.                                                             *)

TypeOK ==
    /\ {params, given} \subseteq Seq(SqlParam)
    /\ pc \in {"idle", "substitute", "drop", "convert", "run"}
    /\ op \in {"query", "update"}
    /\ {sql, lines} \subseteq Seq(Seq(Token))
    /\ text \in Seq(Token)
    /\ bound \in Seq(Names)
    /\ res \in {"none", "ok", "NullPointerException", "DBAccessCheckedException",
                "SQLException", "unbindable"}
    /\ runs \in 0 .. MaxRuns

Executed == pc = "idle" /\ res = "ok"

\* The lines of optional parameters without a value, null or blank, are left out.
NoValue(p)  == p.value \in {Null, Blank}
Lacking(p)  == ~p.required /\ NoValue(p)
Written     == Pick(sql, {k \in 1 .. Len(sql) :
                   ~\E i \in 1 .. Len(given) :
                       Lacking(given[i]) /\ Mentions(sql[k], given[i].name)})
Binds(tokens) == {i \in 1 .. Len(tokens) : tokens[i].kind = "bind"}
References  == Pick(FlattenSeq(Written), Binds(FlattenSeq(Written)))

ReferencesBound ==
    /\ Len(bound) = Len(References)
    /\ \A i \in 1 .. Len(bound) : bound[i] = References[i].name
RequiredGiven == \A i \in 1 .. Len(given) : given[i].required => ~NoValue(given[i])

\* However the statement was taken apart, what runs is the caller's statement
\* without the lines of the optional parameters that have no value, and its i-th
\* placeholder gets the parameter that the i-th reference names; provided that
\* the required parameters have a value (RequiredLinesRun says what else happens).
BoundAsWritten == Executed /\ RequiredGiven /\ References # << >> => ReferencesBound

\* A call leaves the caller's list as it was, but for the parameters whose
\* value it put into the text of a query, and the OUT parameters of an update
\* that had no value: so the list may be passed again.  It is so too when the
\* call fails half-way.
ListKept ==
    pc = "idle" =>
        \A i \in 1 .. Len(given) :
            \/ Contains(params, given[i])
            \/ op = "query" /\ \E j \in 1 .. Len(sql) : Refers(sql[j], "subst", given[i].name)
            \/ op = "update" /\ given[i].inOut = "out" /\ given[i].value = Null

\* The loop of convertSql, which looks for the first delimiter of the text it
\* is changing, comes to an end, and so does every call.
CallsReturn == pc # "idle" ~> pc = "idle"

-----------------------------------------------------------------------------
(* What comments of the code say and the code does not do.                 *)

\* Each reference names a parameter of the list, each parameter is an IN
\* parameter that is referred to, and those that are required have a value.
WellFormed ==
    /\ \A i \in 1 .. Len(sql), j \in 1 .. 9 :
           j <= Len(sql[i]) /\ sql[i][j].kind # "text"
               => /\ sql[i][j].kind = "bind" /\ sql[i][j].exact
                  /\ \E k \in 1 .. Len(given) : given[k].name = sql[i][j].name
    /\ RequiredGiven
    /\ \A k \in 1 .. Len(given) :
           /\ given[k].inOut = "in"
           /\ \E i \in 1 .. Len(sql) : Mentions(sql[i], given[k].name)

\* SQLEngine, comment on deleteNullParamClauseInSQL: the lines of optional
\* parameters passed as null are deleted; so what is left can be executed.
OptionalParamsWork ==
    pc = "idle" /\ WellFormed => res \notin {"NullPointerException", "unbindable"}

\* The same comment: it is the lines of optional parameters that are deleted; a
\* statement is not executed without the line of a required one.
RequiredLinesRun == Executed /\ References # << >> => ReferencesBound
=============================================================================
