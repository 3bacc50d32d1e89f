------------------------- MODULE SqlTemplate_proofs -------------------------
(***************************************************************************)
(* Proofs about SqlTemplate, for statements and lists of every length.     *)
(***************************************************************************)
EXTENDS SqlTemplate_lemmas

-----------------------------------------------------------------------------
(* Types.  A call that was begun had an execution left to count.           *)

TypeInv == TypeOK /\ (pc # "idle" => runs < MaxRuns)

\* The facts of TypeOK one by one.
LEMMA Types ==
    ASSUME TypeOK
    PROVE  /\ params \in Seq(SqlParam) /\ given \in Seq(SqlParam)
           /\ sql \in Seq(Seq(Token)) /\ lines \in Seq(Seq(Token))
           /\ text \in Seq(Token) /\ bound \in Seq(Names) /\ runs \in Nat /\ MaxRuns \in Nat
BY InputsAssumption DEF TypeOK

\* What the caller may pass.
LEMMA InputTypes ==
    /\ Lists \subseteq Seq(SqlParam)
    /\ Sqls \subseteq Seq(Seq(Token))
<1>1. ASSUME NEW s \in Sqls  PROVE s \in Seq(Seq(Token))
  <2>1. s \in Seq(Seq(Token) \ {<< >>})  BY InputsAssumption
  <2>2. Len(s) \in Nat /\ s = [i \in 1 .. Len(s) |-> s[i]]
        /\ \A i \in 1 .. Len(s) : s[i] \in Seq(Token)
    BY <2>1
  <2>. QED  BY <2>2
<1>. QED  BY <1>1, InputsAssumption

LEMMA PlainType == \A k \in Kinds : Plain(k) \in Token
BY DEF Plain, Token

\* A token after replaceParamInSql, and all of them.
Replacing(token) ==
    IF token.kind = "subst" /\ token.exact /\ Listed(token.name) THEN Plain("text") ELSE token

LEMMA SubstituteLines ==
    ASSUME TypeOK, NEW after,
           after = [i \in DOMAIN lines |-> [j \in DOMAIN lines[i] |->
                       IF lines[i][j].kind = "subst" /\ lines[i][j].exact /\ Listed(lines[i][j].name)
                       THEN Plain("text") ELSE lines[i][j]]]
    PROVE  after \in Seq(Seq(Token)) /\ AllSame(after, lines)
<1>0. lines \in Seq(Seq(Token)) /\ Len(lines) \in Nat /\ DOMAIN lines = 1 .. Len(lines)
  BY Types
<1>1. ASSUME NEW i \in 1 .. Len(lines)
      PROVE  after[i] \in Seq(Token) /\ SameBinds(after[i], lines[i])
  <2>. DEFINE line == lines[i]
              new == [j \in DOMAIN line |-> Replacing(line[j])]
  <2>1. after[i] = new  BY <1>0 DEF Replacing
  <2>2. line \in Seq(Token)  BY <1>0
  <2>. HIDE DEF line
  <2>3. Len(line) \in Nat /\ DOMAIN line = 1 .. Len(line)  BY <2>2
  <2>4. ASSUME NEW j \in 1 .. Len(line)
        PROVE  /\ Replacing(line[j]) \in Token
               /\ \/ Replacing(line[j]) = line[j]
                  \/ Replacing(line[j]).kind # "bind" /\ line[j].kind # "bind"
    <3>1. line[j] \in Token  BY <2>2
    <3>2. Plain("text") \in Token /\ Plain("text").kind # "bind"  BY PlainType DEF Kinds, Plain
    <3>3. \/ Replacing(line[j]) = line[j]
          \/ Replacing(line[j]) = Plain("text") /\ line[j].kind = "subst"
      BY Zenon DEF Replacing
    <3>4. CASE Replacing(line[j]) = line[j]  BY <3>1, <3>4
    <3>5. CASE Replacing(line[j]) = Plain("text") /\ line[j].kind = "subst"
      <4>1. Replacing(line[j]).kind # "bind" /\ line[j].kind # "bind"  BY <3>2, <3>5
      <4>. QED  BY <3>2, <3>5, <4>1
    <3>. QED  BY <3>3, <3>4, <3>5
  <2>5. new \in Seq(Token) /\ Len(new) = Len(line)
    <3>1. new \in [1 .. Len(line) -> Token]  BY <2>3, <2>4
    <3>. HIDE DEF new
    <3>. QED  BY <2>3, <3>1
  <2>6. \A j \in 1 .. Len(line) : new[j] = Replacing(line[j])  BY <2>3
  <2>7. SameBinds(new, line)
    <3>. HIDE DEF new
    <3>. QED  BY <2>4, <2>5, <2>6 DEF SameBinds
  <2>. QED  BY <2>1, <2>5, <2>7 DEF line
<1>2. after \in [1 .. Len(lines) -> Seq(Token)]  BY <1>0, <1>1
<1>3. after \in Seq(Seq(Token)) /\ Len(after) = Len(lines)  BY <1>0, <1>2
<1>. QED  BY <1>1, <1>3 DEF AllSame

LEMMA BaseType ==
    ASSUME TypeOK, NEW K  PROVE FlattenSeq(Pick(lines, K)) \in Seq(Token)
<1>. DEFINE picked == Pick(lines, K)
            Y == Seq(Token)
<1>1. picked \in Seq(Y)  BY Types, PickType
<1>. HIDE DEF picked
<1>2. Y \in SUBSET Seq(Token)  OBVIOUS
<1>. HIDE DEF Y
<1>. QED  BY <1>1, <1>2, FlatType DEF picked

LEMMA ToBindType == ASSUME TypeOK  PROVE ToBind \in Seq(Names)
<1>1. params \in Seq(SqlParam) /\ Len(params) \in Nat /\ bound \in Seq(Names)  BY Types
<1>2. \A i \in 1 .. Len(params) : params[i].name \in Names
  <2>1. \A i \in 1 .. Len(params) : params[i] \in SqlParam  BY <1>1
  <2>. QED  BY <2>1 DEF SqlParam
<1>3. [i \in 1 .. Len(params) |-> params[i].name] \in Seq(Names)  BY <1>1, <1>2
<1>. QED  BY <1>1, <1>3 DEF ToBind

\* What a read-back leaves of the list: the same parameters, some of an update's
\* OUT parameters that had no value with the value read.
LEMMA AnsweredType ==
    ASSUME TypeOK, runs < MaxRuns, NEW got \in SUBSET Readable, NEW after, after = Answered(got)
    PROVE  /\ after \in Seq(SqlParam) /\ Len(after) = Len(params)
           /\ \A i \in 1 .. Len(params) :
                  \/ after[i] = params[i]
                  \/ op = "update" /\ params[i].inOut = "out" /\ params[i].value = Null
<1>1. params \in Seq(SqlParam) /\ Len(params) \in Nat /\ DOMAIN params = 1 .. Len(params)
  BY Types
<1>2. runs + 1 \in 1 .. MaxRuns  BY Types
<1>3. ASSUME NEW i \in 1 .. Len(params)
      PROVE  /\ after[i] \in SqlParam
             /\ \/ after[i] = params[i]
                \/ op = "update" /\ params[i].inOut = "out" /\ params[i].value = Null
  <2>0. params[i] \in SqlParam  BY <1>1
  <2>1. after[i] = IF i \in got THEN [params[i] EXCEPT !.value = runs + 1] ELSE params[i]
    BY <1>1 DEF Answered
  <2>2. CASE i \in got
    <3>1. op = "update" /\ params[i].inOut = "out" /\ params[i].value = Null
      BY <2>2 DEF Readable
    <3>2. [params[i] EXCEPT !.value = runs + 1] \in SqlParam  BY <1>2, <2>0 DEF SqlParam, Values
    <3>. QED  BY <2>1, <2>2, <3>1, <3>2
  <2>3. CASE i \notin got  BY <2>0, <2>1, <2>3
  <2>. QED  BY <2>2, <2>3
<1>4. DOMAIN after = 1 .. Len(params) /\ after = [i \in 1 .. Len(params) |-> after[i]]
  BY <1>1 DEF Answered
<1>5. after \in [1 .. Len(params) -> SqlParam]  BY <1>3, <1>4
<1>6. after \in Seq(SqlParam) /\ Len(after) = Len(params)  BY <1>1, <1>5
<1>. QED  BY <1>3, <1>6

\* Both ways in which a call may leave the driver.
LEMMA ReadBack ==
    ASSUME TypeOK, runs < MaxRuns, Run \/ RunFails
    PROVE  \/ params' = params
           \/ \E got \in SUBSET Readable : params' = Answered(got)
BY DEF Run, RunFails

LEMMA InitTypes == Init => TypeInv
BY InputTypes, InputsAssumption DEF Init, TypeInv, TypeOK

LEMMA StepTypes == TypeInv /\ [Next]_vars => TypeInv'
<1>. SUFFICES ASSUME TypeInv, [Next]_vars  PROVE TypeInv'
  OBVIOUS
<1>. USE DEF TypeInv
<1>0. /\ params \in Seq(SqlParam) /\ given \in Seq(SqlParam)
      /\ sql \in Seq(Seq(Token)) /\ lines \in Seq(Seq(Token))
      /\ text \in Seq(Token) /\ bound \in Seq(Names) /\ runs \in Nat /\ MaxRuns \in Nat
  BY Types
<1>1. CASE NewList
  BY <1>0, <1>1, InputTypes DEF NewList, TypeOK
<1>2. ASSUME NEW o \in {"query", "update"}, NEW s \in Sqls, Start(o, s)  PROVE TypeInv'
  BY <1>0, <1>2, InputTypes DEF Start, TypeOK
<1>3. CASE Substitute
  <2>. DEFINE after == [i \in DOMAIN lines |-> [j \in DOMAIN lines[i] |->
                           IF lines[i][j].kind = "subst" /\ lines[i][j].exact /\ Listed(lines[i][j].name)
                           THEN Plain("text") ELSE lines[i][j]]]
              K == {i \in 1 .. Len(params) : ~Replaced(params[i].name)}
  <2>1. after \in Seq(Seq(Token))
    <3>1. \A x : x = after => x \in Seq(Seq(Token))  BY SubstituteLines
    <3>. QED  BY <3>1
  <2>2. Pick(params, K) \in Seq(SqlParam)  BY <1>0, PickType
  <2>3. lines' \in {lines, after} /\ params' \in {params, Pick(params, K)}
    BY <1>3 DEF Substitute
  <2>4. lines' \in Seq(Seq(Token)) /\ params' \in Seq(SqlParam)
    <3>. HIDE DEF after, K
    <3>. QED  BY <1>0, <2>1, <2>2, <2>3
  <2>. QED  BY <1>0, <1>3, <2>4 DEF Substitute, Return, TypeOK, input
<1>4. CASE DropLines
  <2>1. text' \in Seq(Token)  BY <1>0, <1>4, BaseType DEF DropLines
  <2>. QED  BY <1>0, <1>4, <2>1 DEF DropLines, Return, TypeOK, input
<1>5. CASE Convert
  <2>. DEFINE n == NextDelimiter
  <2>1. Plain("mark") \in Token  BY PlainType DEF Kinds
  <2>2. [text EXCEPT ![n] = Plain("mark")] \in Seq(Token)
    <3>. HIDE DEF n
    <3>1. text \in [1 .. Len(text) -> Token] /\ Len(text) \in Nat  BY <1>0
    <3>2. [text EXCEPT ![n] = Plain("mark")] \in [1 .. Len(text) -> Token]  BY <2>1, <3>1
    <3>. QED  BY <3>1, <3>2
  <2>3. Listed(text[n].name) => Append(bound, text[n].name) \in Seq(Names)
    <3>0. \A i \in 1 .. Len(params) : params[i].name \in Names
      <4>1. \A i \in 1 .. Len(params) : params[i] \in SqlParam  BY <1>0
      <4>. QED  BY <4>1 DEF SqlParam
    <3>1. Listed(text[n].name) => text[n].name \in Names  BY <3>0 DEF Listed
    <3>. HIDE DEF n
    <3>. QED  BY <1>0, <3>1
  <2>4. /\ text' \in {text, [text EXCEPT ![n] = Plain("mark")]}
        /\ bound' = bound \/ (Listed(text[n].name) /\ bound' = Append(bound, text[n].name))
        /\ pc' \in {"convert", "run", "idle"} /\ res' \in {res, "DBAccessCheckedException"}
        /\ pc = "convert" /\ UNCHANGED <<params, input, lines, runs>>
    BY <1>5 DEF Convert, Return
  <2>5. text' \in Seq(Token) /\ bound' \in Seq(Names)
    <3>. HIDE DEF n
    <3>. QED  BY <1>0, <2>2, <2>3, <2>4
  <2>. QED  BY <1>0, <2>4, <2>5 DEF TypeOK, input
<1>6. CASE Run
  <2>1. runs' \in {runs, runs + 1} /\ runs < MaxRuns  BY <1>6 DEF Run
  <2>2. bound' \in Seq(Names)  BY <1>0, <1>6, ToBindType DEF Run
  <2>3. params' \in Seq(SqlParam)  BY <1>0, <1>6, <2>1, ReadBack, AnsweredType
  <2>. QED  BY <1>0, <1>6, <2>1, <2>2, <2>3 DEF Run, Return, TypeOK, input
<1>7. CASE RunFails
  <2>1. runs' = runs + 1 /\ runs < MaxRuns  BY <1>7 DEF RunFails
  <2>2. params' \in Seq(SqlParam)  BY <1>0, <1>7, <2>1, ReadBack, AnsweredType
  <2>. QED  BY <1>0, <1>7, <2>1, <2>2 DEF RunFails, Return, TypeOK, input
<1>8. CASE UNCHANGED vars
  BY <1>8 DEF vars, TypeOK
<1>. QED  BY <1>1, <1>2, <1>3, <1>4, <1>5, <1>6, <1>7, <1>8 DEF Next, Step

\* The variables keep their types: no token, name or value turns up that the
\* statements and the list did not have, and runs stays within its bound.
THEOREM Typing == Spec => []TypeOK
BY InitTypes, StepTypes, PTL DEF Spec, TypeInv

-----------------------------------------------------------------------------
(* The list.  During a call a parameter that it was passed is either still *)
(* in the list, or replaceParamInSql took out all parameters of its name;  *)
(* and the list holds nothing else.  The lines have the references that    *)
(* the statement has.                                                      *)

PutInText(name) == \E j \in 1 .. Len(sql) : Refers(sql[j], "subst", name)

KeptOrOut(p) ==
    \/ Contains(params, p)
    \/ op = "query" /\ PutInText(p.name) /\ ~Listed(p.name)

DuringCall ==
    /\ \A i \in 1 .. Len(given) : KeptOrOut(given[i])
    /\ \A j \in 1 .. Len(params) : Contains(given, params[j])
    /\ AllSame(lines, sql)

NotYetReplaced == op = "query" /\ params = given /\ lines = sql

ListInv ==
    /\ pc = "substitute" => NotYetReplaced
    /\ pc # "idle" => DuringCall
    /\ ListKept

LEMMA SameAsItself == ASSUME NEW s  PROVE AllSame(s, s)
BY DEF AllSame, SameBinds

LEMMA KeptSoFar == ASSUME TypeOK, DuringCall, op' = op, given' = given, sql' = sql, params' = params
                   PROVE  ListKept'
<1>. SUFFICES ASSUME NEW i \in 1 .. Len(given)
              PROVE  \/ Contains(params, given[i])
                     \/ op = "query" /\ \E j \in 1 .. Len(sql) : Refers(sql[j], "subst", given[i].name)
  BY DEF ListKept
<1>. QED  BY DEF DuringCall, KeptOrOut, PutInText

LEMMA SubstituteLists ==
    ASSUME TypeOK, ListInv, Substitute  PROVE ListInv'
<1>1. /\ NotYetReplaced /\ DuringCall /\ UNCHANGED <<op, sql, given, text, bound, runs>>
  BY DEF Substitute, ListInv, input
<1>2. params \in Seq(SqlParam) /\ lines \in Seq(Seq(Token))  BY Types
<1>. DEFINE after == [i \in DOMAIN lines |-> [j \in DOMAIN lines[i] |->
                         IF lines[i][j].kind = "subst" /\ lines[i][j].exact /\ Listed(lines[i][j].name)
                         THEN Plain("text") ELSE lines[i][j]]]
            K == {i \in 1 .. Len(params) : ~Replaced(params[i].name)}
            left == Pick(params, K)
<1>3. CASE pc' = "idle"
  <2>1. params' = params  BY <1>3 DEF Substitute
  <2>. QED  BY <1>1, <1>3, <2>1, KeptSoFar DEF ListInv
<1>4. CASE pc' # "idle"
  <2>1. pc' = "drop" /\ params' = left /\ lines' = after  BY <1>4 DEF Substitute, Return
  <2>2. AllSame(after, lines)
    <3>1. \A x : x = after => AllSame(x, lines)  BY SubstituteLines
    <3>. QED  BY <3>1
  <2>. HIDE DEF after
  <2>3. \A name : Replaced(name) <=> PutInText(name)
    BY <1>1 DEF Replaced, PutInText, NotYetReplaced
  <2>4. left \in Seq(SqlParam)  BY <1>2, PickType
  <2>5. ASSUME NEW j \in 1 .. Len(left)
        PROVE  \E i \in 1 .. Len(params) : left[j] = params[i] /\ ~Replaced(params[i].name)
    <3>. HIDE DEF K
    <3>1. \E i \in 1 .. Len(params) : i \in K /\ left[j] = params[i]  BY <1>2, PickFrom
    <3>. QED  BY <3>1 DEF K
  <2>6. ASSUME NEW i \in 1 .. Len(given)
        PROVE  \/ Contains(left, given[i])
               \/ PutInText(given[i].name) /\ ~\E j \in 1 .. Len(left) : left[j].name = given[i].name
    <3>1. i \in 1 .. Len(params) /\ given[i] = params[i]  BY <1>1 DEF NotYetReplaced
    <3>2. CASE Replaced(params[i].name)
      BY <2>3, <2>5, <3>1, <3>2
    <3>3. CASE ~Replaced(params[i].name)
      <4>1. i \in K  BY <3>1, <3>3
      <4>. HIDE DEF K
      <4>2. \E j \in 1 .. Len(left) : left[j] = params[i]  BY <1>2, <3>1, <4>1, PickHas
      <4>. QED  BY <3>1, <4>2 DEF Contains
    <3>. QED  BY <3>2, <3>3
  <2>7. ASSUME NEW j \in 1 .. Len(left)  PROVE Contains(given, left[j])
    BY <1>1, <2>5 DEF Contains, NotYetReplaced
  <2>. HIDE DEF left
  <2>8. ASSUME NEW i \in 1 .. Len(given)  PROVE KeptOrOut(given[i])'
    BY <1>1, <2>1, <2>6 DEF KeptOrOut, PutInText, Listed, NotYetReplaced
  <2>9. AllSame(lines, sql)'  BY <1>1, <2>1, <2>2 DEF NotYetReplaced
  <2>10. DuringCall'
    <3>1. \A i \in 1 .. Len(given') : KeptOrOut(given[i])'  BY <1>1, <2>8
    <3>2. \A j \in 1 .. Len(params') : Contains(given', params'[j])  BY <1>1, <2>1, <2>7
    <3>. QED  BY <2>9, <3>1, <3>2 DEF DuringCall
  <2>. QED  BY <2>1, <2>10 DEF ListInv, ListKept
<1>. QED  BY <1>3, <1>4

LEMMA InitLists == Init => ListInv
BY InputTypes DEF Init, ListInv, ListKept, Contains

LEMMA StepLists == TypeInv /\ ListInv /\ [Next]_vars => ListInv'
<1>. SUFFICES ASSUME TypeInv, ListInv, [Next]_vars  PROVE ListInv'
  OBVIOUS
<1>0. TypeOK /\ params \in Seq(SqlParam) /\ given \in Seq(SqlParam)  BY Types DEF TypeInv
<1>1. CASE NewList
  BY <1>1 DEF NewList, ListInv, ListKept, Contains
<1>2. ASSUME NEW o \in {"query", "update"}, NEW s \in Sqls, Start(o, s)  PROVE ListInv'
  <2>1. /\ op' = o /\ sql' = s /\ given' = params /\ params' = params /\ lines' = s
        /\ pc' = IF o = "query" THEN "substitute" ELSE "drop"
    BY <1>2 DEF Start
  <2>2. \A i \in 1 .. Len(params) : Contains(params, params[i])  BY DEF Contains
  <2>3. DuringCall'
    BY <2>1, <2>2, SameAsItself DEF DuringCall, KeptOrOut
  <2>. QED  BY <2>1, <2>3 DEF ListInv, NotYetReplaced, ListKept
<1>3. CASE Substitute
  BY <1>0, <1>3, SubstituteLists
<1>4. ASSUME DropLines \/ Convert  PROVE ListInv'
  <2>1. /\ pc # "idle" /\ pc' # "substitute"
        /\ UNCHANGED <<params, op, sql, given, lines>>
    BY <1>4 DEF DropLines, Convert, Return, input
  <2>2. DuringCall /\ DuringCall'
    BY <2>1 DEF ListInv, DuringCall, KeptOrOut, PutInText, Listed
  <2>. QED  BY <1>0, <2>1, <2>2, KeptSoFar DEF ListInv
<1>5. ASSUME Run \/ RunFails  PROVE ListInv'
  <2>1. DuringCall /\ pc' = "idle" /\ UNCHANGED <<op, sql, given>>
    BY <1>5 DEF Run, RunFails, Return, ListInv, input
  <2>2. CASE params' = params  BY <1>0, <2>1, <2>2, KeptSoFar DEF ListInv
  <2>3. CASE params' # params
    <3>1. runs < MaxRuns  BY <1>5 DEF Run, RunFails, TypeInv
    <3>2. PICK got \in SUBSET Readable : params' = Answered(got)  BY <1>0, <1>5, <2>3, <3>1, ReadBack
    <3>3. /\ Len(params') = Len(params)
          /\ \A i \in 1 .. Len(params) :
                 \/ params'[i] = params[i]
                 \/ op = "update" /\ params[i].inOut = "out" /\ params[i].value = Null
      BY <1>0, <3>1, <3>2, AnsweredType
    <3>4. ASSUME NEW i \in 1 .. Len(given)
          PROVE  \/ Contains(params', given[i])
                 \/ op = "query" /\ PutInText(given[i].name)
                 \/ op = "update" /\ given[i].inOut = "out" /\ given[i].value = Null
      <4>1. KeptOrOut(given[i])  BY <2>1 DEF DuringCall
      <4>. QED  BY <3>3, <4>1 DEF KeptOrOut, Contains
    <3>. QED  BY <2>1, <3>4 DEF ListInv, ListKept, PutInText
  <2>. QED  BY <2>2, <2>3
<1>6. CASE UNCHANGED vars
  BY <1>6 DEF vars, ListInv, ListKept, DuringCall, KeptOrOut, PutInText, Listed, NotYetReplaced
<1>. QED  BY <1>1, <1>2, <1>3, <1>4, <1>5, <1>6 DEF Next, Step

\* A call leaves the caller's list as it was, but for the parameters it put into
\* the text of a query and the OUT parameters of an update that had no value,
\* when it succeeds and when it fails half-way (SQLEngine 314-332, SQLExecutor
\* 108-133).
THEOREM ListSurvives == Spec => []ListKept
<1>1. Init => TypeInv /\ ListInv  BY InitTypes, InitLists
<1>2. TypeInv /\ ListInv /\ [Next]_vars => (TypeInv /\ ListInv)'  BY StepTypes, StepLists
<1>3. ListInv => ListKept  BY DEF ListInv
<1>. QED  BY <1>1, <1>2, <1>3, PTL DEF Spec

-----------------------------------------------------------------------------
(* The conversion.  Base is what the loop of convertSql begins with.  Up   *)
(* to some position n, that of the last placeholder, every reference was   *)
(* replaced and named in bound; after it the text is as it was.            *)

Kept == {k \in 1 .. Len(lines) : ~Dropped(lines[k])}
Base == FlattenSeq(Pick(lines, Kept))

\* The references among the first n tokens.
Begun(n) == PickFn(Base, Binds(Base))[n]

UpTo(n) ==
    /\ \A j \in n + 1 .. Len(Base) : text[j] = Base[j]
    /\ \A j \in 1 .. n : /\ text[j].kind \notin Delimiters
                         /\ Base[j].kind = "bind" => Listed(Base[j].name)
    /\ Len(bound) = Len(Begun(n))
    /\ \A i \in 1 .. Len(bound) : bound[i] = Begun(n)[i].name

Converting ==
    /\ \A i \in 1 .. Len(params) : ~Dereferenced(params[i])
    /\ Len(text) = Len(Base)
    /\ \E n \in 0 .. Len(Base) : UpTo(n)

ConvInv ==
    /\ pc \in {"substitute", "drop"} => bound = << >>
    /\ pc \in {"convert", "run"} => Converting
    /\ BoundAsWritten

LEMMA BaseIs == ASSUME TypeOK  PROVE Base \in Seq(Token)
BY BaseType DEF Base

LEMMA BegunIs ==
    ASSUME TypeOK
    PROVE  /\ \A n \in 0 .. Len(Base) : Begun(n) \in Seq(Token)
           /\ Begun(0) = << >>
           /\ \A n \in 1 .. Len(Base) :
                  Begun(n) = IF Base[n].kind = "bind" THEN Append(Begun(n - 1), Base[n])
                             ELSE Begun(n - 1)
           /\ \A m, n \in 0 .. Len(Base) :
                  m <= n /\ (\A i \in m + 1 .. n : Base[i].kind # "bind") => Begun(n) = Begun(m)
<1>. DEFINE B == Base
            K == Binds(Base)
<1>1. B \in Seq(Token)  BY BaseIs
<1>2. \A i \in 1 .. Len(B) : i \in K <=> B[i].kind = "bind"  BY DEF Binds
<1>3. \A n : Begun(n) = PickFn(B, K)[n]  BY DEF Begun
<1>. HIDE DEF B, K
<1>4. /\ PickFn(B, K) \in [0 .. Len(B) -> Seq(Token)] /\ PickFn(B, K)[0] = << >>
      /\ \A i \in 1 .. Len(B) :
             PickFn(B, K)[i] = IF i \in K THEN Append(PickFn(B, K)[i - 1], B[i])
                               ELSE PickFn(B, K)[i - 1]
  BY <1>1, PickSteps
<1>5. \A n \in 0 .. Len(B) : Begun(n) \in Seq(Token)  BY <1>3, <1>4
<1>6. \A n \in 1 .. Len(B) :
          Begun(n) = IF B[n].kind = "bind" THEN Append(Begun(n - 1), B[n]) ELSE Begun(n - 1)
  BY <1>2, <1>3, <1>4
<1>7. ASSUME NEW m \in 0 .. Len(B), NEW n \in 0 .. Len(B), m <= n,
             \A i \in m + 1 .. n : B[i].kind # "bind"
      PROVE  Begun(n) = Begun(m)
  <2>1. Len(B) \in Nat  BY <1>1
  <2>2. \A i \in m + 1 .. n : i \in 1 .. Len(B)  BY <2>1
  <2>3. \A i \in m + 1 .. n : i \notin K  BY <1>2, <1>7, <2>2
  <2>. QED  BY <1>1, <1>3, <1>7, <2>3, PickStill
<1>8. Begun(0) = << >>  BY <1>3, <1>4
<1>. QED  BY <1>5, <1>6, <1>7, <1>8 DEF B

LEMMA BaseStays == ASSUME params' = params, lines' = lines  PROVE Base' = Base
BY DEF Base, Kept, Dropped, Deletes, Mentions, Refers

LEMMA ConvertingStays ==
    ASSUME Converting, params' = params, lines' = lines, text' = text, bound' = bound
    PROVE  Converting'
<1>1. Base' = Base  BY BaseStays
<1>2. ASSUME NEW n \in 0 .. Len(Base), UpTo(n)  PROVE UpTo(n)'
  BY <1>1, <1>2 DEF UpTo, Begun, Listed
<1>. QED  BY <1>1, <1>2 DEF Converting, Dereferenced

\* BoundAsWritten speaks of calls that have come to an end.
LEMMA NotExecuted == pc # "idle" \/ res # "ok" => BoundAsWritten
BY DEF BoundAsWritten, Executed

LEMMA DropConverting ==
    ASSUME TypeOK, ConvInv, DropLines, pc' # "idle"  PROVE Converting'
<1>1. /\ ~DropFails /\ bound = << >> /\ text' = Base
      /\ UNCHANGED <<params, lines, bound>>
  BY DEF DropLines, Return, ConvInv, Base, Kept
<1>2. Base' = Base  BY <1>1, BaseStays
<1>3. \A i \in 1 .. Len(params) : ~Dereferenced(params[i])  BY <1>1 DEF DropFails
<1>4. Base \in Seq(Token) /\ Begun(0) = << >>  BY BaseIs, BegunIs
<1>5. Begun(0)' = << >>  BY <1>2, <1>4 DEF Begun
<1>6. UpTo(0)'  BY <1>1, <1>2, <1>5 DEF UpTo
<1>7. 0 \in 0 .. Len(Base)  BY <1>4
<1>. QED  BY <1>1, <1>2, <1>3, <1>6, <1>7 DEF Converting, Dereferenced

LEMMA ConvertConverting ==
    ASSUME TypeOK, Converting, Convert, pc' # "idle"  PROVE Converting'
<1>0. PICK m : m = NextDelimiter  OBVIOUS
<1>1. CASE text' = text /\ bound' = bound
  BY <1>1, ConvertingStays DEF Convert
<1>2. CASE ~(text' = text /\ bound' = bound)
  <2>1. /\ m # 0 /\ text[m].kind = "bind" /\ Listed(text[m].name)
        /\ text' = [text EXCEPT ![m] = Plain("mark")]
        /\ bound' = Append(bound, text[m].name)
        /\ UNCHANGED <<params, lines>>
    BY <1>0, <1>2 DEF Convert, Return
  <2>2. /\ m \in 1 .. Len(text)
        /\ \A i \in 1 .. m - 1 : text[i].kind \notin Delimiters
    BY <1>0, <2>1, Types, NextDelimiterIs
  <2>3. PICK n \in 0 .. Len(Base) : UpTo(n)  BY DEF Converting
  <2>4. Base \in Seq(Token) /\ Len(Base) \in Nat /\ text \in Seq(Token) /\ Len(text) = Len(Base)
    BY BaseIs, Types DEF Converting
  <2>5. n < m /\ m \in 1 .. Len(Base) /\ m - 1 \in 0 .. Len(Base)
    <3>1. m \notin 1 .. n  BY <2>1, <2>3 DEF UpTo, Delimiters
    <3>. QED  BY <2>2, <2>4, <3>1
  <2>6. \A j \in n + 1 .. Len(Base) : text[j] = Base[j]  BY <2>3 DEF UpTo
  <2>7. Base[m] = text[m]  BY <2>4, <2>5, <2>6
  <2>8. \A i \in n + 1 .. m - 1 : Base[i].kind # "bind" /\ text[i].kind \notin Delimiters
    <3>. SUFFICES ASSUME NEW i \in n + 1 .. m - 1
                  PROVE  Base[i].kind # "bind" /\ text[i].kind \notin Delimiters
      OBVIOUS
    <3>1. i \in n + 1 .. Len(Base) /\ i \in 1 .. m - 1  BY <2>4, <2>5
    <3>. QED  BY <2>2, <2>6, <3>1 DEF Delimiters
  <2>9. Begun(m) = Append(Begun(n), Base[m]) /\ Begun(n) \in Seq(Token)
    <3>0. n <= m - 1 /\ \A i \in n + 1 .. m - 1 : Base[i].kind # "bind"  BY <2>4, <2>5, <2>8
    <3>1. Begun(m - 1) = Begun(n)  BY <2>5, <3>0, BegunIs
    <3>2. Begun(m) = Append(Begun(m - 1), Base[m])  BY <2>1, <2>5, <2>7, BegunIs
    <3>. QED  BY <2>3, <3>1, <3>2, BegunIs
  <2>10. Base' = Base  BY <2>1, BaseStays
  <2>11. Begun(m)' = Begun(m)  BY <2>10 DEF Begun
  <2>12. Len(text') = Len(text) /\ \A j \in 1 .. Len(text) :
             text'[j] = IF j = m THEN Plain("mark") ELSE text[j]
    BY <2>1, <2>4
  <2>13. \A j \in m + 1 .. Len(Base) : text'[j] = Base[j]
    <3>. SUFFICES ASSUME NEW j \in m + 1 .. Len(Base)  PROVE text'[j] = Base[j]
      OBVIOUS
    <3>1. j \in 1 .. Len(text) /\ j # m /\ j \in n + 1 .. Len(Base)  BY <2>3, <2>4, <2>5
    <3>. QED  BY <2>6, <2>12, <3>1
  <2>14. ASSUME NEW j \in 1 .. m
         PROVE  /\ text'[j].kind \notin Delimiters
                /\ Base[j].kind = "bind" => Listed(Base[j].name)
    <3>1. j \in 1 .. Len(text)  BY <2>2, <2>4
    <3>2. CASE j = m
      <4>1. text'[j].kind = "mark"  BY <2>12, <3>1, <3>2 DEF Plain
      <4>. QED  BY <2>1, <2>7, <3>2, <4>1 DEF Delimiters
    <3>3. CASE j # m
      <4>1. text'[j] = text[j]  BY <2>12, <3>1, <3>3
      <4>2. CASE j \in 1 .. n  BY <2>3, <4>1, <4>2 DEF UpTo
      <4>3. CASE j \notin 1 .. n
        <5>1. j \in n + 1 .. m - 1  BY <2>3, <2>4, <2>5, <3>3, <4>3
        <5>. QED  BY <2>8, <4>1, <5>1
      <4>. QED  BY <4>2, <4>3
    <3>. QED  BY <3>2, <3>3
  <2>15. /\ Len(bound') = Len(Begun(m))
         /\ \A i \in 1 .. Len(bound') : bound'[i] = Begun(m)[i].name
    <3>. DEFINE b == Begun(n)
    <3>1. /\ bound \in Seq(Names) /\ Len(bound) = Len(b)
          /\ \A i \in 1 .. Len(bound) : bound[i] = b[i].name
      BY <2>3, Types DEF UpTo
    <3>2. b \in Seq(Token) /\ Begun(m) = Append(b, text[m]) /\ bound' = Append(bound, text[m].name)
      BY <2>1, <2>7, <2>9
    <3>. HIDE DEF b
    <3>. QED  BY <3>1, <3>2
  <2>16. UpTo(m)'
    <3>1. \A j \in 1 .. m : Base'[j].kind = "bind" =>
               \E i \in 1 .. Len(params') : params'[i].name = Base'[j].name
      BY <2>1, <2>10, <2>14 DEF Listed
    <3>. QED  BY <2>10, <2>11, <2>13, <2>14, <2>15, <3>1 DEF UpTo, Listed
  <2>17. m \in 0 .. Len(Base)  BY <2>5
  <2>. QED  BY <2>1, <2>4, <2>10, <2>12, <2>16, <2>17 DEF Converting, Dereferenced
<1>. QED  BY <1>1, <1>2

\* The lines that deleteNullParamClauseInSQL keeps are those of Written, once
\* every reference that is left was found in the list.
LEMMA KeptIsWritten ==
    ASSUME TypeOK, DuringCall, RequiredGiven,
           \A j \in 1 .. Len(Base) : Base[j].kind = "bind" => Listed(Base[j].name)
    PROVE  Kept = {k \in 1 .. Len(sql) :
                      ~\E i \in 1 .. Len(given) :
                          Lacking(given[i]) /\ Mentions(sql[k], given[i].name)}
<1>1. Len(lines) = Len(sql) /\ \A k \in 1 .. Len(lines) : SameBinds(lines[k], sql[k])
  BY DEF DuringCall, AllSame
<1>2. ASSUME NEW k \in 1 .. Len(lines), NEW name
      PROVE  Mentions(lines[k], name) <=> Mentions(sql[k], name)
  <2>1. SameBinds(lines[k], sql[k])  BY <1>1
  <2>. DEFINE reference == [kind |-> "bind", name |-> name, exact |-> TRUE]
              u == lines[k]
              v == sql[k]
  <2>2. reference.kind = "bind"  OBVIOUS
  <2>3. /\ Mentions(u, name) <=> \E i \in 1 .. Len(u) : u[i] = reference
        /\ Mentions(v, name) <=> \E i \in 1 .. Len(v) : v[i] = reference
    BY DEF Mentions, Refers
  <2>. HIDE DEF reference, u, v
  <2>4. SameBinds(u, v)  BY <2>1 DEF u, v
  <2>5. Len(u) = Len(v) /\ \A i \in 1 .. Len(u) : u[i] = reference <=> v[i] = reference
    BY <2>2, <2>4 DEF SameBinds
  <2>. QED  BY <2>3, <2>5 DEF u, v
<1>3. ASSUME NEW k \in 1 .. Len(lines), Dropped(lines[k])
      PROVE  \E i \in 1 .. Len(given) : Lacking(given[i]) /\ Mentions(sql[k], given[i].name)
  <2>1. PICK j \in 1 .. Len(params) : Deletes(params[j]) /\ Mentions(lines[k], params[j].name)
    BY <1>3 DEF Dropped
  <2>2. PICK i \in 1 .. Len(given) : given[i] = params[j]  BY DEF DuringCall, Contains
  <2>3. ~given[i].required  BY <2>1, <2>2 DEF RequiredGiven, Deletes, NoValue
  <2>. QED  BY <1>2, <2>1, <2>2, <2>3 DEF Deletes, Lacking, NoValue
<1>4. ASSUME NEW k \in 1 .. Len(lines), ~Dropped(lines[k]), NEW i \in 1 .. Len(given),
             Lacking(given[i]), Mentions(sql[k], given[i].name)
      PROVE  FALSE
  <2>1. Mentions(lines[k], given[i].name)  BY <1>2, <1>4
  <2>2. PICK c \in 1 .. Len(lines[k]) :
            lines[k][c].kind = "bind" /\ lines[k][c].name = given[i].name
    BY <2>1 DEF Mentions, Refers
  <2>3. \E j \in 1 .. Len(Base) : Base[j] = lines[k][c]
    <3>. DEFINE picked == Pick(lines, Kept)
                Y == Seq(Token)
    <3>1. lines \in Seq(Y) /\ k \in Kept  BY <1>4, Types DEF Kept
    <3>2. Y \in SUBSET Seq(Token)  OBVIOUS
    <3>. HIDE DEF Y
    <3>3. picked \in Seq(Y)  BY <3>1, PickType
    <3>4. PICK l \in 1 .. Len(picked) : picked[l] = lines[k]  BY <3>1, PickHas
    <3>. HIDE DEF picked
    <3>5. c \in 1 .. Len(picked[l])  BY <3>4
    <3>6. \E j \in 1 .. Len(FlattenSeq(picked)) : FlattenSeq(picked)[j] = picked[l][c]
      BY <3>2, <3>3, <3>5, FlatHas
    <3>. QED  BY <3>4, <3>6 DEF Base, picked
  <2>4. Listed(given[i].name)  BY <2>2, <2>3
  <2>5. Contains(params, given[i])  BY <2>4 DEF DuringCall, KeptOrOut
  <2>6. PICK j \in 1 .. Len(params) : params[j] = given[i]  BY <2>5 DEF Contains
  <2>7. Deletes(params[j])  BY <1>4, <2>6 DEF Deletes, Lacking, NoValue
  <2>. QED  BY <1>4, <2>1, <2>6, <2>7 DEF Dropped
<1>. QED  BY <1>1, <1>3, <1>4 DEF Kept

\* A statement that can be executed was converted to its end, and its references
\* are those of the statement that the caller wrote.
LEMMA RunBound ==
    ASSUME TypeOK, DuringCall, RequiredGiven, Converting, NextDelimiter = 0
    PROVE  ReferencesBound
<1>1. PICK n \in 0 .. Len(Base) : UpTo(n)  BY DEF Converting
<1>2. Base \in Seq(Token) /\ Len(Base) \in Nat /\ Len(text) = Len(Base) /\ text \in Seq(Token)
  BY BaseIs, Types DEF Converting
<1>3. \A i \in 1 .. Len(text) : text[i].kind \notin Delimiters
  BY <1>2, NextDelimiterIs
<1>4. \A j \in n + 1 .. Len(Base) : Base[j].kind # "bind"
  <2>. SUFFICES ASSUME NEW j \in n + 1 .. Len(Base)  PROVE Base[j].kind # "bind"
    OBVIOUS
  <2>1. j \in 1 .. Len(text) /\ text[j] = Base[j]  BY <1>1, <1>2 DEF UpTo
  <2>. QED  BY <1>3, <2>1 DEF Delimiters
<1>5. \A j \in 1 .. Len(Base) : Base[j].kind = "bind" => Listed(Base[j].name)
  <2>. SUFFICES ASSUME NEW j \in 1 .. Len(Base), Base[j].kind = "bind"
                PROVE  Listed(Base[j].name)
    OBVIOUS
  <2>1. j \notin n + 1 .. Len(Base)  BY <1>4
  <2>2. j \in 1 .. n  BY <1>2, <2>1
  <2>. QED  BY <1>1, <2>2 DEF UpTo
<1>6. Begun(Len(Base)) = Begun(n)
  <2>1. Len(Base) \in 0 .. Len(Base) /\ n <= Len(Base)  BY <1>2
  <2>. QED  BY <1>4, <2>1, BegunIs
<1>7. Pick(Base, Binds(Base)) = Begun(n)  BY <1>6, PickIs DEF Begun
<1>8. SameBinds(Base, FlattenSeq(Written))
  <2>. DEFINE Y == Seq(Token)
  <2>1. Written = Pick(sql, Kept)
    <3>1. Kept = {k \in 1 .. Len(sql) :
                     ~\E i \in 1 .. Len(given) :
                         Lacking(given[i]) /\ Mentions(sql[k], given[i].name)}
      BY <1>5, KeptIsWritten
    <3>. QED  BY <3>1 DEF Written
  <2>2. lines \in Seq(Y) /\ sql \in Seq(Y) /\ AllSame(lines, sql)  BY Types DEF DuringCall
  <2>3. Y \in SUBSET Seq(Token)  OBVIOUS
  <2>. HIDE DEF Y
  <2>4. AllSame(Pick(lines, Kept), Written)  BY <2>1, <2>2, PickAllSame
  <2>5. Pick(lines, Kept) \in Seq(Y) /\ Written \in Seq(Y)  BY <2>1, <2>2, PickType
  <2>. QED  BY <2>3, <2>4, <2>5, FlatSame DEF Base
<1>9. FlattenSeq(Written) \in Seq(Token)
  <2>. DEFINE Y == Seq(Token)
  <2>1. sql \in Seq(Y) /\ Y \in SUBSET Seq(Token)  BY Types
  <2>. HIDE DEF Y
  <2>2. Written \in Seq(Y)  BY <2>1, PickType DEF Written
  <2>. QED  BY <2>1, <2>2, FlatType
<1>10. References = Begun(n)
  BY <1>2, <1>7, <1>8, <1>9, SameReferences DEF References
<1>. QED  BY <1>1, <1>10 DEF UpTo, ReferencesBound

LEMMA InitConv == Init => ConvInv
BY NotExecuted DEF Init, ConvInv

LEMMA StepConv == TypeInv /\ ListInv /\ ConvInv /\ [Next]_vars => ConvInv'
<1>. SUFFICES ASSUME TypeInv, ListInv, ConvInv, [Next]_vars  PROVE ConvInv'
  OBVIOUS
<1>0. TypeOK  BY DEF TypeInv
<1>a. pc' # "idle" \/ res' # "ok" => BoundAsWritten'  BY NotExecuted DEF BoundAsWritten, Executed
<1>1. CASE NewList  BY <1>a, <1>1 DEF NewList, ConvInv
<1>2. ASSUME NEW o \in {"query", "update"}, NEW s \in Sqls, Start(o, s)  PROVE ConvInv'
  <2>1. bound' = << >> /\ pc' \in {"substitute", "drop"}  BY <1>2 DEF Start
  <2>. QED  BY <1>a, <2>1 DEF ConvInv
<1>3. CASE Substitute
  <2>1. bound' = bound /\ bound = << >> /\ (pc' = "drop" \/ (pc' = "idle" /\ res' # "ok"))
    BY <1>3 DEF Substitute, Return, ConvInv
  <2>. QED  BY <1>a, <2>1 DEF ConvInv
<1>4. CASE DropLines
  <2>1. pc' \in {"convert", "run"} \/ (pc' = "idle" /\ res' # "ok")
    BY <1>4 DEF DropLines, Return
  <2>. QED  BY <1>0, <1>4, <1>a, <2>1, DropConverting DEF ConvInv
<1>5. CASE Convert
  <2>1. Converting /\ (pc' \in {"convert", "run"} \/ (pc' = "idle" /\ res' # "ok"))
    BY <1>5 DEF Convert, Return, ConvInv
  <2>. QED  BY <1>0, <1>5, <1>a, <2>1, ConvertConverting DEF ConvInv
<1>6. CASE Run
  <2>1. pc' = "idle" /\ DuringCall /\ Converting /\ UNCHANGED <<op, sql, given>>
    BY <1>6 DEF Run, Return, ListInv, ConvInv, input
  <2>2. BoundAsWritten'
    <3>1. CASE ~Bindable  BY <1>6, <1>a, <3>1 DEF Run, Return
    <3>2. CASE Bindable /\ RequiredGiven
      <4>1. ReferencesBound
        BY <1>0, <2>1, <3>2, RunBound DEF Bindable
      <4>2. References' = References
        BY <2>1 DEF References, Written, Lacking, NoValue, Mentions, Refers
      <4>3. bound = << >> => References = << >>
        <5>1. References \in Seq(Token)
          <6>. DEFINE Y == Seq(Token)
          <6>1. sql \in Seq(Y) /\ Y \in SUBSET Seq(Token)  BY <1>0, Types
          <6>. HIDE DEF Y
          <6>2. Written \in Seq(Y)  BY <6>1, PickType DEF Written
          <6>3. FlattenSeq(Written) \in Seq(Token)  BY <6>1, <6>2, FlatType
          <6>. QED  BY <6>3, PickType DEF References
        <5>. QED  BY <4>1, <5>1 DEF ReferencesBound
      <4>4. bound' = ToBind  BY <1>6, <3>2 DEF Run
      <4>5. References # << >> => bound' = bound  BY <4>3, <4>4 DEF ToBind
      <4>. QED  BY <4>1, <4>2, <4>5 DEF BoundAsWritten, ReferencesBound
    <3>3. CASE ~RequiredGiven  BY <2>1, <3>3 DEF BoundAsWritten, RequiredGiven, NoValue
    <3>. QED  BY <3>1, <3>2, <3>3
  <2>. QED  BY <2>1, <2>2 DEF ConvInv
<1>7. CASE RunFails
  BY <1>a, <1>7 DEF RunFails, Return, ConvInv
<1>8. CASE UNCHANGED vars
  <2>1. UNCHANGED <<params, pc, op, sql, given, lines, text, bound, res>>  BY <1>8 DEF vars
  <2>2. BoundAsWritten'
    <3>1. References' = References
      BY <2>1 DEF References, Written, Lacking, NoValue, Mentions, Refers
    <3>2. RequiredGiven' <=> RequiredGiven  BY <2>1 DEF RequiredGiven, NoValue
    <3>. QED  BY <2>1, <3>1, <3>2 DEF ConvInv, BoundAsWritten, ReferencesBound, Executed
  <2>. QED  BY <2>1, <2>2, ConvertingStays DEF ConvInv
<1>. QED  BY <1>1, <1>2, <1>3, <1>4, <1>5, <1>6, <1>7, <1>8 DEF Next, Step

\* In every statement that was executed the i-th placeholder got the parameter
\* that the i-th reference of the caller's statement names, the lines of optional
\* parameters without a value left out, if the required ones were given one
\* (convertSql 246-280, setParameters 135-150).
THEOREM BoundRight == Spec => []BoundAsWritten
<1>1. Init => TypeInv /\ ListInv /\ ConvInv  BY InitTypes, InitLists, InitConv
<1>2. TypeInv /\ ListInv /\ ConvInv /\ [Next]_vars => (TypeInv /\ ListInv /\ ConvInv)'
  BY StepTypes, StepLists, StepConv
<1>3. ConvInv => BoundAsWritten  BY DEF ConvInv
<1>. QED  BY <1>1, <1>2, <1>3, PTL DEF Spec

-----------------------------------------------------------------------------
(* Why the loop of convertSql ends: what it looks for becomes less.        *)

Left == {i \in 1 .. Len(text) : text[i].kind \in Delimiters}

\* An iteration that is not the last one takes a delimiter off the text and puts
\* in none, however long the text is (convertSql 257-273).
THEOREM LoopProgress ==
    Spec => [][pc = "convert" /\ pc' = "convert" => Left' \subseteq Left /\ Left' # Left]_vars
<1>1. ASSUME TypeInv, Next, pc = "convert", pc' = "convert"
      PROVE  Left' \subseteq Left /\ Left' # Left
  <2>1. Convert
    BY <1>1 DEF Next, Step, NewList, Start, Substitute, DropLines, Run, RunFails, Return
  <2>2. text \in Seq(Token)  BY <1>1, Types DEF TypeInv
  <2>3. PICK m : m = NextDelimiter  OBVIOUS
  <2>4. m # 0 /\ text' = [text EXCEPT ![m] = Plain("mark")]
    BY <1>1, <2>1, <2>3 DEF Convert, Return
  <2>5. m \in 1 .. Len(text) /\ text[m].kind \in Delimiters
    BY <2>2, <2>3, <2>4, NextDelimiterIs
  <2>6. Len(text') = Len(text) /\ \A j \in 1 .. Len(text) :
            text'[j] = IF j = m THEN Plain("mark") ELSE text[j]
    BY <2>2, <2>4
  <2>7. Plain("mark").kind \notin Delimiters  BY DEF Plain, Delimiters
  <2>8. Left' \subseteq Left  BY <2>6, <2>7 DEF Left
  <2>9. m \in Left /\ m \notin Left'  BY <2>5, <2>6, <2>7 DEF Left
  <2>. QED  BY <2>8, <2>9
<1>2. TypeInv /\ [Next]_vars => [pc = "convert" /\ pc' = "convert" => Left' \subseteq Left /\ Left' # Left]_vars
  BY <1>1
<1>. QED  BY <1>2, InitTypes, StepTypes, PTL DEF Spec
=============================================================================
