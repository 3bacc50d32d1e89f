------------------------ MODULE ResultMapCache_proofs ------------------------
(***************************************************************************)
(* What ResultMapCache promises for any number of threads, result maps and *)
(* classes. The argument: what a thread knows to be written is, no field   *)
(* is ever set back to the empty list, and the cache's entry for a class   *)
(* publishes every field of the map it names and the contents of a list.   *)
(* So a thread that copies a map sees it whole; and if there is only one   *)
(* builder, the contents it knows are those of every list.                 *)
(***************************************************************************)
EXTENDS ResultMapCache, TLAPS

\* facts have the contents of a list that result maps of class c refer to.
Covers(facts, c) == \E b \in Builders(c) : <<b, c>> \in facts

\* facts have every field of m.
HasAll(facts, m) == \A f \in Fields : <<m, f>> \in facts

\* What is known or published was written.
SeenIsWritten ==
    /\ \A t \in Threads, m \in Maps, f \in Fields : <<m, f>> \in known[t] => written[m][f] # {}
    /\ \A c \in Types, m \in Maps, f \in Fields : <<m, f>> \in published[c] => written[m][f] # {}

\* A field refers to a list of its class.
RightLists == \A m \in Maps, f \in Fields : written[m][f] \subseteq Threads \X {TypeOf[m]}

\* The cache publishes all of the map it names.
EntryIsPublished ==
    \A c \in Types : cached[c] # NoMap =>
        /\ TypeOf[cached[c]] = c
        /\ HasAll(published[c], cached[c])
        /\ Covers(published[c], c)

\* What a thread has done so far, by the place it is at.
CallInv(t) ==
    LET c == TypeOf[call[t].map]
    IN  /\ call[t].pc \in {"check", "get"} => ~call[t].own /\ call[t].next = First
        /\ At(t, "get") => cached[c] # NoMap
        /\ At(t, "copy") => /\ TypeOf[call[t].from] = c
                            /\ HasAll(known[t], call[t].from)
                            /\ Covers(known[t], c)
        /\ At(t, "build") => (call[t].own <=> call[t].next # First)
        /\ call[t].pc \in {"copy", "build"} =>
              \A f \in Fields : f < call[t].next => <<call[t].map, f>> \in known[t]
        /\ At(t, "put") => call[t].own
        /\ call[t].pc \in {"put", "proceed"} /\ call[t].own => HasAll(known[t], call[t].map)
        /\ ~At(t, "idle") /\ call[t].own => Covers(known[t], c)
        /\ At(t, "idle") /\ call[t].own /\ OneBuilder(c) => call[t].whole

IInv ==
    /\ TypeOK
    /\ SeenIsWritten
    /\ RightLists
    /\ EntryIsPublished
    /\ \A t \in Threads : CallInv(t)

Pcs == {"idle", "check", "get", "copy", "build", "put", "proceed"}

-----------------------------------------------------------------------------
(* Types.                                                                    *)

LEMMA InitTypes == Init => TypeOK
<1> SUFFICES ASSUME Init PROVE TypeOK
    OBVIOUS
<1>1. First \in Fields
    BY DEF First, Fields
<1>2. \A m \in Maps : [pc |-> "idle", map |-> m, from |-> m, next |-> First,
                       own |-> FALSE, whole |-> FALSE] \in Call
    BY <1>1 DEF Call
<1>3. call \in [Threads -> Call]
    BY <1>2 DEF Init
<1>4. QED
    BY <1>3 DEF Init, TypeOK

\* The class, the list and the fields of a call.
LEMMA CallTypes ==
    ASSUME TypeOK, NEW t \in Threads
    PROVE  /\ call[t].map \in Maps /\ call[t].from \in Maps /\ call[t].next \in Fields
           /\ TypeOf[call[t].map] \in Types
           /\ NewList(t) \in Lists /\ NewList(t) = <<t, TypeOf[call[t].map]>>
           /\ call[t].pc \in Pcs
BY MapsAssumption DEF TypeOK, Call, NewList, Lists, Pcs

\* An access to the cache adds what its entry publishes to what t knows.
LEMMA AcquireStep ==
    ASSUME TypeOK, NEW t \in Threads, Acquire(t)
    PROVE  /\ known' \in [Threads -> SUBSET Facts]
           /\ \A u \in Threads \ {t} : known'[u] = known[u]
           /\ known'[t] = known[t] \cup published[TypeOf[call[t].map]]
<1>1. TypeOf[call[t].map] \in Types
    BY CallTypes
<1>2. published[TypeOf[call[t].map]] \in SUBSET Facts /\ known[t] \in SUBSET Facts
    BY <1>1 DEF TypeOK
<1>3. QED
    BY <1>2 DEF Acquire, TypeOK

\* A write adds a reference to the field, and that fact to what t knows.
LEMMA WriteStep ==
    ASSUME TypeOK, NEW t \in Threads, NEW l \in Lists \cup {NoList}, NEW facts \in SUBSET Lists,
           Write(t, l, facts)
    PROVE  /\ written' \in [Maps -> [Fields -> SUBSET (Lists \cup {NoList})]]
           /\ known' \in [Threads -> SUBSET Facts]
           /\ \A m \in Maps, f \in Fields :
                 written'[m][f] = IF m = call[t].map /\ f = call[t].next
                                  THEN written[m][f] \cup {l} ELSE written[m][f]
           /\ \A u \in Threads \ {t} : known'[u] = known[u]
           /\ known'[t] = known[t] \cup {<<call[t].map, call[t].next>>} \cup facts
<1> DEFINE m0 == call[t].map
           f0 == call[t].next
<1>1. m0 \in Maps /\ f0 \in Fields
    BY CallTypes
<1>2. /\ written' = [written EXCEPT ![m0] = [written[m0] EXCEPT ![f0] = written[m0][f0] \cup {l}]]
      /\ known' = [known EXCEPT ![t] = known[t] \cup {<<m0, f0>>} \cup facts]
    BY DEF Write
<1>3. /\ written[m0] \in [Fields -> SUBSET (Lists \cup {NoList})]
      /\ known[t] \in SUBSET Facts
    BY <1>1 DEF TypeOK
<1>4. <<m0, f0>> \in Facts /\ facts \subseteq Facts
    BY <1>1 DEF Facts
<1> HIDE DEF m0, f0
<1>5. [written[m0] EXCEPT ![f0] = written[m0][f0] \cup {l}]
         \in [Fields -> SUBSET (Lists \cup {NoList})]
    BY <1>1, <1>3
<1>6. known[t] \cup {<<m0, f0>>} \cup facts \in SUBSET Facts
    BY <1>3, <1>4
<1>7. /\ written' \in [Maps -> [Fields -> SUBSET (Lists \cup {NoList})]]
      /\ known' \in [Threads -> SUBSET Facts]
    BY <1>2, <1>5, <1>6 DEF TypeOK
<1>8. \A m \in Maps, f \in Fields :
         written'[m][f] = IF m = m0 /\ f = f0 THEN written[m][f] \cup {l} ELSE written[m][f]
    BY <1>1, <1>2, <1>3 DEF TypeOK
<1>9. /\ \A u \in Threads \ {t} : known'[u] = known[u]
      /\ known'[t] = known[t] \cup {<<m0, f0>>} \cup facts
    BY <1>2 DEF TypeOK
<1>10. QED
    BY <1>7, <1>8, <1>9 DEF m0, f0

\* A put adds what t knows to what the cache's entry publishes.
LEMMA PutStep ==
    ASSUME TypeOK, NEW t \in Threads, Put(t)
    PROVE  LET c == TypeOf[call[t].map]
           IN  /\ cached' = [cached EXCEPT ![c] = call[t].map]
               /\ cached' \in [Types -> Maps \cup {NoMap}]
               /\ published' \in [Types -> SUBSET Facts]
               /\ \A d \in Types \ {c} : published'[d] = published[d]
               /\ published'[c] = published[c] \cup known[t]
<1> DEFINE c == TypeOf[call[t].map]
<1>1. c \in Types /\ call[t].map \in Maps
    BY CallTypes
<1>2. published[c] \in SUBSET Facts /\ known[t] \in SUBSET Facts
    BY <1>1 DEF TypeOK
<1>3. /\ published' = [published EXCEPT ![c] = published[c] \cup known[t]]
      /\ cached' = [cached EXCEPT ![c] = call[t].map]
    BY DEF Put
<1> HIDE DEF c
<1>4. QED
    BY <1>1, <1>2, <1>3 DEF TypeOK, c

\* Where t goes next.
LEMMA AdvanceStep ==
    ASSUME TypeOK, NEW t \in Threads, NEW end \in {"put", "proceed"}, Advance(t, end)
    PROVE  /\ call' \in [Threads -> Call]
           /\ \A u \in Threads \ {t} : call'[u] = call[u]
           /\ call'[t].map = call[t].map /\ call'[t].from = call[t].from
           /\ call'[t].own
           /\ call'[t].pc = IF call[t].next = Last THEN end ELSE call[t].pc
           /\ call'[t].next = IF call[t].next = Last THEN First ELSE call[t].next + 1
<1> DEFINE pc == IF call[t].next = Last THEN end ELSE call[t].pc
           next == IF call[t].next = Last THEN First ELSE call[t].next + 1
<1>1. call[t] \in Call
    BY DEF TypeOK
<1>2. next \in Fields
    BY <1>1 DEF Call, Fields, First, Last
<1>3. pc \in Pcs
    BY <1>1 DEF Call, Pcs
<1>4. call' = [call EXCEPT ![t] = [call[t] EXCEPT !.pc = pc, !.next = next, !.own = TRUE]]
    BY <1>1 DEF Advance, TypeOK, Call
<1>5. QED
    BY <1>1, <1>2, <1>3, <1>4 DEF TypeOK, Call, Pcs

LEMMA GotoStep ==
    ASSUME TypeOK, NEW t \in Threads, NEW pc \in Pcs, Goto(t, pc)
    PROVE  /\ call' \in [Threads -> Call]
           /\ \A u \in Threads \ {t} : call'[u] = call[u]
           /\ call'[t] = [call[t] EXCEPT !.pc = pc]
BY DEF Goto, TypeOK, Call, Pcs

-----------------------------------------------------------------------------
(* What more writes and more knowledge leave as it was.                      *)

Grows == \A m \in Maps, f \in Fields : written[m][f] \subseteq written'[m][f]

\* Builders stay builders, so that one builder now was one builder before.
LEMMA BuildersGrow ==
    ASSUME Grows, NEW c
    PROVE  Builders(c) \subseteq Builders(c)' /\ (OneBuilder(c)' => OneBuilder(c))
BY DEF Grows, Builders, OneBuilder

LEMMA CoversGrows ==
    ASSUME Grows, NEW c, NEW X, NEW Y, X \subseteq Y, Covers(X, c)
    PROVE  \E b \in Builders(c)' : <<b, c>> \in Y
BY BuildersGrow DEF Covers

\* The entries of the cache that were not replaced keep their part.
LEMMA EntryKeeps ==
    ASSUME TypeOK, EntryIsPublished, Grows, NEW c \in Types, cached'[c] = cached[c],
           published[c] \subseteq published'[c], cached'[c] # NoMap
    PROVE  /\ TypeOf[cached'[c]] = c
           /\ HasAll(published'[c], cached'[c])
           /\ Covers(published[c], c)'
BY CoversGrows DEF EntryIsPublished, HasAll, Covers

\* A thread that does nothing keeps its part.
LEMMA OthersKeep ==
    ASSUME TypeOK, Grows, NEW t \in Threads, CallInv(t), call'[t] = call[t], known'[t] = known[t],
           \A c \in Types : cached[c] # NoMap => cached'[c] # NoMap
    PROVE  CallInv(t)'
<1> DEFINE c == TypeOf[call[t].map]
<1>1. c \in Types /\ c' = c
    BY CallTypes
<1>2. Covers(known[t], c) => Covers(known[t], c)'
    BY <1>1, CoversGrows DEF Covers
<1>3. OneBuilder(c)' => OneBuilder(c)
    BY <1>1, BuildersGrow
<1> HIDE DEF c
<1>4. QED
    BY <1>1, <1>2, <1>3 DEF CallInv, At, HasAll, c

\* Steps that write no field keep what was written.
LEMMA Unwritten ==
    ASSUME UNCHANGED written
    PROVE  /\ Grows
           /\ \A c : Builders(c)' = Builders(c)
           /\ \A X, c : (\E b \in Builders(c)' : <<b, c>> \in X) <=> Covers(X, c)
BY DEF Grows, Builders, Covers

\* The parts of a thread's invariant, with its class c made explicit.
LEMMA CallParts ==
    ASSUME NEW t \in Threads, NEW c, c = TypeOf[call'[t].map],
           call'[t].pc \in {"check", "get"} => ~call'[t].own /\ call'[t].next = First,
           call'[t].pc = "get" => cached'[c] # NoMap,
           call'[t].pc = "copy" => /\ TypeOf[call'[t].from] = c
                                   /\ HasAll(known'[t], call'[t].from)
                                   /\ Covers(known[t], c)',
           call'[t].pc = "build" => (call'[t].own <=> call'[t].next # First),
           call'[t].pc \in {"copy", "build"} =>
              \A f \in Fields : f < call'[t].next => <<call'[t].map, f>> \in known'[t],
           call'[t].pc = "put" => call'[t].own,
           call'[t].pc \in {"put", "proceed"} /\ call'[t].own => HasAll(known'[t], call'[t].map),
           call'[t].pc # "idle" /\ call'[t].own => Covers(known[t], c)',
           call'[t].pc = "idle" /\ call'[t].own /\ OneBuilder(c)' => call'[t].whole
    PROVE  CallInv(t)'
BY DEF CallInv, At, HasAll

\* Steps that change only what one thread is doing.
LEMMA QuietStep ==
    ASSUME IInv, NEW t \in Threads, UNCHANGED <<written, cached, published>>,
           call' \in [Threads -> Call], known' \in [Threads -> SUBSET Facts],
           \A u \in Threads \ {t} : call'[u] = call[u] /\ known'[u] = known[u],
           \/ known'[t] = known[t]
           \/ known'[t] = known[t] \cup published[TypeOf[call[t].map]],
           CallInv(t)'
    PROVE  IInv'
<1>1. TypeOK'
    BY DEF IInv, TypeOK
<1>2. Grows
    BY Unwritten
<1>3. TypeOf[call[t].map] \in Types
    BY CallTypes DEF IInv
<1>4. SeenIsWritten'
    BY <1>3 DEF IInv, SeenIsWritten
<1>5. RightLists'
    BY DEF IInv, RightLists
<1>6. EntryIsPublished'
    BY Unwritten DEF IInv, EntryIsPublished, HasAll, Covers
<1>7. ASSUME NEW u \in Threads PROVE CallInv(u)'
    <2>1. CASE u = t
        BY <2>1
    <2>2. CASE u # t
        BY <1>2, <2>2, OthersKeep DEF IInv
    <2>3. QED
        BY <2>1, <2>2
<1>8. QED
    BY <1>1, <1>4, <1>5, <1>6, <1>7 DEF IInv

-----------------------------------------------------------------------------
(* The inductive step.                                                       *)

LEMMA QueryStep ==
    ASSUME IInv, NEW t \in Threads, NEW m \in Maps, Query(t, m)
    PROVE  IInv'
<1>1. PICK pc \in {"proceed", "check"} :
          call' = [call EXCEPT ![t] =
             [pc |-> pc, map |-> m, from |-> m,
              next |-> First, own |-> FALSE, whole |-> FALSE]]
    BY DEF Query
<1>2. UNCHANGED <<written, cached, published, known>>
    BY DEF Query
<1>3. First \in Fields
    BY DEF First, Fields
<1>4. call' \in [Threads -> Call] /\ known \in [Threads -> SUBSET Facts]
    BY <1>1, <1>3 DEF IInv, TypeOK, Call
<1>5. \A u \in Threads \ {t} : call'[u] = call[u]
    BY <1>1 DEF IInv, TypeOK
<1>6. call'[t] = [pc |-> pc, map |-> m, from |-> m, next |-> First, own |-> FALSE, whole |-> FALSE]
    BY <1>1 DEF IInv, TypeOK
<1>7. CallInv(t)'
    BY <1>6 DEF CallInv, At
<1>8. QED
    BY <1>2, <1>4, <1>5, <1>7, QuietStep

LEMMA CheckStep ==
    ASSUME IInv, NEW t \in Threads, CheckCache(t)
    PROVE  IInv'
<1> DEFINE c == TypeOf[call[t].map]
<1>1. TypeOK /\ CallInv(t) /\ At(t, "check") /\ UNCHANGED <<written, cached, published>>
    BY DEF IInv, CheckCache
<1>2. CASE cached[c] # NoMap
    <2>1. Goto(t, "get") /\ Acquire(t)
        BY <1>2 DEF CheckCache
    <2>2. /\ call' \in [Threads -> Call]
          /\ \A u \in Threads \ {t} : call'[u] = call[u]
          /\ call'[t] = [call[t] EXCEPT !.pc = "get"]
        BY <1>1, <2>1, GotoStep DEF Pcs
    <2>3. /\ call'[t].pc = "get" /\ call'[t].map = call[t].map /\ call'[t].own = call[t].own
          /\ call'[t].next = call[t].next
        BY <1>1, <2>2 DEF TypeOK, Call
    <2>4. CallInv(t)'
        BY <1>1, <1>2, <2>3 DEF CallInv, At
    <2>5. QED
        BY <1>1, <2>1, <2>2, <2>4, AcquireStep, QuietStep
<1>3. CASE ~(cached[c] # NoMap)
    <2>1. Goto(t, "build") /\ UNCHANGED known
        BY <1>3 DEF CheckCache
    <2>2. /\ call' \in [Threads -> Call]
          /\ \A u \in Threads \ {t} : call'[u] = call[u]
          /\ call'[t] = [call[t] EXCEPT !.pc = "build"]
        BY <1>1, <2>1, GotoStep DEF Pcs
    <2>3. /\ call'[t].pc = "build" /\ call'[t].map = call[t].map /\ call'[t].own = call[t].own
          /\ call'[t].next = call[t].next
        BY <1>1, <2>2 DEF TypeOK, Call
    <2>4. CallInv(t)'
        BY <1>1, <2>3 DEF CallInv, At, Fields, First
    <2>5. known' \in [Threads -> SUBSET Facts]
        BY <1>1, <2>1 DEF TypeOK
    <2>6. QED
        BY <1>1, <2>1, <2>2, <2>4, <2>5, QuietStep
<1>4. QED
    BY <1>2, <1>3

LEMMA GetStep ==
    ASSUME IInv, NEW t \in Threads, GetCached(t)
    PROVE  IInv'
<1> DEFINE c == TypeOf[call[t].map]
<1>1. TypeOK /\ CallInv(t) /\ At(t, "get") /\ UNCHANGED <<written, cached, published>>
    BY DEF IInv, GetCached
<1>2. c \in Types /\ cached[c] \in Maps /\ cached[c] # NoMap
    BY <1>1, CallTypes DEF CallInv, TypeOK
<1>3. /\ known' \in [Threads -> SUBSET Facts]
      /\ \A u \in Threads \ {t} : known'[u] = known[u]
      /\ known'[t] = known[t] \cup published[c]
    BY <1>1, AcquireStep DEF GetCached
<1>4. call' = [call EXCEPT ![t] = [call[t] EXCEPT !.pc = "copy", !.from = cached[c]]]
    BY <1>1 DEF GetCached, TypeOK, Call
<1>5. /\ call' \in [Threads -> Call]
      /\ \A u \in Threads \ {t} : call'[u] = call[u]
    <2> HIDE DEF c
    <2>1. [call[t] EXCEPT !.pc = "copy", !.from = cached[c]] \in Call
        BY <1>1, <1>2 DEF TypeOK, Call
    <2>2. QED
        BY <1>1, <1>4, <2>1 DEF TypeOK
<1>6. /\ call'[t].pc = "copy" /\ call'[t].map = call[t].map /\ call'[t].from = cached[c]
      /\ call'[t].own = call[t].own /\ call'[t].next = call[t].next
    BY <1>1, <1>4 DEF TypeOK, Call
<1>7. TypeOf[cached[c]] = c /\ HasAll(published[c], cached[c]) /\ Covers(published[c], c)
    BY <1>2 DEF IInv, EntryIsPublished
<1>8. CallInv(t)'
    <2>1. ~call[t].own /\ call[t].next = First
        BY <1>1 DEF CallInv, At
    <2>2. HasAll(known'[t], cached[c])
        BY <1>3, <1>7 DEF HasAll
    <2>3. Covers(known[t], c)'
        BY <1>1, <1>3, <1>6, <1>7, Unwritten DEF Covers
    <2>4. \A f \in Fields : ~(f < First)
        BY DEF Fields, First
    <2>5. QED
        BY <1>6, <1>7, <2>1, <2>2, <2>3, <2>4 DEF CallInv, At, HasAll
<1>9. QED
    BY <1>1, <1>3, <1>5, <1>8, QuietStep

\* Writing the next field, in a copy or a build: a list of the right class.
LEMMA FieldStep ==
    ASSUME IInv, NEW t \in Threads, NEW end \in {"put", "proceed"},
           NEW m0, m0 = call[t].map, NEW f, f = call[t].next, NEW c, c = TypeOf[m0],
           NEW l \in Threads \X {c}, NEW facts \in SUBSET Lists,
           Write(t, l, facts), Advance(t, end), UNCHANGED <<cached, published>>,
           \/ At(t, "copy") /\ end = "proceed"
           \/ At(t, "build") /\ end = "put" /\ facts = {l}
    PROVE  IInv'
<1>1. TypeOK /\ f \in Fields /\ m0 \in Maps /\ call[t].from \in Maps /\ c \in Types
    BY CallTypes DEF IInv
<1>2. l \in Lists
    BY <1>1 DEF Lists
<1>a. /\ written' \in [Maps -> [Fields -> SUBSET (Lists \cup {NoList})]]
      /\ known' \in [Threads -> SUBSET Facts]
      /\ \A m \in Maps, g \in Fields :
            written'[m][g] = IF m = call[t].map /\ g = call[t].next
                             THEN written[m][g] \cup {l} ELSE written[m][g]
      /\ \A u \in Threads \ {t} : known'[u] = known[u]
      /\ known'[t] = known[t] \cup {<<call[t].map, call[t].next>>} \cup facts
    <2>1. TypeOK /\ l \in Lists \cup {NoList} /\ facts \in SUBSET Lists /\ Write(t, l, facts)
        BY <1>1, <1>2
    <2>2. known' \in [Threads -> SUBSET Facts]
        BY <2>1, WriteStep
    <2>3. \A m \in Maps, g \in Fields :
            written'[m][g] = IF m = call[t].map /\ g = call[t].next
                             THEN written[m][g] \cup {l} ELSE written[m][g]
        BY <2>1, WriteStep
    <2>4. written' \in [Maps -> [Fields -> SUBSET (Lists \cup {NoList})]]
        BY <2>1, WriteStep
    <2>5. \A u \in Threads \ {t} : known'[u] = known[u]
        BY <2>1, WriteStep
    <2>6. known'[t] = known[t] \cup {<<call[t].map, call[t].next>>} \cup facts
        BY <2>1, WriteStep
    <2>7. QED
        BY <2>2, <2>3, <2>4, <2>5, <2>6
<1>3. /\ written' \in [Maps -> [Fields -> SUBSET (Lists \cup {NoList})]]
      /\ known' \in [Threads -> SUBSET Facts]
      /\ \A m \in Maps, g \in Fields :
            written'[m][g] = IF m = m0 /\ g = f THEN written[m][g] \cup {l} ELSE written[m][g]
      /\ \A u \in Threads \ {t} : known'[u] = known[u]
      /\ known'[t] = known[t] \cup {<<m0, f>>} \cup facts
    BY <1>a
<1>4. /\ call' \in [Threads -> Call]
      /\ \A u \in Threads \ {t} : call'[u] = call[u]
      /\ call'[t].map = m0 /\ call'[t].from = call[t].from
      /\ call'[t].own
      /\ call'[t].pc = IF f = Last THEN end ELSE call[t].pc
      /\ call'[t].next = IF f = Last THEN First ELSE f + 1
    BY <1>1, AdvanceStep
<1>5. TypeOK'
    BY <1>1, <1>3, <1>4 DEF TypeOK
<1>6. Grows
    BY <1>3 DEF Grows
<1>7. SeenIsWritten'
    <2>1. ASSUME NEW u \in Threads, NEW m \in Maps, NEW g \in Fields, <<m, g>> \in known'[u]
          PROVE  written'[m][g] # {}
        <3>1. CASE <<m, g>> \in known[u]
            BY <1>6, <3>1 DEF IInv, SeenIsWritten, Grows
        <3>2. CASE <<m, g>> \notin known[u]
            <4>1. <<m, g>> \notin facts
                BY MapsAssumption DEF Lists
            <4>2. u = t /\ <<m, g>> = <<m0, f>>
                BY <1>3, <2>1, <3>2, <4>1
            <4>3. QED
                BY <1>3, <4>2
        <3>3. QED
            BY <3>1, <3>2
    <2>2. \A d \in Types, m \in Maps, g \in Fields :
              <<m, g>> \in published'[d] => written'[m][g] # {}
        BY <1>6 DEF IInv, SeenIsWritten, Grows
    <2>3. QED
        BY <2>1, <2>2 DEF SeenIsWritten
<1>8. RightLists'
    <2>1. ASSUME NEW m \in Maps, NEW g \in Fields
          PROVE  written'[m][g] \subseteq Threads \X {TypeOf[m]}
        <3>1. written[m][g] \subseteq Threads \X {TypeOf[m]}
            BY DEF IInv, RightLists
        <3>2. m = m0 => {l} \subseteq Threads \X {TypeOf[m]}
            OBVIOUS
        <3>3. CASE m = m0 /\ g = f
            <4>1. written'[m][g] = written[m][g] \cup {l}
                BY <1>3, <3>3
            <4>2. QED
                BY <3>1, <3>2, <3>3, <4>1
        <3>4. CASE ~(m = m0 /\ g = f)
            <4>1. written'[m][g] = written[m][g]
                BY <1>3, <3>4
            <4>2. QED
                BY <3>1, <4>1
        <3>5. QED
            BY <3>3, <3>4
    <2>2. QED
        BY <2>1 DEF RightLists
<1>9. EntryIsPublished'
    BY <1>1, <1>6, EntryKeeps DEF IInv, EntryIsPublished
<1>10. CallInv(t)'
    <2>1. CallInv(t)
        BY DEF IInv
    <2>2. Covers(known[t], c)'
        <3>1. CASE At(t, "copy")
            <4>1. Covers(known[t], c) /\ known[t] \subseteq known'[t]
                BY <1>3, <2>1, <3>1 DEF CallInv
            <4>2. QED
                BY <1>6, <4>1, CoversGrows DEF Covers
        <3>2. CASE facts = {l}
            <4>0. PICK b \in Threads : l = <<b, c>>
                OBVIOUS
            <4>a. l \in written'[m0][f] /\ l \in known'[t]
                BY <1>1, <1>3, <3>2
            <4>1. <<b, c>> \in written'[m0][f] /\ <<b, c>> \in known'[t]
                BY <4>0, <4>a
            <4>2. \E m \in Maps, g \in Fields : <<b, c>> \in written'[m][g]
                BY <1>1, <4>1
            <4>3. b \in Builders(c)'
                BY <4>2 DEF Builders
            <4>4. QED
                BY <4>1, <4>3 DEF Covers
        <3>3. QED
            BY <3>1, <3>2
    <2>3. \A g \in Fields : g < f => <<m0, g>> \in known[t]
        BY <2>1 DEF CallInv, At
    <2>4. \A g \in Fields : g <= f => <<m0, g>> \in known'[t]
        <3>1. \A g \in Fields : g <= f => g < f \/ g = f
            BY <1>1 DEF Fields
        <3>2. QED
            BY <1>3, <2>3, <3>1
    <2>5. At(t, "copy") => TypeOf[call[t].from] = c /\ HasAll(known'[t], call[t].from)
        BY <1>3, <2>1 DEF CallInv, HasAll
    <2>6. CASE f = Last
        <3>1. HasAll(known'[t], m0)
            BY <1>1, <2>4, <2>6 DEF HasAll, Fields, Last
        <3>2. call'[t].pc = end
            BY <1>4, <2>6
        <3>3. call'[t].pc \in {"put", "proceed"}
            BY <3>2
        <3>4. QED
            BY <1>4, <2>2, <3>1, <3>3, CallParts
    <2>7. CASE f # Last
        <3>1. \A g \in Fields : g < f + 1 => <<m0, g>> \in known'[t]
            BY <1>1, <2>4 DEF Fields
        <3>2. f + 1 # First
            BY <1>1 DEF Fields, First
        <3>3. call'[t].pc = call[t].pc /\ call'[t].next = f + 1
            BY <1>4, <2>7
        <3>4. call'[t].pc \in {"copy", "build"}
            BY <3>3 DEF At
        <3>5. call'[t].pc = "copy" => TypeOf[call'[t].from] = c /\ HasAll(known'[t], call'[t].from)
            BY <1>4, <2>5, <3>3 DEF At
        <3>6. QED
            BY <1>4, <2>2, <3>1, <3>2, <3>3, <3>4, <3>5, CallParts
    <2>8. QED
        BY <2>6, <2>7
<1>11. ASSUME NEW u \in Threads PROVE CallInv(u)'
    <2>1. CASE u = t
        BY <1>10, <2>1
    <2>2. CASE u # t
        <3>1. CallInv(u) /\ call'[u] = call[u] /\ known'[u] = known[u]
            BY <1>3, <1>4, <2>2 DEF IInv
        <3>2. QED
            BY <1>1, <1>6, <3>1, OthersKeep
    <2>3. QED
        BY <2>1, <2>2
<1>12. QED
    BY <1>5, <1>7, <1>8, <1>9, <1>11 DEF IInv

\* A thread that copies a map knows all of its fields, so it copies a list.
LEMMA CopyStep ==
    ASSUME IInv, NEW t \in Threads, CopyField(t)
    PROVE  IInv'
<1>1. TypeOK /\ CallInv(t) /\ At(t, "copy")
    BY DEF IInv, CopyField
<1>2. PICK l \in Values(t, call[t].from, call[t].next) : Write(t, l, {})
    BY DEF CopyField
<1>3. call[t].from \in Maps /\ call[t].next \in Fields
    BY <1>1, CallTypes
<1>4. <<call[t].from, call[t].next>> \in known[t] /\ TypeOf[call[t].from] = TypeOf[call[t].map]
    BY <1>1, <1>3 DEF CallInv, HasAll
<1>5. l \in written[call[t].from][call[t].next]
    BY <1>2, <1>4 DEF Values
<1>6. l \in Threads \X {TypeOf[call[t].map]}
    BY <1>3, <1>4, <1>5 DEF IInv, RightLists
<1>8. Advance(t, "proceed") /\ UNCHANGED <<cached, published>>
    BY DEF CopyField
<1>9. {} \in SUBSET Lists
    OBVIOUS
<1>10. QED
    BY <1>1, <1>2, <1>6, <1>8, <1>9, FieldStep

LEMMA BuildStep ==
    ASSUME IInv, NEW t \in Threads, BuildField(t)
    PROVE  IInv'
<1>1. NewList(t) \in Lists /\ NewList(t) \in Threads \X {TypeOf[call[t].map]}
    BY CallTypes DEF IInv
<1>2. /\ At(t, "build") /\ Write(t, NewList(t), {NewList(t)})
      /\ Advance(t, "put") /\ UNCHANGED <<cached, published>>
    BY DEF BuildField
<1>3. {NewList(t)} \in SUBSET Lists
    BY <1>1
<1>4. QED
    BY <1>1, <1>2, <1>3, FieldStep

LEMMA ThrowsStep ==
    ASSUME IInv, NEW t \in Threads, BuildThrows(t)
    PROVE  IInv'
<1>1. TypeOK /\ CallInv(t) /\ At(t, "build") /\ call[t].next = First /\ Goto(t, "idle")
      /\ UNCHANGED <<written, cached, published, known>>
    BY DEF IInv, BuildThrows
<1>2. /\ call' \in [Threads -> Call]
      /\ \A u \in Threads \ {t} : call'[u] = call[u]
      /\ call'[t] = [call[t] EXCEPT !.pc = "idle"]
    BY <1>1, GotoStep DEF Pcs
<1>3. call'[t].pc = "idle" /\ ~call'[t].own
    BY <1>1, <1>2 DEF TypeOK, Call, CallInv
<1>4. CallInv(t)'
    BY <1>3 DEF CallInv, At
<1>5. known' \in [Threads -> SUBSET Facts]
    BY <1>1 DEF TypeOK
<1>6. QED
    BY <1>1, <1>2, <1>4, <1>5, QuietStep

LEMMA PutCachedStep ==
    ASSUME IInv, NEW t \in Threads, NEW m0, m0 = call[t].map, NEW c, c = TypeOf[m0],
           PutCached(t)
    PROVE  IInv'
<1>1. /\ TypeOK /\ CallInv(t) /\ At(t, "put") /\ UNCHANGED written
      /\ Put(t) /\ Acquire(t) /\ Goto(t, "proceed")
    BY DEF IInv, PutCached
<1>2. m0 \in Maps /\ NoMap \notin Maps /\ c \in Types /\ c = TypeOf[m0]
    BY <1>1, CallTypes, MapsAssumption
<1>3. /\ cached' = [cached EXCEPT ![c] = m0]
      /\ cached' \in [Types -> Maps \cup {NoMap}]
      /\ published' \in [Types -> SUBSET Facts]
      /\ \A d \in Types \ {c} : published'[d] = published[d]
      /\ published'[c] = published[c] \cup known[t]
    BY <1>1, PutStep
<1>4. /\ known' \in [Threads -> SUBSET Facts]
      /\ \A u \in Threads \ {t} : known'[u] = known[u]
      /\ known'[t] = known[t] \cup published[c]
    BY <1>1, AcquireStep
<1>5. /\ call' \in [Threads -> Call]
      /\ \A u \in Threads \ {t} : call'[u] = call[u]
      /\ call'[t] = [call[t] EXCEPT !.pc = "proceed"]
    BY <1>1, GotoStep DEF Pcs
<1>6. call[t].own /\ HasAll(known[t], m0) /\ Covers(known[t], c)
    BY <1>1 DEF CallInv, At
<1>7. Grows /\ \A X, d : (\E b \in Builders(d)' : <<b, d>> \in X) <=> Covers(X, d)
    BY <1>1, Unwritten
<1>8. /\ call'[t].pc = "proceed" /\ call'[t].map = m0 /\ call'[t].own = call[t].own
    BY <1>1, <1>5 DEF TypeOK, Call
<1>9. TypeOK'
    BY <1>1, <1>3, <1>4, <1>5 DEF TypeOK
<1>10. SeenIsWritten'
    BY <1>1, <1>2, <1>3, <1>4 DEF IInv, SeenIsWritten
<1>11. RightLists'
    BY <1>1 DEF IInv, RightLists
<1>12. EntryIsPublished'
    <2>1. ASSUME NEW d \in Types, cached'[d] # NoMap
          PROVE  TypeOf[cached'[d]] = d /\ HasAll(published'[d], cached'[d]) /\ Covers(published[d], d)'
        <3>1. CASE d = c
            <4>1. cached'[d] = m0 /\ TypeOf[m0] = d
                BY <1>1, <1>2, <1>3, <3>1 DEF TypeOK
            <4>2. HasAll(published'[d], m0)
                BY <1>3, <1>6, <3>1 DEF HasAll
            <4>3. Covers(published'[d], d)
                BY <1>3, <1>6, <3>1 DEF Covers
            <4>4. Covers(published[d], d)'
                BY <1>7, <4>3 DEF Covers
            <4>5. QED
                BY <4>1, <4>2, <4>4
        <3>2. CASE d # c
            <4>1. cached'[d] = cached[d] /\ published'[d] = published[d]
                BY <1>1, <1>3, <3>2 DEF TypeOK
            <4>2. QED
                BY <1>1, <1>7, <2>1, <4>1, EntryKeeps DEF IInv
        <3>3. QED
            BY <3>1, <3>2
    <2>2. QED
        BY <2>1 DEF EntryIsPublished, HasAll, Covers
<1>13. CallInv(t)'
    <2>1. HasAll(known'[t], m0)
        BY <1>4, <1>6 DEF HasAll
    <2>2. Covers(known'[t], c)
        BY <1>4, <1>6 DEF Covers
    <2>3. Covers(known[t], c)'
        BY <1>7, <2>2 DEF Covers
    <2>4. QED
        BY <1>2, <1>6, <1>8, <2>1, <2>3, CallParts
<1>14. ASSUME NEW u \in Threads PROVE CallInv(u)'
    <2>1. CASE u = t
        BY <1>13, <2>1
    <2>2. CASE u # t
        <3>1. \A d \in Types : cached[d] # NoMap => cached'[d] # NoMap
            BY <1>1, <1>2, <1>3 DEF TypeOK
        <3>2. CallInv(u) /\ call'[u] = call[u] /\ known'[u] = known[u]
            BY <1>4, <1>5, <2>2 DEF IInv
        <3>3. QED
            BY <1>1, <1>7, <3>1, <3>2, OthersKeep
    <2>3. QED
        BY <2>1, <2>2
<1>15. QED
    BY <1>9, <1>10, <1>11, <1>12, <1>14 DEF IInv

\* A thread that knows all fields of a map and the contents of the lists of the
\* class's only builder is sure to find mappings in every field.
LEMMA AllSure ==
    ASSUME TypeOK, RightLists, NEW t \in Threads, NEW m \in Maps, HasAll(known[t], m),
           Covers(known[t], TypeOf[m]), OneBuilder(TypeOf[m])
    PROVE  Fields \subseteq Sure(t, m)
<1> DEFINE c == TypeOf[m]
<1>1. PICK b \in Builders(c) : <<b, c>> \in known[t]
    BY DEF Covers
<1>2. ASSUME NEW f \in Fields, NEW l \in Values(t, m, f) PROVE l \in known[t]
    <2>1. l \in written[m][f]
        BY <1>2 DEF Values, HasAll
    <2>2. PICK d \in Threads : l = <<d, c>>
        BY <2>1 DEF RightLists
    <2>3. d \in Builders(c)
        BY <2>1, <2>2 DEF Builders
    <2>4. d = b
        BY <1>1, <2>3 DEF OneBuilder
    <2>5. QED
        BY <1>1, <2>2, <2>4
<1>3. QED
    BY <1>2 DEF Sure

LEMMA ProceedStep ==
    ASSUME IInv, NEW t \in Threads, NEW m0, m0 = call[t].map, Proceed(t)
    PROVE  IInv'
<1>1. /\ TypeOK /\ RightLists /\ CallInv(t) /\ At(t, "proceed")
      /\ UNCHANGED <<written, cached, published, known>>
    BY DEF IInv, Proceed
<1>2. PICK whole \in Finds(t, m0, Fields) :
          call' = [call EXCEPT ![t].pc = "idle", ![t].from = m0, ![t].whole = whole]
    BY DEF Proceed
<1>3. m0 \in Maps /\ whole \in BOOLEAN
    BY <1>1, <1>2, CallTypes DEF Finds
<1>4. call' = [call EXCEPT ![t] = [call[t] EXCEPT !.pc = "idle", !.from = m0, !.whole = whole]]
    BY <1>1, <1>2 DEF TypeOK, Call
<1>5. /\ call' \in [Threads -> Call]
      /\ \A u \in Threads \ {t} : call'[u] = call[u]
    <2>1. [call[t] EXCEPT !.pc = "idle", !.from = m0, !.whole = whole] \in Call
        BY <1>1, <1>3 DEF TypeOK, Call
    <2>2. QED
        BY <1>1, <1>4, <2>1 DEF TypeOK
<1>6. /\ call'[t].pc = "idle" /\ call'[t].map = m0 /\ call'[t].own = call[t].own
      /\ call'[t].whole = whole
    BY <1>1, <1>4 DEF TypeOK, Call
<1>7. call[t].own /\ OneBuilder(TypeOf[m0]) => whole
    <2>1. ASSUME call[t].own, OneBuilder(TypeOf[m0]) PROVE whole
        <3>1. HasAll(known[t], m0) /\ Covers(known[t], TypeOf[m0])
            BY <1>1, <2>1 DEF CallInv, At
        <3>2. Fields \subseteq Sure(t, m0)
            BY <1>1, <1>3, <2>1, <3>1, AllSure
        <3>3. QED
            BY <1>2, <3>2 DEF Finds
    <2>2. QED
        BY <2>1
<1>8. OneBuilder(TypeOf[m0])' => OneBuilder(TypeOf[m0])
    <2>1. Grows
        BY <1>1, Unwritten
    <2>2. QED
        BY <2>1, BuildersGrow
<1>9. CallInv(t)'
    BY <1>6, <1>7, <1>8, CallParts
<1>10. known' \in [Threads -> SUBSET Facts]
    BY <1>1 DEF TypeOK
<1>11. QED
    BY <1>1, <1>5, <1>9, <1>10, QuietStep

LEMMA NextIInv == IInv /\ [Next]_vars => IInv'
<1> SUFFICES ASSUME IInv, [Next]_vars PROVE IInv'
    OBVIOUS
<1>1. CASE UNCHANGED vars
    <2>1. UNCHANGED <<written, cached, published>> /\ UNCHANGED known /\ UNCHANGED call
        BY <1>1 DEF vars
    <2>2. TypeOK' /\ SeenIsWritten' /\ RightLists'
        BY <2>1 DEF IInv, TypeOK, SeenIsWritten, RightLists
    <2>3. EntryIsPublished'
        BY <2>1, Unwritten DEF IInv, EntryIsPublished, HasAll, Covers
    <2>4. \A t \in Threads : CallInv(t)'
        BY <2>1, Unwritten, OthersKeep DEF IInv
    <2>5. QED
        BY <2>2, <2>3, <2>4 DEF IInv
<1>2. ASSUME NEW t \in Threads, Step(t) PROVE IInv'
    BY <1>2, CheckStep, GetStep, CopyStep, BuildStep, ThrowsStep, PutCachedStep, ProceedStep
       DEF Step
<1>3. QED
    BY <1>1, <1>2, QueryStep DEF Next

LEMMA InitIInv == Init => IInv
<1> SUFFICES ASSUME Init PROVE IInv
    OBVIOUS
<1>1. SeenIsWritten /\ RightLists /\ EntryIsPublished
    BY DEF Init, SeenIsWritten, RightLists, EntryIsPublished
<1>2. ASSUME NEW t \in Threads PROVE call[t].pc = "idle" /\ ~call[t].own
    BY DEF Init
<1>3. \A t \in Threads : CallInv(t)
    BY <1>2 DEF CallInv, At
<1>4. QED
    BY <1>1, <1>3, InitTypes DEF IInv

LEMMA Invariant == Spec => []IInv
BY InitIInv, NextIInv, PTL DEF Spec

-----------------------------------------------------------------------------
(* What follows.                                                             *)

\* The variables keep their types.
THEOREM Typing == Spec => []TypeOK
BY Invariant, PTL DEF IInv

\* A result map in the cache is complete, and whoever copies it knows so
\* (AutoResultMap 51-60).
THEOREM Complete == Spec => []CacheComplete
<1>1. IInv => CacheComplete
    <2> SUFFICES ASSUME IInv PROVE CacheComplete
        OBVIOUS
    <2>1. ASSUME NEW c \in Types, cached[c] # NoMap PROVE Filled(cached[c]) = Fields
        <3>1. cached[c] \in Maps
            BY <2>1 DEF IInv, TypeOK
        <3>2. \A f \in Fields : written[cached[c]][f] # {}
            BY <2>1, <3>1 DEF IInv, EntryIsPublished, HasAll, SeenIsWritten
        <3>3. \A f \in Fields : written[cached[c]][f] \subseteq Lists
            BY <3>1, MapsAssumption DEF IInv, RightLists, Lists
        <3>4. QED
            BY <3>2, <3>3 DEF Filled
    <2>2. \A t \in Threads, f \in Fields : At(t, "copy") => <<call[t].from, f>> \in known[t]
        BY DEF IInv, CallInv, HasAll
    <2>3. QED
        BY <2>1, <2>2 DEF CacheComplete
<1>2. QED
    BY <1>1, Invariant, PTL

\* A query that provided the mappings itself maps its rows with all of them, if only
\* one thread ever built mappings of that class: what it copied it found in the
\* cache, and with it the contents (AutoResultMap 51-65).
THEOREM OwnComplete == Spec => []OwnIsComplete
<1>1. IInv => OwnIsComplete
    BY DEF IInv, CallInv, OwnIsComplete
<1>2. QED
    BY <1>1, Invariant, PTL

\* Mappings that are there never go away: no field is ever set to the empty list
\* (AutoResultMap 53-56).
THEOREM Undone == Spec => []NeverUndone
<1>1. IInv => NeverUndone
    <2>1. Lists \subseteq Facts
        BY DEF Facts
    <2>2. \A m \in Maps : Threads \X {TypeOf[m]} \subseteq Lists
        BY MapsAssumption DEF Lists
    <2>3. QED
        BY <2>1, <2>2, MapsAssumption DEF IInv, RightLists, NeverUndone
<1>2. QED
    BY <1>1, Invariant, PTL
=============================================================================
