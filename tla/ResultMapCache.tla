--------------------------- MODULE ResultMapCache ---------------------------
(***************************************************************************)
(* The MyBatis plugin AutoResultMap. A statement whose result map has no   *)
(* mappings gets them when it first runs: they are built from the class of *)
(* its rows, or copied from another result map of that class, which a      *)
(* cache remembers. Result maps are shared by all threads and filled field *)
(* by field, without a lock; only the cache is a ConcurrentHashMap. A field *)
(* refers to a list that some thread built. So a thread is sure to see     *)
(* those references and those contents of lists that were written before   *)
(* something it read in the cache; the reference and, although it sees the *)
(* reference, the contents that another thread wrote since it may see or   *)
(* not.                                                                    *)
(***************************************************************************)
EXTENDS Naturals

CONSTANTS
    Threads,    \* threads that run statements
    Maps,       \* result maps without mappings of their own, of bean classes
    Types,      \* the classes of rows, each with a setter at least
    TypeOf,     \* the class of each result map
    NoMap,      \* nothing cached
    NoList      \* the empty list that a result map starts with

\* The fields in the order in which they are written; the first one is what a
\* query looks at, the others are what MyBatis maps rows with.
\* resultMappings, propertyResultMappings, mappedColumns, idResultMappings
Fields == 1..4
First == 1
Last == 4

\* The lists (with the set of column names) that a thread builds for a class. It
\* does so once at most: afterwards it finds the class in the cache.
Lists == Threads \X Types

\* What may be known: that a field was written to, and the contents of a list.
Facts == (Maps \X Fields) \cup Lists

ASSUME MapsAssumption ==
    /\ TypeOf \in [Maps -> Types]
    /\ NoMap \notin Maps
    /\ NoList \notin Facts
    /\ Maps \cap Threads = {}

VARIABLES
    written,    \* the references that were written to each field
    cached,     \* CACHED_RESULT_MAP
    published,  \* facts that happen before the cache's entry for a class
    known,      \* facts that happen before what a thread does next
    call        \* what each thread is doing
vars == <<written, cached, published, known, call>>

\* map: the result map of the statement; from: the one it copies; next: the field
\* to be written; own: this query filled the map itself; whole: every field held
\* mappings when the rows were mapped.
Call == [pc : {"idle", "check", "get", "copy", "build", "put", "proceed"},
         map : Maps, from : Maps, next : Fields, own : BOOLEAN, whole : BOOLEAN]

TypeOK ==
    /\ written \in [Maps -> [Fields -> SUBSET (Lists \cup {NoList})]]
    /\ cached \in [Types -> Maps \cup {NoMap}]
    /\ published \in [Types -> SUBSET Facts]
    /\ known \in [Threads -> SUBSET Facts]
    /\ call \in [Threads -> Call]

Init ==
    /\ written = [m \in Maps |-> [f \in Fields |-> {}]]
    /\ cached = [c \in Types |-> NoMap]
    /\ published = [c \in Types |-> {}]
    /\ known = [t \in Threads |-> {}]
    /\ call \in [Threads -> {[pc |-> "idle", map |-> m, from |-> m, next |-> First,
                              own |-> FALSE, whole |-> FALSE] : m \in Maps}]

-----------------------------------------------------------------------------
At(t, pc) == call[t].pc = pc
Goto(t, pc) == call' = [call EXCEPT ![t].pc = pc]

\* The references that t may read in field f of m: any that was written, and the
\* empty list of the beginning unless t knows of a write.
Values(t, m, f) == written[m][f] \cup (IF <<m, f>> \in known[t] THEN {} ELSE {NoList})

\* The fields of m that were set to a list, and those in which t is sure to find
\* mappings; in the others it may find them or not.
Filled(m) == {f \in Fields : written[m][f] \cap Lists # {}}
Sure(t, m) == {f \in Fields : Values(t, m, f) \subseteq known[t]}

\* Whether t finds mappings in every one of the fields fs of m.
Finds(t, m, fs) == {all \in BOOLEAN : /\ fs \subseteq Sure(t, m) => all
                                      /\ all => fs \subseteq Filled(m)}

\* A query: without mappings in the first field they are provided for.
Query(t, m) ==
    /\ At(t, "idle")
    /\ \E found \in Finds(t, m, {First}) :
          call' = [call EXCEPT ![t] =
             [pc |-> IF found THEN "proceed" ELSE "check", map |-> m, from |-> m,
              next |-> First, own |-> FALSE, whole |-> FALSE]]
    /\ UNCHANGED <<written, cached, published, known>>

\* An access to the cache that finds an entry.
Acquire(t) == known' = [known EXCEPT ![t] = @ \cup published[TypeOf[call[t].map]]]

\* containsKey
CheckCache(t) ==
    /\ At(t, "check")
    /\ IF cached[TypeOf[call[t].map]] # NoMap THEN Goto(t, "get") /\ Acquire(t)
       ELSE Goto(t, "build") /\ UNCHANGED known
    /\ UNCHANGED <<written, cached, published>>

GetCached(t) ==
    /\ At(t, "get")
    /\ call' = [call EXCEPT ![t].pc = "copy", ![t].from = cached[TypeOf[call[t].map]]]
    /\ Acquire(t)
    /\ UNCHANGED <<written, cached, published>>

\* The next field of the thread's map is set to l; the thread knows that, and facts.
Write(t, l, facts) ==
    LET m == call[t].map
        f == call[t].next
    IN  /\ written' = [written EXCEPT ![m][f] = @ \cup {l}]
        /\ known' = [known EXCEPT ![t] = @ \cup {<<m, f>>} \cup facts]

\* Mutant: the last field is left out.
AdvanceEarly(t, end) ==
    call' = [call EXCEPT ![t].pc = IF call[t].next >= Last - 1 THEN end ELSE @,
                         ![t].next = IF call[t].next >= Last - 1 THEN First ELSE @ + 1,
                         ![t].own = TRUE]
\* Mutant: off by one at the end.
AdvanceFar(t, end) ==
    call' = [call EXCEPT ![t].pc = IF call[t].next > Last THEN end ELSE @,
                         ![t].next = @ + 1, ![t].own = TRUE]

\* To the next field, or to end after the last one.
Advance(t, end) ==
    call' = [call EXCEPT ![t].pc = IF call[t].next = Last THEN end ELSE @,
                         ![t].next = IF call[t].next = Last THEN First ELSE @ + 1,
                         ![t].own = TRUE]

\* A field is copied as it is found, with mappings or without.
CopyField(t) ==
    /\ At(t, "copy")
    /\ \E l \in Values(t, call[t].from, call[t].next) : Write(t, l, {})
    /\ Advance(t, "proceed")
    /\ UNCHANGED <<cached, published>>

\* Mutant: the cache is a map without synchronisation.
PutUnpublished(t) ==
    /\ cached' = [cached EXCEPT ![TypeOf[call[t].map]] = call[t].map]
    /\ UNCHANGED published

\* put: what happened before it is seen by whoever finds the entry.
Put(t) ==
    LET c == TypeOf[call[t].map]
    IN  /\ cached' = [cached EXCEPT ![c] = call[t].map]
        /\ published' = [published EXCEPT ![c] = @ \cup known[t]]

\* buildResultMap: the list is complete before the first field is set.
NewList(t) == <<t, TypeOf[call[t].map]>>

\* Mutant: the map is put into the cache before it is filled.
BuildFieldCached(t) ==
    /\ At(t, "build")
    /\ Write(t, NewList(t), {NewList(t)})
    /\ Put(t)
    /\ Advance(t, "proceed")

BuildField(t) ==
    /\ At(t, "build")
    /\ Write(t, NewList(t), {NewList(t)})
    /\ Advance(t, "put")
    /\ UNCHANGED <<cached, published>>

\* Builder.build throws for a property that has no type handler: the statement
\* fails, nothing was written.
BuildThrows(t) ==
    /\ At(t, "build")
    /\ call[t].next = First
    /\ Goto(t, "idle")
    /\ UNCHANGED <<written, cached, published, known>>

PutCached(t) ==
    /\ At(t, "put")
    /\ Put(t)
    /\ Acquire(t)
    /\ Goto(t, "proceed")
    /\ UNCHANGED written

\* invocation.proceed: MyBatis maps the rows.
Proceed(t) ==
    /\ At(t, "proceed")
    /\ \E whole \in Finds(t, call[t].map, Fields) :
          call' = [call EXCEPT ![t].pc = "idle", ![t].from = call[t].map, ![t].whole = whole]
    /\ UNCHANGED <<written, cached, published, known>>

Step(t) ==
    \/ CheckCache(t) \/ GetCached(t) \/ CopyField(t)
    \/ BuildField(t) \/ BuildThrows(t) \/ PutCached(t) \/ Proceed(t)

Next == \E t \in Threads : Step(t) \/ \E m \in Maps : Query(t, m)

\* A query waits for nothing here; nobody has to start one.
Spec == Init /\ [][Next]_vars
FairSpec == Spec /\ \A t \in Threads : WF_vars(Step(t))

-----------------------------------------------------------------------------
(* Properties.                                                               *)

\* A result map in the cache is complete, and whoever copies it knows so, although
\* several threads may be filling result maps of that class at the same time, this
\* one included (AutoResultMap 51-60).
CacheComplete ==
    /\ \A c \in Types : cached[c] # NoMap => Filled(cached[c]) = Fields
    /\ \A t \in Threads, f \in Fields : At(t, "copy") => <<call[t].from, f>> \in known[t]

\* Mappings that are there never go away: nobody copies the empty list over one
\* that another thread has written (AutoResultMap 53-56).
NeverUndone == \A m \in Maps, f \in Fields : NoList \notin written[m][f]

\* The threads whose lists result maps of class c refer to.
Builders(c) == {b \in Threads : \E m \in Maps, f \in Fields : <<b, c>> \in written[m][f]}
OneBuilder(c) == \A b, d \in Builders(c) : b = d

\* A query that built or copied the mappings maps its rows with all of them, if only
\* one thread ever built the mappings of that class. (If two did, at the same time,
\* a field may refer to the list of the other one, of whose contents nothing is
\* known.) AutoResultMap 51-65.
OwnIsComplete ==
    \A t \in Threads :
        At(t, "idle") /\ call[t].own /\ OneBuilder(TypeOf[call[t].map])
            => call[t].whole

\* A result map does not stay half filled, although from its first field on every
\* other query may take it for complete and leave it alone.
HalfFilledIsFinished == \A m \in Maps : Filled(m) # {} ~> Filled(m) = Fields

\* The comment at AutoResultMap 48: without mappings they are generated; so no query
\* maps its rows with some of the mappings missing.
NoHalfMap ==
    [][\A t \in Threads : Proceed(t) => call'[t].whole]_vars
=============================================================================
