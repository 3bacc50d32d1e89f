-------------------------- MODULE DistTransaction --------------------------
(***************************************************************************)
(* What the distributed-transaction helper promises to the callers of one  *)
(* transaction id (IDistDBHelper): the id is created once, lends at most   *)
(* one connection per data source while it is in use, takes all of them    *)
(* back in a single step when it is committed or rolled back, and lends    *)
(* nothing after that, until it is deleted and created anew.  Threads,     *)
(* maps and the steps of a method do not exist at this level.              *)
(***************************************************************************)
CONSTANTS TransIds, DataSources

VARIABLES
    phase,  \* id -> free (not created), ready (in use) or over
    lent    \* id -> data sources with an open connection of the id

avars == <<phase, lent>>

Phases == {"free", "ready", "over"}

\* A creation with an unusable data source leaves an id that lends nothing.
\* The connections of a deleted id are not taken back.
Create(id) ==
    /\ phase[id] = "free"
    /\ \E ph \in {"ready", "over"} : phase' = [phase EXCEPT ![id] = ph]
    /\ UNCHANGED lent

Lend(id, ds) ==
    /\ phase[id] = "ready"
    /\ ds \notin lent[id]
    /\ lent' = [lent EXCEPT ![id] = @ \cup {ds}]
    /\ UNCHANGED phase

Finish(id) ==
    /\ phase[id] = "ready"
    /\ phase' = [phase EXCEPT ![id] = "over"]
    /\ lent' = [lent EXCEPT ![id] = {}]

\* Closing a connection failed half-way: the id stays in use, to be ended again.
FinishFailed(id) ==
    /\ phase[id] = "ready"
    /\ \E rest \in SUBSET lent[id] : lent' = [lent EXCEPT ![id] = rest]
    /\ UNCHANGED phase

Delete(id) ==
    /\ phase[id] # "free"
    /\ phase' = [phase EXCEPT ![id] = "free"]
    /\ UNCHANGED lent

AInit ==
    /\ phase = [id \in TransIds |-> "free"]
    /\ lent = [id \in TransIds |-> {}]

ANext ==
    \E id \in TransIds :
        \/ Create(id) \/ Finish(id) \/ FinishFailed(id) \/ Delete(id)
        \/ \E ds \in DataSources : Lend(id, ds)

ASpec == AInit /\ [][ANext]_avars
=============================================================================
