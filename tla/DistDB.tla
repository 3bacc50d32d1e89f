------------------------------- MODULE DistDB -------------------------------
(***************************************************************************)
(* The distributed-transaction helper of kss-commons, AtomikosDBHelper: a  *)
(* Spring singleton whose three maps (utxCache, dsCache, connCache) are    *)
(* shared by every thread that serves a request.                           *)
(*                                                                         *)
(* A transaction is named by a string id.  A JTA UserTransaction, though,  *)
(* always acts on the transaction of the CALLING THREAD, whatever object   *)
(* it is called on; so utxCache only says which ids exist, and txs holds,  *)
(* per thread, the transactions that thread has begun, the last begun      *)
(* first. For which id it did so, nobody knows.                            *)
(*                                                                         *)
(* Atomic steps: the maps are ConcurrentHashMaps and no method locks, so   *)
(* every method is split at its accesses to a shared map.  Accesses to     *)
(* state of the calling thread only are merged with the step before.       *)
(***************************************************************************)
EXTENDS Integers, Sequences, FiniteSets

CONSTANTS
    Threads,          \* threads that call the helper
    TransIds,         \* strings utx.hashCode() can yield
    DataSources,      \* DbDataSource values (equal fields: equal value)
    DsLists,          \* data source lists passed to newDistTransaction
    BadSources,       \* data sources with a null user, password or url
    NoId, NoDs, NoConn, NoMap,
    MaxConns,         \* bound: connections one (id, data source) ever opens
    PoolSize,         \* connections an AtomikosDataSourceBean lends at once
    MaxDepth,         \* bound: transactions a thread has begun and not ended
    Subtransactions,  \* the transaction manager nests begin() in a thread
    Collisions,       \* utx.hashCode() may repeat an id still in utxCache
    CloseFaults,      \* Connection.close() may throw SQLException
    SharedIds,        \* callers on several threads may use one id
    TakeTurns         \* but their calls on one id, and bulk calls, do not overlap

ASSUME SetsAssumption ==
    /\ DsLists \subseteq SUBSET DataSources
    /\ BadSources \subseteq DataSources
    /\ NoId \notin TransIds /\ NoDs \notin DataSources
    /\ \A dss \in SUBSET DataSources : dss # NoMap

ASSUME FlagsAssumption ==
    /\ {Subtransactions, Collisions, CloseFaults, SharedIds, TakeTurns} \subseteq BOOLEAN
    /\ MaxConns \in Nat /\ PoolSize \in Nat /\ MaxDepth \in Nat

\* The n-th connection that the pool of data source ds, made for id, lends.
Conns == TransIds \X DataSources \X (1 .. MaxConns)
PoolOf(id, ds) == {c \in Conns : c[1] = id /\ c[2] = ds}

ASSUME NoConnAssumption == \A c \in Conns : c # NoConn

VARIABLES
    utxCache,   \* ids with a UserTransaction
    dsCache,    \* id -> its data sources, or NoMap
    connCache,  \* id -> data source -> its connection, or NoConn
    connState,  \* connection -> fresh (not lent yet), open or closed
    txs,        \* thread -> its JTA transactions, innermost first
    call,       \* thread -> the call it is in
    known       \* thread -> ids its caller may pass: it has been handed them

vars == <<utxCache, dsCache, connCache, connState, txs, call, known>>

-----------------------------------------------------------------------------
(* Calls.  pc is the next step of the call a thread is in.                 *)

Exception == {"TransactionException", "NullPointerException",
              "ConcurrentModificationException"}
Results   == {"ok", "null"} \cup Exception
BulkOps   == {"commitAll", "rollAll"}
EndOps    == {"commit", "rollback"}
Ops       == {"none", "new", "get", "delete"} \cup EndOps \cup BulkOps
ClosePcs  == {"close", "dropConn", "dropDs"}
PutPcs    == {"cacheCheck", "putOld", "putNew"}
GetPcs    == {"peek", "fetch", "open"} \cup PutPcs
NoIdPcs   == {"idle", "bulk", "bulkClose"}
Pcs       == {"newDs", "delUtx"} \cup NoIdPcs \cup ClosePcs \cup GetPcs

Frame == [pc: Pcs, op: Ops, id: TransIds \cup {NoId}, ds: DataSources \cup {NoDs},
          dss: SUBSET DataSources, conn: {NoConn} \cup Conns,
          todo: SUBSET TransIds, res: Results]

\* The arguments and locals that the step a call is at has set.
Call == {f \in Frame :
            /\ f.pc \notin NoIdPcs => f.id \in TransIds
            /\ f.pc \in GetPcs => f.ds \in DataSources
            /\ f.pc \in PutPcs => f.conn \in PoolOf(f.id, f.ds)}

\* No call in progress; res is how the last call ended.
Returned(r) == [pc |-> "idle", op |-> "none", id |-> NoId, ds |-> NoDs, dss |-> {},
                conn |-> NoConn, todo |-> {}, res |-> r]

Idle(t)      == call[t].pc = "idle"
At(t, pc)    == call[t].pc = pc
Goto(t, pc)  == call' = [call EXCEPT ![t].pc = pc]
Return(t, r) == call' = [call EXCEPT ![t] = Returned(r)]
Enter(t, op, pc, id) ==
    call' = [call EXCEPT ![t] = [Returned("ok") EXCEPT !.op = op, !.pc = pc, !.id = id]]

\* Nothing in the helper makes calls wait for each other. Callers that take turns
\* start no call on id while another is on it or one on all ids runs, and none
\* on all ids while another call runs.
Turn(id) ==
    TakeTurns => \A u \in Threads : ~Idle(u) => call[u].id # id /\ call[u].op \notin BulkOps
TurnOfAll == TakeTurns => \A u \in Threads : Idle(u)

-----------------------------------------------------------------------------
(* The JTA transaction manager, seen from one thread.                      *)

Tx == {"active", "marked"}
NoTransaction(t) == txs[t] = << >>
Push(t)          == txs' = [txs EXCEPT ![t] = <<"active">> \o @]
Pop(t)           == txs' = [txs EXCEPT ![t] = Tail(@)]

\* The timeout given to setTransactionTimeout expires: rollback-only.
Timeout(t) ==
    /\ \E i \in 1 .. Len(txs[t]) :
           /\ txs[t][i] = "active"
           /\ txs' = [txs EXCEPT ![t][i] = "marked"]
    /\ UNCHANGED <<utxCache, dsCache, connCache, connState, call, known>>

\* commit() or rollback() on thread t, which has a transaction: it ends, with
\* result res, or an exception leaves it where it was.
Complete(t, commit, res) ==
    \/ /\ Pop(t)
       /\ \/ res = "TransactionException"
          \/ res = "ok" /\ (commit => Head(txs[t]) = "active")
    \/ /\ UNCHANGED txs
       /\ res = "TransactionException"

-----------------------------------------------------------------------------
(* newDistTransaction and beginTransaction                                 *)

\* setTransactionTimeout throws: nothing is stored.
NewRefused(t) ==
    /\ Idle(t)
    /\ Return(t, "TransactionException")
    /\ UNCHANGED <<utxCache, dsCache, connCache, connState, txs, known>>

\* WRONG variant: the map is filled before transId is computed.
NewPutUtxEarly(t, id, dss) ==
    /\ Idle(t)
    /\ Turn(id)
    /\ utxCache' = utxCache \cup {NoId}
    /\ Enter(t, "new", "newDs", id)
    /\ UNCHANGED <<dsCache, connCache, connState, txs, known>>

\* utx.hashCode() yields id; nothing checks whether utxCache has it already.
NewPutUtx(t, id, dss) ==
    /\ Idle(t)
    /\ Turn(id)
    /\ Collisions \/ id \notin utxCache
    /\ utxCache' = utxCache \cup {id}
    /\ call' = [call EXCEPT ![t] = [Returned("ok") EXCEPT !.op = "new", !.pc = "newDs",
                                                          !.id = id, !.dss = dss]]
    /\ UNCHANGED <<dsCache, connCache, connState, txs, known>>

\* Properties.setProperty rejects a null value: the id stays in utxCache,
\* without data sources, and no caller learns it.
NewPutDs(t) ==
    /\ At(t, "newDs")
    /\ IF call[t].dss \cap BadSources = {}
       THEN /\ dsCache' = [dsCache EXCEPT ![call[t].id] = call[t].dss]
            /\ known' = [u \in Threads |-> IF u = t \/ SharedIds THEN known[u] \cup {call[t].id}
                                          ELSE known[u]]
            /\ Return(t, "ok")
       ELSE /\ Return(t, "TransactionException")
            /\ UNCHANGED <<dsCache, known>>
    /\ UNCHANGED <<utxCache, connCache, connState, txs>>

BeginTransaction(t, id) ==
    /\ Idle(t)
    /\ id \in known[t] /\ Turn(id)
    /\ \/ /\ id \in utxCache
          /\ NoTransaction(t) \/ (Subtransactions /\ Len(txs[t]) < MaxDepth)
          /\ Push(t)
          /\ Return(t, "ok")
       \/ /\ Return(t, "TransactionException")
          /\ UNCHANGED txs
    /\ UNCHANGED <<utxCache, dsCache, connCache, connState, known>>

-----------------------------------------------------------------------------
(* closeConnection, the private method that commit and rollback end with.  *)
(* call[t].res is what the enclosing method does afterwards.               *)

Cached(id) == {ds \in DataSources : connCache[id][ds] # NoConn}
CachedConns(id) == {connCache[id][ds] : ds \in Cached(id)}
CloseAll(cs) == connState' = [c \in Conns |-> IF c \in cs THEN "closed" ELSE connState[c]]

\* Some thread is about to put into the HashMap that connCache has for id.
PutPending(id) == \E u \in Threads : At(u, "putOld") /\ call[u].id = id

\* WRONG variant: only one connection of the id is closed.
CloseConnsOne(t) ==
    /\ At(t, "close")
    /\ \E c \in CachedConns(call[t].id) : CloseAll({c})
    /\ Goto(t, "dropConn")
    /\ UNCHANGED <<utxCache, dsCache, connCache, txs, known>>

\* connCache.get(id) is null when the id never got a connection.  A close()
\* that throws, or a put into the plain HashMap that is being iterated, leaves
\* the connections after it open and both maps as they are.
CloseConns(t) ==
    /\ At(t, "close")
    /\ LET id == call[t].id IN
       \/ /\ Cached(id) = {}
          /\ Return(t, "NullPointerException")
          /\ UNCHANGED connState
       \/ /\ Cached(id) # {}
          /\ CloseAll(CachedConns(id))
          /\ Goto(t, "dropConn")
       \/ /\ Cached(id) # {}
          /\ \/ CloseFaults /\ Return(t, "TransactionException")
             \/ PutPending(id) /\ Return(t, "ConcurrentModificationException")
          /\ \E cs \in SUBSET CachedConns(id) :
                 cs # CachedConns(id) /\ CloseAll(cs)
    /\ UNCHANGED <<utxCache, dsCache, connCache, txs, known>>

\* WRONG variant: the closed connections stay in connCache.
DropConnMapKept(t) ==
    /\ At(t, "dropConn")
    /\ Goto(t, "dropDs")
    /\ UNCHANGED <<utxCache, dsCache, connCache, connState, txs, known>>

DropConnMap(t) ==
    /\ At(t, "dropConn")
    /\ connCache' = [connCache EXCEPT ![call[t].id] = [ds \in DataSources |-> NoConn]]
    /\ Goto(t, "dropDs")
    /\ UNCHANGED <<utxCache, dsCache, connState, txs, known>>

\* WRONG variant: the data sources of every id are dropped.
DropDsMapAll(t) ==
    /\ At(t, "dropDs")
    /\ dsCache' = [id \in TransIds |-> NoMap]
    /\ Return(t, call[t].res)
    /\ UNCHANGED <<utxCache, connCache, connState, txs, known>>

DropDsMap(t) ==
    /\ At(t, "dropDs")
    /\ LET id == call[t].id IN
       IF dsCache[id] = NoMap
       THEN /\ Return(t, "NullPointerException")
            /\ UNCHANGED dsCache
       ELSE /\ dsCache' = [dsCache EXCEPT ![id] = NoMap]
            /\ IF call[t].op \in BulkOps THEN Goto(t, "bulkClose") ELSE Return(t, call[t].res)
    /\ UNCHANGED <<utxCache, connCache, connState, txs, known>>

-----------------------------------------------------------------------------
(* commitTransaction and rollbackTransaction                               *)

\* closeConnection runs only if the thread is left without a transaction.
CloseIfEnded(t, op, id, res) ==
    IF txs'[t] = << >>
    THEN call' = [call EXCEPT ![t] = [Returned(res) EXCEPT !.op = op, !.pc = "close", !.id = id]]
    ELSE Return(t, res)

EndTransaction(t, op, id) ==
    /\ Idle(t)
    /\ id \in known[t] /\ Turn(id)
    /\ \/ /\ id \notin utxCache
          /\ Return(t, "TransactionException")
          /\ UNCHANGED txs
       \/ /\ id \in utxCache
          /\ NoTransaction(t)
          /\ UNCHANGED txs
          /\ CloseIfEnded(t, op, id, "TransactionException")
       \/ /\ id \in utxCache
          /\ ~NoTransaction(t)
          /\ \E res \in Results :
                 /\ Complete(t, op = "commit", res)
                 /\ CloseIfEnded(t, op, id, res)
    /\ UNCHANGED <<utxCache, dsCache, connCache, connState, known>>

-----------------------------------------------------------------------------
(* getConnection(transactionId, ds)                                        *)

\* WRONG variant: connCache is not consulted.
GetLookupUncached(t, id, ds) ==
    /\ Idle(t)
    /\ id \in known[t] /\ Turn(id)
    /\ call' = [call EXCEPT ![t] = [Returned("ok") EXCEPT
                    !.op = "get", !.id = id, !.ds = ds, !.pc = "open"]]
    /\ UNCHANGED <<utxCache, dsCache, connCache, connState, txs, known>>

GetLookup(t, id, ds) ==
    /\ Idle(t)
    /\ id \in known[t] /\ Turn(id)
    /\ call' = [call EXCEPT ![t] = [Returned("ok") EXCEPT
                    !.op = "get", !.id = id, !.ds = ds,
                    !.pc = IF Cached(id) # {} THEN "peek" ELSE "open"]]
    /\ UNCHANGED <<utxCache, dsCache, connCache, connState, txs, known>>

\* The second connCache.get(id) of the condition.
GetPeek(t) ==
    /\ At(t, "peek")
    /\ LET id == call[t].id IN
       \/ Cached(id) = {} /\ Return(t, "NullPointerException")
       \/ Cached(id) # {} /\ Goto(t, IF call[t].ds \in Cached(id) THEN "fetch" ELSE "open")
    /\ UNCHANGED <<utxCache, dsCache, connCache, connState, txs, known>>

\* The connection was there; it is read again to be returned.
GetFetch(t) ==
    /\ At(t, "fetch")
    /\ LET id == call[t].id IN
       Return(t, IF Cached(id) = {} THEN "NullPointerException"
                 ELSE IF connCache[id][call[t].ds] = NoConn THEN "null" ELSE "ok")
    /\ UNCHANGED <<utxCache, dsCache, connCache, connState, txs, known>>

\* A SQLException (an exhausted pool times out with one) is only printed:
\* the method returns null.
GetOpen(t) ==
    /\ At(t, "open")
    /\ LET id == call[t].id
           ds == call[t].ds
           configured == dsCache[id] # NoMap /\ ds \in dsCache[id]
       IN
       \/ /\ ~configured
          /\ Return(t, "TransactionException")
          /\ UNCHANGED connState
       \/ /\ configured
          /\ Return(t, "null")
          /\ UNCHANGED connState
       \/ /\ configured
          /\ Cardinality({c \in PoolOf(id, ds) : connState[c] = "open"}) < PoolSize
          /\ \E c \in PoolOf(id, ds) :
                 /\ \A d \in PoolOf(id, ds) : connState[d] = "fresh" <=> d[3] >= c[3]
                 /\ connState' = [connState EXCEPT ![c] = "open"]
                 /\ call' = [call EXCEPT ![t].conn = c, ![t].pc = "cacheCheck"]
    /\ UNCHANGED <<utxCache, dsCache, connCache, txs, known>>

GetCheckMap(t) ==
    /\ At(t, "cacheCheck")
    /\ Goto(t, IF Cached(call[t].id) # {} THEN "putOld" ELSE "putNew")
    /\ UNCHANGED <<utxCache, dsCache, connCache, connState, txs, known>>

\* WRONG variant: a new map replaces the one that is there.
GetPutOldAlone(t) ==
    /\ At(t, "putOld")
    /\ connCache' = [connCache EXCEPT ![call[t].id] =
                        [ds \in DataSources |-> IF ds = call[t].ds THEN call[t].conn ELSE NoConn]]
    /\ Return(t, "ok")
    /\ UNCHANGED <<utxCache, dsCache, connState, txs, known>>

GetPutOld(t) ==
    /\ At(t, "putOld")
    /\ IF Cached(call[t].id) = {}
       THEN /\ Return(t, "NullPointerException")
            /\ UNCHANGED connCache
       ELSE /\ connCache' = [connCache EXCEPT ![call[t].id][call[t].ds] = call[t].conn]
            /\ Return(t, "ok")
    /\ UNCHANGED <<utxCache, dsCache, connState, txs, known>>

\* WRONG variant: the data source is not part of the key.
GetPutNewAnyKey(t) ==
    /\ At(t, "putNew")
    /\ connCache' = [connCache EXCEPT ![call[t].id] = [ds \in DataSources |-> call[t].conn]]
    /\ Return(t, "ok")
    /\ UNCHANGED <<utxCache, dsCache, connState, txs, known>>

GetPutNew(t) ==
    /\ At(t, "putNew")
    /\ connCache' = [connCache EXCEPT ![call[t].id] =
                        [ds \in DataSources |-> IF ds = call[t].ds THEN call[t].conn ELSE NoConn]]
    /\ Return(t, "ok")
    /\ UNCHANGED <<utxCache, dsCache, connState, txs, known>>

-----------------------------------------------------------------------------
(* deleteDistTransaction and deleteAllDistTransaction                      *)

DeleteDs(t, id) ==
    /\ Idle(t)
    /\ id \in known[t] /\ Turn(id)
    /\ IF id \in utxCache
       THEN /\ dsCache' = [dsCache EXCEPT ![id] = NoMap]
            /\ Enter(t, "delete", "delUtx", id)
       ELSE /\ Return(t, "TransactionException")
            /\ UNCHANGED dsCache
    /\ UNCHANGED <<utxCache, connCache, connState, txs, known>>

\* Callers that do not share ids also stop using the id.
DeleteUtx(t) ==
    /\ At(t, "delUtx")
    /\ utxCache' = utxCache \ {call[t].id}
    /\ known' = IF SharedIds THEN known ELSE [known EXCEPT ![t] = @ \ {call[t].id}]
    /\ Return(t, "ok")
    /\ UNCHANGED <<dsCache, connCache, connState, txs>>

DeleteAll(t) ==
    /\ Idle(t)
    /\ SharedIds /\ TurnOfAll
    /\ utxCache' = {}
    /\ Return(t, "ok")
    /\ UNCHANGED <<dsCache, connCache, connState, txs, known>>

-----------------------------------------------------------------------------
(* commitAllTransaction and rollAllTransaction                             *)

BulkStart(t, op) ==
    /\ Idle(t)
    /\ SharedIds /\ TurnOfAll
    /\ call' = [call EXCEPT ![t] = [Returned("ok") EXCEPT !.op = op, !.pc = "bulk",
                                                          !.todo = utxCache]]
    /\ UNCHANGED <<utxCache, dsCache, connCache, connState, txs, known>>

\* One iteration of the loop over utxCache.values(); each commit() is of the
\* calling thread's transaction and throws if there is none.
BulkEnd(t) ==
    /\ At(t, "bulk")
    /\ \/ /\ call[t].todo = {}
          /\ call' = [call EXCEPT ![t].pc = "bulkClose", ![t].todo = utxCache]
          /\ UNCHANGED txs
       \/ /\ call[t].todo # {}
          /\ NoTransaction(t)
          /\ Return(t, "TransactionException")
          /\ UNCHANGED txs
       \/ /\ ~NoTransaction(t)
          /\ \E id \in call[t].todo, res \in Results :
                 /\ Complete(t, call[t].op = "commitAll", res)
                 /\ IF res = "ok" THEN call' = [call EXCEPT ![t].todo = @ \ {id}]
                                  ELSE Return(t, res)
    /\ UNCHANGED <<utxCache, dsCache, connCache, connState, known>>

\* WRONG variant: the loop ends after one id.
BulkCloseOne(t) ==
    /\ At(t, "bulkClose")
    /\ \/ /\ call[t].todo = {}
          /\ Return(t, "ok")
       \/ \E id \in call[t].todo :
              call' = [call EXCEPT ![t].pc = "close", ![t].id = id, ![t].todo = {}]
    /\ UNCHANGED <<utxCache, dsCache, connCache, connState, txs, known>>

\* The loop over utxCache.keySet(), closing the connections of each id.
BulkClose(t) ==
    /\ At(t, "bulkClose")
    /\ \/ /\ call[t].todo = {}
          /\ Return(t, "ok")
       \/ \E id \in call[t].todo :
              call' = [call EXCEPT ![t].pc = "close", ![t].id = id, ![t].todo = @ \ {id}]
    /\ UNCHANGED <<utxCache, dsCache, connCache, connState, txs, known>>

-----------------------------------------------------------------------------
Init ==
    /\ utxCache = {}
    /\ dsCache = [id \in TransIds |-> NoMap]
    /\ connCache = [id \in TransIds |-> [ds \in DataSources |-> NoConn]]
    /\ connState = [c \in Conns |-> "fresh"]
    /\ txs = [t \in Threads |-> << >>]
    /\ call = [t \in Threads |-> Returned("ok")]
    /\ known = [t \in Threads |-> {}]

NewStep(t) == NewRefused(t) \/ NewPutDs(t) \/ \E id \in TransIds, dss \in DsLists : NewPutUtx(t, id, dss)
CloseStep(t) == CloseConns(t) \/ DropConnMap(t) \/ DropDsMap(t)
GetStep(t) ==
    \/ \E id \in TransIds, ds \in DataSources : GetLookup(t, id, ds)
    \/ GetPeek(t) \/ GetFetch(t) \/ GetOpen(t) \/ GetCheckMap(t) \/ GetPutOld(t) \/ GetPutNew(t)
DeleteStep(t) == DeleteUtx(t) \/ DeleteAll(t) \/ \E id \in TransIds : DeleteDs(t, id)
BulkStep(t) == BulkEnd(t) \/ BulkClose(t) \/ \E op \in BulkOps : BulkStart(t, op)

ThreadStep(t) ==
    \/ NewStep(t) \/ CloseStep(t) \/ GetStep(t) \/ DeleteStep(t) \/ BulkStep(t)
    \/ \E id \in TransIds : BeginTransaction(t, id)
    \/ \E op \in EndOps, id \in TransIds : EndTransaction(t, op, id)
    \/ Timeout(t)

Next == \E t \in Threads : ThreadStep(t)

Spec == Init /\ [][Next]_vars

-----------------------------------------------------------------------------
(* Properties.                                                             *)

\* Every variable of the helper and of its callers has its type.
TypeOK ==
    /\ utxCache \in SUBSET TransIds
    /\ dsCache \in [TransIds -> {NoMap} \cup SUBSET DataSources]
    /\ connCache \in [TransIds -> [DataSources -> {NoConn} \cup Conns]]
    /\ connState \in [Conns -> {"fresh", "open", "closed"}]
    /\ txs \in [Threads -> Seq(Tx)]
    /\ call \in [Threads -> Call]
    /\ known \in [Threads -> SUBSET TransIds]

Opened(id)  == {c \in Conns : c[1] = id /\ connState[c] = "open"}
Holds(t, c) == call[t].pc \in PutPcs /\ call[t].conn = c

\* An open connection is never lost: it is in connCache, under the id and the
\* data source it was opened for, or about to be put there.  A lost one stays
\* open for good, since closeConnection closes only what it finds in connCache.
\* getConnection must therefore never overwrite an entry, and closeConnection
\* must not remove an entry that was put while it closed the others.
NoOrphan ==
    \A c \in Conns : connState[c] = "open" =>
        connCache[c[1]][c[2]] = c \/ \E t \in Threads : Holds(t, c)

\* getConnection never has two connections of one id and data source open at
\* a time, so that the pool of an AtomikosDataSourceBean (one connection by
\* default) is never the reason for it to return null.
OneOpenPerPool ==
    \A c, d \in Conns :
        /\ connState[c] = "open" /\ connState[d] = "open"
        /\ c[1] = d[1] /\ c[2] = d[2]
        => c = d

\* Why the two hold when callers keep ids to themselves (ConnInv is inductive).
\* Every id belongs to one thread at most, so between two steps of a call on an
\* id nobody else changes its entries; what the call has seen in connCache
\* (nothing for its data source; some entry, or none, for its id; only closed
\* connections once closeConnection has closed them) is still so.
Owned(t) == known[t] \cup (IF call[t].pc \in NoIdPcs THEN {} ELSE {call[t].id})

OwnIds ==
    /\ \A t \in Threads : Owned(t) \subseteq utxCache
    /\ \A t, u \in Threads : t # u => Owned(t) \cap Owned(u) = {}
    /\ \A t \in Threads : call[t].op \notin BulkOps /\ call[t].pc \notin {"bulk", "bulkClose"}

CacheKeyed ==
    \A id \in TransIds : \A ds \in Cached(id) : connCache[id][ds] \in PoolOf(id, ds)

SeenStillSo(t) ==
    LET id == call[t].id IN
    /\ call[t].pc \in {"open"} \cup PutPcs => call[t].ds \notin Cached(id)
    /\ call[t].pc = "putOld" => Cached(id) # {}
    /\ call[t].pc = "putNew" => Cached(id) = {}
    /\ call[t].pc = "dropConn" => \A c \in CachedConns(id) : connState[c] # "open"

ConnInv == OwnIds /\ CacheKeyed /\ NoOrphan /\ \A t \in Threads : SeenStillSo(t)

\* Whatever threads do with one another's ids: an entry of connCache is a
\* connection that was lent for the id and the data source it is under, it is
\* in one place only, and no commit or rollback closes a connection under the
\* hands of a call that has opened it and has yet to put it into the cache.
\* Nothing is said of two callers whose transactions were given one id, who share
\* the entries, nor of an entry that another call overwrites.
ConnectionPlaced ==
    /\ \A id \in TransIds : \A ds \in Cached(id) :
           LET c == connCache[id][ds] IN
           /\ c \in PoolOf(id, ds)
           /\ connState[c] # "fresh"
           /\ ~\E t \in Threads : Holds(t, c)
    /\ \A t, u \in Threads, c \in Conns : Holds(t, c) /\ Holds(u, c) => t = u
    /\ \A t \in Threads, c \in Conns : Holds(t, c) => connState[c] = "open"

\* getConnection answers from connCache only with a connection that is open:
\* one closed by commit or rollback is out of the cache before any later call.
NoStaleConnection ==
    [][\A t \in Threads :
           GetFetch(t) /\ call'[t].res = "ok"
               => connState[connCache[call[t].id][call[t].ds]] = "open"]_vars

\* Why it holds when close() does not throw and no two calls are on one id at a
\* time: a connection is open from when it is held to when closeConnection,
\* which then drops the map of the id, has closed it.
InCall(id, pcs) == \E t \in Threads : call[t].id = id /\ call[t].pc \in pcs

KeptOpen ==
    /\ \A id \in TransIds : \A ds \in Cached(id) :
           connState[connCache[id][ds]] = "open" \/ InCall(id, {"dropConn"})
    /\ \A t \in Threads, c \in Conns : Holds(t, c) => connState[c] = "open"

Released(id) == Opened(id) = {} /\ Cached(id) = {} /\ dsCache[id] = NoMap

\* The call op for id, on thread t, returns or throws in this step.
EndReturns(t, op, id) ==
    /\ call'[t].pc = "idle"
    /\ \/ EndTransaction(t, op, id)
       \/ call[t].pc \in ClosePcs /\ call[t].op = op /\ call[t].id = id

\* commitTransaction and rollbackTransaction return normally only when every
\* connection of the id is closed and nothing of it is cached any more, even
\* though getConnection filled the two maps in several steps.
EndReleases ==
    [][\A t \in Threads, op \in EndOps, id \in TransIds :
           EndReturns(t, op, id) /\ call'[t].res = "ok" => Released(id)']_vars

\* Why it holds for callers that keep ids to themselves, and a transaction
\* manager that does not nest: what is cached for an id in use was opened from
\* its data sources, so that ending it finds them; closeConnection has emptied
\* connCache for the id when it comes to dsCache; and a thread is left with no
\* transaction when it ends one.
EndInv ==
    \A t \in Threads :
        /\ \A id \in Owned(t) :
               \/ Cached(id) # {} => dsCache[id] # NoMap
               \/ call[t].id = id /\ call[t].pc \in {"newDs", "delUtx"}
        /\ At(t, "newDs") => call[t].id \notin known[t]
        /\ call[t].pc \in PutPcs => dsCache[call[t].id] # NoMap
        /\ At(t, "dropDs") => Cached(call[t].id) = {}
        /\ Len(txs[t]) <= 1 \/ Subtransactions

\* The same for commitAllTransaction and rollAllTransaction, for every id that
\* is registered when they return.
BulkReleases ==
    [][\A t \in Threads :
           call[t].op \in BulkOps /\ call'[t].pc = "idle" /\ call'[t].res = "ok"
               => \A id \in utxCache : Released(id)]_vars

\* Why it holds when callers take turns: the ids that the second loop of a bulk
\* call is done with are released, and stay so until it is done with them all.
BulkInv ==
    \A t \in Threads :
        /\ call[t].op \in BulkOps =>
               /\ call[t].pc \in {"bulk", "bulkClose"} \cup ClosePcs
               /\ ~At(t, "bulk") => \A id \in utxCache \ call[t].todo :
                      Released(id) \/ (call[t].pc \in ClosePcs /\ call[t].id = id)
        /\ At(t, "dropDs") => Cached(call[t].id) = {}

\* A step shows in nothing that is kept for the ids thread t knows.
Untouched(t) ==
    \A id \in known[t] :
        /\ id \in utxCache'
        /\ dsCache'[id] = dsCache[id]
        /\ connCache'[id] = connCache[id]
        /\ Opened(id)' = Opened(id)
OthersUntouched == \A t \in Threads : call'[t] = call[t] => Untouched(t)
\* As long as callers keep ids to themselves, what one thread does to its ids
\* never shows in the connections and data sources of another thread's id,
\* although all of them are entries of the same three maps.
Isolation == [][OthersUntouched]_vars

-----------------------------------------------------------------------------
(* DistDB, used by callers that keep ids to themselves, implements the     *)
(* abstract DistTransaction.                                               *)

\* An id is created when newDistTransaction stores its data sources, ended
\* when closeConnection closes, deleted when deleteDistTransaction starts.
phaseBar == [id \in TransIds |->
    CASE id \notin utxCache \/ InCall(id, {"newDs", "delUtx"}) -> "free"
      [] OTHER -> IF dsCache[id] = NoMap \/ InCall(id, {"dropConn", "dropDs"})
                  THEN "over" ELSE "ready"]
lentBar == [id \in TransIds |-> {c[2] : c \in Opened(id)}]

Abstract == INSTANCE DistTransaction WITH phase <- phaseBar, lent <- lentBar

\* To the callers of an id the interleaved steps on the three maps look like
\* the atomic operations of DistTransaction: no connection is lent after the
\* id was ended, and ending it takes all of them back at once.
ImplementsDistTransaction == Abstract!ASpec

-----------------------------------------------------------------------------
(* What comments of the code say and the code does not do.                 *)

\* IDistDBHelper: commitTransaction commits and closes the connections; so a
\* commit that the transaction manager carried out does not end in a
\* NullPointerException of the closing part.
EndedReturnsNormally ==
    [][\A t \in Threads :
           At(t, "close") /\ call[t].op \in EndOps /\ call[t].res = "ok"
               => call'[t].res # "NullPointerException"]_vars
=============================================================================
