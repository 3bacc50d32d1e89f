----------------------- MODULE DistDB_private_proofs -----------------------
(***************************************************************************)
(* Proofs about DistDB for callers that keep ids to themselves, continued: *)
(* commit and rollback release what they end, and the helper implements    *)
(* the abstract DistTransaction.                                           *)
(***************************************************************************)
EXTENDS DistDB_proofs

-----------------------------------------------------------------------------
(* EndInv is inductive, together with ConnInv.                             *)

EndFacts(t) ==
    /\ \A id \in Owned(t) :
           \/ Cached(id) # {} => dsCache[id] # NoMap
           \/ call[t].id = id /\ call[t].pc \in {"newDs", "delUtx"}
    /\ At(t, "newDs") => call[t].id \notin known[t]
    /\ call[t].pc \in PutPcs => dsCache[call[t].id] # NoMap
    /\ At(t, "dropDs") => Cached(call[t].id) = {}
    /\ Len(txs[t]) <= 1 \/ Subtransactions

LEMMA EndInvIs == EndInv <=> \A t \in Threads : EndFacts(t)
BY DEF EndInv, EndFacts

\* The transactions of the other threads are as they were.
LEMMA OthersTxs ==
    ASSUME TypeOK, NEW t \in Threads, ThreadStep(t), NEW u \in Threads, u # t
    PROVE  txs'[u] = txs[u]
<1>. USE DEF TypeOK, Push, Pop, Complete
<1>1. CASE NewStep(t)  BY <1>1 DEF NewStep, NewRefused, NewPutUtx, NewPutDs
<1>2. CASE CloseStep(t)  BY <1>2 DEF CloseStep, CloseConns, DropConnMap, DropDsMap
<1>3. CASE GetStep(t)
  BY <1>3 DEF GetStep, GetLookup, GetPeek, GetFetch, GetOpen, GetCheckMap, GetPutOld, GetPutNew
<1>4. CASE DeleteStep(t)  BY <1>4 DEF DeleteStep, DeleteDs, DeleteUtx, DeleteAll
<1>5. CASE BulkStep(t)  BY <1>5 DEF BulkStep, BulkStart, BulkEnd, BulkClose
<1>6. CASE \E id \in TransIds : BeginTransaction(t, id)
  BY <1>6 DEF BeginTransaction
<1>7. CASE \E op \in EndOps, id \in TransIds : EndTransaction(t, op, id)
  BY <1>7 DEF EndTransaction
<1>8. CASE Timeout(t)
  <2>1. PICK i \in 1 .. Len(txs[t]) : txs' = [txs EXCEPT ![t][i] = "marked"]
    BY <1>8 DEF Timeout
  <2>. QED  BY <2>1
<1>. QED  BY <1>1, <1>2, <1>3, <1>4, <1>5, <1>6, <1>7, <1>8 DEF ThreadStep

LEMMA OthersEndFacts ==
    ASSUME PrivateUse, TypeOK, OwnIds, CacheKeyed, NEW t \in Threads, ThreadStep(t),
           NEW u \in Threads, u # t, EndFacts(u)
    PROVE  EndFacts(u)'
<1>1. call'[u] = call[u] /\ known'[u] = known[u] /\ txs'[u] = txs[u]
  BY OthersUnchanged, OthersTxs DEF PrivateUse
<1>2. ASSUME NEW id \in Owned(u)
      PROVE  dsCache'[id] = dsCache[id] /\ Cached(id)' = Cached(id)
  <2>1. id \in TransIds /\ id \notin Owned(t)
    BY CallFacts DEF Owned, OwnIds, TypeOK
  <2>. QED  BY <2>1, OnlyOwnTouched DEF Touches, Cached
<1>3. Owned(u)' = Owned(u)  BY <1>1 DEF Owned
<1>4. call[u].pc \in PutPcs \cup {"dropDs"} => call[u].id \in Owned(u)
  BY DEF Owned, PutPcs, NoIdPcs
<1>5. call[u].pc = "dropDs" => Cached(call[u].id)' = Cached(call[u].id)
  <2>1. Cached(call[u].id)' = {ds \in DataSources : connCache'[call[u].id][ds] # NoConn}
    BY <1>1 DEF Cached
  <2>. QED  BY <1>2, <1>4, <2>1 DEF Cached
<1>. QED  BY <1>1, <1>2, <1>3, <1>4, <1>5 DEF EndFacts, At

\* A step that leaves the two maps and the transactions as they are, of a call
\* that does not come to hold a connection or to rely on an empty connCache.
LEMMA QuietEnd ==
    ASSUME TypeOK, NEW t \in Threads, EndFacts(t),
           UNCHANGED <<dsCache, connCache>>, Owned(t)' \subseteq Owned(t),
           call[t].pc \notin {"newDs", "delUtx"},
           call'[t].pc \notin {"newDs", "dropDs"} \cup PutPcs,
           Len(txs'[t]) <= 1 \/ Subtransactions
    PROVE  EndFacts(t)'
BY DEF EndFacts, Cached, At

\* A step that leaves utxCache as it is gives its thread no id.
LEMMA NoNewId ==
    ASSUME PrivateUse, TypeOK, OwnIds, NEW t \in Threads, ThreadStep(t), utxCache' = utxCache
    PROVE  Owned(t)' \subseteq Owned(t)
<1>1. TakesId(t) \/ DeletesId(t) \/ KeepsIds(t)
  BY OwnStep DEF OwnIds, NoBulk
<1>2. Owned(t) \subseteq utxCache  BY DEF OwnIds
<1>. QED  BY <1>1, <1>2 DEF TakesId, DeletesId, KeepsIds

\* Without nesting, beginning and ending leave a thread one transaction at most.
LEMMA DepthKept ==
    ASSUME TypeOK, NEW t \in Threads, EndFacts(t)
    PROVE  /\ \A id \in TransIds : BeginTransaction(t, id)
                  => Len(txs'[t]) <= 1 \/ Subtransactions
           /\ \A op, id : EndTransaction(t, op, id) => Len(txs'[t]) <= 1 \/ Subtransactions
           /\ Timeout(t) => Len(txs'[t]) <= 1 \/ Subtransactions
<1>1. txs[t] \in Seq(Tx) /\ (Len(txs[t]) <= 1 \/ Subtransactions)
  BY DEF TypeOK, EndFacts
<1>2. ASSUME NoTransaction(t), Push(t)
      PROVE  Len(txs'[t]) <= 1
  <2>1. txs'[t] = <<"active">> \o << >>
    BY <1>2 DEF Push, NoTransaction, TypeOK
  <2>. QED  BY <2>1
<1>3. ASSUME Pop(t), ~NoTransaction(t)  PROVE Len(txs'[t]) <= 1 \/ Subtransactions
  <2>1. txs'[t] = Tail(txs[t]) /\ txs[t] # << >>  BY <1>3 DEF Pop, NoTransaction, TypeOK
  <2>. QED  BY <1>1, <2>1
<1>4. ASSUME Timeout(t)  PROVE Len(txs'[t]) <= 1 \/ Subtransactions
  <2>1. PICK i \in 1 .. Len(txs[t]) : txs' = [txs EXCEPT ![t][i] = "marked"]
    BY <1>4 DEF Timeout
  <2>2. txs'[t] = [txs[t] EXCEPT ![i] = "marked"]
    BY <2>1 DEF TypeOK
  <2>3. Len(txs'[t]) = Len(txs[t])  BY <1>1, <2>2
  <2>. QED  BY <1>1, <2>3
<1>. QED
  BY <1>1, <1>2, <1>3, <1>4 DEF BeginTransaction, EndTransaction, Complete

LEMMA OwnEndFacts ==
    ASSUME PrivateUse, TypeOK, OwnIds, NEW t \in Threads, ThreadStep(t), EndFacts(t)
    PROVE  EndFacts(t)'
<1>. USE DEF PrivateUse, PutPcs
<1>0. /\ known[t] \subseteq Owned(t)
      /\ call[t].pc \notin NoIdPcs => call[t].id \in Owned(t) /\ call[t].id \in TransIds
      /\ Len(txs[t]) <= 1 \/ Subtransactions
  BY CallFacts DEF Owned, EndFacts
<1>1. CASE NewStep(t)
  <2>1. CASE NewRefused(t)
    BY <1>0, <2>1, NoNewId, FrameAfter, QuietEnd DEF NewRefused, Idle
  <2>2. CASE NewPutDs(t)
    <3>. DEFINE id == call[t].id
    <3>1. id \in TransIds /\ id \notin known[t] /\ call[t].dss \in SUBSET DataSources
      BY <1>0, <2>2, CallFacts DEF NewPutDs, At, EndFacts, NoIdPcs, Frame
    <3>2. connCache' = connCache /\ txs' = txs /\ call'[t].pc = "idle" /\ Owned(t)' = known'[t]
      BY <2>2, FrameAfter, OwnedReturn DEF NewPutDs
    <3>3. \/ known'[t] = known[t] \cup {id} /\ dsCache' = [dsCache EXCEPT ![id] = call[t].dss]
          \/ known'[t] = known[t] /\ dsCache' = dsCache
      BY <2>2 DEF NewPutDs, TypeOK
    <3>4. \A i \in known[t] : i \in TransIds /\ i # id /\ (Cached(i) # {} => dsCache[i] # NoMap)
      BY <1>0, <2>2, <3>1 DEF EndFacts, TypeOK
    <3>5. call[t].dss # NoMap  BY <3>1, SetsAssumption
    <3>6. \A i \in known'[t] : Cached(i)' # {} => dsCache'[i] # NoMap
      BY <3>1, <3>2, <3>3, <3>4, <3>5 DEF Cached, TypeOK
    <3>. QED  BY <1>0, <3>2, <3>6 DEF EndFacts, At
  <2>3. ASSUME NEW id \in TransIds, NEW dss \in DsLists, NewPutUtx(t, id, dss)
        PROVE  EndFacts(t)'
    <3>1. call'[t].pc = "newDs" /\ call'[t].id = id  BY <2>3, FrameAfter
    <3>2. /\ UNCHANGED <<dsCache, connCache, known, txs>> /\ call[t].pc = "idle"
          /\ id \notin utxCache
      BY <2>3 DEF NewPutUtx, Idle
    <3>3. id \notin known[t]  BY <1>0, <3>2 DEF OwnIds
    <3>4. \A i \in known[t] : Cached(i) # {} => dsCache[i] # NoMap
      BY <1>0, <3>2 DEF EndFacts
    <3>5. \A i \in Owned(t)' : i = id \/ i \in known[t]
      BY <3>1, <3>2 DEF Owned
    <3>. QED  BY <1>0, <3>1, <3>2, <3>3, <3>4, <3>5 DEF EndFacts, At, Cached
  <2>. QED  BY <1>1, <2>1, <2>2, <2>3 DEF NewStep
<1>2. CASE CloseStep(t)
  <2>. DEFINE id == call[t].id
  <2>0. /\ id \in TransIds /\ txs' = txs /\ Owned(t)' \subseteq Owned(t)
        /\ call[t].pc \in {"close", "dropConn", "dropDs"}
    BY <1>0, <1>2, NoNewId DEF CloseStep, CloseConns, DropConnMap, DropDsMap, At, NoIdPcs
  <2>1. CASE CloseConns(t)
    <3>1. call'[t].pc \in {"idle", "dropConn"}
      BY <2>1, FrameAfter, Strings DEF CloseConns
    <3>. QED  BY <1>0, <2>0, <2>1, <3>1, QuietEnd DEF CloseConns
  <2>2. CASE DropConnMap(t)
    <3>1. call'[t].pc = "dropDs" /\ call'[t].id = id
      BY <2>2, FrameAfter, Strings DEF DropConnMap
    <3>2. connCache' = [connCache EXCEPT ![id] = [ds \in DataSources |-> NoConn]]
      BY <2>2 DEF DropConnMap
    <3>3. connCache'[id] = [ds \in DataSources |-> NoConn]
      BY <2>0, <3>2 DEF TypeOK
    <3>4. Cached(call[t].id)' = {}  BY <3>1, <3>3 DEF Cached
    <3>5. \A i \in Owned(t) : i # id => i \in TransIds /\ Cached(i)' = Cached(i)
      BY <2>0, <3>2, CallFacts DEF Owned, TypeOK, Cached
    <3>6. \A i \in Owned(t)' : Cached(i)' # {} => dsCache'[i] # NoMap
      BY <2>0, <2>2, <3>3, <3>5 DEF EndFacts, DropConnMap, Cached
    <3>. QED  BY <1>0, <2>0, <3>1, <3>4, <3>6 DEF EndFacts, At
  <2>3. CASE DropDsMap(t)
    <3>1. call'[t].pc \in {"idle", "bulkClose"}
      BY <2>3, FrameAfter, Strings DEF DropDsMap
    <3>2. Cached(id) = {} /\ connCache' = connCache  BY <2>3 DEF DropDsMap, EndFacts, At
    <3>3. \A i \in TransIds : i # id => dsCache'[i] = dsCache[i]
      BY <2>0, <2>3 DEF DropDsMap, TypeOK
    <3>4. \A i \in Owned(t)' : Cached(i)' # {} => dsCache'[i] # NoMap
      BY <2>0, <2>3, <3>2, <3>3, CallFacts DEF EndFacts, Cached, Owned, DropDsMap, TypeOK, At
    <3>. QED  BY <1>0, <2>0, <3>1, <3>4 DEF EndFacts, At
  <2>. QED  BY <1>2, <2>1, <2>2, <2>3 DEF CloseStep
<1>3. CASE GetStep(t)
  <2>0. /\ dsCache' = dsCache /\ txs' = txs /\ Owned(t)' \subseteq Owned(t)
        /\ call[t].pc \notin {"newDs", "delUtx", "dropDs"}
    BY <1>3, NoNewId DEF GetStep, GetLookup, GetPeek, GetFetch, GetOpen, GetCheckMap,
                         GetPutOld, GetPutNew, At, Idle
  <2>1. ASSUME NEW id, NEW ds, GetLookup(t, id, ds)  PROVE EndFacts(t)'
    BY <1>0, <2>0, <2>1, FrameAfter, QuietEnd DEF GetLookup
  <2>2. CASE GetPeek(t) \/ GetFetch(t)
    <3>1. call'[t].pc \in {"idle", "fetch", "open"} /\ connCache' = connCache
      BY <2>2, FrameAfter, Strings DEF GetPeek, GetFetch
    <3>. QED  BY <1>0, <2>0, <3>1, QuietEnd
  <2>3. CASE GetOpen(t)
    <3>1. connCache' = connCache  BY <2>3 DEF GetOpen
    <3>2. CASE call'[t].pc = "idle"  BY <1>0, <2>0, <3>1, <3>2, QuietEnd
    <3>3. CASE call'[t].pc # "idle"
      <4>1. /\ dsCache[call[t].id] # NoMap
            /\ \E c : call' = [call EXCEPT ![t].conn = c, ![t].pc = "cacheCheck"]
        BY <2>3, <3>3, FrameAfter DEF GetOpen
      <4>2. call'[t].pc = "cacheCheck" /\ call'[t].id = call[t].id
        BY <4>1, FrameAfter
      <4>. QED  BY <1>0, <2>0, <3>1, <4>1, <4>2 DEF EndFacts, At, Cached
    <3>. QED  BY <3>2, <3>3
  <2>4. CASE GetCheckMap(t)
    <3>1. /\ call'[t].pc \in {"putOld", "putNew"} /\ call'[t].id = call[t].id
          /\ call[t].pc \in PutPcs /\ connCache' = connCache
      BY <2>4, FrameAfter, Strings DEF GetCheckMap, At
    <3>. QED  BY <1>0, <2>0, <3>1 DEF EndFacts, At, Cached
  <2>5. ASSUME GetPutOld(t) \/ GetPutNew(t)  PROVE EndFacts(t)'
    <3>1. /\ call'[t].pc = "idle" /\ call[t].pc \in PutPcs /\ call[t].id \in TransIds
          /\ dsCache[call[t].id] # NoMap
      BY <1>0, <2>5, FrameAfter DEF GetPutOld, GetPutNew, At, EndFacts, NoIdPcs
    <3>2. \A i \in TransIds : i # call[t].id => connCache'[i] = connCache[i]
      <4>1. CASE GetPutOld(t)  BY <3>1, <4>1 DEF GetPutOld, TypeOK
      <4>2. CASE GetPutNew(t)  BY <3>1, <4>2 DEF GetPutNew, TypeOK
      <4>. QED  BY <2>5, <4>1, <4>2
    <3>3. \A i \in Owned(t) : i \in TransIds  BY CallFacts DEF Owned, TypeOK
    <3>4. \A i \in Owned(t)' : Cached(i)' # {} => dsCache'[i] # NoMap
      BY <2>0, <3>1, <3>2, <3>3 DEF EndFacts, Cached
    <3>. QED  BY <1>0, <2>0, <3>1, <3>4 DEF EndFacts, At
  <2>. QED  BY <1>3, <2>1, <2>2, <2>3, <2>4, <2>5 DEF GetStep
<1>4. CASE DeleteStep(t)
  <2>1. CASE DeleteUtx(t)
    <3>1. /\ call'[t].pc = "idle" /\ Owned(t)' = known'[t]
          /\ known'[t] = known[t] \ {call[t].id}
          /\ UNCHANGED <<dsCache, connCache, txs>>
      BY <2>1, FrameAfter, OwnedReturn DEF DeleteUtx, TypeOK
    <3>2. \A i \in known[t] : i # call[t].id => (Cached(i) # {} => dsCache[i] # NoMap)
      BY <1>0 DEF EndFacts
    <3>. QED  BY <1>0, <3>1, <3>2 DEF EndFacts, At, Cached
  <2>2. ASSUME NEW id \in TransIds, DeleteDs(t, id)  PROVE EndFacts(t)'
    <3>0. Owned(t)' \subseteq Owned(t) /\ call[t].pc = "idle"
      BY <2>2, NoNewId DEF DeleteDs, Idle
    <3>1. CASE Return(t, "TransactionException") /\ UNCHANGED dsCache
      BY <1>0, <2>2, <3>0, <3>1, FrameAfter, QuietEnd DEF DeleteDs
    <3>2. CASE /\ Enter(t, "delete", "delUtx", id)
               /\ dsCache' = [dsCache EXCEPT ![id] = NoMap]
      <4>1. call'[t].pc = "delUtx" /\ call'[t].id = id  BY <3>2, FrameAfter
      <4>2. /\ UNCHANGED <<connCache, txs>>
            /\ \A i \in TransIds : i # id => dsCache'[i] = dsCache[i]
        BY <2>2, <3>2 DEF DeleteDs, TypeOK
      <4>3. \A i \in Owned(t) : i \in TransIds  BY <3>0 DEF Owned, TypeOK, NoIdPcs
      <4>4. \A i \in Owned(t) : Cached(i) # {} => dsCache[i] # NoMap
        BY <3>0 DEF EndFacts
      <4>. QED  BY <1>0, <3>0, <4>1, <4>2, <4>3, <4>4 DEF EndFacts, At, Cached
    <3>. QED  BY <2>2, <3>1, <3>2 DEF DeleteDs
  <2>. QED  BY <1>4, <2>1, <2>2 DEF DeleteStep, DeleteAll
<1>5. CASE BulkStep(t)
  BY <1>5 DEF BulkStep, BulkStart, BulkEnd, BulkClose, At, OwnIds
<1>6. ASSUME NEW id \in TransIds, BeginTransaction(t, id)  PROVE EndFacts(t)'
  <2>1. /\ call'[t].pc = "idle" /\ call[t].pc = "idle"
        /\ UNCHANGED <<utxCache, dsCache, connCache>>
    BY <1>6, FrameAfter DEF BeginTransaction, Idle
  <2>. QED  BY <1>6, <2>1, NoNewId, DepthKept, QuietEnd
<1>7. ASSUME NEW op \in EndOps, NEW id \in TransIds, EndTransaction(t, op, id)
      PROVE  EndFacts(t)'
  <2>1. /\ call'[t].pc \in {"idle", "close"} /\ call[t].pc = "idle"
        /\ UNCHANGED <<utxCache, dsCache, connCache>>
    BY <1>7, FrameAfter DEF EndTransaction, Idle
  <2>. QED  BY <1>7, <2>1, NoNewId, DepthKept, QuietEnd
<1>8. CASE Timeout(t)
  <2>1. UNCHANGED <<dsCache, connCache, call, known>>  BY <1>8 DEF Timeout
  <2>. QED  BY <1>8, <2>1, DepthKept DEF EndFacts, At, Cached, Owned
<1>. QED  BY <1>1, <1>2, <1>3, <1>4, <1>5, <1>6, <1>7, <1>8 DEF ThreadStep

\* For callers that keep ids to themselves, what is cached for an id in use was
\* opened from data sources that endTransaction finds in dsCache, connCache is
\* empty for an id when closeConnection comes to its dsCache entry, and without
\* subtransactions a thread never has two transactions.
THEOREM EndInvHolds == ASSUME PrivateUse PROVE Spec => []EndInv
<1>1. Init => EndInv
  <2>1. Returned("ok").pc = "idle"  BY DEF Returned
  <2>2. SUFFICES ASSUME Init, NEW t \in Threads  PROVE EndFacts(t)
    BY EndInvIs
  <2>3. call[t].pc = "idle" /\ known[t] = {} /\ txs[t] = << >>
    BY <2>1, <2>2 DEF Init
  <2>. QED  BY <2>3 DEF EndFacts, Owned, NoIdPcs, PutPcs, At
<1>2. TypeOK /\ ConnInv /\ EndInv /\ [Next]_vars => EndInv'
  <2>1. ASSUME TypeOK, ConnInv, EndInv, NEW t \in Threads, ThreadStep(t),
               NEW u \in Threads
        PROVE  EndFacts(u)'
    BY <2>1, EndInvIs, OthersEndFacts, OwnEndFacts DEF ConnInv
  <2>2. ASSUME EndInv, UNCHANGED vars  PROVE EndInv'
    BY <2>2 DEF vars, EndInv, Owned, Cached, At
  <2>3. (\A u \in Threads : EndFacts(u)') => EndInv'
    BY DEF EndInv, EndFacts, At
  <2>. QED  BY <2>1, <2>2, <2>3 DEF Next
<1>3. Spec => []TypeOK  BY Typing
<1>. QED  BY <1>1, <1>2, <1>3, ConnInvHolds, PTL DEF Spec

-----------------------------------------------------------------------------
(* commitTransaction and rollbackTransaction release what they end.        *)

\* Every open connection of an id that a call is on is cached, unless the call
\* holds it.
LEMMA OpenIsCached ==
    ASSUME TypeOK, ConnInv, NEW t \in Threads, call[t].pc \notin NoIdPcs \cup PutPcs,
           NEW c \in Opened(call[t].id)
    PROVE  /\ c[2] \in Cached(call[t].id)
           /\ connCache[call[t].id][c[2]] = c
<1>1. /\ c \in Conns /\ c # NoConn /\ c[1] = call[t].id /\ c[2] \in DataSources
      /\ connState[c] = "open"
  BY NoConnAssumption DEF Opened, Conns
<1>2. ASSUME NEW u \in Threads, Holds(u, c)  PROVE FALSE
  <2>1. call[u].id = call[t].id /\ call[u].pc \in PutPcs
    BY <1>1, <1>2, CallFacts DEF Holds, PoolOf
  <2>2. call[t].id \in Owned(u) /\ call[t].id \in Owned(t)
    BY <2>1 DEF Owned, PutPcs, NoIdPcs
  <2>. QED  BY <2>1, <2>2 DEF ConnInv, OwnIds
<1>3. connCache[c[1]][c[2]] = c  BY <1>1, <1>2 DEF ConnInv, NoOrphan
<1>. QED  BY <1>1, <1>3 DEF Cached

\* A thread without nesting that ends its transaction goes on to close.
LEMMA EndGoesOn ==
    ASSUME TypeOK, ~Subtransactions, NEW t \in Threads, EndFacts(t), NEW op, NEW id,
           EndTransaction(t, op, id), call'[t].pc = "idle"
    PROVE  call'[t].res # "ok"
<1>1. txs[t] \in Seq(Tx) /\ Len(txs[t]) <= 1  BY DEF EndFacts, TypeOK
<1>2. ASSUME NEW res, CloseIfEnded(t, op, id, res)
      PROVE  txs'[t] # << >> /\ Return(t, res)
  <2>1. ASSUME call' = [call EXCEPT ![t] =
                          [Returned(res) EXCEPT !.op = op, !.pc = "close", !.id = id]]
        PROVE  FALSE
    <3>1. call'[t] = [Returned(res) EXCEPT !.op = op, !.pc = "close", !.id = id]
      BY <2>1 DEF TypeOK
    <3>. QED  BY <3>1 DEF Returned
  <2>. QED  BY <1>2, <2>1 DEF CloseIfEnded
<1>3. ~NoTransaction(t) /\ Pop(t) => txs'[t] = << >>
  BY <1>1 DEF NoTransaction, Pop, TypeOK
<1>4. Return(t, "TransactionException")
  <2>1. CASE NoTransaction(t) /\ UNCHANGED txs /\ CloseIfEnded(t, op, id, "TransactionException")
    BY <1>2, <2>1
  <2>2. ASSUME NEW res, ~NoTransaction(t), Complete(t, op = "commit", res),
               CloseIfEnded(t, op, id, res)
        PROVE  Return(t, "TransactionException")
    <3>1. ~Pop(t)  BY <1>2, <1>3, <2>2
    <3>2. res = "TransactionException"  BY <2>2, <3>1 DEF Complete
    <3>. QED  BY <1>2, <2>2, <3>2
  <2>. QED  BY <2>1, <2>2 DEF EndTransaction
<1>. QED  BY <1>4, FrameAfter

\* In closeConnection only the last step returns normally.
LEMMA CloseReturns ==
    ASSUME PrivateUse, TypeOK, ConnInv, EndInv, NEW t \in Threads, ThreadStep(t),
           NEW id, call[t].id = id,
           call[t].pc \in ClosePcs, call'[t].pc = "idle", call'[t].res = "ok"
    PROVE  Released(id)'
<1>1. id \in TransIds /\ call[t].pc \notin NoIdPcs /\ call[t].op \notin BulkOps
  BY CallFacts DEF ClosePcs, NoIdPcs, ConnInv, OwnIds
<1>2. DropDsMap(t)
  <2>1. CloseStep(t)
    <3>1. ~Timeout(t)
      BY DEF Timeout, ClosePcs
    <3>. QED
      BY <3>1 DEF ThreadStep, ClosePcs, NewStep, NewRefused, NewPutDs, NewPutUtx, GetStep,
           GetLookup, GetPeek, GetFetch, GetOpen, GetCheckMap, GetPutOld, GetPutNew,
           DeleteStep, DeleteUtx, DeleteAll, DeleteDs, BulkStep, BulkEnd, BulkClose,
           BulkStart, BeginTransaction, EndTransaction, At, Idle
  <2>2. ~CloseConns(t)  BY FrameAfter, Strings DEF CloseConns
  <2>3. ~DropConnMap(t)  BY FrameAfter, Strings DEF DropConnMap
  <2>. QED  BY <2>1, <2>2, <2>3 DEF CloseStep
<1>3. /\ UNCHANGED <<connCache, connState>> /\ call[t].pc = "dropDs"
      /\ dsCache' = [dsCache EXCEPT ![id] = NoMap]
  <2>1. ~Return(t, "NullPointerException")  BY FrameAfter
  <2>. QED  BY <1>2, <2>1 DEF DropDsMap, At
<1>4. dsCache'[id] = NoMap  BY <1>1, <1>3 DEF TypeOK
<1>5. Cached(id) = {}  BY <1>3 DEF EndInv, At
<1>6. Opened(id) = {}
  <2>1. "dropDs" \notin NoIdPcs \cup PutPcs  BY DEF NoIdPcs, PutPcs
  <2>. QED  BY <1>3, <1>5, <2>1, OpenIsCached
<1>. QED  BY <1>3, <1>4, <1>5, <1>6 DEF Released, Opened, Cached

\* commitTransaction and rollbackTransaction return normally only when nothing
\* of the id is open or cached, if the transaction manager does not nest: a
\* thread that is left with a transaction does not close at all.
THEOREM EndingReleases ==
    ASSUME PrivateUse, ~Subtransactions PROVE Spec => EndReleases
<1>1. ASSUME TypeOK, ConnInv, EndInv, [Next]_vars
      PROVE  [\A t \in Threads, op \in EndOps, id \in TransIds :
                  EndReturns(t, op, id) /\ call'[t].res = "ok" => Released(id)']_vars
  <2>1. SUFFICES ASSUME NEW u \in Threads, ThreadStep(u), NEW t \in Threads,
                        NEW op \in EndOps, NEW id \in TransIds, EndReturns(t, op, id),
                        call'[t].res = "ok"
                 PROVE  Released(id)'
    BY <1>1 DEF Next
  <2>2. call'[t].pc = "idle" /\ EndFacts(t)  BY <1>1, <2>1, EndInvIs DEF EndReturns
  <2>3. ~EndTransaction(t, op, id)  BY <1>1, <2>1, <2>2, EndGoesOn
  <2>4. call[t].pc \in ClosePcs /\ call[t].id = id
    BY <2>1, <2>3 DEF EndReturns
  <2>5. u = t
    <3>1. call'[t] # call[t]  BY <2>2, <2>4 DEF ClosePcs
    <3>. QED  BY <1>1, <2>1, <3>1, OthersUnchanged
  <2>. QED  BY <1>1, <2>1, <2>2, <2>4, <2>5, CloseReturns
<1>2. Spec => []TypeOK  BY Typing
<1>. QED  BY <1>1, <1>2, ConnInvHolds, EndInvHolds, PTL DEF Spec, EndReleases

-----------------------------------------------------------------------------
(* DistDB implements DistTransaction, step by step.                        *)

Free(id)  == id \notin utxCache \/ InCall(id, {"newDs", "delUtx"})
Ended(id) == dsCache[id] = NoMap \/ InCall(id, {"dropConn", "dropDs"})

LEMMA PhaseIs ==
    ASSUME NEW id \in TransIds
    PROVE  phaseBar[id] = (IF Free(id) THEN "free" ELSE IF Ended(id) THEN "over" ELSE "ready")
BY DEF phaseBar, Free, Ended

BarPcs == {"newDs", "delUtx", "dropConn", "dropDs"}

\* The calls that phaseBar looks at are the owner's.
LEMMA InCallOwner ==
    ASSUME OwnIds, NEW t \in Threads, NEW id \in Owned(t), NEW pcs \in SUBSET BarPcs
    PROVE  InCall(id, pcs) <=> call[t].id = id /\ call[t].pc \in pcs
<1>1. ASSUME NEW u \in Threads, call[u].id = id, call[u].pc \in pcs
      PROVE  u = t
  BY <1>1 DEF OwnIds, Owned, BarPcs, NoIdPcs
<1>. QED  BY <1>1 DEF InCall

\* A step of thread t on the id i shows in nothing abstract but phase[i] and
\* lent[i].
OnlyAt(t, i) ==
    /\ \A id \in TransIds \ {i} :
           /\ id \in utxCache' <=> id \in utxCache
           /\ dsCache'[id] = dsCache[id]
           /\ Opened(id)' = Opened(id)
    /\ call[t].pc \in BarPcs => call[t].id = i
    /\ call'[t].pc \in BarPcs => call'[t].id = i

LEMMA BarAt ==
    ASSUME TypeOK, NEW t \in Threads, ThreadStep(t), NEW i \in TransIds, OnlyAt(t, i)
    PROVE  /\ phaseBar' = [phaseBar EXCEPT ![i] = phaseBar'[i]]
           /\ lentBar' = [lentBar EXCEPT ![i] = lentBar'[i]]
           /\ phaseBar'[i] = phaseBar[i] => phaseBar' = phaseBar
           /\ lentBar'[i] = lentBar[i] => lentBar' = lentBar
<1>1. ASSUME NEW id \in TransIds, id # i, NEW pcs \in SUBSET BarPcs
      PROVE  InCall(id, pcs)' <=> InCall(id, pcs)
  BY <1>1, OthersUnchanged DEF InCall, OnlyAt
<1>2. ASSUME NEW id \in TransIds, id # i
      PROVE  phaseBar'[id] = phaseBar[id] /\ lentBar'[id] = lentBar[id]
  <2>1. {"newDs", "delUtx"} \in SUBSET BarPcs /\ {"dropConn", "dropDs"} \in SUBSET BarPcs
    BY DEF BarPcs
  <2>2. (Free(id)' <=> Free(id)) /\ (Ended(id)' <=> Ended(id))
    BY <1>1, <1>2, <2>1 DEF OnlyAt, Free, Ended
  <2>3. phaseBar'[id] = phaseBar[id]
    BY <2>2 DEF phaseBar, Free, Ended
  <2>4. lentBar'[id] = lentBar[id]  BY <1>2 DEF lentBar, OnlyAt
  <2>. QED  BY <2>3, <2>4
<1>. QED  BY <1>2 DEF phaseBar, lentBar

\* A step that stutters: no abstract variable can tell it.
LEMMA QuietBar ==
    ASSUME TypeOK, NEW t \in Threads, ThreadStep(t),
           UNCHANGED <<utxCache, dsCache, connState>>,
           call[t].pc \notin BarPcs, call'[t].pc \notin BarPcs
    PROVE  UNCHANGED <<phaseBar, lentBar>>
<1>1. ASSUME NEW id \in TransIds, NEW pcs \in SUBSET BarPcs
      PROVE  InCall(id, pcs)' <=> InCall(id, pcs)
  BY OthersUnchanged DEF InCall
<1>2. {"newDs", "delUtx"} \in SUBSET BarPcs /\ {"dropConn", "dropDs"} \in SUBSET BarPcs
  BY DEF BarPcs
<1>3. \A id \in TransIds : InCall(id, {"newDs", "delUtx"})' <=> InCall(id, {"newDs", "delUtx"})
  BY <1>1, <1>2
<1>4. \A id \in TransIds : InCall(id, {"dropConn", "dropDs"})' <=> InCall(id, {"dropConn", "dropDs"})
  BY <1>1, <1>2
<1>5. phaseBar' = phaseBar  BY <1>3, <1>4 DEF phaseBar
<1>6. lentBar' = lentBar  BY DEF lentBar, Opened
<1>. QED  BY <1>5, <1>6

NotOthers(t, id) == \A u \in Threads : u # t => id \notin Owned(u)

\* An id that no other thread owns: the calls on it, before and after a step of
\* thread t, are those of t.
LEMMA CallsOn ==
    ASSUME TypeOK, NEW t \in Threads, ThreadStep(t), NEW id, NotOthers(t, id),
           NEW pcs \in SUBSET BarPcs
    PROVE  /\ InCall(id, pcs) <=> call[t].id = id /\ call[t].pc \in pcs
           /\ InCall(id, pcs)' <=> call'[t].id = id /\ call'[t].pc \in pcs
<1>1. ASSUME NEW u \in Threads, u # t, call[u].id = id  PROVE call[u].pc \notin pcs
  BY <1>1 DEF NotOthers, Owned, BarPcs, NoIdPcs
<1>. QED  BY <1>1, OthersUnchanged DEF InCall

\* So phaseBar of such an id depends on the call of t alone.
LEMMA PhaseOn ==
    ASSUME TypeOK, NEW t \in Threads, ThreadStep(t), NEW id \in TransIds, NotOthers(t, id)
    PROVE  /\ phaseBar[id] =
                (IF id \notin utxCache \/ (call[t].id = id /\ call[t].pc \in {"newDs", "delUtx"})
                 THEN "free"
                 ELSE IF dsCache[id] = NoMap \/ (call[t].id = id /\ call[t].pc \in {"dropConn", "dropDs"})
                      THEN "over" ELSE "ready")
           /\ phaseBar'[id] =
                (IF id \notin utxCache' \/ (call'[t].id = id /\ call'[t].pc \in {"newDs", "delUtx"})
                 THEN "free"
                 ELSE IF dsCache'[id] = NoMap \/ (call'[t].id = id /\ call'[t].pc \in {"dropConn", "dropDs"})
                      THEN "over" ELSE "ready")
<1>1. {"newDs", "delUtx"} \in SUBSET BarPcs /\ {"dropConn", "dropDs"} \in SUBSET BarPcs
  BY DEF BarPcs
<1>2. /\ InCall(id, {"newDs", "delUtx"})
             <=> call[t].id = id /\ call[t].pc \in {"newDs", "delUtx"}
      /\ InCall(id, {"newDs", "delUtx"})'
             <=> call'[t].id = id /\ call'[t].pc \in {"newDs", "delUtx"}
      /\ InCall(id, {"dropConn", "dropDs"})
             <=> call[t].id = id /\ call[t].pc \in {"dropConn", "dropDs"}
      /\ InCall(id, {"dropConn", "dropDs"})'
             <=> call'[t].id = id /\ call'[t].pc \in {"dropConn", "dropDs"}
  BY <1>1, CallsOn
<1>. QED  BY <1>2 DEF phaseBar

\* Every step is a step of the abstract specification, or no step at all.
AbstractStep == Abstract!ANext \/ UNCHANGED <<phaseBar, lentBar>>

LEMMA NewAbstract ==
    ASSUME PrivateUse, TypeOK, OwnIds, NEW t \in Threads, ThreadStep(t), NewStep(t)
    PROVE  AbstractStep
<1>1. CASE NewRefused(t)
  <2>1. call[t].pc = "idle" /\ call'[t].pc = "idle"
    BY <1>1, FrameAfter DEF NewRefused, Idle
  <2>. QED  BY <1>1, <2>1, QuietBar DEF NewRefused, BarPcs, AbstractStep
<1>2. ASSUME NEW id \in TransIds, NEW dss, NewPutUtx(t, id, dss)  PROVE AbstractStep
  <2>1. /\ id \notin utxCache /\ utxCache' = utxCache \cup {id}
        /\ UNCHANGED <<dsCache, connState>> /\ call[t].pc = "idle"
        /\ call'[t].pc = "newDs" /\ call'[t].id = id
    BY <1>2, FrameAfter DEF NewPutUtx, Idle, PrivateUse
  <2>2. NotOthers(t, id)  BY <2>1 DEF NotOthers, OwnIds
  <2>3. OnlyAt(t, id)  BY <2>1 DEF OnlyAt, BarPcs, Opened
  <2>4. phaseBar'[id] = phaseBar[id]  BY <2>1, <2>2, PhaseOn
  <2>5. lentBar'[id] = lentBar[id]  BY <2>1 DEF lentBar, Opened
  <2>. QED  BY <2>3, <2>4, <2>5, BarAt DEF AbstractStep
<1>3. CASE NewPutDs(t)
  <2>. DEFINE id == call[t].id
  <2>1. /\ id \in TransIds /\ id \in Owned(t) /\ call[t].pc = "newDs"
        /\ call[t].dss \in SUBSET DataSources
    BY <1>3, CallFacts DEF NewPutDs, At, NoIdPcs, Owned, Frame
  <2>2. NotOthers(t, id) /\ id \in utxCache  BY <2>1 DEF NotOthers, OwnIds
  <2>3. /\ UNCHANGED <<utxCache, connState>> /\ call'[t].pc = "idle"
        /\ \A i \in TransIds : i # id => dsCache'[i] = dsCache[i]
    BY <1>3, FrameAfter DEF NewPutDs, TypeOK
  <2>4. PICK i \in TransIds : i = id  BY <2>1
  <2>5. OnlyAt(t, i)  BY <2>1, <2>3, <2>4 DEF OnlyAt, BarPcs, Opened
  <2>6. phaseBar[i] = "free" /\ phaseBar'[i] \in {"ready", "over"}
    BY <2>1, <2>2, <2>3, <2>4, PhaseOn
  <2>7. lentBar' = lentBar  BY <2>3 DEF lentBar, Opened
  <2>. QED  BY <2>5, <2>6, <2>7, BarAt DEF AbstractStep, Abstract!ANext, Abstract!Create
<1>. QED  BY <1>1, <1>2, <1>3 DEF NewStep

\* The id of a call is no other thread's, and OnlyAt holds of it.
LEMMA CallAt ==
    ASSUME PrivateUse, TypeOK, OwnIds, CacheKeyed, NEW t \in Threads, ThreadStep(t),
           call[t].pc \notin NoIdPcs, NEW id, call[t].id = id, UNCHANGED utxCache,
           call'[t].pc \in BarPcs => call'[t].id = id
    PROVE  /\ id \in TransIds /\ id \in utxCache
           /\ NotOthers(t, id)
           /\ OnlyAt(t, id)
<1>1. id \in TransIds /\ id \in Owned(t)  BY CallFacts DEF Owned
<1>2. id \in utxCache /\ NotOthers(t, id)  BY <1>1 DEF OwnIds, NotOthers
<1>3. ASSUME NEW j \in TransIds, j # id
      PROVE  dsCache'[j] = dsCache[j] /\ Opened(j)' = Opened(j)
  <2>1. CASE j \notin Owned(t)
    BY <2>1, OnlyOwnTouched DEF Touches, Opened
  <2>2. CASE j \in Owned(t)
    <3>1. CASE CloseStep(t)
      <4>1. \A c \in CachedConns(id) : c[1] = id
        BY <1>1 DEF CachedConns, CacheKeyed, PoolOf
      <4>2. \A c \in Conns : c[1] = j => connState'[c] = connState[c]
        BY <1>3, <3>1, <4>1 DEF CloseStep, CloseConns, DropConnMap, DropDsMap, CloseAll
      <4>3. dsCache'[j] = dsCache[j]
        BY <1>1, <1>3, <3>1 DEF CloseStep, CloseConns, DropConnMap, DropDsMap, TypeOK
      <4>. QED  BY <4>2, <4>3 DEF Opened
    <3>2. CASE GetStep(t)
      <4>1. \A c \in Conns : c[1] = j => connState'[c] = connState[c]
        <5>1. CASE GetOpen(t)
          BY <1>3, <5>1 DEF GetOpen, PoolOf, TypeOK
        <5>. QED
          BY <3>2, <5>1 DEF GetStep, GetLookup, GetPeek, GetFetch, GetCheckMap,
                            GetPutOld, GetPutNew
      <4>2. dsCache' = dsCache
        BY <3>2 DEF GetStep, GetLookup, GetPeek, GetFetch, GetOpen, GetCheckMap,
                    GetPutOld, GetPutNew
      <4>. QED  BY <4>1, <4>2 DEF Opened
    <3>3. CASE NewPutDs(t)
      BY <1>1, <1>3, <3>3 DEF NewPutDs, TypeOK, Opened
    <3>4. CASE DeleteUtx(t)  BY <3>4 DEF DeleteUtx, Opened
    <3>5. CASE Timeout(t)  BY <3>5 DEF Timeout, Opened
    <3>. QED
      BY <3>1, <3>2, <3>3, <3>4, <3>5 DEF ThreadStep, NewStep, NewRefused, NewPutUtx,
           DeleteStep, DeleteDs, DeleteAll, BulkStep, BulkStart, BulkEnd, BulkClose,
           BeginTransaction, EndTransaction, At, Idle, NoIdPcs
  <2>. QED  BY <2>1, <2>2
<1>. QED  BY <1>1, <1>2, <1>3 DEF OnlyAt, BarPcs, NoIdPcs


\* Closing all connections of an id is Finish, closing a part FinishFailed; the
\* two maps are emptied in steps that do not show.
LEMMA CloseAbstract ==
    ASSUME PrivateUse, TypeOK, ConnInv, NEW t \in Threads, EndFacts(t), ThreadStep(t),
           CloseStep(t)
    PROVE  AbstractStep
<1>. PICK id : id = call[t].id  OBVIOUS
<1>0. OwnIds /\ CacheKeyed /\ UNCHANGED utxCache /\ call[t].pc \in {"close", "dropConn", "dropDs"}
  BY DEF ConnInv, CloseStep, CloseConns, DropConnMap, DropDsMap, At
<1>1. call'[t].pc \in {"idle", "bulkClose"} \/ (call'[t].pc \in {"dropConn", "dropDs"} /\ call'[t].id = id)
  BY FrameAfter, Strings DEF CloseStep, CloseConns, DropConnMap, DropDsMap
<1>2. /\ id \in TransIds /\ id \in utxCache /\ NotOthers(t, id) /\ OnlyAt(t, id)
  BY <1>0, <1>1, CallAt DEF BarPcs, NoIdPcs
<1>3. CASE CloseConns(t)
  <2>1. call[t].pc = "close" /\ UNCHANGED <<utxCache, dsCache>>
    BY <1>3 DEF CloseConns, At
  <2>2. CASE Return(t, "NullPointerException") /\ UNCHANGED connState
    <3>1. call'[t].pc = "idle"  BY <2>2, FrameAfter
    <3>. QED  BY <2>1, <2>2, <3>1, QuietBar DEF AbstractStep, BarPcs
  <2>3. ASSUME Cached(id) # {}
        PROVE  phaseBar[id] = "ready" /\ dsCache[id] # NoMap
    <3>1. dsCache[id] # NoMap
      BY <2>1, <2>3 DEF EndFacts, Owned, NoIdPcs
    <3>. QED  BY <1>2, <2>1, <3>1, PhaseOn
  <2>4. CASE Cached(id) # {} /\ CloseAll(CachedConns(id)) /\ Goto(t, "dropConn")
    <3>1. call'[t].pc = "dropConn" /\ call'[t].id = id
      BY <2>4, FrameAfter, Strings
    <3>2. phaseBar'[id] = "over"  BY <1>2, <2>1, <3>1, PhaseOn
    <3>3. Opened(id)' = {}
      <4>1. ASSUME NEW c \in Conns, c[1] = id, connState'[c] = "open"  PROVE FALSE
        <5>1. c \notin CachedConns(id) /\ c \in Opened(id)
          BY <2>4, <4>1 DEF CloseAll, Opened
        <5>2. c[2] \in Cached(id) /\ connCache[id][c[2]] = c
          BY <2>1, <5>1, OpenIsCached DEF NoIdPcs, PutPcs
        <5>. QED  BY <5>1, <5>2 DEF CachedConns
      <4>. QED  BY <4>1 DEF Opened
    <3>4. lentBar'[id] = {}  BY <1>2, <3>3 DEF lentBar
    <3>. QED
      BY <1>2, <2>3, <2>4, <3>2, <3>4, BarAt DEF AbstractStep, Abstract!ANext, Abstract!Finish
  <2>5. ASSUME Cached(id) # {}, NEW cs \in SUBSET CachedConns(id), CloseAll(cs),
               NEW r, Return(t, r)
        PROVE  AbstractStep
    <3>1. call'[t].pc = "idle"  BY <2>5, FrameAfter
    <3>2. phaseBar'[id] = "ready"  BY <1>2, <2>1, <2>3, <2>5, <3>1, PhaseOn
    <3>3. Opened(id)' \subseteq Opened(id)  BY <2>5 DEF Opened, CloseAll
    <3>4. lentBar'[id] \in SUBSET lentBar[id]  BY <1>2, <3>3 DEF lentBar
    <3>. QED
      BY <1>2, <2>3, <2>5, <3>2, <3>4, BarAt
      DEF AbstractStep, Abstract!ANext, Abstract!FinishFailed
  <2>. QED  BY <1>3, <2>2, <2>4, <2>5 DEF CloseConns
<1>4. ASSUME DropConnMap(t) \/ DropDsMap(t)  PROVE AbstractStep
  <2>1. UNCHANGED connState /\ call[t].pc \in {"dropConn", "dropDs"}
    BY <1>4 DEF DropConnMap, DropDsMap, At
  <2>2. \/ call'[t].pc = "dropDs" /\ call'[t].id = id
        \/ call'[t].pc \in {"idle", "bulkClose"} /\ dsCache'[id] = NoMap
    <3>1. CASE DropConnMap(t)  BY <3>1, FrameAfter, Strings DEF DropConnMap
    <3>2. CASE DropDsMap(t)
      BY <1>2, <3>2, FrameAfter, Strings DEF DropDsMap, TypeOK
    <3>. QED  BY <1>4, <3>1, <3>2
  <2>3. phaseBar[id] = "over" /\ phaseBar'[id] = "over"
    BY <1>0, <1>2, <2>1, <2>2, PhaseOn
  <2>4. lentBar'[id] = lentBar[id]  BY <2>1 DEF lentBar, Opened
  <2>. QED  BY <1>2, <2>3, <2>4, BarAt DEF AbstractStep
<1>. QED  BY <1>3, <1>4 DEF CloseStep

\* Only the step that opens a connection shows; it is Lend.
LEMMA GetAbstract ==
    ASSUME PrivateUse, TypeOK, ConnInv, NEW t \in Threads, EndFacts(t), ThreadStep(t),
           GetStep(t)
    PROVE  AbstractStep
<1>1. /\ UNCHANGED <<utxCache, dsCache>>
      /\ call[t].pc \in {"idle"} \cup GetPcs
  BY DEF GetStep, GetLookup, GetPeek, GetFetch, GetOpen, GetCheckMap, GetPutOld, GetPutNew,
         At, Idle, GetPcs, PutPcs
<1>2. call'[t].pc \in {"idle"} \cup GetPcs
  BY FrameAfter, Strings DEF GetStep, GetLookup, GetPeek, GetFetch, GetOpen, GetCheckMap,
                             GetPutOld, GetPutNew, GetPcs, PutPcs
<1>3. BarPcs \cap ({"idle"} \cup GetPcs) = {}  BY DEF BarPcs, GetPcs, PutPcs
<1>4. CASE UNCHANGED connState
  BY <1>1, <1>2, <1>3, <1>4, QuietBar DEF AbstractStep
<1>5. ASSUME GetOpen(t), NEW c \in PoolOf(call[t].id, call[t].ds),
             dsCache[call[t].id] # NoMap,
             connState' = [connState EXCEPT ![c] = "open"]
      PROVE  AbstractStep
  <2>. PICK id, ds : id = call[t].id /\ ds = call[t].ds  OBVIOUS
  <2>1. /\ call[t].pc = "open" /\ ds \in DataSources /\ c \in Conns /\ c[1] = id /\ c[2] = ds
        /\ OwnIds /\ CacheKeyed
    BY <1>5, CallFacts DEF GetOpen, At, PoolOf, GetPcs, ConnInv
  <2>2. /\ id \in TransIds /\ id \in utxCache /\ NotOthers(t, id) /\ OnlyAt(t, id)
    BY <1>1, <1>2, <1>3, <2>1, CallAt DEF NoIdPcs
  <2>3. phaseBar[id] = "ready" /\ phaseBar'[id] = "ready"
    BY <1>1, <1>2, <1>3, <1>5, <2>1, <2>2, PhaseOn DEF BarPcs
  <2>4. ds \notin lentBar[id]
    <3>1. ds \notin Cached(id)  BY <2>1 DEF ConnInv, SeenStillSo
    <3>2. \A d \in Opened(id) : d[2] # ds
      BY <2>1, <3>1, OpenIsCached DEF NoIdPcs, PutPcs
    <3>. QED  BY <2>2, <3>2 DEF lentBar
  <2>5. Opened(id)' = Opened(id) \cup {c}
    BY <1>5, <2>1 DEF Opened, TypeOK
  <2>6. lentBar'[id] = lentBar[id] \cup {ds}
    BY <2>1, <2>2, <2>5 DEF lentBar
  <2>7. Abstract!Lend(id, ds)
    BY <2>2, <2>3, <2>4, <2>6, BarAt DEF Abstract!Lend
  <2>. QED  BY <2>1, <2>2, <2>7 DEF AbstractStep, Abstract!ANext
<1>. QED
  BY <1>4, <1>5 DEF GetStep, GetLookup, GetPeek, GetFetch, GetOpen, GetCheckMap,
                    GetPutOld, GetPutNew

LEMMA DeleteAbstract ==
    ASSUME PrivateUse, TypeOK, OwnIds, NEW t \in Threads, ThreadStep(t), DeleteStep(t)
    PROVE  AbstractStep
<1>1. CASE DeleteUtx(t)
  <2>. PICK id : id = call[t].id  OBVIOUS
  <2>1. /\ call[t].pc = "delUtx" /\ id \in TransIds /\ id \in Owned(t) /\ call'[t].pc = "idle"
        /\ UNCHANGED <<dsCache, connState>> /\ utxCache' = utxCache \ {id}
    BY <1>1, CallFacts, FrameAfter DEF DeleteUtx, At, Owned, NoIdPcs
  <2>2. NotOthers(t, id)  BY <2>1 DEF OwnIds, NotOthers
  <2>3. OnlyAt(t, id)  BY <2>1 DEF OnlyAt, BarPcs, Opened
  <2>4. phaseBar[id] = "free" /\ phaseBar'[id] = "free"  BY <2>1, <2>2, PhaseOn
  <2>5. lentBar'[id] = lentBar[id]  BY <2>1 DEF lentBar, Opened
  <2>. QED  BY <2>1, <2>3, <2>4, <2>5, BarAt DEF AbstractStep
<1>2. ASSUME NEW id \in TransIds, DeleteDs(t, id)  PROVE AbstractStep
  <2>1. /\ call[t].pc = "idle" /\ id \in Owned(t) /\ UNCHANGED <<utxCache, connState>>
    BY <1>2 DEF DeleteDs, Idle, Owned, PrivateUse
  <2>2. id \in utxCache /\ NotOthers(t, id)  BY <2>1 DEF OwnIds, NotOthers
  <2>3. /\ call'[t].pc = "delUtx" /\ call'[t].id = id
        /\ dsCache' = [dsCache EXCEPT ![id] = NoMap]
    BY <1>2, <2>2, FrameAfter DEF DeleteDs
  <2>4. OnlyAt(t, id)  BY <2>1, <2>3 DEF OnlyAt, BarPcs, Opened, TypeOK
  <2>5. phaseBar[id] # "free" /\ phaseBar'[id] = "free"
    BY <2>1, <2>2, <2>3, PhaseOn
  <2>6. lentBar'[id] = lentBar[id]  BY <2>1 DEF lentBar, Opened
  <2>. QED
    BY <2>4, <2>5, <2>6, BarAt DEF AbstractStep, Abstract!ANext, Abstract!Delete
<1>. QED  BY <1>1, <1>2 DEF DeleteStep, DeleteAll, PrivateUse

\* DistDB implements DistTransaction: to callers that keep ids to themselves,
\* the interleaved steps of any number of threads on the three maps are the
\* atomic operations of the abstract specification, whatever fails or times out.
THEOREM Implementation ==
    ASSUME PrivateUse PROVE Spec => ImplementsDistTransaction
<1>1. Init => Abstract!AInit
  <2>. SUFFICES ASSUME Init  PROVE Abstract!AInit
    OBVIOUS
  <2>1. phaseBar = [id \in TransIds |-> "free"]  BY DEF Init, phaseBar
  <2>2. lentBar = [id \in TransIds |-> {}]  BY DEF Init, lentBar, Opened
  <2>. QED  BY <2>1, <2>2 DEF Abstract!AInit
<1>2. ASSUME TypeOK, ConnInv, EndInv, [Next]_vars
      PROVE  [Abstract!ANext]_<<phaseBar, lentBar>>
  <2>1. ASSUME NEW t \in Threads, ThreadStep(t)  PROVE AbstractStep
    <3>0. OwnIds /\ EndFacts(t)  BY <1>2, EndInvIs DEF ConnInv
    <3>1. CASE NewStep(t)  BY <1>2, <2>1, <3>0, <3>1, NewAbstract
    <3>2. CASE CloseStep(t)  BY <1>2, <2>1, <3>0, <3>2, CloseAbstract
    <3>3. CASE GetStep(t)  BY <1>2, <2>1, <3>0, <3>3, GetAbstract
    <3>4. CASE DeleteStep(t)  BY <1>2, <2>1, <3>0, <3>4, DeleteAbstract
    <3>5. ~BulkStep(t)
      BY <3>0 DEF BulkStep, BulkStart, BulkEnd, BulkClose, At, OwnIds, PrivateUse
    <3>6. CASE \E id \in TransIds : BeginTransaction(t, id)
      <4>1. call[t].pc = "idle" /\ call'[t].pc = "idle"
        BY <1>2, <3>6, FrameAfter DEF BeginTransaction, Idle
      <4>. QED
        BY <1>2, <2>1, <3>6, <4>1, QuietBar DEF BeginTransaction, AbstractStep, BarPcs
    <3>7. CASE \E op \in EndOps, id \in TransIds : EndTransaction(t, op, id)
      <4>1. call[t].pc = "idle" /\ call'[t].pc \in {"idle", "close"}
        BY <1>2, <3>7, FrameAfter DEF EndTransaction, Idle
      <4>. QED
        BY <1>2, <2>1, <3>7, <4>1, QuietBar DEF EndTransaction, AbstractStep, BarPcs
    <3>8. CASE Timeout(t)
      BY <3>8 DEF Timeout, AbstractStep, phaseBar, lentBar, InCall, Opened
    <3>. QED  BY <2>1, <3>1, <3>2, <3>3, <3>4, <3>5, <3>6, <3>7, <3>8 DEF ThreadStep
  <2>2. CASE UNCHANGED vars
    BY <2>2 DEF vars, phaseBar, lentBar, InCall, Opened
  <2>. QED  BY <1>2, <2>1, <2>2 DEF Next, AbstractStep
<1>3. Spec => []TypeOK  BY Typing
<1>. QED
  BY <1>1, <1>2, <1>3, ConnInvHolds, EndInvHolds, PTL
  DEF Spec, ImplementsDistTransaction, Abstract!ASpec, Abstract!avars
=============================================================================
