--------------------------- MODULE DistDB_proofs ---------------------------
(***************************************************************************)
(* Proofs about DistDB, for every set of threads, ids and data sources.    *)
(***************************************************************************)
EXTENDS DistDB, TLAPS

\* The sets of strings, opened once.
LEMMA Strings ==
    /\ {"ok", "null", "TransactionException", "NullPointerException",
        "ConcurrentModificationException"} \subseteq Results
    /\ {"none", "new", "get", "delete", "commit", "rollback", "commitAll", "rollAll"} \subseteq Ops
    /\ {"idle", "newDs", "peek", "fetch", "open", "delUtx", "bulk", "bulkClose", "close",
        "dropConn", "dropDs", "cacheCheck", "putOld", "putNew"} \subseteq Pcs
BY DEF Results, Exception, Ops, EndOps, BulkOps, Pcs, ClosePcs, PutPcs, GetPcs, NoIdPcs

\* The record of a returned call is a Call.
LEMMA ReturnedType ==
    ASSUME NEW r \in Results
    PROVE  Returned(r) \in Frame /\ Returned(r) \in Call
BY Strings DEF Returned, Frame, Call, NoIdPcs, GetPcs, PutPcs

-----------------------------------------------------------------------------
(* TypeOK is inductive.                                                    *)

LEMMA InitTypeOK == Init => TypeOK
<1>1. Returned("ok") \in Call  BY Strings, ReturnedType
<1>. QED  BY <1>1 DEF Init, TypeOK

LEMMA ReturnType ==
    ASSUME TypeOK, NEW t \in Threads, NEW r \in Results, Return(t, r)
    PROVE  call' \in [Threads -> Call]
BY ReturnedType DEF TypeOK, Return

LEMMA NewType ==
    ASSUME TypeOK, NEW t \in Threads, NewStep(t)
    PROVE  TypeOK'
<1>1. CASE NewRefused(t)
  BY <1>1, Strings, ReturnType DEF NewRefused, TypeOK
<1>2. CASE NewPutDs(t)
  <2>1. call[t] \in Call  BY DEF TypeOK
  <2>2. call[t].id \in TransIds /\ call[t].dss \in SUBSET DataSources
    BY <1>2, <2>1 DEF Call, Frame, NewPutDs, At, NoIdPcs
  <2>3. call' \in [Threads -> Call]  BY <1>2, Strings, ReturnType DEF NewPutDs
  <2>4. dsCache' \in [TransIds -> {NoMap} \cup SUBSET DataSources]
    BY <1>2, <2>2 DEF NewPutDs, TypeOK
  <2>5. known' \in [Threads -> SUBSET TransIds]
    BY <1>2, <2>2 DEF NewPutDs, TypeOK
  <2>. QED  BY <1>2, <2>3, <2>4, <2>5 DEF NewPutDs, TypeOK
<1>3. ASSUME NEW id \in TransIds, NEW dss \in DsLists, NewPutUtx(t, id, dss)
      PROVE  TypeOK'
  <2>1. dss \in SUBSET DataSources  BY SetsAssumption
  <2>2. [Returned("ok") EXCEPT !.op = "new", !.pc = "newDs", !.id = id, !.dss = dss] \in Call
    BY <2>1, Strings DEF Returned, Call, Frame, GetPcs, PutPcs, NoIdPcs
  <2>. QED  BY <1>3, <2>2 DEF NewPutUtx, TypeOK
<1>. QED  BY <1>1, <1>2, <1>3 DEF NewStep

\* A step that goes to pc keeps the frame of the call a Call, provided the
\* frame has what pc needs.
LEMMA GotoType ==
    ASSUME TypeOK, NEW t \in Threads, NEW pc \in Pcs, Goto(t, pc),
           call[t].pc \notin NoIdPcs \/ pc \in NoIdPcs,
           call[t].pc \in GetPcs \/ pc \notin GetPcs,
           call[t].pc \in PutPcs \/ pc \notin PutPcs
    PROVE  call' \in [Threads -> Call]
<1>1. call[t] \in Call  BY DEF TypeOK
<1>2. [call[t] EXCEPT !.pc = pc] \in Frame  BY <1>1 DEF Call, Frame
<1>3. [call[t] EXCEPT !.pc = pc] \in Call  BY <1>1, <1>2 DEF Call, Frame
<1>. QED  BY <1>3 DEF TypeOK, Goto

\* What the type of a frame says of the call it belongs to.
LEMMA CallFacts ==
    ASSUME TypeOK, NEW t \in Threads
    PROVE  /\ call[t] \in Frame
           /\ call[t].pc \notin NoIdPcs => call[t].id \in TransIds
           /\ call[t].pc \in GetPcs => call[t].ds \in DataSources
           /\ call[t].pc \in PutPcs => call[t].conn \in PoolOf(call[t].id, call[t].ds)
BY DEF TypeOK, Call

LEMMA CloseAllType ==
    ASSUME TypeOK, NEW cs, CloseAll(cs)
    PROVE  connState' \in [Conns -> {"fresh", "open", "closed"}]
BY DEF TypeOK, CloseAll

LEMMA CloseType ==
    ASSUME TypeOK, NEW t \in Threads, CloseStep(t)
    PROVE  TypeOK'
<1>. USE DEF NoIdPcs, GetPcs, PutPcs
<1>1. CASE CloseConns(t)
  <2>1. connState' \in [Conns -> {"fresh", "open", "closed"}]
    BY <1>1, CloseAllType DEF CloseConns, TypeOK
  <2>2. call[t].pc = "close"  BY <1>1 DEF CloseConns, At
  <2>3. call' \in [Threads -> Call]
    <3>1. CASE Return(t, "NullPointerException") \/ Return(t, "TransactionException")
                  \/ Return(t, "ConcurrentModificationException")
      BY <3>1, Strings, ReturnType
    <3>2. CASE Goto(t, "dropConn")  BY <3>2, <2>2, Strings, GotoType
    <3>. QED  BY <1>1, <3>1, <3>2 DEF CloseConns
  <2>. QED  BY <1>1, <2>1, <2>3 DEF CloseConns, TypeOK
<1>2. CASE DropConnMap(t)
  <2>1. call[t].pc = "dropConn" /\ call[t].id \in TransIds
    BY <1>2, CallFacts DEF DropConnMap, At
  <2>2. call' \in [Threads -> Call]
    BY <1>2, <2>1, Strings, GotoType DEF DropConnMap
  <2>3. [ds \in DataSources |-> NoConn] \in [DataSources -> {NoConn} \cup Conns]
    OBVIOUS
  <2>4. connCache' \in [TransIds -> [DataSources -> {NoConn} \cup Conns]]
    BY <1>2, <2>3 DEF DropConnMap, TypeOK
  <2>. QED  BY <1>2, <2>2, <2>4 DEF DropConnMap, TypeOK
<1>3. CASE DropDsMap(t)
  <2>1. call[t].pc = "dropDs" /\ call[t].res \in Results
    BY <1>3, CallFacts DEF DropDsMap, At, Frame
  <2>2. call' \in [Threads -> Call]
    <3>1. CASE Return(t, "NullPointerException") \/ Return(t, call[t].res)
      BY <3>1, <2>1, Strings, ReturnType
    <3>2. CASE Goto(t, "bulkClose")  BY <3>2, <2>1, Strings, GotoType
    <3>. QED  BY <1>3, <3>1, <3>2 DEF DropDsMap
  <2>3. dsCache' \in [TransIds -> {NoMap} \cup SUBSET DataSources]
    BY <1>3 DEF DropDsMap, TypeOK
  <2>. QED  BY <1>3, <2>2, <2>3 DEF DropDsMap, TypeOK
<1>. QED  BY <1>1, <1>2, <1>3 DEF CloseStep

-----------------------------------------------------------------------------
\* Begin, commit or rollback, and the timeout keep each thread's transactions
\* a sequence of transactions.
LEMMA TxType ==
    ASSUME TypeOK, NEW t \in Threads
    PROVE  /\ txs[t] \in Seq(Tx)
           /\ Push(t) => txs' \in [Threads -> Seq(Tx)]
           /\ Pop(t) /\ ~NoTransaction(t) => txs' \in [Threads -> Seq(Tx)]
<1>1. txs[t] \in Seq(Tx)  BY DEF TypeOK
<1>2. ASSUME Push(t)  PROVE txs' \in [Threads -> Seq(Tx)]
  <2>1. <<"active">> \in Seq(Tx)  BY DEF Tx
  <2>2. <<"active">> \o txs[t] \in Seq(Tx)  BY <1>1, <2>1
  <2>. QED  BY <1>2, <2>2 DEF Push, TypeOK
<1>3. ASSUME Pop(t), ~NoTransaction(t)  PROVE txs' \in [Threads -> Seq(Tx)]
  <2>1. Tail(txs[t]) \in Seq(Tx)  BY <1>1, <1>3 DEF NoTransaction
  <2>. QED  BY <1>3, <2>1 DEF Pop, TypeOK
<1>. QED  BY <1>1, <1>2, <1>3

LEMMA BeginType ==
    ASSUME TypeOK, NEW t \in Threads, NEW id \in TransIds, BeginTransaction(t, id)
    PROVE  TypeOK'
<1>1. call' \in [Threads -> Call]
  BY Strings, ReturnType DEF BeginTransaction
<1>2. txs' \in [Threads -> Seq(Tx)]
  BY TxType DEF BeginTransaction, TypeOK
<1>. QED  BY <1>1, <1>2 DEF BeginTransaction, TypeOK

LEMMA CompleteType ==
    ASSUME TypeOK, NEW t \in Threads, ~NoTransaction(t), NEW commit, NEW res,
           Complete(t, commit, res)
    PROVE  txs' \in [Threads -> Seq(Tx)]
BY TxType DEF Complete, TypeOK

LEMMA EndType ==
    ASSUME TypeOK, NEW t \in Threads, NEW op \in EndOps, NEW id \in TransIds,
           EndTransaction(t, op, id)
    PROVE  TypeOK'
<1>1. ASSUME NEW res \in Results, CloseIfEnded(t, op, id, res)
      PROVE  call' \in [Threads -> Call]
  <2>1. [Returned(res) EXCEPT !.op = op, !.pc = "close", !.id = id] \in Call
    BY Strings DEF Returned, Call, Frame, NoIdPcs, GetPcs, PutPcs, Ops
  <2>. QED  BY <1>1, <2>1, ReturnType DEF CloseIfEnded, TypeOK
<1>2. call' \in [Threads -> Call]
  BY <1>1, Strings, ReturnType DEF EndTransaction
<1>3. txs' \in [Threads -> Seq(Tx)]
  BY CompleteType DEF EndTransaction, TypeOK
<1>. QED  BY <1>2, <1>3 DEF EndTransaction, TypeOK

LEMMA TimeoutType ==
    ASSUME TypeOK, NEW t \in Threads, Timeout(t)
    PROVE  TypeOK'
<1>1. PICK i \in 1 .. Len(txs[t]) : txs' = [txs EXCEPT ![t][i] = "marked"]
  BY DEF Timeout
<1>2. txs[t] \in Seq(Tx) /\ txs[t][i] \in Tx
  BY TxType
<1>3. "marked" \in Tx  BY DEF Tx
<1>4. [txs[t] EXCEPT ![i] = "marked"] \in Seq(Tx)
  BY <1>2, <1>3
<1>5. txs' = [txs EXCEPT ![t] = [txs[t] EXCEPT ![i] = "marked"]]
  BY <1>1
<1>6. txs' \in [Threads -> Seq(Tx)]  BY <1>4, <1>5 DEF TypeOK
<1>. QED  BY <1>6 DEF Timeout, TypeOK

-----------------------------------------------------------------------------
LEMMA GetType ==
    ASSUME TypeOK, NEW t \in Threads, GetStep(t)
    PROVE  TypeOK'
<1>. USE DEF NoIdPcs, GetPcs, PutPcs
<1>1. ASSUME NEW id \in TransIds, NEW ds \in DataSources, GetLookup(t, id, ds)
      PROVE  TypeOK'
  <2>1. ASSUME NEW pc \in {"peek", "open"}
        PROVE  [Returned("ok") EXCEPT !.op = "get", !.id = id, !.ds = ds, !.pc = pc] \in Call
    BY Strings DEF Returned, Call, Frame
  <2>2. call' \in [Threads -> Call]
    BY <1>1, <2>1 DEF GetLookup, TypeOK
  <2>. QED  BY <1>1, <2>2 DEF GetLookup, TypeOK
<1>2. CASE GetPeek(t)
  <2>1. call[t].pc = "peek"  BY <1>2 DEF GetPeek, At
  <2>2. call' \in [Threads -> Call]
    BY <1>2, <2>1, Strings, ReturnType, GotoType DEF GetPeek
  <2>. QED  BY <1>2, <2>2 DEF GetPeek, TypeOK
<1>3. CASE GetFetch(t)
  <2>1. call' \in [Threads -> Call]
    BY <1>3, Strings, ReturnType DEF GetFetch
  <2>. QED  BY <1>3, <2>1 DEF GetFetch, TypeOK
<1>4. CASE GetOpen(t)
  <2>1. CASE Return(t, "TransactionException") \/ Return(t, "null")
    <3>1. call' \in [Threads -> Call]  BY <2>1, Strings, ReturnType
    <3>2. connState' \in [Conns -> {"fresh", "open", "closed"}]
      BY <1>4 DEF GetOpen, TypeOK
    <3>. QED  BY <1>4, <3>1, <3>2 DEF GetOpen, TypeOK
  <2>2. CASE \E c \in PoolOf(call[t].id, call[t].ds) :
                /\ connState' = [connState EXCEPT ![c] = "open"]
                /\ call' = [call EXCEPT ![t].conn = c, ![t].pc = "cacheCheck"]
    <3>1. PICK c \in PoolOf(call[t].id, call[t].ds) :
                /\ connState' = [connState EXCEPT ![c] = "open"]
                /\ call' = [call EXCEPT ![t].conn = c, ![t].pc = "cacheCheck"]
      BY <2>2
    <3>2. c \in Conns  BY DEF PoolOf
    <3>3. call[t] \in Frame /\ call[t].id \in TransIds /\ call[t].ds \in DataSources
      BY <1>4, CallFacts DEF GetOpen, At
    <3>4. [call[t] EXCEPT !.conn = c, !.pc = "cacheCheck"] \in Call
      BY <3>2, <3>3, Strings DEF Call, Frame
    <3>5. call' \in [Threads -> Call]  BY <3>1, <3>4 DEF TypeOK
    <3>6. connState' \in [Conns -> {"fresh", "open", "closed"}]
      BY <3>1, <3>2 DEF TypeOK
    <3>. QED  BY <1>4, <3>5, <3>6 DEF GetOpen, TypeOK
  <2>. QED  BY <1>4, <2>1, <2>2 DEF GetOpen
<1>5. CASE GetCheckMap(t)
  <2>1. call[t].pc = "cacheCheck"  BY <1>5 DEF GetCheckMap, At
  <2>2. call' \in [Threads -> Call]
    BY <1>5, <2>1, Strings, GotoType DEF GetCheckMap
  <2>. QED  BY <1>5, <2>2 DEF GetCheckMap, TypeOK
<1>6. ASSUME GetPutOld(t) \/ GetPutNew(t)  PROVE TypeOK'
  <2>1. call[t].id \in TransIds /\ call[t].ds \in DataSources /\ call[t].conn \in Conns
    BY <1>6, CallFacts DEF GetPutOld, GetPutNew, At, PoolOf
  <2>2. call' \in [Threads -> Call]
    BY <1>6, Strings, ReturnType DEF GetPutOld, GetPutNew
  <2>3. [ds \in DataSources |-> IF ds = call[t].ds THEN call[t].conn ELSE NoConn]
            \in [DataSources -> {NoConn} \cup Conns]
    BY <2>1
  <2>4. connCache' \in [TransIds -> [DataSources -> {NoConn} \cup Conns]]
    <3>1. CASE GetPutOld(t)
      <4>1. connCache[call[t].id] \in [DataSources -> {NoConn} \cup Conns]
        BY <2>1 DEF TypeOK
      <4>2. [connCache[call[t].id] EXCEPT ![call[t].ds] = call[t].conn]
                \in [DataSources -> {NoConn} \cup Conns]
        BY <2>1, <4>1
      <4>3. \/ connCache' = connCache
            \/ connCache' = [connCache EXCEPT ![call[t].id] =
                   [connCache[call[t].id] EXCEPT ![call[t].ds] = call[t].conn]]
        BY <3>1 DEF GetPutOld
      <4>. QED  BY <2>1, <4>2, <4>3 DEF TypeOK
    <3>2. CASE GetPutNew(t)  BY <2>3, <3>2 DEF GetPutNew, TypeOK
    <3>. QED  BY <1>6, <3>1, <3>2
  <2>5. UNCHANGED <<utxCache, dsCache, connState, txs, known>>
    BY <1>6 DEF GetPutOld, GetPutNew
  <2>. QED  BY <2>2, <2>4, <2>5 DEF TypeOK
<1>. QED  BY <1>1, <1>2, <1>3, <1>4, <1>5, <1>6 DEF GetStep

LEMMA DeleteType ==
    ASSUME TypeOK, NEW t \in Threads, DeleteStep(t)
    PROVE  TypeOK'
<1>1. CASE DeleteUtx(t)
  <2>1. call' \in [Threads -> Call]  BY <1>1, Strings, ReturnType DEF DeleteUtx
  <2>2. known' \in [Threads -> SUBSET TransIds]  BY <1>1 DEF DeleteUtx, TypeOK
  <2>. QED  BY <1>1, <2>1, <2>2 DEF DeleteUtx, TypeOK
<1>2. CASE DeleteAll(t)
  BY <1>2, Strings, ReturnType DEF DeleteAll, TypeOK
<1>3. ASSUME NEW id \in TransIds, DeleteDs(t, id)  PROVE TypeOK'
  <2>1. [Returned("ok") EXCEPT !.op = "delete", !.pc = "delUtx", !.id = id] \in Call
    BY Strings DEF Returned, Call, Frame, NoIdPcs, GetPcs, PutPcs
  <2>2. call' \in [Threads -> Call]
    BY <1>3, <2>1, Strings, ReturnType DEF DeleteDs, Enter, TypeOK
  <2>3. dsCache' \in [TransIds -> {NoMap} \cup SUBSET DataSources]
    BY <1>3 DEF DeleteDs, TypeOK
  <2>. QED  BY <1>3, <2>2, <2>3 DEF DeleteDs, TypeOK
<1>. QED  BY <1>1, <1>2, <1>3 DEF DeleteStep

LEMMA BulkType ==
    ASSUME TypeOK, NEW t \in Threads, BulkStep(t)
    PROVE  TypeOK'
<1>. USE DEF NoIdPcs, GetPcs, PutPcs
<1>0. call[t] \in Frame  BY CallFacts
<1>1. ASSUME NEW op \in BulkOps, BulkStart(t, op)  PROVE TypeOK'
  <2>1. [Returned("ok") EXCEPT !.op = op, !.pc = "bulk", !.todo = utxCache] \in Call
    BY Strings DEF Returned, Call, Frame, TypeOK, Ops
  <2>. QED  BY <1>1, <2>1 DEF BulkStart, TypeOK
<1>2. CASE BulkEnd(t)
  <2>1. call[t].pc = "bulk"  BY <1>2 DEF BulkEnd, At
  <2>2. ASSUME NEW ids \in SUBSET TransIds
        PROVE  /\ [call[t] EXCEPT !.pc = "bulkClose", !.todo = ids] \in Call
               /\ [call[t] EXCEPT !.todo = ids] \in Call
    BY <1>0, <2>1, Strings DEF Call, Frame
  <2>3. ASSUME NEW id, call' = [call EXCEPT ![t].todo = @ \ {id}]
        PROVE  call' \in [Threads -> Call]
    <3>1. call[t].todo \ {id} \in SUBSET TransIds  BY <1>0 DEF Frame
    <3>2. call' = [call EXCEPT ![t] = [call[t] EXCEPT !.todo = call[t].todo \ {id}]]
      BY <2>3
    <3>. QED  BY <2>2, <3>1, <3>2 DEF TypeOK
  <2>4. ASSUME call' = [call EXCEPT ![t].pc = "bulkClose", ![t].todo = utxCache]
        PROVE  call' \in [Threads -> Call]
    <3>1. call' = [call EXCEPT ![t] = [call[t] EXCEPT !.pc = "bulkClose", !.todo = utxCache]]
      BY <2>4
    <3>. QED  BY <2>2, <3>1 DEF TypeOK
  <2>5. call' \in [Threads -> Call]
    BY <1>2, <2>3, <2>4, Strings, ReturnType DEF BulkEnd
  <2>6. txs' \in [Threads -> Seq(Tx)]
    BY <1>2, CompleteType DEF BulkEnd, TypeOK
  <2>. QED  BY <1>2, <2>5, <2>6 DEF BulkEnd, TypeOK
<1>3. CASE BulkClose(t)
  <2>1. ASSUME NEW id \in call[t].todo,
               call' = [call EXCEPT ![t].pc = "close", ![t].id = id, ![t].todo = @ \ {id}]
        PROVE  call' \in [Threads -> Call]
    <3>1. call[t].todo \in SUBSET TransIds /\ id \in TransIds
      BY <1>0 DEF Frame
    <3>2. [call[t] EXCEPT !.pc = "close", !.id = id, !.todo = call[t].todo \ {id}] \in Call
      BY <1>0, <3>1, Strings DEF Call, Frame
    <3>3. call' = [call EXCEPT ![t] =
             [call[t] EXCEPT !.pc = "close", !.id = id, !.todo = call[t].todo \ {id}]]
      BY <2>1
    <3>. QED  BY <3>2, <3>3 DEF TypeOK
  <2>2. call' \in [Threads -> Call]
    BY <1>3, <2>1, Strings, ReturnType DEF BulkClose
  <2>. QED  BY <1>3, <2>2 DEF BulkClose, TypeOK
<1>. QED  BY <1>1, <1>2, <1>3 DEF BulkStep

LEMMA StepTypeOK == TypeOK /\ [Next]_vars => TypeOK'
<1>1. ASSUME TypeOK, NEW t \in Threads, ThreadStep(t)  PROVE TypeOK'
  <2>. QED
    BY <1>1, NewType, CloseType, GetType, DeleteType, BulkType, BeginType,
       EndType, TimeoutType DEF ThreadStep
<1>2. ASSUME TypeOK, UNCHANGED vars  PROVE TypeOK'
  BY <1>2 DEF TypeOK, vars
<1>. QED  BY <1>1, <1>2 DEF Next

\* TypeOK holds in every reachable state, however callers use the ids.
THEOREM Typing == Spec => []TypeOK
<1>1. Init => TypeOK  BY InitTypeOK
<1>2. TypeOK /\ [Next]_vars => TypeOK'  BY StepTypeOK
<1>. QED  BY <1>1, <1>2, PTL DEF Spec

-----------------------------------------------------------------------------
(* No connection is lost, as long as callers keep ids to themselves.       *)

PrivateUse == ~SharedIds /\ ~Collisions

\* A step of thread t leaves the calls of the other threads alone, and their ids
\* if they are not shared.
LEMMA OthersUnchanged ==
    ASSUME TypeOK, NEW t \in Threads, ThreadStep(t), NEW u \in Threads, u # t
    PROVE  call'[u] = call[u] /\ (~SharedIds => known'[u] = known[u])
<1>. USE DEF TypeOK, Return, Goto
<1>1. CASE NewStep(t)  BY <1>1 DEF NewStep, NewRefused, NewPutUtx, NewPutDs
<1>2. CASE CloseStep(t)  BY <1>2 DEF CloseStep, CloseConns, DropConnMap, DropDsMap
<1>3. CASE GetStep(t)
  BY <1>3 DEF GetStep, GetLookup, GetPeek, GetFetch, GetOpen, GetCheckMap, GetPutOld, GetPutNew
<1>4. CASE DeleteStep(t)
  BY <1>4 DEF DeleteStep, DeleteDs, DeleteUtx, DeleteAll, Enter
<1>5. CASE BulkStep(t)  BY <1>5 DEF BulkStep, BulkStart, BulkEnd, BulkClose
<1>6. CASE \E id \in TransIds : BeginTransaction(t, id)
  BY <1>6 DEF BeginTransaction
<1>7. CASE \E op \in EndOps, id \in TransIds : EndTransaction(t, op, id)
  BY <1>7 DEF EndTransaction, CloseIfEnded
<1>8. CASE Timeout(t)  BY <1>8 DEF Timeout
<1>. QED  BY <1>1, <1>2, <1>3, <1>4, <1>5, <1>6, <1>7, <1>8 DEF ThreadStep

\* The frame of a call after a step that goes on with it, makes it or opens a
\* connection for it.
LEMMA FrameAfter ==
    ASSUME TypeOK, NEW t \in Threads
    PROVE  /\ \A r : Return(t, r) => call'[t] = Returned(r) /\ call'[t].pc = "idle"
                                     /\ call'[t].res = r
           /\ \A pc \in Pcs : Goto(t, pc)
                  => /\ call'[t].pc = pc /\ call'[t].id = call[t].id
                     /\ call'[t].ds = call[t].ds /\ call'[t].op = call[t].op
                     /\ call'[t].res = call[t].res
           /\ \A op, pc, id : Enter(t, op, pc, id)
                  => call'[t].pc = pc /\ call'[t].id = id
           /\ \A id, dss : NewPutUtx(t, id, dss)
                  => call'[t].pc = "newDs" /\ call'[t].id = id
           /\ \A c : call' = [call EXCEPT ![t].conn = c, ![t].pc = "cacheCheck"]
                  => /\ call'[t].pc = "cacheCheck" /\ call'[t].id = call[t].id
                     /\ call'[t].ds = call[t].ds /\ call'[t].conn = c
           /\ \A id, ds : GetLookup(t, id, ds)
                  => call'[t].pc \in {"peek", "open"} /\ call'[t].id = id
           /\ \A op, id : EndTransaction(t, op, id)
                  => \/ call'[t].pc = "close" /\ call'[t].id = id
                     \/ call'[t].pc = "idle"
<1>. USE DEF TypeOK
<1>1. call[t] \in Frame  BY CallFacts
<1>2. \A r : Return(t, r) => call'[t] = Returned(r) /\ call'[t].pc = "idle" /\ call'[t].res = r
  BY DEF Return, Returned
<1>3. ASSUME NEW pc \in Pcs, Goto(t, pc)
      PROVE  /\ call'[t].pc = pc /\ call'[t].id = call[t].id
             /\ call'[t].ds = call[t].ds /\ call'[t].op = call[t].op
             /\ call'[t].res = call[t].res
  BY <1>1, <1>3 DEF Goto, Frame
<1>4. ASSUME NEW op, NEW pc, NEW id, Enter(t, op, pc, id)
      PROVE  call'[t].pc = pc /\ call'[t].id = id
  <2>1. call'[t] = [Returned("ok") EXCEPT !.op = op, !.pc = pc, !.id = id]
    BY <1>4 DEF Enter
  <2>. QED  BY <2>1 DEF Returned
<1>5. ASSUME NEW id, NEW dss, NewPutUtx(t, id, dss)
      PROVE  call'[t].pc = "newDs" /\ call'[t].id = id
  <2>1. call'[t] = [Returned("ok") EXCEPT !.op = "new", !.pc = "newDs", !.id = id, !.dss = dss]
    BY <1>5 DEF NewPutUtx
  <2>. QED  BY <2>1 DEF Returned
<1>6. ASSUME NEW c, call' = [call EXCEPT ![t].conn = c, ![t].pc = "cacheCheck"]
      PROVE  /\ call'[t].pc = "cacheCheck" /\ call'[t].id = call[t].id
             /\ call'[t].ds = call[t].ds /\ call'[t].conn = c
  <2>1. call'[t] = [call[t] EXCEPT !.conn = c, !.pc = "cacheCheck"]  BY <1>6
  <2>. QED  BY <1>1, <2>1 DEF Frame
<1>7. ASSUME NEW id, NEW ds, GetLookup(t, id, ds)
      PROVE  call'[t].pc \in {"peek", "open"} /\ call'[t].id = id
  <2>1. call'[t] = [Returned("ok") EXCEPT !.op = "get", !.id = id, !.ds = ds,
                        !.pc = IF Cached(id) # {} THEN "peek" ELSE "open"]
    BY <1>7 DEF GetLookup
  <2>. QED  BY <2>1 DEF Returned
<1>8. ASSUME NEW op, NEW id, EndTransaction(t, op, id)
      PROVE  (call'[t].pc = "close" /\ call'[t].id = id) \/ call'[t].pc = "idle"
  <2>1. ASSUME NEW r, call' = [call EXCEPT ![t] =
                          [Returned(r) EXCEPT !.op = op, !.pc = "close", !.id = id]]
        PROVE  call'[t].pc = "close" /\ call'[t].id = id
    <3>1. call'[t] = [Returned(r) EXCEPT !.op = op, !.pc = "close", !.id = id]
      BY <2>1
    <3>. QED  BY <3>1 DEF Returned
  <2>. QED  BY <1>2, <1>8, <2>1 DEF EndTransaction, CloseIfEnded
<1>. QED  BY <1>2, <1>3, <1>4, <1>5, <1>6, <1>7, <1>8

\* After a call has returned its thread owns only the ids its caller knows.
LEMMA OwnedReturn ==
    ASSUME TypeOK, NEW t \in Threads, NEW r, Return(t, r)
    PROVE  /\ Owned(t)' = known'[t]
           /\ call'[t].op = "none" /\ call'[t].pc = "idle"
BY DEF TypeOK, Return, Returned, Owned, NoIdPcs

LEMMA OwnedGoto ==
    ASSUME TypeOK, NEW t \in Threads, NEW pc \in Pcs, Goto(t, pc), UNCHANGED known,
           call[t].pc \notin NoIdPcs
    PROVE  /\ Owned(t)' \subseteq Owned(t)
           /\ call'[t].op = call[t].op /\ call'[t].pc = pc
<1>1. call[t] \in Frame /\ call'[t] = [call[t] EXCEPT !.pc = pc]
  BY DEF TypeOK, Call, Goto
<1>. QED  BY <1>1 DEF Frame, Owned

\* What a step does to the ids its thread owns and to utxCache: it takes a new
\* id, deletes one it owns, or keeps a part of those it owns.
TakesId(t) ==
    \E id \in TransIds : /\ id \notin utxCache /\ utxCache' = utxCache \cup {id}
                         /\ Owned(t)' \subseteq Owned(t) \cup {id}
DeletesId(t) ==
    \E id \in Owned(t) : /\ utxCache' = utxCache \ {id}
                         /\ Owned(t)' \subseteq Owned(t) \ {id}
KeepsIds(t) == utxCache' = utxCache /\ Owned(t)' \subseteq Owned(t)

NoBulk(t) == call[t].op \notin BulkOps /\ call[t].pc \notin {"bulk", "bulkClose"}

LEMMA OwnStep ==
    ASSUME PrivateUse, TypeOK, NEW t \in Threads, NoBulk(t), ThreadStep(t)
    PROVE  /\ TakesId(t) \/ DeletesId(t) \/ KeepsIds(t)
           /\ NoBulk(t)'
<1>. USE DEF NoBulk, BulkOps, PrivateUse
<1>0. known[t] \subseteq Owned(t) /\ (call[t].pc \notin NoIdPcs => call[t].id \in Owned(t))
  BY DEF Owned
<1>1. CASE NewStep(t)
  <2>1. CASE NewRefused(t)
    BY <1>0, <2>1, OwnedReturn DEF NewRefused, KeepsIds, TypeOK
  <2>2. CASE NewPutDs(t)
    <3>1. call[t].id \in Owned(t)  BY <1>0, <2>2 DEF NewPutDs, At, NoIdPcs
    <3>2. known'[t] \subseteq Owned(t)  BY <1>0, <2>2, <3>1 DEF NewPutDs, TypeOK
    <3>. QED  BY <2>2, <3>2, OwnedReturn DEF NewPutDs, KeepsIds
  <2>3. ASSUME NEW id \in TransIds, NEW dss \in DsLists, NewPutUtx(t, id, dss)
        PROVE  TakesId(t) /\ NoBulk(t)'
    <3>1. call'[t] = [Returned("ok") EXCEPT !.op = "new", !.pc = "newDs", !.id = id, !.dss = dss]
      BY <2>3 DEF NewPutUtx, TypeOK
    <3>2. call'[t].op = "new" /\ call'[t].pc = "newDs" /\ call'[t].id = id
      BY <3>1 DEF Returned
    <3>. QED  BY <1>0, <2>3, <3>2 DEF NewPutUtx, TakesId, Owned
  <2>. QED  BY <1>1, <2>1, <2>2, <2>3 DEF NewStep
<1>2. CASE CloseStep(t)
  <2>1. call[t].pc \notin NoIdPcs
    BY <1>2 DEF CloseStep, CloseConns, DropConnMap, DropDsMap, At, NoIdPcs
  <2>2. \/ \E r \in Results : Return(t, r)
        \/ \E pc \in {"dropConn", "dropDs"} : Goto(t, pc)
    BY <1>2, Strings, CallFacts DEF CloseStep, CloseConns, DropConnMap, DropDsMap, Frame
  <2>3. utxCache' = utxCache /\ known' = known
    BY <1>2 DEF CloseStep, CloseConns, DropConnMap, DropDsMap
  <2>. QED  BY <1>0, <2>1, <2>2, <2>3, Strings, OwnedReturn, OwnedGoto DEF KeepsIds
<1>3. CASE GetStep(t)
  <2>1. utxCache' = utxCache /\ known' = known
    BY <1>3 DEF GetStep, GetLookup, GetPeek, GetFetch, GetOpen, GetCheckMap, GetPutOld, GetPutNew
  <2>2. ASSUME NEW id \in TransIds, NEW ds \in DataSources, GetLookup(t, id, ds)
        PROVE  KeepsIds(t) /\ NoBulk(t)'
    <3>1. id \in known[t]  BY <2>2 DEF GetLookup
    <3>2. call'[t] = [Returned("ok") EXCEPT !.op = "get", !.id = id, !.ds = ds,
                          !.pc = IF Cached(id) # {} THEN "peek" ELSE "open"]
      BY <2>2 DEF GetLookup, TypeOK
    <3>3. call'[t].op = "get" /\ call'[t].pc \in {"peek", "open"} /\ call'[t].id = id
      BY <3>2 DEF Returned
    <3>. QED  BY <1>0, <2>1, <3>1, <3>3 DEF KeepsIds, Owned
  <2>3. CASE GetOpen(t) /\ call'[t].pc = "cacheCheck"
    <3>1. ~Return(t, "TransactionException") /\ ~Return(t, "null")
      BY <2>3 DEF Return, Returned, TypeOK
    <3>2. PICK c : call' = [call EXCEPT ![t].conn = c, ![t].pc = "cacheCheck"]
      BY <2>3, <3>1 DEF GetOpen
    <3>3. call[t] \in Frame  BY CallFacts
    <3>4. call'[t] = [call[t] EXCEPT !.conn = c, !.pc = "cacheCheck"]
      BY <3>2 DEF TypeOK
    <3>5. call'[t].op = call[t].op /\ call'[t].id = call[t].id
      BY <3>3, <3>4 DEF Frame
    <3>6. call[t].id \in Owned(t)  BY <1>0, <2>3 DEF GetOpen, At, NoIdPcs
    <3>. QED  BY <1>0, <2>1, <2>3, <3>5, <3>6 DEF KeepsIds, Owned
  <2>4. ASSUME NEW r \in Results, Return(t, r)  PROVE KeepsIds(t) /\ NoBulk(t)'
    BY <1>0, <2>1, <2>4, OwnedReturn DEF KeepsIds
  <2>5. ASSUME NEW pc \in {"fetch", "open", "putOld", "putNew"}, Goto(t, pc),
               call[t].pc \in {"peek", "cacheCheck"}
        PROVE  KeepsIds(t) /\ NoBulk(t)'
    BY <1>0, <2>1, <2>5, Strings, OwnedGoto DEF KeepsIds, NoIdPcs
  <2>6. CASE GetOpen(t) /\ call'[t].pc # "cacheCheck"
    <3>1. ASSUME NEW c, call' = [call EXCEPT ![t].conn = c, ![t].pc = "cacheCheck"]
          PROVE  FALSE
      <4>1. call[t] \in Frame  BY CallFacts
      <4>2. call'[t] = [call[t] EXCEPT !.conn = c, !.pc = "cacheCheck"]
        BY <3>1 DEF TypeOK
      <4>. QED  BY <2>6, <4>1, <4>2 DEF Frame
    <3>2. Return(t, "TransactionException") \/ Return(t, "null")
      BY <2>6, <3>1 DEF GetOpen
    <3>. QED  BY <2>4, <3>2, Strings
  <2>7. CASE GetPeek(t)  BY <2>4, <2>5, <2>7, Strings DEF GetPeek, At
  <2>8. CASE GetFetch(t)  BY <2>4, <2>8, Strings DEF GetFetch
  <2>9. CASE GetCheckMap(t)  BY <2>5, <2>9 DEF GetCheckMap, At
  <2>10. CASE GetPutOld(t) \/ GetPutNew(t)  BY <2>4, <2>10, Strings DEF GetPutOld, GetPutNew
  <2>. QED  BY <1>3, <2>2, <2>3, <2>6, <2>7, <2>8, <2>9, <2>10 DEF GetStep
<1>4. CASE DeleteStep(t)
  <2>1. CASE DeleteUtx(t)
    <3>1. call[t].id \in Owned(t)  BY <1>0, <2>1 DEF DeleteUtx, At, NoIdPcs
    <3>2. known'[t] = known[t] \ {call[t].id}  BY <2>1 DEF DeleteUtx, TypeOK
    <3>. QED  BY <1>0, <2>1, <3>1, <3>2, OwnedReturn DEF DeleteUtx, DeletesId
  <2>2. CASE DeleteAll(t)  BY <2>2 DEF DeleteAll
  <2>3. ASSUME NEW id \in TransIds, DeleteDs(t, id)  PROVE KeepsIds(t) /\ NoBulk(t)'
    <3>1. id \in known[t]  BY <2>3 DEF DeleteDs
    <3>2. CASE Return(t, "TransactionException")
      BY <1>0, <2>3, <3>2, OwnedReturn DEF DeleteDs, KeepsIds, TypeOK
    <3>3. CASE Enter(t, "delete", "delUtx", id)
      <4>1. call'[t] = [Returned("ok") EXCEPT !.op = "delete", !.pc = "delUtx", !.id = id]
        BY <3>3 DEF Enter, TypeOK
      <4>2. call'[t].op = "delete" /\ call'[t].pc = "delUtx" /\ call'[t].id = id
        BY <4>1 DEF Returned
      <4>. QED  BY <1>0, <2>3, <3>1, <4>2 DEF DeleteDs, KeepsIds, Owned
    <3>. QED  BY <2>3, <3>2, <3>3 DEF DeleteDs
  <2>. QED  BY <1>4, <2>1, <2>2, <2>3 DEF DeleteStep
<1>5. CASE BulkStep(t)
  BY <1>5 DEF BulkStep, BulkStart, BulkEnd, BulkClose, At
<1>6. ASSUME NEW id \in TransIds, BeginTransaction(t, id)  PROVE KeepsIds(t) /\ NoBulk(t)'
  BY <1>0, <1>6, OwnedReturn DEF BeginTransaction, KeepsIds, TypeOK
<1>7. ASSUME NEW op \in EndOps, NEW id \in TransIds, EndTransaction(t, op, id)
      PROVE  KeepsIds(t) /\ NoBulk(t)'
  <2>1. utxCache' = utxCache /\ known' = known /\ id \in known[t]
    BY <1>7 DEF EndTransaction
  <2>2. ASSUME NEW r, Return(t, r)  PROVE KeepsIds(t) /\ NoBulk(t)'
    BY <1>0, <2>1, <2>2, OwnedReturn DEF KeepsIds
  <2>3. ASSUME NEW r, call' = [call EXCEPT ![t] =
                          [Returned(r) EXCEPT !.op = op, !.pc = "close", !.id = id]]
        PROVE  KeepsIds(t) /\ NoBulk(t)'
    <3>1. call'[t] = [Returned(r) EXCEPT !.op = op, !.pc = "close", !.id = id]
      BY <2>3 DEF TypeOK
    <3>2. call'[t].op = op /\ call'[t].pc = "close" /\ call'[t].id = id
      BY <3>1 DEF Returned
    <3>. QED  BY <1>0, <2>1, <3>2 DEF KeepsIds, Owned, EndOps
  <2>. QED  BY <1>7, <2>2, <2>3 DEF EndTransaction, CloseIfEnded
<1>8. CASE Timeout(t)
  BY <1>0, <1>8 DEF Timeout, KeepsIds, Owned, TypeOK
<1>. QED  BY <1>1, <1>2, <1>3, <1>4, <1>5, <1>6, <1>7, <1>8 DEF ThreadStep

LEMMA OwnIdsKept ==
    ASSUME PrivateUse, TypeOK, OwnIds, NEW t \in Threads, ThreadStep(t)
    PROVE  OwnIds'
<1>1. ASSUME NEW u \in Threads, u # t
      PROVE  Owned(u)' = Owned(u) /\ (NoBulk(u) => NoBulk(u)')
  BY <1>1, OthersUnchanged DEF PrivateUse, Owned, NoBulk
<1>2. \A u \in Threads : NoBulk(u)  BY DEF OwnIds, NoBulk
<1>3. /\ TakesId(t) \/ DeletesId(t) \/ KeepsIds(t)
      /\ \A u \in Threads : NoBulk(u)'
  BY <1>1, <1>2, OwnStep
<1>4. \A u \in Threads : Owned(u) \subseteq utxCache
  BY DEF OwnIds
<1>5. \A u, v \in Threads : u # v => Owned(u) \cap Owned(v) = {}
  BY DEF OwnIds
<1>6. \A u \in Threads : Owned(u)' \subseteq utxCache'
  BY <1>1, <1>3, <1>4, <1>5 DEF TakesId, DeletesId, KeepsIds
<1>7. ASSUME NEW u \in Threads, u # t  PROVE Owned(t)' \cap Owned(u)' = {}
  BY <1>1, <1>3, <1>4, <1>5, <1>7 DEF TakesId, DeletesId, KeepsIds
<1>8. \A u, v \in Threads : u # v => Owned(u)' \cap Owned(v)' = {}
  BY <1>1, <1>5, <1>7
<1>. QED  BY <1>3, <1>6, <1>8 DEF OwnIds, NoBulk

\* A step of thread t touches only the entries and the connections of the ids
\* that t owns.
Touches(id) == ~/\ dsCache'[id] = dsCache[id]
                /\ connCache'[id] = connCache[id]
                /\ \A c \in Conns : c[1] = id => connState'[c] = connState[c]

LEMMA OnlyOwnTouched ==
    ASSUME PrivateUse, TypeOK, OwnIds, CacheKeyed, NEW t \in Threads, ThreadStep(t),
           NEW id \in TransIds, id \notin Owned(t)
    PROVE  ~Touches(id)
<1>. USE DEF Touches, PrivateUse
<1>0. known[t] \subseteq Owned(t) /\ (call[t].pc \notin NoIdPcs => call[t].id \in Owned(t))
  BY DEF Owned
<1>1. ASSUME UNCHANGED <<connCache, connState>>,
             \/ UNCHANGED dsCache
             \/ \E i \in Owned(t) : \E m : dsCache' = [dsCache EXCEPT ![i] = m]
      PROVE  ~Touches(id)
  BY <1>1 DEF TypeOK
<1>2. ASSUME UNCHANGED <<dsCache, connState>>,
             \/ UNCHANGED connCache
             \/ \E i \in Owned(t) : \E m : connCache' = [connCache EXCEPT ![i] = m]
      PROVE  ~Touches(id)
  BY <1>2 DEF TypeOK
<1>3. CASE NewStep(t)
  BY <1>0, <1>1, <1>3 DEF NewStep, NewRefused, NewPutUtx, NewPutDs, At, NoIdPcs
<1>4. CASE CloseStep(t)
  <2>1. CASE CloseConns(t)
    <3>1. call[t].id \in Owned(t)  BY <1>0, <2>1 DEF CloseConns, At, NoIdPcs
    <3>2. call[t].id \in TransIds  BY <2>1, CallFacts DEF CloseConns, At, NoIdPcs
    <3>3. \A c \in CachedConns(call[t].id) : c[1] = call[t].id
      BY <3>2 DEF CachedConns, CacheKeyed, PoolOf
    <3>4. ASSUME NEW cs \in SUBSET CachedConns(call[t].id), CloseAll(cs)
          PROVE  \A c \in Conns : c[1] = id => connState'[c] = connState[c]
      BY <3>1, <3>3, <3>4 DEF CloseAll
    <3>. QED  BY <2>1, <3>4 DEF CloseConns
  <2>2. CASE DropConnMap(t)  BY <1>0, <1>2, <2>2 DEF DropConnMap, At, NoIdPcs
  <2>3. CASE DropDsMap(t)  BY <1>0, <1>1, <2>3 DEF DropDsMap, At, NoIdPcs
  <2>. QED  BY <1>4, <2>1, <2>2, <2>3 DEF CloseStep
<1>5. CASE GetStep(t)
  <2>1. CASE GetOpen(t)
    <3>1. call[t].id \in Owned(t)  BY <1>0, <2>1 DEF GetOpen, At, NoIdPcs
    <3>2. \A c \in PoolOf(call[t].id, call[t].ds) : c[1] = call[t].id  BY DEF PoolOf
    <3>. QED  BY <2>1, <3>1, <3>2 DEF GetOpen, TypeOK
  <2>2. CASE GetPutOld(t)
    <3>1. \/ UNCHANGED connCache
          \/ connCache' = [connCache EXCEPT ![call[t].id] =
                 [connCache[call[t].id] EXCEPT ![call[t].ds] = call[t].conn]]
      BY <2>2 DEF GetPutOld
    <3>. QED  BY <1>0, <1>2, <2>2, <3>1 DEF GetPutOld, At, NoIdPcs
  <2>3. CASE GetPutNew(t)  BY <1>0, <1>2, <2>3 DEF GetPutNew, At, NoIdPcs
  <2>. QED
    BY <1>1, <1>5, <2>1, <2>2, <2>3 DEF GetStep, GetLookup, GetPeek, GetFetch, GetCheckMap
<1>6. CASE DeleteStep(t)
  BY <1>0, <1>1, <1>6 DEF DeleteStep, DeleteDs, DeleteUtx, DeleteAll
<1>7. CASE BulkStep(t)  BY <1>1, <1>7 DEF BulkStep, BulkStart, BulkEnd, BulkClose
<1>8. CASE \E i \in TransIds : BeginTransaction(t, i)  BY <1>1, <1>8 DEF BeginTransaction
<1>9. CASE \E op \in EndOps, i \in TransIds : EndTransaction(t, op, i)
  BY <1>1, <1>9 DEF EndTransaction
<1>10. CASE Timeout(t)  BY <1>1, <1>10 DEF Timeout
<1>. QED  BY <1>3, <1>4, <1>5, <1>6, <1>7, <1>8, <1>9, <1>10 DEF ThreadStep

\* So what a call of another thread has seen in connCache is still so.
LEMMA OthersStillSo ==
    ASSUME PrivateUse, TypeOK, OwnIds, CacheKeyed, NEW t \in Threads, ThreadStep(t),
           NEW u \in Threads, u # t, SeenStillSo(u)
    PROVE  SeenStillSo(u)'
<1>1. call'[u] = call[u]  BY OthersUnchanged
<1>2. CASE call[u].pc \in NoIdPcs
  BY <1>1, <1>2 DEF SeenStillSo, NoIdPcs, PutPcs
<1>3. CASE call[u].pc \notin NoIdPcs
  <2>. DEFINE id == call[u].id
  <2>1. id \in TransIds /\ id \notin Owned(t)
    BY <1>3, CallFacts DEF Owned, OwnIds
  <2>2. /\ connCache'[id] = connCache[id]
        /\ \A c \in Conns : c[1] = id => connState'[c] = connState[c]
    BY <2>1, OnlyOwnTouched DEF Touches
  <2>3. Cached(id)' = Cached(id) /\ CachedConns(id)' = CachedConns(id)
    BY <1>1, <2>2 DEF Cached, CachedConns
  <2>4. \A c \in CachedConns(id) : c \in Conns /\ c[1] = id
    BY <2>1 DEF CachedConns, CacheKeyed, PoolOf
  <2>. QED  BY <1>1, <2>2, <2>3, <2>4 DEF SeenStillSo
<1>. QED  BY <1>2, <1>3

-----------------------------------------------------------------------------
(* What thread t itself has seen, and the place of every open connection.  *)

ConnFacts(t) == CacheKeyed /\ NoOrphan /\ SeenStillSo(t)

\* A step that changes neither connCache nor the state of a connection, of a
\* call that neither holds a connection nor comes to rely on connCache.
LEMMA QuietStep ==
    ASSUME TypeOK, NEW t \in Threads, ThreadStep(t), ConnFacts(t),
           UNCHANGED <<connCache, connState>>,
           call[t].pc \notin PutPcs,
           call'[t].pc \notin {"open", "dropConn"} \cup PutPcs
    PROVE  ConnFacts(t)'
<1>1. \A u \in Threads, c \in Conns : Holds(u, c) => Holds(u, c)'
  BY OthersUnchanged DEF Holds
<1>2. NoOrphan'  BY <1>1 DEF ConnFacts, NoOrphan
<1>3. CacheKeyed'  BY DEF ConnFacts, CacheKeyed, Cached
<1>4. SeenStillSo(t)'  BY DEF SeenStillSo, PutPcs
<1>. QED  BY <1>2, <1>3, <1>4 DEF ConnFacts

LEMMA CloseKeeps ==
    ASSUME TypeOK, NEW t \in Threads, ThreadStep(t), ConnFacts(t), CloseStep(t)
    PROVE  ConnFacts(t)'
<1>. USE DEF NoIdPcs
<1>0. /\ CacheKeyed /\ NoOrphan /\ SeenStillSo(t)
      /\ call[t].pc \in ClosePcs /\ call[t].id \in TransIds
  BY CallFacts DEF ConnFacts, CloseStep, CloseConns, DropConnMap, DropDsMap, At, ClosePcs
<1>1. CASE CloseConns(t)
  <2>1. connCache' = connCache  BY <1>1 DEF CloseConns
  <2>2. \A c \in Conns : connState'[c] = "open" => connState[c] = "open"
    BY <1>1 DEF CloseConns, CloseAll
  <2>3. \A u \in Threads, c \in Conns : Holds(u, c) => Holds(u, c)'
    BY <1>0, OthersUnchanged DEF Holds, ClosePcs, PutPcs
  <2>4. NoOrphan'  BY <1>0, <2>1, <2>2, <2>3 DEF NoOrphan
  <2>5. CacheKeyed'  BY <1>0, <2>1 DEF CacheKeyed, Cached
  <2>6. CASE \E r : Return(t, r)
    <3>1. call'[t].pc = "idle"  BY <2>6, OwnedReturn
    <3>. QED  BY <2>4, <2>5, <3>1 DEF ConnFacts, SeenStillSo, PutPcs
  <2>7. CASE Goto(t, "dropConn") /\ CloseAll(CachedConns(call[t].id))
    <3>1. call'[t].pc = "dropConn" /\ call'[t].id = call[t].id
      BY <2>7, CallFacts DEF Goto, TypeOK, Frame
    <3>2. CachedConns(call[t].id)' = CachedConns(call[t].id)
      BY <2>1, <3>1 DEF CachedConns, Cached
    <3>3. \A c \in CachedConns(call[t].id) : c \in Conns
      BY <1>0 DEF CachedConns, CacheKeyed, PoolOf
    <3>4. \A c \in CachedConns(call[t].id) : connState'[c] # "open"
      BY <2>7, <3>3 DEF CloseAll
    <3>. QED  BY <2>4, <2>5, <3>1, <3>2, <3>4 DEF ConnFacts, SeenStillSo, PutPcs
  <2>. QED  BY <1>1, <2>6, <2>7 DEF CloseConns
<1>2. CASE DropConnMap(t)
  <2>. DEFINE id == call[t].id
  <2>1. /\ connCache' = [connCache EXCEPT ![id] = [ds \in DataSources |-> NoConn]]
        /\ connState' = connState /\ call[t].pc = "dropConn"
    BY <1>2 DEF DropConnMap, At
  <2>2. \A c \in CachedConns(id) : connState[c] # "open"
    BY <1>0, <2>1 DEF SeenStillSo
  <2>3. ASSUME NEW c \in Conns, connState[c] = "open", connCache[c[1]][c[2]] = c
        PROVE  c[1] # id
    <3>1. c[2] \in DataSources /\ c # NoConn  BY NoConnAssumption DEF Conns
    <3>. QED  BY <2>2, <2>3, <3>1 DEF CachedConns, Cached
  <2>4. \A u \in Threads, c \in Conns : Holds(u, c) => Holds(u, c)'
    BY <1>0, OthersUnchanged DEF Holds, ClosePcs, PutPcs
  <2>5. NoOrphan'  BY <1>0, <2>1, <2>3, <2>4 DEF NoOrphan, TypeOK
  <2>6. CacheKeyed'  BY <1>0, <2>1 DEF CacheKeyed, Cached, TypeOK
  <2>7. call'[t].pc = "dropDs"  BY <1>2, CallFacts DEF DropConnMap, Goto, TypeOK, Frame
  <2>. QED  BY <2>5, <2>6, <2>7 DEF ConnFacts, SeenStillSo, PutPcs
<1>3. CASE DropDsMap(t)
  <2>1. call'[t].pc \in {"idle", "bulkClose"}
    BY <1>3, OwnedReturn, CallFacts DEF DropDsMap, Goto, TypeOK, Frame
  <2>. QED  BY <1>0, <1>3, <2>1, QuietStep DEF DropDsMap, ClosePcs, PutPcs
<1>. QED  BY <1>1, <1>2, <1>3 DEF CloseStep

LEMMA GetKeeps ==
    ASSUME TypeOK, NEW t \in Threads, ThreadStep(t), ConnFacts(t), GetStep(t)
    PROVE  ConnFacts(t)'
<1>. USE DEF NoIdPcs, GetPcs, PutPcs
<1>0. CacheKeyed /\ NoOrphan /\ SeenStillSo(t)  BY DEF ConnFacts
<1>1. ASSUME NEW id \in TransIds, NEW ds \in DataSources, GetLookup(t, id, ds)
      PROVE  ConnFacts(t)'
  <2>1. call'[t] = [Returned("ok") EXCEPT !.op = "get", !.id = id, !.ds = ds,
                        !.pc = IF Cached(id) # {} THEN "peek" ELSE "open"]
    BY <1>1 DEF GetLookup, TypeOK
  <2>2. /\ call'[t].pc = (IF Cached(id) # {} THEN "peek" ELSE "open")
        /\ call'[t].id = id /\ call'[t].ds = ds
    BY <2>1 DEF Returned
  <2>3. CASE call'[t].pc = "peek"
    BY <1>1, <2>3, QuietStep DEF GetLookup, Idle
  <2>4. CASE call'[t].pc = "open"
    <3>1. ds \notin Cached(id)  BY <2>2, <2>4
    <3>2. connCache' = connCache  BY <1>1 DEF GetLookup
    <3>3. ~(ds \in DataSources /\ connCache'[id][ds] # NoConn)
      BY <3>1, <3>2 DEF Cached
    <3>4. SeenStillSo(t)'  BY <2>2, <2>4, <3>3 DEF SeenStillSo, Cached
    <3>0. \A u \in Threads, c \in Conns : Holds(u, c) => Holds(u, c)'
      <4>1. call[t].pc = "idle"  BY <1>1 DEF GetLookup, Idle
      <4>. QED  BY <4>1, OthersUnchanged DEF Holds
    <3>7. UNCHANGED <<connCache, connState>>  BY <1>1 DEF GetLookup
    <3>5. NoOrphan'  BY <1>0, <3>0, <3>7 DEF NoOrphan
    <3>6. CacheKeyed'  BY <1>0, <1>1 DEF GetLookup, CacheKeyed, Cached
    <3>. QED  BY <3>4, <3>5, <3>6 DEF ConnFacts
  <2>. QED  BY <2>2, <2>3, <2>4
<1>2. CASE GetPeek(t)
  <2>1. CASE Return(t, "NullPointerException")
    BY <1>2, <2>1, OwnedReturn, QuietStep DEF GetPeek, At
  <2>2. CASE Goto(t, "fetch")
    <3>1. call'[t].pc = "fetch"  BY <2>2, CallFacts DEF Goto, TypeOK, Frame
    <3>. QED  BY <1>2, <3>1, QuietStep DEF GetPeek, At
  <2>3. CASE Goto(t, "open") /\ call[t].ds \notin Cached(call[t].id)
    <3>1. call'[t].pc = "open" /\ call'[t].id = call[t].id /\ call'[t].ds = call[t].ds
      BY <2>3, CallFacts DEF Goto, TypeOK, Frame
    <3>2. connCache' = connCache  BY <1>2 DEF GetPeek
    <3>3. SeenStillSo(t)'  BY <2>3, <3>1, <3>2 DEF SeenStillSo, Cached
    <3>4. NoOrphan'
      BY <1>0, <1>2, OthersUnchanged DEF GetPeek, NoOrphan, Holds, At
    <3>5. CacheKeyed'  BY <1>0, <1>2 DEF GetPeek, CacheKeyed, Cached
    <3>. QED  BY <3>3, <3>4, <3>5 DEF ConnFacts
  <2>. QED  BY <1>2, <2>1, <2>2, <2>3 DEF GetPeek
<1>3. CASE GetFetch(t)
  BY <1>3, OwnedReturn, QuietStep DEF GetFetch, At
<1>4. CASE GetOpen(t)
  <2>1. CASE Return(t, "TransactionException") \/ Return(t, "null")
    <3>1. UNCHANGED connState
      <4>1. ASSUME NEW c, call' = [call EXCEPT ![t].conn = c, ![t].pc = "cacheCheck"]
            PROVE  FALSE
        <5>1. call'[t] = [call[t] EXCEPT !.conn = c, !.pc = "cacheCheck"]
          BY <4>1 DEF TypeOK
        <5>2. call'[t].pc = "cacheCheck"  BY <5>1, CallFacts DEF Frame
        <5>. QED  BY <2>1, <5>2, OwnedReturn
      <4>. QED  BY <1>4, <4>1 DEF GetOpen
    <3>. QED  BY <1>4, <2>1, <3>1, OwnedReturn, QuietStep DEF GetOpen, At
  <2>2. CASE \E c \in PoolOf(call[t].id, call[t].ds) :
                /\ connState' = [connState EXCEPT ![c] = "open"]
                /\ call' = [call EXCEPT ![t].conn = c, ![t].pc = "cacheCheck"]
    <3>1. PICK c \in PoolOf(call[t].id, call[t].ds) :
                /\ connState' = [connState EXCEPT ![c] = "open"]
                /\ call' = [call EXCEPT ![t].conn = c, ![t].pc = "cacheCheck"]
      BY <2>2
    <3>2. connCache' = connCache /\ call[t].pc = "open"  BY <1>4 DEF GetOpen, At
    <3>3. call'[t] = [call[t] EXCEPT !.conn = c, !.pc = "cacheCheck"]
      BY <3>1 DEF TypeOK
    <3>4. /\ call'[t].conn = c /\ call'[t].pc = "cacheCheck"
          /\ call'[t].id = call[t].id /\ call'[t].ds = call[t].ds
      BY <3>3, CallFacts DEF Frame
    <3>5. \A u \in Threads, d \in Conns : Holds(u, d) => Holds(u, d)'
      BY <3>2, OthersUnchanged DEF Holds
    <3>6. Holds(t, c)'  BY <3>4 DEF Holds
    <3>7. NoOrphan'  BY <1>0, <3>1, <3>2, <3>5, <3>6 DEF NoOrphan, TypeOK
    <3>8. SeenStillSo(t)'  BY <1>0, <3>2, <3>4 DEF SeenStillSo, Cached
    <3>9. CacheKeyed'  BY <1>0, <3>2 DEF CacheKeyed, Cached
    <3>. QED  BY <3>7, <3>8, <3>9 DEF ConnFacts
  <2>. QED  BY <1>4, <2>1, <2>2 DEF GetOpen
<1>5. CASE GetCheckMap(t)
  <2>1. /\ call[t].pc = "cacheCheck" /\ UNCHANGED <<connCache, connState>>
        /\ Goto(t, IF Cached(call[t].id) # {} THEN "putOld" ELSE "putNew")
    BY <1>5 DEF GetCheckMap, At
  <2>2. /\ call'[t].pc = (IF Cached(call[t].id) # {} THEN "putOld" ELSE "putNew")
        /\ call'[t].id = call[t].id /\ call'[t].ds = call[t].ds
        /\ call'[t].conn = call[t].conn
    BY <2>1, CallFacts DEF Goto, TypeOK, Frame
  <2>3. \A u \in Threads, c \in Conns : Holds(u, c) => Holds(u, c)'
    BY <2>1, <2>2, OthersUnchanged DEF Holds
  <2>4. NoOrphan'  BY <1>0, <2>1, <2>3 DEF NoOrphan
  <2>5. SeenStillSo(t)'  BY <1>0, <2>1, <2>2 DEF SeenStillSo, Cached
  <2>6. CacheKeyed'  BY <1>0, <2>1 DEF CacheKeyed, Cached
  <2>. QED  BY <2>4, <2>5, <2>6 DEF ConnFacts
<1>6. ASSUME GetPutOld(t) \/ GetPutNew(t)  PROVE ConnFacts(t)'
  <2>. DEFINE id == call[t].id
              ds == call[t].ds
              conn == call[t].conn
  <2>1. /\ id \in TransIds /\ ds \in DataSources /\ conn \in PoolOf(id, ds)
        /\ conn \in Conns /\ conn # NoConn /\ call[t].pc \in {"putOld", "putNew"}
    BY <1>6, CallFacts, NoConnAssumption DEF GetPutOld, GetPutNew, At, PoolOf
  <2>2. connCache[id][ds] = NoConn  BY <1>0, <2>1 DEF SeenStillSo, Cached
  <2>3. connState' = connState /\ call'[t].pc = "idle"
    BY <1>6, OwnedReturn DEF GetPutOld, GetPutNew
  <2>4. connCache' = [connCache EXCEPT ![id] = [connCache[id] EXCEPT ![ds] = conn]]
    <3>1. CASE GetPutOld(t)
      BY <1>0, <3>1 DEF GetPutOld, At, SeenStillSo
    <3>2. CASE GetPutNew(t)
      <4>1. \A d \in DataSources : connCache[id][d] = NoConn
        BY <1>0, <3>2 DEF GetPutNew, At, SeenStillSo, Cached
      <4>2. connCache[id] \in [DataSources -> {NoConn} \cup Conns]
        BY <2>1 DEF TypeOK
      <4>3. [connCache[id] EXCEPT ![ds] = conn]
                = [d \in DataSources |-> IF d = ds THEN conn ELSE NoConn]
        BY <2>1, <4>1, <4>2
      <4>. QED  BY <3>2, <4>3 DEF GetPutNew
    <3>. QED  BY <1>6, <3>1, <3>2
  <2>5. connCache'[id][ds] = conn
    BY <2>1, <2>4 DEF TypeOK
  <2>6. \A i \in TransIds, d \in DataSources :
            <<i, d>> # <<id, ds>> => connCache'[i][d] = connCache[i][d]
    BY <2>1, <2>4 DEF TypeOK
  <2>7. CacheKeyed'
    BY <1>0, <2>1, <2>5, <2>6 DEF CacheKeyed, Cached
  <2>8. ASSUME NEW c \in Conns, connState[c] = "open"
        PROVE  connCache'[c[1]][c[2]] = c \/ \E u \in Threads : Holds(u, c)'
    <3>1. c[1] \in TransIds /\ c[2] \in DataSources /\ c # NoConn
      BY NoConnAssumption DEF Conns
    <3>2. CASE connCache[c[1]][c[2]] = c  BY <2>2, <2>6, <3>1, <3>2
    <3>3. CASE Holds(t, c)  BY <2>1, <2>5, <3>3 DEF Holds, PoolOf
    <3>4. ASSUME NEW u \in Threads, u # t, Holds(u, c)  PROVE Holds(u, c)'
      BY <3>4, OthersUnchanged DEF Holds
    <3>. QED  BY <1>0, <2>8, <3>2, <3>3, <3>4 DEF NoOrphan
  <2>9. NoOrphan'  BY <2>3, <2>8 DEF NoOrphan
  <2>10. SeenStillSo(t)'  BY <2>3 DEF SeenStillSo
  <2>. QED  BY <2>7, <2>9, <2>10 DEF ConnFacts
<1>. QED  BY <1>1, <1>2, <1>3, <1>4, <1>5, <1>6 DEF GetStep

LEMMA OwnStillSo ==
    ASSUME PrivateUse, TypeOK, NEW t \in Threads, NoBulk(t), ThreadStep(t), ConnFacts(t)
    PROVE  ConnFacts(t)'
<1>. USE DEF PutPcs
<1>1. CASE NewStep(t)
  <2>1. call'[t].pc \in {"idle", "newDs"}
    <3>1. CASE \E r : Return(t, r)  BY <3>1, OwnedReturn
    <3>2. ASSUME NEW id, NEW dss, NewPutUtx(t, id, dss)  PROVE call'[t].pc = "newDs"
      <4>1. call'[t] = [Returned("ok") EXCEPT !.op = "new", !.pc = "newDs", !.id = id, !.dss = dss]
        BY <3>2 DEF NewPutUtx, TypeOK
      <4>. QED  BY <4>1 DEF Returned
    <3>. QED  BY <1>1, <3>1, <3>2 DEF NewStep, NewRefused, NewPutDs
  <2>. QED  BY <1>1, <2>1, QuietStep DEF NewStep, NewRefused, NewPutUtx, NewPutDs, Idle, At
<1>2. CASE CloseStep(t)  BY <1>2, CloseKeeps
<1>3. CASE GetStep(t)  BY <1>3, GetKeeps
<1>4. CASE DeleteStep(t)
  <2>1. call'[t].pc \in {"idle", "delUtx"}
    <3>1. CASE \E r : Return(t, r)  BY <3>1, OwnedReturn
    <3>2. ASSUME NEW id, Enter(t, "delete", "delUtx", id)  PROVE call'[t].pc = "delUtx"
      <4>1. call'[t] = [Returned("ok") EXCEPT !.op = "delete", !.pc = "delUtx", !.id = id]
        BY <3>2 DEF Enter, TypeOK
      <4>. QED  BY <4>1 DEF Returned
    <3>. QED  BY <1>4, <3>1, <3>2 DEF DeleteStep, DeleteDs, DeleteUtx, DeleteAll
  <2>. QED  BY <1>4, <2>1, QuietStep DEF DeleteStep, DeleteDs, DeleteUtx, DeleteAll, Idle, At
<1>5. CASE BulkStep(t)
  BY <1>5 DEF BulkStep, BulkStart, BulkEnd, BulkClose, At, NoBulk, PrivateUse
<1>6. CASE \E id \in TransIds : BeginTransaction(t, id)
  BY <1>6, OwnedReturn, QuietStep DEF BeginTransaction, Idle
<1>7. ASSUME NEW op \in EndOps, NEW id \in TransIds, EndTransaction(t, op, id)
      PROVE  ConnFacts(t)'
  <2>1. ASSUME NEW r, call' = [call EXCEPT ![t] =
                          [Returned(r) EXCEPT !.op = op, !.pc = "close", !.id = id]]
        PROVE  call'[t].pc = "close"
    <3>1. call'[t] = [Returned(r) EXCEPT !.op = op, !.pc = "close", !.id = id]
      BY <2>1 DEF TypeOK
    <3>. QED  BY <3>1 DEF Returned
  <2>2. call'[t].pc \in {"idle", "close"}
    BY <1>7, <2>1, OwnedReturn DEF EndTransaction, CloseIfEnded
  <2>. QED  BY <1>7, <2>2, QuietStep DEF EndTransaction, Idle
<1>8. CASE Timeout(t)
  BY <1>8 DEF Timeout, ConnFacts, CacheKeyed, NoOrphan, SeenStillSo, Cached, CachedConns, Holds
<1>. QED  BY <1>1, <1>2, <1>3, <1>4, <1>5, <1>6, <1>7, <1>8 DEF ThreadStep

LEMMA InitConnInv == Init => ConnInv
<1>. SUFFICES ASSUME Init  PROVE ConnInv
  OBVIOUS
<1>1. \A t \in Threads : call[t].op = "none" /\ call[t].pc = "idle" /\ known[t] = {}
  BY DEF Init, Returned
<1>2. OwnIds  BY <1>1 DEF OwnIds, Owned, NoIdPcs, BulkOps
<1>3. CacheKeyed  BY DEF Init, CacheKeyed, Cached
<1>4. NoOrphan  BY DEF Init, NoOrphan
<1>5. \A t \in Threads : SeenStillSo(t)  BY <1>1 DEF SeenStillSo, PutPcs
<1>. QED  BY <1>2, <1>3, <1>4, <1>5 DEF ConnInv

LEMMA StepConnInv == PrivateUse /\ TypeOK /\ ConnInv /\ [Next]_vars => ConnInv'
<1>. SUFFICES ASSUME PrivateUse, TypeOK, ConnInv, [Next]_vars  PROVE ConnInv'
  OBVIOUS
<1>1. ASSUME NEW t \in Threads, ThreadStep(t)  PROVE ConnInv'
  <2>1. OwnIds'  BY <1>1, OwnIdsKept DEF ConnInv
  <2>2. ConnFacts(t)'  BY <1>1, OwnStillSo DEF ConnInv, ConnFacts, OwnIds, NoBulk
  <2>3. ASSUME NEW u \in Threads, u # t  PROVE SeenStillSo(u)'
    BY <1>1, <2>3, OthersStillSo DEF ConnInv
  <2>. QED  BY <2>1, <2>2, <2>3 DEF ConnInv, ConnFacts
<1>2. CASE UNCHANGED vars
  BY <1>2 DEF vars, ConnInv, OwnIds, Owned, CacheKeyed, NoOrphan, SeenStillSo, Cached,
              CachedConns, Holds
<1>. QED  BY <1>1, <1>2 DEF Next

\* Callers that keep ids to themselves, and ids that do not repeat, are enough
\* for the inductive invariant to hold always, whatever else goes wrong
\* (exhausted pools, failing close(), timeouts, nested transactions).
THEOREM ConnInvHolds == ASSUME PrivateUse PROVE Spec => []ConnInv
<1>1. Init => ConnInv  BY InitConnInv
<1>2. TypeOK /\ ConnInv /\ [Next]_vars => ConnInv'  BY StepConnInv
<1>3. Spec => []TypeOK  BY Typing
<1>. QED  BY <1>1, <1>2, <1>3, PTL DEF Spec

\* Then no open connection is ever lost by the helper.
THEOREM NoConnectionLost == ASSUME PrivateUse PROVE Spec => []NoOrphan
<1>1. ConnInv => NoOrphan  BY DEF ConnInv
<1>. QED  BY <1>1, ConnInvHolds, PTL

\* And a pool is never asked for a second connection while it lends one.
THEOREM OnePerPool == ASSUME PrivateUse PROVE Spec => []OneOpenPerPool
<1>1. TypeOK /\ ConnInv => OneOpenPerPool
  <2>. SUFFICES ASSUME TypeOK, ConnInv, NEW c \in Conns, NEW d \in Conns,
                       connState[c] = "open", connState[d] = "open",
                       c[1] = d[1], c[2] = d[2]
                PROVE  c = d
    BY DEF OneOpenPerPool
  <2>1. c[1] \in TransIds /\ c[2] \in DataSources /\ c # NoConn /\ d # NoConn
    BY NoConnAssumption DEF Conns
  <2>2. ASSUME NEW t \in Threads, NEW e \in {c, d}, Holds(t, e)
        PROVE  /\ call[t].id = c[1] /\ call[t].ds = c[2] /\ c[1] \in Owned(t)
               /\ connCache[c[1]][c[2]] = NoConn
    <3>1. call[t].id = c[1] /\ call[t].ds = c[2]
      BY <2>2, CallFacts DEF Holds, PoolOf, PutPcs, GetPcs
    <3>2. c[1] \in Owned(t)  BY <2>2, <3>1 DEF Holds, Owned, PutPcs, NoIdPcs
    <3>3. call[t].ds \notin Cached(call[t].id)
      BY <2>2 DEF Holds, ConnInv, SeenStillSo
    <3>. QED  BY <2>1, <3>1, <3>2, <3>3 DEF Cached
  <2>3. \/ connCache[c[1]][c[2]] = c
        \/ \E t \in Threads : Holds(t, c)
    BY DEF ConnInv, NoOrphan
  <2>4. \/ connCache[c[1]][c[2]] = d
        \/ \E t \in Threads : Holds(t, d)
    BY DEF ConnInv, NoOrphan
  <2>5. ASSUME NEW t \in Threads, NEW u \in Threads, Holds(t, c), Holds(u, d)
        PROVE  c = d
    <3>1. t = u  BY <2>2, <2>5 DEF ConnInv, OwnIds
    <3>. QED  BY <2>5, <3>1 DEF Holds
  <2>. QED  BY <2>1, <2>2, <2>3, <2>4, <2>5
<1>2. Spec => []TypeOK  BY Typing
<1>. QED  BY <1>1, <1>2, ConnInvHolds, PTL

-----------------------------------------------------------------------------
(* The ids of one thread do not feel what the other threads do.            *)

\* A step that leaves the call of its own thread as it is changes no map.
LEMMA StillCall ==
    ASSUME PrivateUse, TypeOK, NEW t \in Threads, ThreadStep(t), call'[t] = call[t]
    PROVE  UNCHANGED <<utxCache, dsCache, connCache, connState>>
<1>0. ASSUME NEW r, Return(t, r)  PROVE call[t].pc = "idle"
  BY <1>0, OwnedReturn
<1>1. ASSUME NEW pc \in Pcs, Goto(t, pc)  PROVE call[t].pc = pc
  BY <1>1, OwnedGoto, CallFacts DEF Goto, TypeOK, Frame
<1>2. CASE NewStep(t)
  <2>1. ASSUME NEW id, NEW dss, NewPutUtx(t, id, dss)  PROVE FALSE
    <3>1. call'[t] = [Returned("ok") EXCEPT !.op = "new", !.pc = "newDs", !.id = id, !.dss = dss]
      BY <2>1 DEF NewPutUtx, TypeOK
    <3>2. call'[t].pc = "newDs"  BY <3>1 DEF Returned
    <3>. QED  BY <2>1, <3>2 DEF NewPutUtx, Idle
  <2>. QED  BY <1>0, <1>2, <2>1 DEF NewStep, NewRefused, NewPutDs, At
<1>3. CASE CloseStep(t)
  BY <1>0, <1>1, <1>3, Strings DEF CloseStep, CloseConns, DropConnMap, DropDsMap, At
<1>4. CASE GetStep(t)
  <2>1. CASE GetOpen(t)
    <3>1. ASSUME NEW c, call' = [call EXCEPT ![t].conn = c, ![t].pc = "cacheCheck"]
          PROVE  FALSE
      <4>1. call'[t] = [call[t] EXCEPT !.conn = c, !.pc = "cacheCheck"]
        BY <3>1 DEF TypeOK
      <4>2. call'[t].pc = "cacheCheck"  BY <4>1, CallFacts DEF Frame
      <4>. QED  BY <2>1, <4>2 DEF GetOpen, At
    <3>. QED  BY <2>1, <3>1 DEF GetOpen
  <2>. QED
    BY <1>0, <1>4, <2>1 DEF GetStep, GetLookup, GetPeek, GetFetch, GetCheckMap,
                            GetPutOld, GetPutNew, At
<1>5. CASE DeleteStep(t)
  <2>1. ASSUME NEW id, DeleteDs(t, id)
        PROVE  UNCHANGED <<utxCache, dsCache, connCache, connState>>
    <3>1. CASE Enter(t, "delete", "delUtx", id)
      <4>1. call'[t] = [Returned("ok") EXCEPT !.op = "delete", !.pc = "delUtx", !.id = id]
        BY <3>1 DEF Enter, TypeOK
      <4>2. call'[t].pc = "delUtx"  BY <4>1 DEF Returned
      <4>. QED  BY <2>1, <4>2 DEF DeleteDs, Idle
    <3>. QED  BY <2>1, <3>1 DEF DeleteDs
  <2>. QED  BY <1>0, <1>5, <2>1 DEF DeleteStep, DeleteUtx, DeleteAll, At, PrivateUse
<1>6. CASE BulkStep(t)  BY <1>6 DEF BulkStep, BulkStart, BulkEnd, BulkClose
<1>7. CASE \E id \in TransIds : BeginTransaction(t, id)  BY <1>7 DEF BeginTransaction
<1>8. CASE \E op \in EndOps, id \in TransIds : EndTransaction(t, op, id)
  BY <1>8 DEF EndTransaction
<1>9. CASE Timeout(t)  BY <1>9 DEF Timeout
<1>. QED  BY <1>2, <1>3, <1>4, <1>5, <1>6, <1>7, <1>8, <1>9 DEF ThreadStep

\* Isolation: no thread ever changes the connections, or the data sources, of
\* an id that another thread's caller holds.
THEOREM IdsIsolated == ASSUME PrivateUse PROVE Spec => Isolation
<1>1. TypeOK /\ ConnInv /\ ConnInv' /\ [Next]_vars => [OthersUntouched]_vars
  <2>. SUFFICES ASSUME TypeOK, ConnInv, ConnInv', NEW t \in Threads, ThreadStep(t),
                       NEW u \in Threads, call'[u] = call[u], NEW id \in known[u]
                PROVE  /\ id \in utxCache'
                       /\ dsCache'[id] = dsCache[id]
                       /\ connCache'[id] = connCache[id]
                       /\ Opened(id)' = Opened(id)
    BY DEF Next, OthersUntouched, Untouched
  <2>1. id \in TransIds /\ id \in Owned(u) /\ id \in utxCache
    BY DEF TypeOK, Owned, ConnInv, OwnIds
  <2>2. CASE u = t
    BY <2>1, <2>2, StillCall DEF Opened
  <2>3. CASE u # t
    <3>1. id \in Owned(u)'  BY <2>3, OthersUnchanged DEF Owned, PrivateUse
    <3>2. id \in utxCache'  BY <3>1 DEF ConnInv, OwnIds
    <3>3. id \notin Owned(t)  BY <2>1, <2>3 DEF ConnInv, OwnIds
    <3>4. ~Touches(id)  BY <2>1, <3>3, OnlyOwnTouched DEF ConnInv
    <3>. QED  BY <3>2, <3>4 DEF Touches, Opened
  <2>. QED  BY <2>2, <2>3
<1>2. Spec => []TypeOK  BY Typing
<1>. QED  BY <1>1, <1>2, ConnInvHolds, PTL DEF Spec, Isolation
=============================================================================
