----------------------- MODULE DistDB_shared_proofs -----------------------
(***************************************************************************)
(* Proofs about DistDB that do not need callers to keep ids to themselves: *)
(* what holds whatever the threads do, and what holds when they pass one   *)
(* another's ids and end all transactions at once, but take turns.         *)
(***************************************************************************)
EXTENDS DistDB_proofs

-----------------------------------------------------------------------------
(* ConnectionPlaced is inductive.                                          *)

\* What a step of thread t does to the connections: their entries in connCache
\* are kept or removed, none is fresh again, only those with an entry are closed,
\* and t takes hold of none.
Quiet(t) ==
    /\ \A id \in TransIds, ds \in DataSources :
           connCache'[id][ds] \in {connCache[id][ds], NoConn}
    /\ \A c \in Conns : connState'[c] = "fresh" => connState[c] = "fresh"
    /\ \A c \in Conns :
           connState'[c] = connState[c] \/ \E id \in TransIds : c \in CachedConns(id)
    /\ \A c \in Conns : Holds(t, c)' => Holds(t, c)

LEMMA QuietPlaced ==
    ASSUME TypeOK, ConnectionPlaced, NEW t \in Threads, ThreadStep(t), Quiet(t)
    PROVE  ConnectionPlaced'
<1>1. \A u \in Threads, c \in Conns : Holds(u, c)' => Holds(u, c)
  BY OthersUnchanged DEF Quiet, Holds
<1>2. ASSUME NEW id \in TransIds, NEW ds \in Cached(id)'
      PROVE  /\ ds \in Cached(id) /\ connCache'[id][ds] = connCache[id][ds]
             /\ connCache[id][ds] \in Conns
  BY DEF Quiet, Cached, TypeOK
<1>3. ASSUME NEW id \in TransIds, NEW ds \in Cached(id)'
      PROVE  /\ connCache'[id][ds] \in PoolOf(id, ds)
             /\ connState'[connCache'[id][ds]] # "fresh"
             /\ ~\E u \in Threads : Holds(u, connCache[id][ds])'
  BY <1>1, <1>2, <1>3 DEF ConnectionPlaced, Quiet
<1>4. ASSUME NEW id \in TransIds, NEW ds \in Cached(id)'
      PROVE  ~\E u \in Threads : call'[u].pc \in PutPcs /\ call'[u].conn = connCache'[id][ds]
  BY <1>2, <1>3 DEF Holds
<1>5. ASSUME NEW u \in Threads, NEW c \in Conns, Holds(u, c)'  PROVE connState'[c] = "open"
  <2>1. Holds(u, c)  BY <1>1, <1>5
  <2>2. \A id \in TransIds : c \notin CachedConns(id)
    BY <2>1 DEF ConnectionPlaced, CachedConns
  <2>. QED  BY <2>1, <2>2 DEF ConnectionPlaced, Quiet
<1>6. \A u, v \in Threads, c \in Conns : Holds(u, c)' /\ Holds(v, c)' => u = v
  BY <1>1 DEF ConnectionPlaced
<1>. QED  BY <1>3, <1>4, <1>5, <1>6 DEF ConnectionPlaced, Holds

\* A put moves the connection that the call holds into connCache, and leaves
\* the other entries as they are or drops them.
LEMMA PutEffect ==
    ASSUME TypeOK, NEW t \in Threads, ThreadStep(t), GetPutOld(t) \/ GetPutNew(t)
    PROVE  /\ connState' = connState
           /\ call[t].conn \in PoolOf(call[t].id, call[t].ds)
           /\ call[t].conn \in Conns /\ Holds(t, call[t].conn)
           /\ \A u \in Threads, c \in Conns : Holds(u, c)' => u # t /\ Holds(u, c)
           /\ \A i \in TransIds, d \in DataSources :
                 \/ connCache'[i][d] \in {connCache[i][d], NoConn}
                 \/ i = call[t].id /\ d = call[t].ds /\ connCache'[i][d] = call[t].conn
<1>1. /\ call[t].id \in TransIds /\ call[t].ds \in DataSources
      /\ call[t].conn \in PoolOf(call[t].id, call[t].ds)
      /\ call[t].conn \in Conns /\ Holds(t, call[t].conn)
  BY CallFacts DEF GetPutOld, GetPutNew, At, PoolOf, GetPcs, PutPcs, NoIdPcs, Holds
<1>2. connState' = connState /\ call'[t].pc = "idle"
  BY OwnedReturn DEF GetPutOld, GetPutNew
<1>3. \A u \in Threads, c \in Conns : Holds(u, c)' => u # t /\ Holds(u, c)
  BY <1>2, OthersUnchanged DEF Holds, PutPcs
<1>4. \A i \in TransIds, d \in DataSources :
          \/ connCache'[i][d] \in {connCache[i][d], NoConn}
          \/ i = call[t].id /\ d = call[t].ds /\ connCache'[i][d] = call[t].conn
  <2>1. CASE GetPutOld(t)
    BY <1>1, <2>1 DEF GetPutOld, TypeOK
  <2>2. CASE GetPutNew(t)
    BY <1>1, <2>2 DEF GetPutNew, TypeOK
  <2>. QED  BY <2>1, <2>2
<1>. QED  BY <1>1, <1>2, <1>3, <1>4

LEMMA PutPlaced ==
    ASSUME TypeOK, ConnectionPlaced, NEW t \in Threads, ThreadStep(t),
           GetPutOld(t) \/ GetPutNew(t)
    PROVE  ConnectionPlaced'
<1>. DEFINE conn == call[t].conn
<1>1. ASSUME NEW i \in TransIds, NEW d \in Cached(i)'
      PROVE  /\ connCache'[i][d] \in PoolOf(i, d)
             /\ connState'[connCache'[i][d]] # "fresh"
             /\ ~\E u \in Threads : call'[u].pc \in PutPcs /\ call'[u].conn = connCache'[i][d]
  <2>1. d \in DataSources /\ connCache'[i][d] # NoConn  BY DEF Cached
  <2>2. CASE connCache'[i][d] = connCache[i][d]
    <3>1. d \in Cached(i) /\ connCache[i][d] \in Conns  BY <2>1, <2>2 DEF Cached, TypeOK
    <3>2. ~\E u \in Threads : call'[u].pc \in PutPcs /\ call'[u].conn = connCache[i][d]
      BY <3>1, PutEffect DEF ConnectionPlaced, Holds
    <3>. QED  BY <2>2, <3>1, <3>2, PutEffect DEF ConnectionPlaced
  <2>3. CASE i = call[t].id /\ d = call[t].ds /\ connCache'[i][d] = conn
    <3>1. ~\E u \in Threads : call'[u].pc \in PutPcs /\ call'[u].conn = conn
      BY PutEffect DEF ConnectionPlaced, Holds
    <3>2. connState[conn] = "open"  BY PutEffect DEF ConnectionPlaced
    <3>. QED  BY <2>3, <3>1, <3>2, PutEffect
  <2>. QED  BY <2>1, <2>2, <2>3, PutEffect
<1>2. \A u \in Threads, c \in Conns : Holds(u, c)' => connState'[c] = "open"
  BY PutEffect DEF ConnectionPlaced
<1>3. \A u, v \in Threads, c \in Conns : Holds(u, c)' /\ Holds(v, c)' => u = v
  BY PutEffect DEF ConnectionPlaced
<1>. QED  BY <1>1, <1>2, <1>3 DEF ConnectionPlaced, Holds

LEMMA OpenPlaced ==
    ASSUME TypeOK, ConnectionPlaced, NEW t \in Threads, ThreadStep(t), GetOpen(t)
    PROVE  ConnectionPlaced'
<1>1. connCache' = connCache /\ call[t].pc = "open"
  BY DEF GetOpen, At
<1>2. CASE UNCHANGED connState /\ \E r : Return(t, r)
  <2>1. call'[t].pc = "idle"  BY <1>2, OwnedReturn
  <2>. QED  BY <1>1, <1>2, <2>1, QuietPlaced DEF Quiet, Holds, PutPcs
<1>3. ASSUME NEW c \in PoolOf(call[t].id, call[t].ds),
             \A d \in PoolOf(call[t].id, call[t].ds) : connState[d] = "fresh" <=> d[3] >= c[3],
             connState' = [connState EXCEPT ![c] = "open"],
             call' = [call EXCEPT ![t].conn = c, ![t].pc = "cacheCheck"]
      PROVE  ConnectionPlaced'
  <2>1. c \in Conns /\ c[3] \in Nat  BY DEF PoolOf, Conns
  <2>2. connState[c] = "fresh"  BY <1>3, <2>1
  <2>3. call'[t] = [call[t] EXCEPT !.conn = c, !.pc = "cacheCheck"]
    BY <1>3 DEF TypeOK
  <2>4. call'[t].conn = c  BY <2>3, CallFacts DEF Frame
  <2>5. ASSUME NEW u \in Threads, NEW d \in Conns, Holds(u, d)'
        PROVE  (u = t /\ d = c) \/ (d # c /\ u # t /\ Holds(u, d))
    <3>1. CASE u = t  BY <2>4, <2>5, <3>1 DEF Holds
    <3>2. CASE u # t
      <4>1. Holds(u, d)  BY <2>5, <3>2, OthersUnchanged DEF Holds
      <4>. QED  BY <2>2, <3>2, <4>1 DEF ConnectionPlaced
    <3>. QED  BY <3>1, <3>2
  <2>6. /\ connState'[c] = "open"
        /\ \A d \in Conns : d # c => connState'[d] = connState[d]
    BY <1>3, <2>1 DEF TypeOK
  <2>7. ASSUME NEW id \in TransIds, NEW ds \in Cached(id)'
        PROVE  /\ connCache'[id][ds] \in PoolOf(id, ds)
               /\ connState'[connCache'[id][ds]] # "fresh"
               /\ ~\E u \in Threads : call'[u].pc \in PutPcs /\ call'[u].conn = connCache'[id][ds]
    <3>1. ds \in Cached(id) /\ connCache'[id][ds] = connCache[id][ds]
      BY <1>1 DEF Cached
    <3>2. /\ connCache[id][ds] \in PoolOf(id, ds)
          /\ connState[connCache[id][ds]] # "fresh"
          /\ connCache[id][ds] \in Conns
      BY <3>1 DEF ConnectionPlaced, PoolOf
    <3>3. connCache[id][ds] # c  BY <2>2, <3>2
    <3>4. ~\E u \in Threads : Holds(u, connCache[id][ds])'
      BY <2>5, <3>1, <3>2, <3>3 DEF ConnectionPlaced
    <3>. QED  BY <2>6, <3>1, <3>2, <3>3, <3>4 DEF Holds
  <2>8. \A u \in Threads, d \in Conns : Holds(u, d)' => connState'[d] = "open"
    BY <2>5, <2>6 DEF ConnectionPlaced
  <2>9. \A u, v \in Threads, d \in Conns : Holds(u, d)' /\ Holds(v, d)' => u = v
    BY <2>5 DEF ConnectionPlaced
  <2>. QED  BY <2>7, <2>8, <2>9 DEF ConnectionPlaced, Holds
<1>. QED  BY <1>2, <1>3 DEF GetOpen

\* The frame of a bulk call after each of its steps.
LEMMA BulkFrame ==
    ASSUME TypeOK, NEW t \in Threads
    PROVE  /\ \A op : BulkStart(t, op) => call'[t].pc = "bulk" /\ call'[t].op = op
           /\ BulkEnd(t) => \/ \E r \in Results \ {"ok"} : Return(t, r)
                            \/ call'[t].pc = "bulk" /\ call'[t].op = call[t].op
                            \/ /\ call'[t].pc = "bulkClose" /\ call'[t].todo = utxCache
                               /\ call'[t].op = call[t].op
           /\ BulkClose(t) =>
                  \/ call[t].todo = {} /\ Return(t, "ok")
                  \/ \E id \in call[t].todo :
                        /\ call'[t].pc = "close" /\ call'[t].id = id
                        /\ call'[t].todo = call[t].todo \ {id} /\ call'[t].op = call[t].op
<1>0. call[t] \in Frame  BY CallFacts
<1>1. ASSUME NEW op, BulkStart(t, op)  PROVE call'[t].pc = "bulk" /\ call'[t].op = op
  <2>1. call'[t] = [Returned("ok") EXCEPT !.op = op, !.pc = "bulk", !.todo = utxCache]
    BY <1>1 DEF BulkStart, TypeOK
  <2>. QED  BY <2>1 DEF Returned
<1>2. ASSUME BulkEnd(t)
      PROVE  \/ \E r \in Results \ {"ok"} : Return(t, r)
             \/ call'[t].pc = "bulk" /\ call'[t].op = call[t].op
             \/ /\ call'[t].pc = "bulkClose" /\ call'[t].todo = utxCache
                /\ call'[t].op = call[t].op
  <2>1. CASE call' = [call EXCEPT ![t].pc = "bulkClose", ![t].todo = utxCache]
    <3>1. call'[t] = [call[t] EXCEPT !.pc = "bulkClose", !.todo = utxCache]
      BY <2>1 DEF TypeOK
    <3>. QED  BY <1>0, <3>1 DEF Frame
  <2>2. ASSUME NEW id, call' = [call EXCEPT ![t].todo = @ \ {id}]
        PROVE  call'[t].pc = "bulk" /\ call'[t].op = call[t].op
    <3>1. call'[t] = [call[t] EXCEPT !.todo = call[t].todo \ {id}]
      BY <2>2 DEF TypeOK
    <3>. QED  BY <1>0, <1>2, <3>1 DEF Frame, BulkEnd, At
  <2>. QED  BY <1>2, <2>1, <2>2, Strings DEF BulkEnd
<1>3. ASSUME NEW id,
             call' = [call EXCEPT ![t].pc = "close", ![t].id = id, ![t].todo = @ \ {id}]
      PROVE  /\ call'[t].pc = "close" /\ call'[t].id = id
             /\ call'[t].todo = call[t].todo \ {id} /\ call'[t].op = call[t].op
  <2>1. call'[t] = [call[t] EXCEPT !.pc = "close", !.id = id, !.todo = call[t].todo \ {id}]
    BY <1>3 DEF TypeOK
  <2>. QED  BY <1>0, <2>1 DEF Frame
<1>. QED  BY <1>1, <1>2, <1>3 DEF BulkClose

\* Every other step is quiet.  After a call has returned, or has been made,
\* its thread holds no connection.
LEMMA QuietOthers ==
    ASSUME TypeOK, NEW t \in Threads, ThreadStep(t),
           ~GetOpen(t), ~GetPutOld(t), ~GetPutNew(t)
    PROVE  Quiet(t)
<1>. USE DEF Quiet
<1>1. ASSUME NEW r, Return(t, r)  PROVE \A c \in Conns : ~Holds(t, c)'
  BY <1>1, OwnedReturn DEF Holds, PutPcs
<1>2. ASSUME NEW pc \in Pcs, Goto(t, pc), pc \in PutPcs => call[t].pc \in PutPcs
      PROVE  \A c \in Conns : Holds(t, c)' => Holds(t, c)
  <2>1. call'[t].pc = pc /\ call'[t].conn = call[t].conn
    BY <1>2, CallFacts DEF Goto, TypeOK, Frame
  <2>. QED  BY <1>2, <2>1 DEF Holds
<1>3. ASSUME NEW f, call' = [call EXCEPT ![t] = f], f.pc \notin PutPcs
      PROVE  \A c \in Conns : ~Holds(t, c)'
  BY <1>3 DEF Holds, TypeOK
<1>4. CASE NewStep(t)
  <2>1. ASSUME NEW id, NEW dss, NewPutUtx(t, id, dss)  PROVE Quiet(t)
    <3>1. [Returned("ok") EXCEPT !.op = "new", !.pc = "newDs", !.id = id, !.dss = dss].pc = "newDs"
      BY DEF Returned
    <3>. QED  BY <1>3, <2>1, <3>1 DEF NewPutUtx, PutPcs
  <2>. QED  BY <1>1, <1>4, <2>1 DEF NewStep, NewRefused, NewPutDs
<1>5. CASE CloseStep(t)
  <2>1. CASE CloseConns(t)
    <3>1. call[t].id \in TransIds /\ connCache' = connCache
      BY <2>1, CallFacts DEF CloseConns, At, NoIdPcs
    <3>2. \A c \in Conns : /\ connState'[c] = "fresh" => connState[c] = "fresh"
                           /\ connState'[c] = connState[c] \/ c \in CachedConns(call[t].id)
      BY <2>1 DEF CloseConns, CloseAll
    <3>3. \A c \in Conns : Holds(t, c)' => Holds(t, c)
      BY <1>1, <1>2, <2>1, Strings DEF CloseConns, PutPcs
    <3>. QED  BY <3>1, <3>2, <3>3
  <2>2. CASE DropConnMap(t)
    BY <1>2, <2>2, Strings DEF DropConnMap, TypeOK, PutPcs
  <2>3. CASE DropDsMap(t)
    BY <1>1, <1>2, <2>3, Strings DEF DropDsMap, PutPcs
  <2>. QED  BY <1>5, <2>1, <2>2, <2>3 DEF CloseStep
<1>6. CASE GetStep(t)
  <2>1. ASSUME NEW id, NEW ds, GetLookup(t, id, ds)  PROVE Quiet(t)
    <3>. DEFINE f == [Returned("ok") EXCEPT !.op = "get", !.id = id, !.ds = ds,
                          !.pc = IF Cached(id) # {} THEN "peek" ELSE "open"]
    <3>1. f.pc \notin PutPcs  BY DEF Returned, PutPcs
    <3>2. call' = [call EXCEPT ![t] = f]  BY <2>1 DEF GetLookup
    <3>3. UNCHANGED <<connCache, connState>>  BY <2>1 DEF GetLookup
    <3>. QED  BY <1>3, <3>1, <3>2, <3>3
  <2>2. CASE GetPeek(t)
    BY <1>1, <1>2, <2>2, Strings DEF GetPeek, PutPcs
  <2>3. CASE GetFetch(t)  BY <1>1, <2>3 DEF GetFetch
  <2>4. CASE GetCheckMap(t)
    BY <1>2, <2>4, Strings DEF GetCheckMap, At, PutPcs
  <2>. QED  BY <1>6, <2>1, <2>2, <2>3, <2>4 DEF GetStep
<1>7. CASE DeleteStep(t)
  <2>1. ASSUME NEW id, DeleteDs(t, id)  PROVE Quiet(t)
    <3>1. [Returned("ok") EXCEPT !.op = "delete", !.pc = "delUtx", !.id = id].pc = "delUtx"
      BY DEF Returned
    <3>. QED  BY <1>1, <1>3, <2>1, <3>1 DEF DeleteDs, Enter, PutPcs
  <2>. QED  BY <1>1, <1>7, <2>1 DEF DeleteStep, DeleteUtx, DeleteAll
<1>8. CASE BulkStep(t)
  <2>1. UNCHANGED <<connCache, connState>>
    BY <1>8 DEF BulkStep, BulkStart, BulkEnd, BulkClose
  <2>2. call'[t].pc \notin PutPcs
    BY <1>8, BulkFrame, FrameAfter DEF BulkStep, PutPcs
  <2>. QED  BY <2>1, <2>2 DEF Holds
<1>9. CASE \E id \in TransIds : BeginTransaction(t, id)
  BY <1>1, <1>9 DEF BeginTransaction
<1>10. ASSUME NEW op \in EndOps, NEW id \in TransIds, EndTransaction(t, op, id)
       PROVE  Quiet(t)
  <2>1. \A r : [Returned(r) EXCEPT !.op = op, !.pc = "close", !.id = id].pc = "close"
    BY DEF Returned
  <2>. QED  BY <1>1, <1>3, <1>10, <2>1 DEF EndTransaction, CloseIfEnded, PutPcs
<1>11. CASE Timeout(t)  BY <1>11 DEF Timeout, Holds
<1>. QED  BY <1>4, <1>5, <1>6, <1>7, <1>8, <1>9, <1>10, <1>11 DEF ThreadStep

LEMMA StepPlaced == TypeOK /\ ConnectionPlaced /\ [Next]_vars => ConnectionPlaced'
<1>1. ASSUME TypeOK, ConnectionPlaced, NEW t \in Threads, ThreadStep(t)
      PROVE  ConnectionPlaced'
  BY <1>1, PutPlaced, OpenPlaced, QuietOthers, QuietPlaced
<1>2. ASSUME ConnectionPlaced, UNCHANGED vars  PROVE ConnectionPlaced'
  BY <1>2 DEF vars, ConnectionPlaced, Cached, Holds
<1>. QED  BY <1>1, <1>2 DEF Next

\* An entry of connCache is a connection lent for its id and data source, no
\* connection is in the hands of two calls, nor of a call and of the cache, and
\* none is closed under the hands of a call: on any number of threads, that use
\* one another's ids, with ids that repeat, and whatever fails. (Two callers whose
\* transactions were given one id do share its entries.)
THEOREM PlacedAlways == Spec => []ConnectionPlaced
<1>1. Init => ConnectionPlaced
  <2>1. Returned("ok").pc = "idle"  BY DEF Returned
  <2>. QED  BY <2>1 DEF Init, ConnectionPlaced, Cached, Holds, PutPcs
<1>2. TypeOK /\ ConnectionPlaced /\ [Next]_vars => ConnectionPlaced'
  BY StepPlaced
<1>3. Spec => []TypeOK  BY Typing
<1>. QED  BY <1>1, <1>2, <1>3, PTL DEF Spec

-----------------------------------------------------------------------------
(* Callers that take turns: their calls on one id do not overlap.          *)

\* Two calls are never on one id at a time.
ExclusiveCalls ==
    \A t, u \in Threads :
        t # u /\ call[t].pc \notin NoIdPcs /\ call[u].pc \notin NoIdPcs
            => call[t].id # call[u].id

\* And a bulk call runs alone.
BulkAlone(t) ==
    /\ call[t].pc \in {"bulk", "bulkClose"} => call[t].op \in BulkOps
    /\ call[t].op \in BulkOps =>
           /\ call[t].pc \in {"bulk", "bulkClose"} \cup ClosePcs
           /\ \A u \in Threads \ {t} : call[u].pc = "idle"

TurnsKept == ExclusiveCalls /\ \A t \in Threads : BulkAlone(t)

\* A step other than a closing or a bulk one makes no call a bulk call, and
\* brings none to the step after the connections were dropped.
LEMMA NoBulkStep ==
    ASSUME TypeOK, NEW t \in Threads, ThreadStep(t), ~CloseStep(t), ~BulkStep(t), ~Timeout(t),
           call[t].pc \in GetPcs => call[t].op \notin BulkOps
    PROVE  call'[t].op \notin BulkOps /\ call'[t].pc # "dropDs"
<1>. USE DEF BulkOps
<1>0. call[t] \in Frame  BY CallFacts
<1>1. ASSUME NEW r, Return(t, r)  PROVE call'[t].op = "none" /\ call'[t].pc = "idle"
  BY <1>1, OwnedReturn
<1>2. ASSUME NEW f, call' = [call EXCEPT ![t] = f], f.op \notin BulkOps, f.pc # "dropDs"
      PROVE  call'[t].op \notin BulkOps /\ call'[t].pc # "dropDs"
  BY <1>2 DEF TypeOK
<1>3. ASSUME NEW id, Enter(t, "delete", "delUtx", id)
      PROVE  call'[t].op \notin BulkOps /\ call'[t].pc # "dropDs"
  <2>. DEFINE f == [Returned("ok") EXCEPT !.op = "delete", !.pc = "delUtx", !.id = id]
  <2>1. f.op = "delete" /\ f.pc = "delUtx"
    BY DEF Returned
  <2>2. call' = [call EXCEPT ![t] = f]  BY <1>3 DEF Enter
  <2>. QED  BY <1>2, <2>1, <2>2
<1>4. CASE NewStep(t)
  <2>1. ASSUME NEW id, NEW dss, NewPutUtx(t, id, dss)
        PROVE  call'[t].op \notin BulkOps /\ call'[t].pc # "dropDs"
    <3>1. LET f == [Returned("ok") EXCEPT !.op = "new", !.pc = "newDs", !.id = id, !.dss = dss]
          IN  f.op = "new" /\ f.pc = "newDs"
      BY DEF Returned
    <3>. QED  BY <1>2, <2>1, <3>1 DEF NewPutUtx
  <2>. QED  BY <1>1, <1>4, <2>1 DEF NewStep, NewRefused, NewPutDs
<1>5. CASE GetStep(t)
  <2>1. ASSUME NEW id, NEW ds, GetLookup(t, id, ds)
        PROVE  call'[t].op \notin BulkOps /\ call'[t].pc # "dropDs"
    <3>1. LET f == [Returned("ok") EXCEPT !.op = "get", !.id = id, !.ds = ds,
                       !.pc = IF Cached(id) # {} THEN "peek" ELSE "open"]
          IN  f.op = "get" /\ f.pc # "dropDs"
      BY DEF Returned
    <3>. QED  BY <1>2, <2>1, <3>1 DEF GetLookup
  <2>2. ASSUME call[t].op \notin BulkOps, NEW c,
               call' = [call EXCEPT ![t].conn = c, ![t].pc = "cacheCheck"]
        PROVE  call'[t].op \notin BulkOps /\ call'[t].pc # "dropDs"
    <3>1. call'[t] = [call[t] EXCEPT !.conn = c, !.pc = "cacheCheck"]
      BY <2>2 DEF TypeOK
    <3>2. call'[t].op = call[t].op /\ call'[t].pc = "cacheCheck"
      BY <1>0, <3>1 DEF Frame
    <3>. QED  BY <2>2, <3>2
  <2>3. ASSUME call[t].op \notin BulkOps, NEW pc \in {"fetch", "open", "putOld", "putNew"},
               Goto(t, pc)
        PROVE  call'[t].op \notin BulkOps /\ call'[t].pc # "dropDs"
    BY <2>3, Strings, FrameAfter
  <2>4. CASE GetPeek(t)  BY <1>1, <2>3, <2>4 DEF GetPeek, At, GetPcs
  <2>5. CASE GetOpen(t)  BY <1>1, <2>2, <2>5 DEF GetOpen, At, GetPcs
  <2>6. CASE GetCheckMap(t)  BY <2>3, <2>6 DEF GetCheckMap, At, GetPcs, PutPcs
  <2>7. CASE GetFetch(t) \/ GetPutOld(t) \/ GetPutNew(t)
    BY <1>1, <2>7 DEF GetFetch, GetPutOld, GetPutNew
  <2>. QED  BY <1>5, <2>1, <2>4, <2>5, <2>6, <2>7 DEF GetStep
<1>6. CASE DeleteStep(t)
  BY <1>1, <1>3, <1>6 DEF DeleteStep, DeleteUtx, DeleteAll, DeleteDs
<1>7. CASE \E id \in TransIds : BeginTransaction(t, id)
  BY <1>1, <1>7 DEF BeginTransaction
<1>8. ASSUME NEW op \in EndOps, NEW id \in TransIds, EndTransaction(t, op, id)
      PROVE  call'[t].op \notin BulkOps /\ call'[t].pc # "dropDs"
  <2>1. ASSUME NEW r
        PROVE  LET f == [Returned(r) EXCEPT !.op = op, !.pc = "close", !.id = id]
               IN  f.op = op /\ f.pc = "close"
    BY DEF Returned
  <2>. QED  BY <1>1, <1>2, <1>8, <2>1 DEF EndTransaction, CloseIfEnded, EndOps
<1>. QED  BY <1>4, <1>5, <1>6, <1>7, <1>8 DEF ThreadStep

\* What such a step does to the call of its thread: it ends it, begins one in
\* turn, or goes on with it.
LEMMA IdCall ==
    ASSUME TypeOK, NEW t \in Threads, ThreadStep(t), ~CloseStep(t), ~BulkStep(t), ~Timeout(t)
    PROVE  \/ call'[t].pc = "idle"
           \/ /\ call[t].pc = "idle" /\ call'[t].pc \notin {"bulk", "bulkClose"}
              /\ \E id \in TransIds : Turn(id) /\ call'[t].id = id
           \/ /\ call[t].pc \notin NoIdPcs /\ call'[t].pc \notin {"bulk", "bulkClose"}
              /\ call'[t].id = call[t].id
<1>1. CASE NewStep(t)
  <2>1. ASSUME NEW id \in TransIds, NEW dss, NewPutUtx(t, id, dss)
        PROVE  /\ call[t].pc = "idle" /\ call'[t].pc = "newDs"
               /\ Turn(id) /\ call'[t].id = id
    <3>1. call[t].pc = "idle" /\ Turn(id)  BY <2>1 DEF NewPutUtx, Idle
    <3>. QED  BY <2>1, <3>1, FrameAfter
  <2>. QED  BY <1>1, <2>1, FrameAfter DEF NewStep, NewRefused, NewPutDs
<1>2. CASE GetStep(t)
  <2>1. ASSUME NEW id \in TransIds, NEW ds, GetLookup(t, id, ds)
        PROVE  /\ call[t].pc = "idle" /\ call'[t].pc \in {"peek", "open"}
               /\ Turn(id) /\ call'[t].id = id
    <3>1. call[t].pc = "idle" /\ Turn(id)  BY <2>1 DEF GetLookup, Idle
    <3>. QED  BY <2>1, <3>1, FrameAfter
  <2>2. CASE GetPeek(t)
    BY <2>2, Strings, FrameAfter DEF GetPeek, At, NoIdPcs
  <2>3. CASE GetOpen(t)
    <3>1. call[t].pc \notin NoIdPcs  BY <2>3 DEF GetOpen, At, NoIdPcs
    <3>. QED  BY <2>3, <3>1, FrameAfter DEF GetOpen
  <2>4. CASE GetCheckMap(t)
    BY <2>4, Strings, FrameAfter DEF GetCheckMap, At, NoIdPcs
  <2>5. CASE GetFetch(t) \/ GetPutOld(t) \/ GetPutNew(t)
    BY <2>5, FrameAfter DEF GetFetch, GetPutOld, GetPutNew
  <2>. QED  BY <1>2, <2>1, <2>2, <2>3, <2>4, <2>5 DEF GetStep
<1>3. CASE DeleteStep(t)
  BY <1>3, FrameAfter DEF DeleteStep, DeleteUtx, DeleteAll, DeleteDs, Idle
<1>4. CASE \E id \in TransIds : BeginTransaction(t, id)
  BY <1>4, FrameAfter DEF BeginTransaction
<1>5. CASE \E op \in EndOps, id \in TransIds : EndTransaction(t, op, id)
  BY <1>5, FrameAfter DEF EndTransaction, Idle
<1>. QED  BY <1>1, <1>2, <1>3, <1>4, <1>5 DEF ThreadStep

\* And what a closing step does.
LEMMA CloseCall ==
    ASSUME TypeOK, NEW t \in Threads, CloseStep(t)
    PROVE  /\ call[t].pc \in ClosePcs /\ call[t].pc \notin NoIdPcs
           /\ \/ call'[t].pc = "idle" /\ call'[t].op = "none"
              \/ /\ call'[t].pc \in {"dropConn", "dropDs"}
                 /\ call'[t].id = call[t].id /\ call'[t].op = call[t].op
              \/ /\ call'[t].pc = "bulkClose" /\ call[t].op \in BulkOps
                 /\ call'[t].op = call[t].op
<1>1. call[t].pc \in ClosePcs /\ call[t].pc \notin NoIdPcs
  BY DEF CloseStep, CloseConns, DropConnMap, DropDsMap, At, ClosePcs, NoIdPcs
<1>2. ASSUME NEW r, Return(t, r)  PROVE call'[t].pc = "idle" /\ call'[t].op = "none"
  BY <1>2, OwnedReturn
<1>3. ASSUME NEW pc \in {"dropConn", "dropDs", "bulkClose"}, Goto(t, pc)
      PROVE  call'[t].pc = pc /\ call'[t].id = call[t].id /\ call'[t].op = call[t].op
  BY <1>3, Strings, FrameAfter
<1>4. CASE CloseConns(t)  BY <1>1, <1>2, <1>3, <1>4 DEF CloseConns
<1>5. CASE DropConnMap(t)  BY <1>1, <1>3, <1>5 DEF DropConnMap
<1>6. CASE DropDsMap(t)
  <2>1. CASE \E r : Return(t, r)  BY <1>1, <1>2, <2>1
  <2>2. CASE Goto(t, "bulkClose") /\ call[t].op \in BulkOps  BY <1>1, <1>3, <2>2
  <2>. QED  BY <1>6, <2>1, <2>2 DEF DropDsMap
<1>. QED  BY <1>4, <1>5, <1>6 DEF CloseStep

\* A step of one thread does not disturb the turns of the others.
LEMMA TurnsStep ==
    ASSUME TakeTurns, TypeOK, TurnsKept, NEW t \in Threads, ThreadStep(t)
    PROVE  TurnsKept'
<1>0. \A u \in Threads \ {t} : call'[u] = call[u]  BY OthersUnchanged
\* It suffices to look at t and another thread.
<1>1. SUFFICES /\ BulkAlone(t)'
               /\ \A u \in Threads \ {t} :
                     /\ call'[t].pc \notin NoIdPcs /\ call[u].pc \notin NoIdPcs
                            => call'[t].id # call[u].id
                     /\ call[u].op \in BulkOps => call'[t].pc = "idle"
  <2>1. ASSUME NEW u \in Threads \ {t}  PROVE BulkAlone(u)'
    BY <1>0, <1>1, <2>1 DEF TurnsKept, BulkAlone
  <2>2. ExclusiveCalls'
    BY <1>0, <1>1 DEF TurnsKept, ExclusiveCalls
  <2>. QED  BY <1>1, <2>1, <2>2 DEF TurnsKept
<1>2. \A u \in Threads \ {t} :
          /\ call[t].pc \notin NoIdPcs /\ call[u].pc \notin NoIdPcs => call[t].id # call[u].id
          /\ call[u].op \in BulkOps => call[t].pc = "idle" /\ call[u].pc # "idle"
          /\ call[t].op \in BulkOps => call[u].pc = "idle"
  BY DEF TurnsKept, ExclusiveCalls, BulkAlone, ClosePcs
<1>3. /\ call[t].pc \in {"bulk", "bulkClose"} => call[t].op \in BulkOps
      /\ call[t].op \in BulkOps => call[t].pc \in {"bulk", "bulkClose"} \cup ClosePcs
  BY DEF TurnsKept, BulkAlone
<1>4. CASE ~CloseStep(t) /\ ~BulkStep(t) /\ ~Timeout(t)
  <2>1. call[t].pc \in GetPcs => call[t].op \notin BulkOps
    BY <1>3 DEF GetPcs, PutPcs, ClosePcs
  <2>2. call'[t].op \notin BulkOps  BY <1>4, <2>1, NoBulkStep
  <2>3. \A id : Turn(id) => \A u \in Threads :
            call[u].pc # "idle" => call[u].id # id /\ call[u].op \notin BulkOps
    BY DEF Turn, Idle
  <2>. QED  BY <1>2, <1>4, <2>2, <2>3, IdCall DEF BulkAlone, NoIdPcs
<1>5. CASE CloseStep(t)
  BY <1>0, <1>2, <1>3, <1>5, CloseCall DEF BulkAlone, BulkOps, ClosePcs, NoIdPcs
<1>6. CASE Timeout(t)
  <2>1. call' = call  BY <1>6 DEF Timeout
  <2>. QED  BY <1>2, <1>3, <2>1 DEF BulkAlone
<1>7. CASE BulkStep(t)
  <2>1. CASE \E op \in BulkOps : BulkStart(t, op)
    <3>1. call'[t].pc = "bulk" /\ call'[t].op \in BulkOps  BY <2>1, BulkFrame
    <3>2. \A u \in Threads : call[u].pc = "idle"
      BY <2>1 DEF BulkStart, TurnOfAll, Idle
    <3>. QED  BY <1>0, <1>2, <3>1, <3>2 DEF BulkAlone, NoIdPcs
  <2>2. CASE BulkEnd(t) \/ BulkClose(t)
    <3>1. call[t].pc \in {"bulk", "bulkClose"}  BY <2>2 DEF BulkEnd, BulkClose, At
    <3>2. call[t].op \in BulkOps /\ \A u \in Threads \ {t} : call[u].pc = "idle"
      BY <1>2, <1>3, <3>1
    <3>3. \/ call'[t].pc = "idle" /\ call'[t].op = "none"
          \/ call'[t].pc \in {"bulk", "bulkClose", "close"} /\ call'[t].op = call[t].op
      BY <2>2, BulkFrame, OwnedReturn
    <3>. QED
      BY <1>0, <1>2, <3>1, <3>2, <3>3 DEF BulkAlone, BulkOps, ClosePcs, NoIdPcs
  <2>. QED  BY <1>7, <2>1, <2>2 DEF BulkStep
<1>. QED  BY <1>4, <1>5, <1>6, <1>7

LEMMA TurnsHold == ASSUME TakeTurns PROVE Spec => []TurnsKept
<1>1. Init => TurnsKept
  <2>1. Returned("ok").op = "none" /\ Returned("ok").pc = "idle"  BY DEF Returned
  <2>. QED
    BY <2>1 DEF Init, TurnsKept, ExclusiveCalls, BulkAlone, BulkOps, NoIdPcs
<1>2. TypeOK /\ TurnsKept /\ [Next]_vars => TurnsKept'
  <2>1. ASSUME TurnsKept, UNCHANGED vars  PROVE TurnsKept'
    BY <2>1 DEF vars, TurnsKept, ExclusiveCalls, BulkAlone
  <2>. QED  BY <2>1, TurnsStep DEF Next
<1>3. Spec => []TypeOK  BY Typing
<1>. QED  BY <1>1, <1>2, <1>3, PTL DEF Spec

\* So two calls are never on one id at a time, if callers take turns, or keep
\* ids to themselves.
LEMMA CallsExclusive ==
    ASSUME PrivateUse \/ TakeTurns
    PROVE  Spec => []ExclusiveCalls
<1>1. CASE TakeTurns
  <2>1. TurnsKept => ExclusiveCalls  BY DEF TurnsKept
  <2>. QED  BY <1>1, <2>1, TurnsHold, PTL
<1>2. CASE PrivateUse
  <2>1. ConnInv => ExclusiveCalls
    BY DEF ConnInv, OwnIds, Owned, ExclusiveCalls
  <2>. QED  BY <1>2, <2>1, ConnInvHolds, PTL
<1>. QED  BY <1>1, <1>2

-----------------------------------------------------------------------------
(* getConnection answers with open connections, when close() does not fail. *)

\* What a step of thread t, other than a closing one, does to connections.
LEMMA OpenEffect ==
    ASSUME TypeOK, NEW t \in Threads, ThreadStep(t)
    PROVE  /\ \A i \in TransIds, d \in DataSources :
                 \/ connCache'[i][d] \in {connCache[i][d], NoConn}
                 \/ connCache'[i][d] \in Conns /\ Holds(t, connCache'[i][d])
           /\ ~CloseConns(t) => \A c \in Conns :
                 /\ connState[c] = "open" => connState'[c] = "open"
                 /\ \A u \in Threads : Holds(u, c)' => Holds(u, c) \/ connState'[c] = "open"
<1>1. CASE GetPutOld(t) \/ GetPutNew(t)
  <2>1. ASSUME NEW i \in TransIds, NEW d \in DataSources
        PROVE  \/ connCache'[i][d] \in {connCache[i][d], NoConn}
               \/ connCache'[i][d] \in Conns /\ Holds(t, connCache'[i][d])
    BY <1>1, PutEffect DEF Holds
  <2>. QED  BY <1>1, <2>1, PutEffect
<1>2. CASE GetOpen(t)
  <2>1. connCache' = connCache /\ call[t].pc = "open"  BY <1>2 DEF GetOpen, At
  <2>2. CASE UNCHANGED connState /\ \E r : Return(t, r)
    <3>1. call'[t].pc = "idle"  BY <2>2, FrameAfter
    <3>2. \A u \in Threads, c \in Conns : Holds(u, c)' => Holds(u, c)
      BY <3>1, OthersUnchanged DEF Holds, PutPcs
    <3>. QED  BY <2>1, <2>2, <3>2
  <2>3. ASSUME NEW c \in PoolOf(call[t].id, call[t].ds),
               connState' = [connState EXCEPT ![c] = "open"],
               call' = [call EXCEPT ![t].conn = c, ![t].pc = "cacheCheck"]
        PROVE  \A d \in Conns :
                   /\ connState[d] = "open" => connState'[d] = "open"
                   /\ \A u \in Threads : Holds(u, d)' => Holds(u, d) \/ connState'[d] = "open"
    <3>1. c \in Conns /\ connState'[c] = "open"  BY <2>3 DEF PoolOf, TypeOK
    <3>2. call'[t].conn = c
      <4>1. call'[t] = [call[t] EXCEPT !.conn = c, !.pc = "cacheCheck"]
        BY <2>3 DEF TypeOK
      <4>. QED  BY <4>1, CallFacts DEF Frame
    <3>. QED  BY <2>3, <3>1, <3>2, OthersUnchanged DEF Holds, TypeOK
  <2>. QED  BY <1>2, <2>1, <2>2, <2>3 DEF GetOpen
<1>3. CASE ~GetOpen(t) /\ ~GetPutOld(t) /\ ~GetPutNew(t)
  <2>1. Quiet(t)  BY <1>3, QuietOthers
  <2>2. \A u \in Threads, c \in Conns : Holds(u, c)' => Holds(u, c)
    BY <2>1, OthersUnchanged DEF Quiet, Holds
  <2>3. ~CloseConns(t) => connState' = connState
    BY <1>3 DEF ThreadStep, NewStep, NewRefused, NewPutUtx, NewPutDs, CloseStep, DropConnMap,
         DropDsMap, GetStep, GetLookup, GetPeek, GetFetch, GetCheckMap, DeleteStep, DeleteDs,
         DeleteUtx, DeleteAll, BulkStep, BulkStart, BulkEnd, BulkClose, BeginTransaction,
         EndTransaction, Timeout
  <2>. QED  BY <2>1, <2>2, <2>3 DEF Quiet
<1>. QED  BY <1>1, <1>2, <1>3

\* A call leaves dropConn by dropping the map of its id.
LEMMA LeavesDropConn ==
    ASSUME TypeOK, NEW t \in Threads, ThreadStep(t), call[t].pc = "dropConn",
           ~DropConnMap(t)
    PROVE  call' = call
BY DEF ThreadStep, NewStep, NewRefused, NewPutUtx, NewPutDs, CloseStep, CloseConns, DropDsMap,
       GetStep, GetLookup, GetPeek, GetFetch, GetOpen, GetCheckMap, GetPutOld, GetPutNew,
       DeleteStep, DeleteDs, DeleteUtx, DeleteAll, BulkStep, BulkStart, BulkEnd, BulkClose,
       BeginTransaction, EndTransaction, Timeout, Idle, At

\* closeConnection closes all that is cached for the id, or nothing.
LEMMA CloseKeepsOpen ==
    ASSUME ~CloseFaults, TypeOK, ConnectionPlaced, ExclusiveCalls, KeptOpen,
           NEW t \in Threads, ThreadStep(t), CloseConns(t)
    PROVE  KeptOpen'
<1>. DEFINE id == call[t].id
<1>1. call[t].pc = "close" /\ id \in TransIds /\ connCache' = connCache
  BY CallFacts DEF CloseConns, At, NoIdPcs
<1>2. ~PutPending(id)
  BY <1>1 DEF PutPending, At, ExclusiveCalls, NoIdPcs
<1>3. CASE connState' = connState /\ Return(t, "NullPointerException")
  <2>1. \A u \in Threads : call[u].pc = "dropConn" => call'[u] = call[u]
    BY <1>1, OthersUnchanged
  <2>2. \A u \in Threads, c \in Conns : Holds(u, c)' => Holds(u, c)
    BY <1>3, FrameAfter, OthersUnchanged DEF Holds, PutPcs
  <2>3. \A i \in TransIds : InCall(i, {"dropConn"}) => InCall(i, {"dropConn"})'
    BY <2>1 DEF InCall
  <2>. QED  BY <1>1, <1>3, <2>2, <2>3 DEF KeptOpen, Cached
<1>4. CASE CloseAll(CachedConns(id)) /\ Goto(t, "dropConn")
  <2>1. call'[t].pc = "dropConn" /\ call'[t].id = id
    BY <1>4, Strings, FrameAfter
  <2>2. \A u \in Threads, c \in Conns : Holds(u, c)' => Holds(u, c)
    BY <2>1, OthersUnchanged DEF Holds, PutPcs
  <2>3. \A c \in Conns : c \notin CachedConns(id) => connState'[c] = connState[c]
    BY <1>4 DEF CloseAll
  <2>4. ASSUME NEW u \in Threads, NEW c \in Conns, Holds(u, c)'
        PROVE  connState'[c] = "open"
    <3>1. c \notin CachedConns(id)
      BY <1>1, <2>2, <2>4 DEF CachedConns, ConnectionPlaced
    <3>. QED  BY <2>2, <2>3, <2>4, <3>1 DEF KeptOpen
  <2>5. InCall(id, {"dropConn"})'  BY <2>1 DEF InCall
  <2>6. \A i \in TransIds : InCall(i, {"dropConn"}) => InCall(i, {"dropConn"})'
    BY <1>1, OthersUnchanged DEF InCall
  <2>7. ASSUME NEW i \in TransIds, NEW d \in Cached(i)
        PROVE  connState'[connCache[i][d]] = "open" \/ InCall(i, {"dropConn"})'
    <3>1. connCache[i][d] \in Conns /\ connCache[i][d] \in PoolOf(i, d)
      BY DEF ConnectionPlaced, PoolOf
    <3>2. CASE connCache[i][d] \in CachedConns(id)
      <4>1. i = id  BY <1>1, <3>1, <3>2 DEF CachedConns, ConnectionPlaced, PoolOf
      <4>. QED  BY <2>1, <4>1 DEF InCall
    <3>3. CASE connCache[i][d] \notin CachedConns(id)
      BY <2>3, <2>6, <3>1, <3>3 DEF KeptOpen
    <3>. QED  BY <3>2, <3>3
  <2>. QED  BY <1>1, <2>4, <2>7 DEF KeptOpen, Cached
<1>. QED  BY <1>2, <1>3, <1>4 DEF CloseConns

LEMMA StepKeptOpen ==
    ~CloseFaults /\ TypeOK /\ ConnectionPlaced /\ ExclusiveCalls /\ KeptOpen /\ [Next]_vars
        => KeptOpen'
<1>. SUFFICES ASSUME ~CloseFaults, TypeOK, ConnectionPlaced, ExclusiveCalls, KeptOpen,
                     [Next]_vars
              PROVE  KeptOpen'
  OBVIOUS
<1>1. ASSUME NEW t \in Threads, ThreadStep(t), ~CloseConns(t)  PROVE KeptOpen'
  <2>1. \A u \in Threads, c \in Conns : Holds(u, c)' => connState'[c] = "open"
    BY <1>1, OpenEffect DEF KeptOpen
  <2>2. ASSUME NEW i \in TransIds, NEW d \in Cached(i)'
        PROVE  connState'[connCache'[i][d]] = "open" \/ InCall(i, {"dropConn"})'
    <3>1. d \in DataSources /\ connCache'[i][d] # NoConn  BY DEF Cached
    <3>2. CASE connCache'[i][d] \in Conns /\ Holds(t, connCache'[i][d])
      BY <1>1, <3>2, OpenEffect DEF KeptOpen
    <3>3. CASE connCache'[i][d] = connCache[i][d]
      <4>1. d \in Cached(i) /\ connCache[i][d] \in Conns
        BY <3>1, <3>3 DEF Cached, TypeOK
      <4>2. CASE connState[connCache[i][d]] = "open"
        BY <1>1, <3>3, <4>1, <4>2, OpenEffect
      <4>3. ASSUME NEW u \in Threads, call[u].id = i, call[u].pc = "dropConn"
            PROVE  call'[u] = call[u]
        <5>1. CASE u # t  BY <1>1, <5>1, OthersUnchanged
        <5>2. CASE u = t /\ ~DropConnMap(t)  BY <1>1, <4>3, <5>2, LeavesDropConn
        <5>3. CASE u = t /\ DropConnMap(t)
          BY <3>1, <4>3, <5>3 DEF DropConnMap, TypeOK
        <5>. QED  BY <5>1, <5>2, <5>3
      <4>. QED  BY <4>1, <4>2, <4>3 DEF KeptOpen, InCall
    <3>. QED  BY <1>1, <3>1, <3>2, <3>3, OpenEffect
  <2>. QED  BY <2>1, <2>2 DEF KeptOpen
<1>2. CASE UNCHANGED vars
  BY <1>2 DEF vars, KeptOpen, Cached, InCall, Holds
<1>. QED  BY <1>1, <1>2, CloseKeepsOpen DEF Next

\* Why getConnection answers with open connections: an entry of connCache is
\* open, unless the call that closed it is about to drop it.
THEOREM KeptOpenHolds ==
    ASSUME PrivateUse \/ TakeTurns, ~CloseFaults
    PROVE  Spec => []KeptOpen
<1>1. Init => KeptOpen
  <2>1. Returned("ok").pc = "idle"  BY DEF Returned
  <2>. QED  BY <2>1 DEF Init, KeptOpen, Cached, Holds, PutPcs
<1>2. TypeOK /\ ConnectionPlaced /\ ExclusiveCalls /\ KeptOpen /\ [Next]_vars => KeptOpen'
  BY StepKeptOpen
<1>3. Spec => []TypeOK  BY Typing
<1>. QED  BY <1>1, <1>2, <1>3, PlacedAlways, CallsExclusive, PTL DEF Spec

\* While no close() throws, getConnection never hands out a connection that
\* commit or rollback has closed: to callers on any number of threads that keep
\* ids to themselves, or use one another's but take turns.
THEOREM NothingStale ==
    ASSUME PrivateUse \/ TakeTurns, ~CloseFaults
    PROVE  Spec => NoStaleConnection
<1>. DEFINE AnswersOpen ==
         \A t \in Threads :
             GetFetch(t) /\ call'[t].res = "ok"
                 => connState[connCache[call[t].id][call[t].ds]] = "open"
<1>1. TypeOK /\ ExclusiveCalls /\ KeptOpen => AnswersOpen
  <2>. SUFFICES ASSUME TypeOK, ExclusiveCalls, KeptOpen, NEW t \in Threads, GetFetch(t),
                       call'[t].res = "ok"
                PROVE  connState[connCache[call[t].id][call[t].ds]] = "open"
    OBVIOUS
  <2>1. call[t].pc = "fetch" /\ call[t].id \in TransIds /\ call[t].ds \in DataSources
    BY CallFacts DEF GetFetch, At, NoIdPcs, GetPcs
  <2>2. call[t].ds \in Cached(call[t].id)
    BY <2>1, FrameAfter DEF GetFetch, Cached
  <2>3. ~InCall(call[t].id, {"dropConn"})
    BY <2>1 DEF InCall, ExclusiveCalls, NoIdPcs
  <2>. QED  BY <2>1, <2>2, <2>3 DEF KeptOpen
<1>2. Spec => []TypeOK  BY Typing
<1>3. Spec => [][AnswersOpen]_vars
  BY <1>1, <1>2, CallsExclusive, KeptOpenHolds, PTL
<1>. QED  BY <1>3 DEF NoStaleConnection

-----------------------------------------------------------------------------
(* commitAllTransaction and rollAllTransaction release every id, and no    *)
(* connection is lost, when callers take turns.                            *)

\* On a step of its own, a call can rely on what it has seen in connCache, and
\* every open connection is still found.
LEMMA CallStillSo ==
    ASSUME TypeOK, NEW t \in Threads, ThreadStep(t), ConnFacts(t)
    PROVE  ConnFacts(t)'
<1>. USE DEF PutPcs
<1>1. CASE NewStep(t)
  <2>1. call[t].pc \in {"idle", "newDs"} /\ UNCHANGED <<connCache, connState>>
    BY <1>1 DEF NewStep, NewRefused, NewPutUtx, NewPutDs, Idle, At
  <2>2. call'[t].pc \in {"idle", "newDs"}
    BY <1>1, FrameAfter DEF NewStep, NewRefused, NewPutDs
  <2>. QED  BY <2>1, <2>2, QuietStep
<1>2. CASE CloseStep(t)  BY <1>2, CloseKeeps
<1>3. CASE GetStep(t)  BY <1>3, GetKeeps
<1>4. CASE DeleteStep(t)
  BY <1>4, FrameAfter, QuietStep DEF DeleteStep, DeleteDs, DeleteUtx, DeleteAll, Idle, At
<1>5. CASE BulkStep(t)
  <2>1. UNCHANGED <<connCache, connState>> /\ call[t].pc \in {"idle", "bulk", "bulkClose"}
    BY <1>5 DEF BulkStep, BulkStart, BulkEnd, BulkClose, Idle, At
  <2>2. call'[t].pc \in {"idle", "bulk", "bulkClose", "close"}
    BY <1>5, BulkFrame, FrameAfter DEF BulkStep
  <2>. QED  BY <2>1, <2>2, QuietStep
<1>6. CASE \E id \in TransIds : BeginTransaction(t, id)
  BY <1>6, FrameAfter, QuietStep DEF BeginTransaction, Idle
<1>7. CASE \E op \in EndOps, id \in TransIds : EndTransaction(t, op, id)
  BY <1>7, FrameAfter, QuietStep DEF EndTransaction, Idle
<1>8. CASE Timeout(t)
  BY <1>8 DEF Timeout, ConnFacts, CacheKeyed, NoOrphan, SeenStillSo, Cached, CachedConns, Holds
<1>. QED  BY <1>1, <1>2, <1>3, <1>4, <1>5, <1>6, <1>7, <1>8 DEF ThreadStep

\* A step touches the connections only of the id that the call is on.
LEMMA OnlyCalledTouched ==
    ASSUME TypeOK, CacheKeyed, NEW t \in Threads, ThreadStep(t), NEW id \in TransIds,
           call[t].pc \in NoIdPcs \/ call[t].id # id
    PROVE  /\ connCache'[id] = connCache[id]
           /\ \A c \in Conns : c[1] = id => connState'[c] = connState[c]
<1>1. CASE CloseConns(t)
  <2>1. call[t].id \in TransIds /\ call[t].id # id
    BY <1>1, CallFacts DEF CloseConns, At, NoIdPcs
  <2>2. \A c \in CachedConns(call[t].id) : c[1] = call[t].id
    BY <2>1 DEF CachedConns, CacheKeyed, PoolOf
  <2>3. ASSUME NEW cs \in SUBSET CachedConns(call[t].id), CloseAll(cs)
        PROVE  \A c \in Conns : c[1] = id => connState'[c] = connState[c]
    BY <2>1, <2>2, <2>3 DEF CloseAll
  <2>. QED  BY <1>1, <2>3 DEF CloseConns
<1>2. CASE DropConnMap(t)
  BY <1>2 DEF DropConnMap, TypeOK, At, NoIdPcs
<1>3. CASE GetOpen(t)
  <2>1. \A c \in PoolOf(call[t].id, call[t].ds) : c[1] = call[t].id  BY DEF PoolOf
  <2>. QED  BY <1>3, <2>1 DEF GetOpen, TypeOK, At, NoIdPcs
<1>4. CASE GetPutOld(t)
  <2>1. \/ UNCHANGED connCache
        \/ connCache' = [connCache EXCEPT ![call[t].id] =
               [connCache[call[t].id] EXCEPT ![call[t].ds] = call[t].conn]]
    BY <1>4 DEF GetPutOld
  <2>. QED  BY <1>4, <2>1 DEF GetPutOld, TypeOK, At, NoIdPcs
<1>5. CASE GetPutNew(t)
  BY <1>5 DEF GetPutNew, TypeOK, At, NoIdPcs
<1>6. CASE ~CloseConns(t) /\ ~DropConnMap(t) /\ ~GetOpen(t) /\ ~GetPutOld(t) /\ ~GetPutNew(t)
  <2>1. UNCHANGED <<connCache, connState>>
    BY <1>6 DEF ThreadStep, NewStep, NewRefused, NewPutUtx, NewPutDs, CloseStep, DropDsMap,
         GetStep, GetLookup, GetPeek, GetFetch, GetCheckMap, DeleteStep, DeleteDs,
         DeleteUtx, DeleteAll, BulkStep, BulkStart, BulkEnd, BulkClose, BeginTransaction,
         EndTransaction, Timeout
  <2>. QED  BY <2>1
<1>. QED  BY <1>1, <1>2, <1>3, <1>4, <1>5, <1>6

\* And what calls on other ids have seen there is still so.
LEMMA OtherCallStillSo ==
    ASSUME TypeOK, ExclusiveCalls, CacheKeyed, NEW t \in Threads, ThreadStep(t),
           NEW u \in Threads, u # t, SeenStillSo(u)
    PROVE  SeenStillSo(u)' /\ (call[u].pc = "dropDs" => Cached(call[u].id)' = Cached(call[u].id))
<1>1. call'[u] = call[u]  BY OthersUnchanged
<1>2. CASE call[u].pc \in NoIdPcs
  BY <1>1, <1>2 DEF SeenStillSo, NoIdPcs, PutPcs
<1>3. CASE call[u].pc \notin NoIdPcs
  <2>. DEFINE id == call[u].id
  <2>1. id \in TransIds /\ (call[t].pc \in NoIdPcs \/ call[t].id # id)
    BY <1>3, CallFacts DEF ExclusiveCalls
  <2>2. /\ connCache'[id] = connCache[id]
        /\ \A c \in Conns : c[1] = id => connState'[c] = connState[c]
    BY <2>1, OnlyCalledTouched
  <2>3. Cached(id)' = Cached(id) /\ CachedConns(id)' = CachedConns(id)
    BY <1>1, <2>2 DEF Cached, CachedConns
  <2>4. \A c \in CachedConns(id) : c \in Conns /\ c[1] = id
    BY <2>1 DEF CachedConns, CacheKeyed, PoolOf
  <2>. QED  BY <1>1, <2>2, <2>3, <2>4 DEF SeenStillSo
<1>. QED  BY <1>2, <1>3

\* While a bulk call runs no other thread changes a map.
LEMMA BulkUndisturbed ==
    ASSUME TakeTurns, TypeOK, TurnsKept, NEW t \in Threads, ThreadStep(t),
           NEW u \in Threads, u # t, call[u].op \in BulkOps
    PROVE  UNCHANGED <<utxCache, dsCache, connCache, connState>>
<1>1. call[t].pc = "idle" /\ call[u].pc # "idle"
  BY DEF TurnsKept, BulkAlone, ClosePcs
<1>2. ~TurnOfAll /\ \A id : ~Turn(id)
  BY <1>1 DEF TurnOfAll, Turn, Idle
<1>. QED
  BY <1>1, <1>2 DEF ThreadStep, NewStep, NewRefused, NewPutUtx, NewPutDs, CloseStep,
       CloseConns, DropConnMap, DropDsMap, GetStep, GetLookup, GetPeek, GetFetch, GetOpen,
       GetCheckMap, GetPutOld, GetPutNew, DeleteStep, DeleteDs, DeleteUtx, DeleteAll, BulkStep,
       BulkStart, BulkEnd, BulkClose, BeginTransaction, EndTransaction, Timeout, At

\* What BulkInv says of one thread.
BulkFacts(t) ==
    /\ call[t].op \in BulkOps =>
           /\ call[t].pc \in {"bulk", "bulkClose"} \cup ClosePcs
           /\ call[t].pc # "bulk" => \A i \in utxCache \ call[t].todo :
                  Released(i) \/ (call[t].pc \in ClosePcs /\ call[t].id = i)
    /\ call[t].pc = "dropDs" => Cached(call[t].id) = {}

LEMMA OtherBulkFacts ==
    ASSUME TakeTurns, TypeOK, TurnsKept, CacheKeyed, NEW t \in Threads, ThreadStep(t),
           NEW u \in Threads, u # t, SeenStillSo(u), BulkFacts(u)
    PROVE  BulkFacts(u)'
<1>1. call'[u] = call[u]  BY OthersUnchanged
<1>2. call[u].pc = "dropDs" => Cached(call[u].id)' = {}
  BY OtherCallStillSo DEF BulkFacts, TurnsKept
<1>3. ASSUME call[u].op \in BulkOps
      PROVE  utxCache' = utxCache /\ \A i : Released(i)' = Released(i)
  BY <1>3, BulkUndisturbed DEF Released, Opened, Cached
<1>. QED  BY <1>1, <1>2, <1>3 DEF BulkFacts

\* The closing steps of an id take nothing back of what is released, and leave
\* the id released.
LEMMA ClosingReleases ==
    ASSUME TypeOK, ExclusiveCalls, NEW t \in Threads, CloseStep(t), ConnFacts(t), BulkFacts(t)
    PROVE  /\ \A i \in TransIds : Released(i) => Released(i)'
           /\ DropConnMap(t) => \A i \in TransIds : i = call[t].id => Cached(i)' = {}
           /\ DropDsMap(t) /\ ~Return(t, "NullPointerException")
                  => \A i \in TransIds : i = call[t].id => Released(i)'
<1>0. call[t].id \in TransIds
  BY CallFacts DEF CloseStep, CloseConns, DropConnMap, DropDsMap, At, NoIdPcs
<1>1. \A c \in Conns : connState'[c] = "open" => connState[c] = "open"
  BY DEF CloseStep, CloseConns, CloseAll, DropConnMap, DropDsMap
<1>2. \A i \in TransIds, d \in DataSources : connCache'[i][d] \in {connCache[i][d], NoConn}
  <2>1. CASE DropConnMap(t)  BY <1>0, <2>1 DEF DropConnMap, TypeOK
  <2>. QED  BY <2>1 DEF CloseStep, CloseConns, DropDsMap
<1>3. \A i \in TransIds : dsCache'[i] \in {dsCache[i], NoMap}
  BY DEF CloseStep, CloseConns, DropConnMap, DropDsMap, TypeOK
<1>4. \A i \in TransIds : Released(i) => Released(i)'
  BY <1>1, <1>2, <1>3 DEF Released, Opened, Cached
<1>5. ASSUME DropConnMap(t), NEW i \in TransIds, i = call[t].id  PROVE Cached(i)' = {}
  BY <1>5 DEF DropConnMap, Cached, TypeOK
<1>6. ASSUME DropDsMap(t), ~Return(t, "NullPointerException"),
             NEW i \in TransIds, i = call[t].id
      PROVE  Released(i)'
  <2>1. /\ call[t].pc = "dropDs" /\ UNCHANGED <<connCache, connState>> /\ dsCache'[i] = NoMap
    BY <1>6 DEF DropDsMap, At, TypeOK
  <2>2. Cached(i) = {}  BY <1>6, <2>1 DEF BulkFacts, At
  <2>3. ASSUME NEW c \in Opened(i)  PROVE FALSE
    <3>1. c[1] = i /\ c[2] \in DataSources /\ c # NoConn /\ c \in Conns /\ connState[c] = "open"
      BY NoConnAssumption DEF Opened, Conns
    <3>2. connCache[i][c[2]] # c  BY <2>2, <3>1 DEF Cached
    <3>3. PICK u \in Threads : Holds(u, c)  BY <3>1, <3>2 DEF ConnFacts, NoOrphan
    <3>4. call[u].pc \in PutPcs /\ call[u].id = i
      BY <3>1, <3>3, CallFacts DEF Holds, PoolOf
    <3>5. u = t  BY <1>6, <2>1, <3>4 DEF ExclusiveCalls, PutPcs, NoIdPcs
    <3>. QED  BY <2>1, <3>4, <3>5 DEF PutPcs
  <2>. QED  BY <2>1, <2>2, <2>3 DEF Released, Opened, Cached
<1>. QED  BY <1>4, <1>5, <1>6

LEMMA OwnBulkFacts ==
    ASSUME TypeOK, ExclusiveCalls, NEW t \in Threads, ThreadStep(t), ConnFacts(t), BulkFacts(t)
    PROVE  BulkFacts(t)'
<1>. DEFINE Done == \A i \in utxCache \ call[t].todo :
                        Released(i) \/ (call[t].pc \in ClosePcs /\ call[t].id = i)
<1>0. /\ call[t].op \in BulkOps =>
             /\ call[t].pc \in {"bulk", "bulkClose"} \cup ClosePcs
             /\ call[t].pc # "bulk" => Done
      /\ call[t] \in Frame /\ utxCache \subseteq TransIds
      /\ ~("idle" \in {"bulk", "bulkClose"} \cup ClosePcs)
  BY CallFacts DEF BulkFacts, At, TypeOK, ClosePcs
<1>1. SUFFICES /\ call'[t].op \in BulkOps =>
                      /\ call'[t].pc \in {"bulk", "bulkClose"} \cup ClosePcs
                      /\ call'[t].pc # "bulk" => \A i \in utxCache' \ call'[t].todo :
                             Released(i)' \/ (call'[t].pc \in ClosePcs /\ call'[t].id = i)
               /\ call'[t].pc = "dropDs" => \A i : i = call'[t].id => Cached(i)' = {}
  <2>2. Cached(call[t].id)' = {d \in DataSources : connCache'[call'[t].id][d] # NoConn}
    BY DEF Cached
  <2>3. \A i : Cached(i)' = {d \in DataSources : connCache'[i][d] # NoConn}
    BY DEF Cached
  <2>. QED  BY <2>2, <2>3 DEF BulkFacts, At
<1>2. CASE Timeout(t)
  <2>1. UNCHANGED <<utxCache, dsCache, connCache, connState, call>>  BY <1>2 DEF Timeout
  <2>2. \A i : Released(i)' = Released(i)  BY <2>1 DEF Released, Opened, Cached
  <2>3. \A i : Cached(i)' = Cached(i)  BY <2>1 DEF Cached
  <2>. QED  BY <1>0, <2>1, <2>2, <2>3 DEF BulkFacts, At
<1>3. CASE ~CloseStep(t) /\ ~BulkStep(t) /\ ~Timeout(t)
  <2>1. call[t].pc \in GetPcs => call[t].op \notin BulkOps
    BY <1>0 DEF GetPcs, PutPcs, ClosePcs
  <2>. QED  BY <1>3, <2>1, NoBulkStep
<1>4. CASE BulkStep(t)
  <2>1. UNCHANGED <<utxCache, dsCache, connCache, connState>>
    BY <1>4 DEF BulkStep, BulkStart, BulkEnd, BulkClose
  <2>2. \A i : Released(i)' = Released(i)  BY <2>1 DEF Released, Opened, Cached
  <2>3. ASSUME NEW r, Return(t, r)  PROVE call'[t].op = "none" /\ call'[t].pc = "idle"
    BY <2>3, OwnedReturn
  <2>4. CASE \E op \in BulkOps : BulkStart(t, op)
    BY <2>4, BulkFrame
  <2>5. CASE BulkEnd(t)
    BY <2>1, <2>3, <2>5, BulkFrame DEF BulkOps
  <2>6. CASE BulkClose(t)
    <3>1. CASE Return(t, "ok")  BY <2>3, <3>1 DEF BulkOps
    <3>2. ASSUME NEW id \in call[t].todo, call'[t].pc = "close", call'[t].id = id,
                 call'[t].todo = call[t].todo \ {id}, call[t].op \in BulkOps
          PROVE  \A i \in utxCache' \ call'[t].todo : Released(i)' \/ call'[t].id = i
      <4>1. call[t].pc = "bulkClose"  BY <2>6 DEF BulkClose, At
      <4>2. Done /\ call[t].pc \notin ClosePcs  BY <1>0, <3>2, <4>1 DEF ClosePcs
      <4>. QED  BY <2>1, <2>2, <3>2, <4>2
    <3>3. ASSUME NEW id \in call[t].todo,
                 call' = [call EXCEPT ![t].pc = "close", ![t].id = id, ![t].todo = @ \ {id}]
          PROVE  call'[t].op = call[t].op
      <4>1. call'[t] = [call[t] EXCEPT !.pc = "close", !.id = id, !.todo = call[t].todo \ {id}]
        BY <3>3 DEF TypeOK
      <4>. QED  BY <1>0, <4>1 DEF Frame
    <3>. QED  BY <2>6, <3>1, <3>2, <3>3, BulkFrame DEF BulkClose, ClosePcs
  <2>. QED  BY <1>4, <2>4, <2>5, <2>6 DEF BulkStep
<1>5. CASE CloseStep(t)
  <2>1. call[t].pc \in ClosePcs /\ call[t].id \in TransIds /\ utxCache' = utxCache
    BY <1>5, CallFacts DEF CloseStep, CloseConns, DropConnMap, DropDsMap, At, ClosePcs, NoIdPcs
  <2>2. ASSUME NEW r, Return(t, r)  PROVE call'[t].op = "none" /\ call'[t].pc = "idle"
    BY <2>2, OwnedReturn
  <2>3. ASSUME NEW pc \in {"dropConn", "dropDs", "bulkClose"}, Goto(t, pc)
        PROVE  /\ call'[t].pc = pc /\ call'[t].id = call[t].id
               /\ call'[t].op = call[t].op /\ call'[t].todo = call[t].todo
    BY <1>0, <2>3, Strings DEF Goto, TypeOK, Frame
  <2>4. ASSUME call[t].op \in BulkOps, call'[t].todo = call[t].todo,
               NEW i \in utxCache' \ call'[t].todo
        PROVE  Released(i)' \/ i = call[t].id
    <3>1. Done  BY <1>0, <2>1, <2>4 DEF ClosePcs
    <3>2. i \in TransIds  BY <1>0, <2>1
    <3>. QED  BY <1>5, <2>1, <2>4, <3>1, <3>2, ClosingReleases
  <2>5. CASE CloseConns(t)
    BY <2>2, <2>3, <2>4, <2>5 DEF CloseConns, BulkOps, ClosePcs
  <2>6. CASE DropConnMap(t)
    <3>1. call'[t].pc = "dropDs" /\ call'[t].id = call[t].id
          /\ call'[t].op = call[t].op /\ call'[t].todo = call[t].todo
      BY <2>3, <2>6 DEF DropConnMap
    <3>. QED  BY <1>5, <2>1, <2>4, <2>6, <3>1, ClosingReleases DEF ClosePcs
  <2>7. CASE DropDsMap(t)
    <3>1. CASE \E r : Return(t, r)  BY <2>2, <3>1 DEF BulkOps
    <3>2. CASE Goto(t, "bulkClose") /\ ~Return(t, "NullPointerException")
      BY <1>5, <2>1, <2>3, <2>4, <2>7, <3>2, ClosingReleases
    <3>. QED  BY <2>7, <3>1, <3>2 DEF DropDsMap
  <2>. QED  BY <1>5, <2>5, <2>6, <2>7 DEF CloseStep
<1>. QED  BY <1>2, <1>3, <1>4, <1>5

\* What holds of the connections when callers take turns.
TurnsConnInv == CacheKeyed /\ NoOrphan /\ (\A t \in Threads : SeenStillSo(t)) /\ BulkInv

LEMMA StepTurnsConn ==
    TakeTurns /\ TypeOK /\ TurnsKept /\ TurnsConnInv /\ [Next]_vars => TurnsConnInv'
<1>0. BulkInv <=> \A t \in Threads : BulkFacts(t)
  BY DEF BulkInv, BulkFacts, At
<1>1. ASSUME TakeTurns, TypeOK, TurnsKept, TurnsConnInv, NEW t \in Threads, ThreadStep(t)
      PROVE  TurnsConnInv'
  <2>1. /\ ConnFacts(t) /\ ExclusiveCalls /\ CacheKeyed
        /\ \A u \in Threads : SeenStillSo(u) /\ BulkFacts(u)
    BY <1>0, <1>1 DEF TurnsConnInv, ConnFacts, TurnsKept
  <2>2. ConnFacts(t)' /\ BulkFacts(t)'
    BY <1>1, <2>1, CallStillSo, OwnBulkFacts
  <2>3. ASSUME NEW u \in Threads, u # t  PROVE SeenStillSo(u)' /\ BulkFacts(u)'
    BY <1>1, <2>1, <2>3, OtherCallStillSo, OtherBulkFacts
  <2>4. BulkInv'
    BY <2>2, <2>3 DEF BulkInv, BulkFacts, At
  <2>. QED  BY <2>2, <2>3, <2>4 DEF TurnsConnInv, ConnFacts
<1>2. ASSUME TurnsConnInv, UNCHANGED vars  PROVE TurnsConnInv'
  BY <1>2 DEF vars, TurnsConnInv, CacheKeyed, NoOrphan, SeenStillSo, BulkInv, Released, Opened,
              Cached, CachedConns, Holds, At
<1>. QED  BY <1>1, <1>2 DEF Next

LEMMA TurnsConn == ASSUME TakeTurns PROVE Spec => []TurnsConnInv
<1>1. Init => TurnsConnInv
  <2>1. ConnInv /\ Init => TurnsConnInv
    <3>1. Returned("ok").op = "none" /\ Returned("ok").pc = "idle"  BY DEF Returned
    <3>. QED  BY <3>1 DEF Init, ConnInv, TurnsConnInv, BulkInv, BulkOps, At
  <2>. QED  BY <2>1, InitConnInv
<1>2. TypeOK /\ TurnsKept /\ TurnsConnInv /\ [Next]_vars => TurnsConnInv'
  BY StepTurnsConn
<1>3. Spec => []TypeOK  BY Typing
<1>. QED  BY <1>1, <1>2, <1>3, TurnsHold, PTL DEF Spec

\* When callers take turns, the ids that the second loop of commitAllTransaction
\* or rollAllTransaction is done with are released and stay so, whichever
\* threads made and used them: ids that repeat and a close() that throws change
\* nothing of that.
THEOREM BulkInvHolds == ASSUME TakeTurns PROVE Spec => []BulkInv
<1>1. TurnsConnInv => BulkInv  BY DEF TurnsConnInv
<1>. QED  BY <1>1, TurnsConn, PTL

\* So commitAllTransaction and rollAllTransaction return normally only when
\* nothing is open, cached or configured for any id, of whatever thread.
THEOREM BulkReleasesAll == ASSUME TakeTurns PROVE Spec => BulkReleases
<1>. DEFINE ReturnsReleased ==
         \A t \in Threads :
             call[t].op \in BulkOps /\ call'[t].pc = "idle" /\ call'[t].res = "ok"
                 => \A id \in utxCache : Released(id)
<1>1. TypeOK /\ TurnsConnInv /\ [Next]_vars => [ReturnsReleased]_vars
  <2>. SUFFICES ASSUME TypeOK, BulkInv, NEW v \in Threads, ThreadStep(v), NEW t \in Threads,
                       call[t].op \in BulkOps, call'[t].pc = "idle", call'[t].res = "ok"
                PROVE  \A id \in utxCache : Released(id)
    BY DEF Next, TurnsConnInv
  <2>0. ThreadStep(t)
    <3>1. call[t].pc # "idle"  BY DEF BulkInv, ClosePcs
    <3>2. ASSUME v # t  PROVE call'[t] = call[t]  BY <3>2, OthersUnchanged
    <3>. QED  BY <3>1, <3>2
  <2>1. /\ call[t].pc \in {"bulk", "bulkClose"} \cup ClosePcs
        /\ call[t].pc # "bulk" => \A i \in utxCache \ call[t].todo :
               Released(i) \/ (call[t].pc \in ClosePcs /\ call[t].id = i)
    BY DEF BulkInv, At
  <2>2. BulkClose(t)
    <3>1. ASSUME NEW r, Return(t, r)  PROVE r = "ok"
      BY <3>1, FrameAfter
    <3>2. ASSUME NEW pc \in Pcs, Goto(t, pc)  PROVE pc = "idle"
      BY <3>2, FrameAfter
    <3>3. ~CloseStep(t)
      <4>1. ~CloseConns(t)  BY <3>1, <3>2, Strings DEF CloseConns
      <4>2. ~DropConnMap(t)  BY <3>2, Strings DEF DropConnMap
      <4>3. ~DropDsMap(t)  BY <3>1, <3>2, Strings DEF DropDsMap
      <4>. QED  BY <4>1, <4>2, <4>3 DEF CloseStep
    <3>4. ~BulkEnd(t)  BY <3>1, BulkFrame
    <3>5. ASSUME ~BulkStep(t)  PROVE FALSE
      <4>1. call[t].pc \in {"bulk", "bulkClose", "close", "dropConn", "dropDs"}
        BY <2>1 DEF ClosePcs
      <4>. QED
        BY <2>0, <3>3, <3>5, <4>1 DEF ThreadStep, NewStep, NewRefused, NewPutUtx, NewPutDs, GetStep,
             GetLookup, GetPeek, GetFetch, GetOpen, GetCheckMap, GetPutOld, GetPutNew,
             DeleteStep, DeleteDs, DeleteUtx, DeleteAll, BeginTransaction, EndTransaction,
             Timeout, Idle, At
    <3>6. \A op : ~BulkStart(t, op)  BY BulkFrame
    <3>. QED  BY <3>4, <3>5, <3>6 DEF BulkStep
  <2>3. call[t].pc = "bulkClose" /\ call[t].todo = {}
    BY <2>2, BulkFrame DEF BulkClose, At
  <2>. QED  BY <2>1, <2>3 DEF ClosePcs
<1>2. Spec => []TypeOK  BY Typing
<1>3. Spec => [][ReturnsReleased]_vars
  BY <1>1, <1>2, TurnsConn, PTL DEF Spec
<1>. QED  BY <1>3 DEF BulkReleases

\* And no connection is lost, and never a second one needed from a pool, although
\* any thread uses any id: the two hazards are of calls on one id that overlap.
THEOREM NothingLostInTurns == ASSUME TakeTurns PROVE Spec => [](NoOrphan /\ OneOpenPerPool)
<1>1. TypeOK /\ TurnsKept /\ TurnsConnInv => NoOrphan /\ OneOpenPerPool
  <2>. SUFFICES ASSUME TypeOK, TurnsKept, TurnsConnInv, NEW c \in Conns, NEW d \in Conns,
                       connState[c] = "open", connState[d] = "open",
                       c[1] = d[1], c[2] = d[2]
                PROVE  c = d
    BY DEF OneOpenPerPool, TurnsConnInv
  <2>1. c[1] \in TransIds /\ c[2] \in DataSources /\ c # NoConn /\ d # NoConn
    BY NoConnAssumption DEF Conns
  <2>2. ASSUME NEW t \in Threads, NEW e \in {c, d}, Holds(t, e)
        PROVE  connCache[c[1]][c[2]] = NoConn
    <3>1. call[t].id = c[1] /\ call[t].ds = c[2]
      BY <2>2, CallFacts DEF Holds, PoolOf, PutPcs, GetPcs
    <3>2. call[t].ds \notin Cached(call[t].id)
      BY <2>2 DEF Holds, TurnsConnInv, SeenStillSo
    <3>. QED  BY <2>1, <3>1, <3>2 DEF Cached
  <2>3. \/ connCache[c[1]][c[2]] = c
        \/ \E t \in Threads : Holds(t, c)
    BY DEF TurnsConnInv, NoOrphan
  <2>4. \/ connCache[c[1]][c[2]] = d
        \/ \E t \in Threads : Holds(t, d)
    BY DEF TurnsConnInv, NoOrphan
  <2>5. ASSUME NEW t \in Threads, NEW u \in Threads, Holds(t, c), Holds(u, d)
        PROVE  c = d
    <3>1. /\ call[t].id = c[1] /\ call[u].id = c[1]
          /\ call[t].pc \notin NoIdPcs /\ call[u].pc \notin NoIdPcs
      BY <2>5, CallFacts DEF Holds, PoolOf, PutPcs, NoIdPcs
    <3>2. t = u  BY <3>1 DEF TurnsKept, ExclusiveCalls
    <3>. QED  BY <2>5, <3>2 DEF Holds
  <2>. QED  BY <2>1, <2>2, <2>3, <2>4, <2>5
<1>2. Spec => []TypeOK  BY Typing
<1>. QED  BY <1>1, <1>2, TurnsHold, TurnsConn, PTL
=============================================================================
