-------------------------- MODULE UserAdmin_proofs --------------------------
(***************************************************************************)
(* Proofs about UserAdmin, for every set of users, rows and requests.      *)
(***************************************************************************)
EXTENDS UserAdmin, FiniteSetTheorems, TLAPS

-----------------------------------------------------------------------------
(* The inductive invariant. A request acts on what it read; these are the    *)
(* parts of it that are still true when it does, and what raced remembers.   *)

Inserting(q, u) == request[q].op = "assign" /\ request[q].user = u /\ request[q].row = NoRow

\* If the counter is kept, ids that were not handed out yet have left no trace.
UsedBefore ==
    CounterKept =>
        /\ \A u \in UserIds : users[u] # Absent \/ RowsOf(u) # {} => u \in used
        /\ \A q \in Requests : request[q].op = "assign" => request[q].user \in used

\* A row that a request read is still there, and the same user's.
RowStillThere ==
    \A q \in Requests :
        request[q].op = "assign" /\ request[q].row # NoRow
            => request[q].row \in RowsOf(request[q].user)

\* Of two requests that found no row for a user the second one saw the first; and
\* if one of them has inserted its row since, the other one is still marked.
RacedNoted ==
    /\ \A q, r \in Requests, u \in UserIds :
          q # r /\ Inserting(q, u) /\ Inserting(r, u) => u \in raced
    /\ \A q \in Requests, u \in UserIds :
          Inserting(q, u) /\ RowsOf(u) # {} => u \in raced

IInv == TypeOK /\ UsedBefore /\ RowStillThere /\ RacedNoted /\ TwoRolesOnlyByRace

-----------------------------------------------------------------------------
(* Lemmas.                                                                   *)

\* The rows of a user are finitely many.
LEMMA RowsFinite ==
    ASSUME NEW u
    PROVE  IsFiniteSet(RowsOf(u)) /\ Cardinality(RowsOf(u)) \in Nat
<1>1. RowsOf(u) \in SUBSET RowIds  BY DEF RowsOf
<1>2. IsFiniteSet(RowsOf(u))  BY <1>1, FS_Subset, AdminAssumption
<1>. QED  BY <1>2, FS_CardinalityType

\* One row, or none, is not more than one.
LEMMA AtMostOne ==
    ASSUME NEW S, NEW r, S \subseteq {r}
    PROVE  ~(Cardinality(S) > 1)
<1>1. IsFiniteSet({r}) /\ Cardinality({r}) = 1  BY FS_Singleton
<1>2. IsFiniteSet(S) /\ Cardinality(S) <= 1  BY <1>1, FS_Subset
<1>. QED  BY <1>2, FS_CardinalityType

\* What each kind of request holds.
LEMMA RequestShape ==
    ASSUME TypeOK, NEW q \in Requests
    PROVE  /\ request[q].op = "update" => /\ request[q].user \in UserIds
                                          /\ request[q].profile \in Profiles
           /\ request[q].op = "delete" => request[q].found \in SUBSET UserIds
           /\ request[q].op = "assign" => /\ request[q].user \in UserIds
                                          /\ request[q].row \in RowIds \cup {NoRow}
                                          /\ request[q].role \in Roles
<1>1. request[q] \in RequestStates  BY DEF TypeOK
<1>. QED  BY <1>1 DEF RequestStates, Idle, Updating, Deleting, Assigning

\* The records a request can be set to.
LEMMA RequestRecords ==
    /\ Idle \in RequestStates
    /\ \A u \in UserIds, p \in Profiles : Updating(u, p) \in RequestStates
    /\ \A us \in SUBSET UserIds, f \in SUBSET UserIds : Deleting(us, f) \in RequestStates
    /\ \A u \in UserIds, r \in RowIds \cup {NoRow}, role \in Roles :
          Assigning(u, r, role) \in RequestStates
BY DEF RequestStates

\* The steps that touch neither role rows nor role assignments, apart from ending one.
RowsAside ==
    /\ UNCHANGED <<roleRows, raced>>
    /\ \A q \in Requests : request'[q].op = "assign" => request'[q] = request[q]
    /\ CounterKept => used \subseteq used'
    /\ \A u \in UserIds : users'[u] # Absent => users[u] # Absent \/ u \in used'

-----------------------------------------------------------------------------
(* The initial states.                                                       *)

LEMMA InitIInv == Init => IInv
<1>. SUFFICES ASSUME Init PROVE IInv  OBVIOUS
<1>1. TypeOK  BY RequestRecords DEF Init, TypeOK
<1>2. \A q \in Requests : request[q].op = "idle"  BY DEF Init, Idle
<1>3. UsedBefore  BY <1>2 DEF Init, UsedBefore
<1>4. RowStillThere /\ RacedNoted  BY <1>2 DEF RowStillThere, RacedNoted, Inserting
<1>5. TwoRolesOnlyByRace  BY RowsFinite DEF Init, TwoRolesOnlyByRace, Broken
<1>. QED  BY <1>1, <1>3, <1>4, <1>5 DEF IInv

-----------------------------------------------------------------------------
(* Type correctness, action by action.                                       *)

LEMMA TypeStep == TypeOK /\ [Next]_vars => TypeOK'
<1>. SUFFICES ASSUME TypeOK, [Next]_vars PROVE TypeOK'  OBVIOUS
<1>1. ASSUME NEW u \in UserIds, NEW p \in Profiles, CreateUser(u, p) PROVE TypeOK'
  BY <1>1 DEF CreateUser, TypeOK
<1>2. ASSUME NEW q \in Requests, NEW u \in UserIds, NEW p \in Profiles, UpdateRead(q, u, p)
      PROVE TypeOK'
  BY <1>2, RequestRecords DEF UpdateRead, TypeOK
<1>3. ASSUME NEW q \in Requests, UpdateWrite(q) PROVE TypeOK'
  BY <1>3, RequestRecords, RequestShape DEF UpdateWrite, TypeOK
<1>4. ASSUME NEW q \in Requests, NEW us \in SUBSET UserIds, DeleteRead(q, us) PROVE TypeOK'
  <2>1. {u \in us : users[u] # Absent} \in SUBSET UserIds  OBVIOUS
  <2>. QED  BY <1>4, <2>1, RequestRecords DEF DeleteRead, TypeOK
<1>5. ASSUME NEW q \in Requests, DeleteWrite(q) PROVE TypeOK'
  BY <1>5, RequestRecords DEF DeleteWrite, TypeOK
<1>6. ASSUME NEW q \in Requests, NEW u \in UserIds, NEW role \in Roles, AssignRead(q, u, role)
      PROVE TypeOK'
  <2>1. PICK row \in RowIds \cup {NoRow} :
           request' = [request EXCEPT ![q] = Assigning(u, row, role)]
    BY <1>6 DEF AssignRead
  <2>2. request' \in [Requests -> RequestStates]  BY <2>1, RequestRecords DEF TypeOK
  <2>3. raced' \in SUBSET UserIds  BY <1>6 DEF AssignRead, TypeOK
  <2>. QED  BY <1>6, <2>2, <2>3 DEF AssignRead, TypeOK
<1>7. ASSUME NEW q \in Requests, AssignWrite(q) PROVE TypeOK'
  <2>1. [user |-> request[q].user, role |-> request[q].role] \in RoleRow
    BY <1>7, RequestShape DEF AssignWrite, RoleRow
  <2>. QED  BY <1>7, <2>1, RequestRecords DEF AssignWrite, TypeOK
<1>8. ASSUME NEW q \in Requests, Fail(q) PROVE TypeOK'
  BY <1>8, RequestRecords DEF Fail, TypeOK
<1>9. CASE Restart
  BY <1>9, RequestRecords DEF Restart, UsedAfterRestart, UsedAfterReset, TypeOK
<1>10. CASE UNCHANGED vars  BY <1>10 DEF vars, TypeOK
<1>. QED  BY <1>1, <1>2, <1>3, <1>4, <1>5, <1>6, <1>7, <1>8, <1>9, <1>10 DEF Next

-----------------------------------------------------------------------------
(* The other parts of IInv. Most steps leave role rows and assignments alone. *)

LEMMA AsideStep ==
    ASSUME IInv, RowsAside
    PROVE  (UsedBefore /\ RowStillThere /\ RacedNoted /\ TwoRolesOnlyByRace)'
<1>1. \A u : RowsOf(u)' = RowsOf(u)  BY DEF RowsAside, RowsOf
<1>2. UsedBefore'  BY <1>1 DEF IInv, UsedBefore, RowsAside
<1>3. RowStillThere'  BY <1>1 DEF IInv, RowStillThere, RowsAside
<1>4. \A q \in Requests, u \in UserIds : Inserting(q, u)' => Inserting(q, u)
  BY DEF RowsAside, Inserting
<1>5. RacedNoted'  BY <1>1, <1>4 DEF IInv, RacedNoted, RowsAside
<1>6. TwoRolesOnlyByRace'  BY <1>1 DEF IInv, TwoRolesOnlyByRace, Broken, RowsAside
<1>. QED  BY <1>2, <1>3, <1>5, <1>6

\* The second of two requests that find no role for a user is noted.
LEMMA AssignReadStep ==
    ASSUME IInv, NEW q \in Requests, NEW u \in UserIds, NEW role \in Roles,
           AssignRead(q, u, role)
    PROVE  (UsedBefore /\ RowStillThere /\ RacedNoted /\ TwoRolesOnlyByRace)'
<1>. PICK row \in RowIds \cup {NoRow} :
        /\ IF RowsOf(u) = {} THEN row = NoRow ELSE row \in RowsOf(u)
        /\ request' = [request EXCEPT ![q] = Assigning(u, row, role)]
        /\ raced' = IF row = NoRow /\ (\E r \in Requests : Inserting(r, u))
                    THEN raced \cup {u} ELSE raced
  BY DEF AssignRead, Inserting
<1>1. \A v : RowsOf(v)' = RowsOf(v)  BY DEF AssignRead, RowsOf
<1>2. request[q] = Idle /\ request'[q] = Assigning(u, row, role)
      /\ \A r \in Requests : r # q => request'[r] = request[r]
  BY DEF AssignRead, IInv, TypeOK
<1>3. raced \subseteq raced'  OBVIOUS
<1>4. UsedBefore'
  <2>1. CounterKept => u \in used  BY DEF AssignRead, Loads, IInv, UsedBefore
  <2>. QED  BY <1>1, <1>2, <2>1 DEF AssignRead, IInv, UsedBefore, Assigning
<1>5. RowStillThere'  BY <1>1, <1>2 DEF IInv, RowStillThere, Assigning
<1>6. \A r \in Requests, v \in UserIds :
         Inserting(r, v)' => \/ r # q /\ Inserting(r, v)
                             \/ r = q /\ v = u /\ row = NoRow
  BY <1>2 DEF Inserting, Assigning
<1>7. row = NoRow => RowsOf(u) = {}  BY AdminAssumption DEF RowsOf
<1>8. RacedNoted'  BY <1>1, <1>3, <1>6, <1>7 DEF IInv, RacedNoted
<1>9. TwoRolesOnlyByRace'  BY <1>1, <1>3 DEF IInv, TwoRolesOnlyByRace, Broken
<1>. QED  BY <1>4, <1>5, <1>8, <1>9

\* An assignment adds a row to the user's, or writes to one of them.
LEMMA AssignWriteRows ==
    ASSUME IInv, NEW q \in Requests, AssignWrite(q)
    PROVE  \E u \in UserIds, row \in RowIds :
              /\ u = request[q].user
              /\ request[q].row # NoRow => row \in RowsOf(u)
              /\ RowsOf(u)' = RowsOf(u) \cup {row}
              /\ \A v : v # u => RowsOf(v)' = RowsOf(v)
<1>. PICK u \in UserIds : u = request[q].user
  BY RequestShape DEF IInv, AssignWrite
<1>. PICK row \in RowIds :
        /\ IF request[q].row = NoRow THEN roleRows[row] = Absent ELSE row = request[q].row
        /\ roleRows' = [roleRows EXCEPT ![row] = [user |-> u, role |-> request[q].role]]
  BY DEF AssignWrite
<1>1. [user |-> u, role |-> request[q].role] # Absent
  <2>1. [user |-> u, role |-> request[q].role] \in RoleRow
    BY RequestShape DEF IInv, RoleRow, AssignWrite
  <2>. QED  BY <2>1, AdminAssumption
<1>2. request[q].row = NoRow => \A v : row \notin RowsOf(v)  BY DEF RowsOf
<1>3. request[q].row # NoRow => row \in RowsOf(u)
  BY DEF IInv, RowStillThere, AssignWrite
<1>4. RowsOf(u)' = RowsOf(u) \cup {row} /\ \A v : v # u => RowsOf(v)' = RowsOf(v)
  BY <1>1, <1>2, <1>3 DEF RowsOf, IInv, TypeOK
<1>. QED  BY <1>3, <1>4

\* A row is added to a user with rows only by a request that is noted already.
LEMMA AssignWriteStep ==
    ASSUME IInv, NEW q \in Requests, AssignWrite(q)
    PROVE  (UsedBefore /\ RowStillThere /\ RacedNoted /\ TwoRolesOnlyByRace)'
<1>1. request[q].op = "assign"  BY DEF AssignWrite
<1>2. /\ request'[q] = Idle
      /\ \A r \in Requests : r # q => request'[r] = request[r]
      /\ UNCHANGED <<users, used, raced>>
  BY DEF AssignWrite, IInv, TypeOK
<1>. PICK u \in UserIds, row \in RowIds :
        /\ u = request[q].user
        /\ request[q].row # NoRow => row \in RowsOf(u)
        /\ RowsOf(u)' = RowsOf(u) \cup {row}
        /\ \A v : v # u => RowsOf(v)' = RowsOf(v)
  BY AssignWriteRows
<1>7. \A r \in Requests, v \in UserIds : Inserting(r, v)' => r # q /\ Inserting(r, v)
  BY <1>2 DEF Inserting, Idle
<1>8. request[q].row = NoRow => Inserting(q, u)  BY <1>1 DEF Inserting
<1>9. UsedBefore'
  <2>1. CounterKept => u \in used  BY <1>1 DEF IInv, UsedBefore
  <2>. QED  BY <1>2, <2>1 DEF IInv, UsedBefore, Idle
<1>10. RowStillThere'  BY <1>2 DEF IInv, RowStillThere, Idle
<1>11. RacedNoted'
  <2>1. ASSUME NEW r \in Requests, r # q, Inserting(r, u) PROVE u \in raced
    <3>1. CASE request[q].row = NoRow
      BY <3>1, <2>1, <1>1, <1>8 DEF IInv, RacedNoted
    <3>2. CASE request[q].row # NoRow
      BY <3>2, <2>1, <1>1 DEF IInv, RacedNoted
    <3>. QED  BY <3>1, <3>2
  <2>. QED  BY <2>1, <1>2, <1>7 DEF IInv, RacedNoted
<1>12. TwoRolesOnlyByRace'
  <2>1. ASSUME Broken(u)' PROVE u \in raced
    <3>1. CASE request[q].row # NoRow
      <4>1. RowsOf(u)' = RowsOf(u)  BY <3>1
      <4>. QED  BY <4>1, <2>1, <1>1 DEF Broken, IInv, TwoRolesOnlyByRace
    <3>2. CASE request[q].row = NoRow /\ RowsOf(u) # {}
      BY <3>2, <1>1, <1>8 DEF IInv, RacedNoted
    <3>3. CASE RowsOf(u) = {}
      BY <3>3, <2>1, AtMostOne DEF Broken
    <3>. QED  BY <3>1, <3>2, <3>3
  <2>2. ASSUME NEW v \in UserIds, v # u, Broken(v)' PROVE v \in raced
    BY <2>2 DEF Broken, IInv, TwoRolesOnlyByRace
  <2>. QED  BY <2>1, <2>2, <1>2 DEF TwoRolesOnlyByRace
<1>. QED  BY <1>9, <1>10, <1>11, <1>12

LEMMA NextIInv == IInv /\ [Next]_vars => IInv'
<1>. SUFFICES ASSUME IInv, [Next]_vars
              PROVE  (UsedBefore /\ RowStillThere /\ RacedNoted /\ TwoRolesOnlyByRace)'
  BY TypeStep DEF IInv
<1>. USE DEF RowsAside
<1>1. ASSUME NEW u \in UserIds, NEW p \in Profiles, CreateUser(u, p) PROVE RowsAside
  BY <1>1 DEF CreateUser, IInv, TypeOK
<1>2. ASSUME NEW q \in Requests, NEW u \in UserIds, NEW p \in Profiles, UpdateRead(q, u, p)
      PROVE RowsAside
  BY <1>2 DEF UpdateRead, Updating, IInv, TypeOK
<1>3. ASSUME NEW q \in Requests, UpdateWrite(q) PROVE RowsAside
  BY <1>3 DEF UpdateWrite, Idle, IInv, TypeOK
<1>4. ASSUME NEW q \in Requests, NEW us \in SUBSET UserIds, DeleteRead(q, us) PROVE RowsAside
  BY <1>4 DEF DeleteRead, Deleting, IInv, TypeOK
<1>5. ASSUME NEW q \in Requests, DeleteWrite(q) PROVE RowsAside
  BY <1>5 DEF DeleteWrite, Idle, IInv, TypeOK
<1>6. ASSUME NEW q \in Requests, Fail(q) PROVE RowsAside
  BY <1>6 DEF Fail, Idle, IInv, TypeOK
<1>7. CASE Restart
  <2>1. \A q \in Requests : request'[q] = Idle \/ request'[q] = request[q]
    BY <1>7 DEF Restart, IInv, TypeOK
  <2>2. RowsAside  BY <1>7, <2>1 DEF Restart, UsedAfterRestart, Idle
  <2>. QED  BY <2>2, AsideStep
<1>8. CASE UNCHANGED vars
  <2>1. UNCHANGED <<users, used, roleRows, request, raced>>  BY <1>8 DEF vars
  <2>. QED  BY <2>1, AsideStep
<1>. QED
  BY <1>1, <1>2, <1>3, <1>4, <1>5, <1>6, <1>7, <1>8, AsideStep, AssignReadStep, AssignWriteStep DEF Next

-----------------------------------------------------------------------------
(* Steps that act on base_user.                                              *)

\* No row ever leaves its user.
LEMMA RowsGrow ==
    ASSUME IInv, [Next]_vars, NEW u
    PROVE  RowsOf(u) \subseteq RowsOf(u)'
<1>1. ASSUME NEW q \in Requests, AssignWrite(q) PROVE RowsOf(u) \subseteq RowsOf(u)'
  BY <1>1, AssignWriteRows
<1>2. CASE UNCHANGED roleRows  BY <1>2 DEF RowsOf
<1>. QED
  BY <1>1, <1>2 DEF Next, vars, CreateUser, UpdateRead, UpdateWrite, DeleteRead, DeleteWrite,
                    AssignRead, Fail, Restart

\* So a user with two rows keeps them.
LEMMA BrokenStays ==
    ASSUME IInv, [Next]_vars, NEW u, Broken(u)
    PROVE  Broken(u)'
<1>1. RowsOf(u) \subseteq RowsOf(u)'  BY RowsGrow
<1>2. RowsOf(u)' \in SUBSET RowIds  BY DEF RowsOf
<1>3. IsFiniteSet(RowsOf(u)')  BY <1>2, FS_Subset, AdminAssumption
<1>4. Cardinality(RowsOf(u)) <= Cardinality(RowsOf(u)') /\ Cardinality(RowsOf(u)') \in Nat
  BY <1>1, <1>3, FS_Subset, FS_CardinalityType
<1>. QED  BY <1>4, RowsFinite DEF Broken

\* An id that the counter did not pass was not handed out.
LEMMA FreshIsNew ==
    ASSUME TypeOK, NEW u \in UserIds, FreshId(u)
    PROVE  u \notin used
BY AdminAssumption DEF TypeOK, FreshId

LEMMA StuckStep ==
    ASSUME CounterKept, IInv, [Next]_vars, NEW v \in UserIds, Broken(v), ~Held(v)
    PROVE  ~Held(v)' /\ users'[v] = users[v]
<1>1. ASSUME NEW u \in UserIds, NEW p \in Profiles, CreateUser(u, p)
      PROVE  ~Held(v)' /\ users'[v] = users[v]
  <2>1. RowsOf(v) # {}  BY AtMostOne DEF Broken
  <2>2. u # v  BY <1>1, <2>1, FreshIsNew DEF CreateUser, IInv, UsedBefore
  <2>. QED  BY <1>1, <2>2 DEF CreateUser, Held, IInv, TypeOK
<1>2. ASSUME NEW q \in Requests, NEW u \in UserIds, NEW p \in Profiles, UpdateRead(q, u, p)
      PROVE  ~Held(v)' /\ users'[v] = users[v]
  <2>1. u # v  BY <1>2 DEF UpdateRead, Loads
  <2>. QED  BY <1>2, <2>1 DEF UpdateRead, Held, Updating, IInv, TypeOK
<1>3. ASSUME NEW q \in Requests, UpdateWrite(q)
      PROVE  ~Held(v)' /\ users'[v] = users[v]
  <2>1. request[q].user # v  BY <1>3 DEF Held, UpdateWrite
  <2>. QED  BY <1>3, <2>1 DEF UpdateWrite, Held, Idle, IInv, TypeOK
<1>4. ASSUME NEW q \in Requests, NEW us \in SUBSET UserIds, DeleteRead(q, us)
      PROVE  ~Held(v)' /\ users'[v] = users[v]
  <2>1. v \notin {u \in us : users[u] # Absent}  BY <1>4 DEF DeleteRead, Loads
  <2>. QED  BY <1>4, <2>1 DEF DeleteRead, Held, Deleting, IInv, TypeOK
<1>5. ASSUME NEW q \in Requests, DeleteWrite(q)
      PROVE  ~Held(v)' /\ users'[v] = users[v]
  <2>1. v \notin request[q].found  BY <1>5 DEF Held, DeleteWrite
  <2>. QED  BY <1>5, <2>1 DEF DeleteWrite, Held, Idle, IInv, TypeOK
<1>6. ASSUME NEW q \in Requests, NEW u \in UserIds, NEW role \in Roles, AssignRead(q, u, role)
      PROVE  ~Held(v)' /\ users'[v] = users[v]
  BY <1>6 DEF AssignRead, Held, Assigning, IInv, TypeOK
<1>7. ASSUME NEW q \in Requests, AssignWrite(q)
      PROVE  ~Held(v)' /\ users'[v] = users[v]
  BY <1>7 DEF AssignWrite, Held, Idle, IInv, TypeOK
<1>8. ASSUME NEW q \in Requests, Fail(q)
      PROVE  ~Held(v)' /\ users'[v] = users[v]
  BY <1>8 DEF Fail, Held, Idle, IInv, TypeOK
<1>9. CASE Restart
  <2>1. \A q \in Requests : request'[q] = Idle \/ request'[q] = request[q]
    BY <1>9 DEF Restart, IInv, TypeOK
  <2>. QED  BY <1>9, <2>1 DEF Restart, Held, Idle
<1>10. CASE UNCHANGED vars  BY <1>10 DEF vars, Held
<1>. QED  BY <1>1, <1>2, <1>3, <1>4, <1>5, <1>6, <1>7, <1>8, <1>9, <1>10 DEF Next

\* If the counter is kept, every step is one of UserStore's, or leaves base_user alone.
LEMMA StoreStep ==
    ASSUME CounterKept, IInv, [Next]_vars
    PROVE  [Store!StoreNext]_(Store!storeVars)
<1>. USE DEF Store!StoreNext, Store!storeVars
<1>1. ASSUME NEW u \in UserIds, NEW p \in Profiles, CreateUser(u, p) PROVE Store!Create(u, p)
  BY <1>1, FreshIsNew DEF CreateUser, Store!Create, IInv
<1>2. ASSUME NEW q \in Requests, UpdateWrite(q)
      PROVE  \/ \E u \in UserIds, p \in Profiles : Store!Update(u, p)
             \/ UNCHANGED <<users, used>>
  BY <1>2, RequestShape DEF UpdateWrite, Store!Update, IInv
<1>3. ASSUME NEW q \in Requests, DeleteWrite(q)
      PROVE  \/ \E us \in SUBSET UserIds : Store!Delete(us)
             \/ UNCHANGED <<users, used>>
  BY <1>3, RequestShape DEF DeleteWrite, Store!Delete, IInv
<1>. QED
  BY <1>1, <1>2, <1>3 DEF Next, vars, UpdateRead, DeleteRead, AssignRead, AssignWrite, Fail,
                          Restart, UsedAfterRestart

-----------------------------------------------------------------------------
(* The theorems.                                                             *)

LEMMA Invariant == Spec => []IInv
BY InitIInv, NextIInv, PTL DEF Spec

\* Every variable keeps its type.
THEOREM Typing == Spec => []TypeOK
BY Invariant, PTL DEF IInv

\* However many requests run, a user has two role rows only if two of them looked
\* for a role when there was none (UserController 139-151).
THEOREM OnlyByRace == Spec => []TwoRolesOnlyByRace
BY Invariant, PTL DEF IInv

\* A user with two role rows whom nobody holds stays as he is (UserController 83,
\* 122 and 137 load the user, and with him both rows), on a database that keeps the
\* counter of base_user over a restart.
THEOREM Stuck == ASSUME CounterKept  PROVE Spec => BrokenIsStuck
<1>1. IInv /\ [Next]_vars =>
         [\A u \in UserIds : Broken(u) /\ ~Held(u) =>
             Broken(u)' /\ ~Held(u)' /\ users'[u] = users[u]]_vars
  BY BrokenStays, StuckStep
<1>. QED  BY <1>1, Invariant, PTL DEF Spec, BrokenIsStuck

\* A new user never inherits the role row of a deleted one, on such a database.
THEOREM NoRoleInherited == ASSUME CounterKept  PROVE Spec => NewUserHasNoRole
<1>1. IInv /\ [Next]_vars =>
         [\A u \in UserIds :
             users[u] = Absent /\ users'[u] # Absent => RowsOf(u) = {}]_vars
  <2>. SUFFICES ASSUME IInv, [Next]_vars, NEW u \in UserIds, users[u] = Absent,
                       users'[u] # Absent
                PROVE  RowsOf(u) = {}
    OBVIOUS
  <2>1. [Store!StoreNext]_(Store!storeVars)  BY StoreStep
  <2>2. u \notin used
    BY <2>1 DEF Store!StoreNext, Store!storeVars, Store!Create, Store!Update, Store!Delete,
                IInv, TypeOK
  <2>. QED  BY <2>2 DEF IInv, UsedBefore
<1>. QED  BY <1>1, Invariant, PTL DEF Spec, NewUserHasNoRole

\* UserAdmin implements UserStore: although every write rests on an earlier read,
\* base_user changes as if each request were one atomic operation, on such a database.
THEOREM Implements == ASSUME CounterKept  PROVE Spec => ImplementsUserStore
<1>1. Init => Store!StoreInit  BY DEF Init, Store!StoreInit, Store!Existing
<1>2. IInv /\ [Next]_vars => [Store!StoreNext]_(Store!storeVars)  BY StoreStep
<1>. QED  BY <1>1, <1>2, Invariant, PTL DEF Spec, ImplementsUserStore, Store!StoreSpec

\* What that means for a user who was deleted: no request brings him back, not even
\* an update that had loaded him before, and no new user gets his id, as long as the
\* counter is kept
\* (UserController 82-93, 112-125).
THEOREM DeletedForGood ==
    ASSUME CounterKept
    PROVE  Spec => [][\A u \in UserIds : u \in used /\ users[u] = Absent
                         => u \in used' /\ users'[u] = Absent]_vars
<1>1. ASSUME IInv, [Next]_vars, NEW u \in UserIds, u \in used, users[u] = Absent
      PROVE  u \in used' /\ users'[u] = Absent
  <2>1. [Store!StoreNext]_(Store!storeVars)  BY <1>1, StoreStep
  <2>2. users \in [UserIds -> Profiles \cup {Absent}]  BY <1>1 DEF IInv, TypeOK
  <2>3. ASSUME NEW v \in UserIds, NEW p \in Profiles, Store!Create(v, p) \/ Store!Update(v, p)
        PROVE  u \in used' /\ users'[u] = Absent
    <3>1. u # v /\ users' = [users EXCEPT ![v] = p] /\ used \subseteq used'
      BY <1>1, <2>3 DEF Store!Create, Store!Update
    <3>. QED  BY <1>1, <2>2, <3>1
  <2>4. ASSUME NEW us \in SUBSET UserIds, Store!Delete(us)
        PROVE  u \in used' /\ users'[u] = Absent
    BY <1>1, <2>4 DEF Store!Delete
  <2>5. CASE UNCHANGED Store!storeVars  BY <1>1, <2>5 DEF Store!storeVars
  <2>. QED  BY <2>1, <2>3, <2>4, <2>5 DEF Store!StoreNext
<1>2. IInv /\ [Next]_vars =>
         [\A u \in UserIds : u \in used /\ users[u] = Absent
             => u \in used' /\ users'[u] = Absent]_vars
  BY <1>1
<1>. QED  BY <1>2, Invariant, PTL DEF Spec
=============================================================================
