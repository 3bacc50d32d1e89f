----------------------------- MODULE UserAdmin -----------------------------
(***************************************************************************)
(* The server's side of user administration: UserController, UserService   *)
(* and the JPA repositories behind them. A request is not one database     *)
(* transaction: it reads the user in a first one, changes the entity it    *)
(* holds (one EntityManager per request) and writes it back in a second    *)
(* one; other requests run in between. There is no version column, no      *)
(* foreign key and no unique key (manage-web.sql).                         *)
(***************************************************************************)
EXTENDS Naturals, FiniteSets

CONSTANTS
    UserIds,    \* ids of base_user, numbers (bound: as many as may be created)
    RowIds,     \* ids of base_user_role (bound)
    Profiles,   \* name, code and phone of a user
    Roles,      \* RoleEnum, and the empty choice of the form
    Requests,   \* the requests that may run at a time
    Absent,     \* no row under this id
    CounterKept \* the database keeps AUTO_INCREMENT over a restart (InnoDB from 8.0)

NoRow == 0

RoleRow == [user : UserIds, role : Roles]

ASSUME AdminAssumption ==
    /\ Absent \notin Profiles \cup RoleRow
    /\ UserIds \subseteq Nat
    /\ CounterKept \in BOOLEAN
    /\ RowIds \subseteq Nat \ {NoRow}
    /\ IsFiniteSet(RowIds)

VARIABLES
    users, used,    \* base_user and the ids its AUTO_INCREMENT has passed
    roleRows,       \* base_user_role: [user, role] under each id, or Absent
    request,        \* what each request has read and is about to write
    raced           \* history: users to whom two requests found no role at a time
vars == <<users, used, roleRows, request, raced>>

Idle == [op |-> "idle"]
Updating(u, p) == [op |-> "update", user |-> u, profile |-> p]
Deleting(us, found) == [op |-> "delete", users |-> us, found |-> found]
Assigning(u, row, role) == [op |-> "assign", user |-> u, row |-> row, role |-> role]

RequestStates ==
    {Idle} \cup {Updating(u, p) : u \in UserIds, p \in Profiles}
           \cup {Deleting(us, f) : us \in SUBSET UserIds, f \in SUBSET UserIds}
           \cup {Assigning(u, r, role) : u \in UserIds, r \in RowIds \cup {NoRow}, role \in Roles}

TypeOK ==
    /\ users \in [UserIds -> Profiles \cup {Absent}]
    /\ used \in SUBSET UserIds
    /\ roleRows \in [RowIds -> RoleRow \cup {Absent}]
    /\ request \in [Requests -> RequestStates]
    /\ raced \in SUBSET UserIds

RowsOf(u) == {r \in RowIds : roleRows[r] # Absent /\ roleRows[r].user = u}

\* Loading a UserPo loads its role with it (@OneToOne, EAGER): the load fails
\* when base_user_role has two rows for the user.
Broken(u) == Cardinality(RowsOf(u)) > 1
LoadsLazily(u) == users[u] # Absent     \* mutant: the role is not loaded
Loads(u) == users[u] # Absent /\ ~Broken(u)

\* manage-web.sql: users with a role row each, users without.
Init ==
    /\ users \in [UserIds -> Profiles \cup {Absent}]
    /\ used = {u \in UserIds : users[u] # Absent}
    /\ roleRows \in [RowIds -> RoleRow \cup {Absent}]
    /\ \A u \in UserIds : /\ Cardinality(RowsOf(u)) <= 1
                          /\ RowsOf(u) # {} => users[u] # Absent
    /\ request = [q \in Requests |-> Idle]
    /\ raced = {}

-----------------------------------------------------------------------------
(* saveOrUpdate *)

\* The AUTO_INCREMENT of base_user; an insert that is rolled back skips a number.
FreshId(u) == \A v \in used : v < u

\* Without an id: one insert. Two requests of one name make two users.
CreateUser(u, p) ==
    /\ FreshId(u)
    /\ users' = [users EXCEPT ![u] = p]
    /\ used' = used \cup {u}
    /\ UNCHANGED <<roleRows, request, raced>>

\* With an id: findOne. (A user who is not there or cannot be loaded ends the
\* request with an error here, in the other operations as well: no step.)
UpdateRead(q, u, p) ==
    /\ request[q] = Idle
    /\ Loads(u)
    /\ request' = [request EXCEPT ![q] = Updating(u, p)]
    /\ UNCHANGED <<users, used, roleRows, raced>>

\* Mutant: the entity is detached, save inserts it when it is gone.
UpdateWriteMerge(q) ==
    /\ request[q].op = "update"
    /\ users' = [users EXCEPT ![request[q].user] = request[q].profile]
    /\ request' = [request EXCEPT ![q] = Idle]
    /\ UNCHANGED <<used, roleRows, raced>>

\* userService.save: an UPDATE by id. It finds no row when the user was deleted
\* meanwhile; that is an error, not an insert, because the entity is managed.
UpdateWrite(q) ==
    /\ request[q].op = "update"
    /\ LET u == request[q].user
       IN  users' = IF users[u] # Absent THEN [users EXCEPT ![u] = request[q].profile]
                    ELSE users
    /\ request' = [request EXCEPT ![q] = Idle]
    /\ UNCHANGED <<used, roleRows, raced>>

-----------------------------------------------------------------------------
(* delete: one transaction over the list. *)

\* Every id is merged, which reads the user; one that is not there is inserted
\* empty, to be removed again, and leaves no trace.
DeleteRead(q, us) ==
    /\ request[q] = Idle
    /\ us # {}
    /\ \A u \in us : users[u] # Absent => Loads(u)
    /\ request' = [request EXCEPT ![q] = Deleting(us, {u \in us : users[u] # Absent})]
    /\ UNCHANGED <<users, used, roleRows, raced>>

\* The flush: a DELETE per user that was read. If another transaction was faster
\* with one of them, everything is rolled back. Role rows stay.
DeleteWrite(q) ==
    /\ request[q].op = "delete"
    /\ LET found == request[q].found
       IN  users' = IF \A u \in found : users[u] # Absent
                    THEN [u \in UserIds |-> IF u \in found THEN Absent ELSE users[u]]
                    ELSE users
    /\ request' = [request EXCEPT ![q] = Idle]
    /\ UNCHANGED <<used, roleRows, raced>>

-----------------------------------------------------------------------------
(* saveOrUpdateRole *)

\* Mutant: the role the user has is not looked up.
AssignReadBlind(q, u, role) ==
    /\ request[q] = Idle
    /\ Loads(u)
    /\ request' = [request EXCEPT ![q] = Assigning(u, NoRow, role)]
    /\ UNCHANGED <<users, used, roleRows, raced>>

\* findOne, with the role the user has. The role to be assigned is in q.
AssignRead(q, u, role) ==
    /\ request[q] = Idle
    /\ Loads(u)
    /\ \E row \in RowIds \cup {NoRow} :
          /\ IF RowsOf(u) = {} THEN row = NoRow ELSE row \in RowsOf(u)
          /\ request' = [request EXCEPT ![q] = Assigning(u, row, role)]
          /\ raced' = IF row = NoRow /\ (\E r \in Requests : /\ request[r].op = "assign"
                                                             /\ request[r].user = u
                                                             /\ request[r].row = NoRow)
                      THEN raced \cup {u} ELSE raced
    /\ UNCHANGED <<users, used, roleRows>>

\* Mutant: the role is not copied from the form.
AssignWriteEmpty(q) ==
    /\ request[q].op = "assign"
    /\ \E row \in RowIds :
          /\ IF request[q].row = NoRow THEN roleRows[row] = Absent ELSE row = request[q].row
          /\ roleRows' = [roleRows EXCEPT ![row] =
                             [user |-> request[q].user, role |-> Absent]]
    /\ request' = [request EXCEPT ![q] = Idle]
    /\ UNCHANGED <<users, used, raced>>

\* userRoleRepository.save: an insert when no role was read, else an update of
\* that row. Nothing asks whether the user is still there.
AssignWrite(q) ==
    /\ request[q].op = "assign"
    /\ \E row \in RowIds :
          /\ IF request[q].row = NoRow THEN roleRows[row] = Absent ELSE row = request[q].row
          /\ roleRows' = [roleRows EXCEPT ![row] =
                             [user |-> request[q].user, role |-> request[q].role]]
    /\ request' = [request EXCEPT ![q] = Idle]
    /\ UNCHANGED <<users, used, raced>>

\* The second transaction fails (lost connection, lock timeout): the request ends
\* in an error and is rolled back.
Fail(q) ==
    /\ request[q] # Idle
    /\ request' = [request EXCEPT ![q] = Idle]
    /\ UNCHANGED <<users, used, roleRows, raced>>

\* A restart of the database. InnoDB up to 5.7 sets the counter to MAX(id) + 1, so
\* that the ids of the newest users, if deleted, are handed out again.
UsedAfterReset == {u \in used : \E v \in UserIds : users[v] # Absent /\ u <= v}
UsedAfterRestartReset == UsedAfterReset   \* mutant: the counter is always reset
UsedAfterRestart == IF CounterKept THEN used ELSE UsedAfterReset

\* Any of the requests may lose their connection by it; the others find a new one
\* for their second transaction.
Restart ==
    /\ used' = UsedAfterRestart
    /\ \E lost \in SUBSET Requests :
          request' = [q \in Requests |-> IF q \in lost THEN Idle ELSE request[q]]
    /\ UNCHANGED <<users, roleRows, raced>>

-----------------------------------------------------------------------------
Next ==
    \/ \E u \in UserIds, p \in Profiles : CreateUser(u, p)
    \/ Restart
    \/ \E q \in Requests :
          \/ \E u \in UserIds, p \in Profiles : UpdateRead(q, u, p)
          \/ UpdateWrite(q)
          \/ \E us \in SUBSET UserIds : DeleteRead(q, us)
          \/ DeleteWrite(q)
          \/ \E u \in UserIds, role \in Roles : AssignRead(q, u, role)
          \/ AssignWrite(q)
          \/ Fail(q)

Spec == Init /\ [][Next]_vars

-----------------------------------------------------------------------------
(* Properties.                                                               *)

\* Seen from outside, base_user changes as UserStore says, although every update
\* and deletion acts on what it read earlier: nobody who was deleted comes back
\* (UserController 77-125). It needs a counter that is kept.
Store == INSTANCE UserStore
ImplementsUserStore == Store!StoreSpec

\* A user has two role rows only if two assignments read, both before either
\* wrote, that there was none (UserController 139-151).
TwoRolesOnlyByRace == \A u \in UserIds : Broken(u) => u \in raced

\* An update or a deletion that has read u and has not written yet.
Held(u) == \E q \in Requests : \/ request[q].op = "update" /\ request[q].user = u
                               \/ request[q].op = "delete" /\ u \in request[q].found

\* A user with two role rows whom no running request read in time is stuck for
\* good: nothing the page offers, a role assignment included, gives the user
\* another profile, deletes the user or takes a row away, so that only a hand in
\* the database helps (UserPo.role is loaded by every findOne and merge of
\* UserController 83, 122 and 137).
BrokenIsStuck ==
    [][\A u \in UserIds : Broken(u) /\ ~Held(u) =>
          Broken(u)' /\ ~Held(u)' /\ users'[u] = users[u]]_vars

\* Deleting a user leaves the role row behind (UserController 122), and a role may
\* even be given to a user who is gone (151): no new user inherits such a row, over
\* restarts either, as long as the database keeps the counter of base_user.
NewUserHasNoRole ==
    [][\A u \in UserIds :
          users[u] = Absent /\ users'[u] # Absent => RowsOf(u) = {}]_vars
=============================================================================
