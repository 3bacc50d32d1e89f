----------------------------- MODULE UserStore -----------------------------
(***************************************************************************)
(* What user administration promises of the table base_user, whoever asks  *)
(* and in whatever order: a user is created under an id that was never     *)
(* used, an update replaces the profile (name, code, phone) of a user that *)
(* exists as a whole, and a user that was deleted does not come back.      *)
(* UserAdmin, the server's side, is shown to implement it; UserPage, the   *)
(* browser's side, relies on it.                                           *)
(***************************************************************************)
CONSTANTS UserIds,    \* the ids base_user hands out
          Profiles,   \* what the form edits of a user
          Absent      \* no row under this id; not a profile

VARIABLES users,      \* base_user: the profile under each id, or Absent
          used        \* the ids handed out so far
storeVars == <<users, used>>

Existing == {u \in UserIds : users[u] # Absent}

StoreInit ==
    /\ users \in [UserIds -> Profiles \cup {Absent}]
    /\ used = Existing

Create(u, p) ==
    /\ u \notin used
    /\ users' = [users EXCEPT ![u] = p]
    /\ used' = used \cup {u}

Update(u, p) ==
    /\ users[u] # Absent
    /\ users' = [users EXCEPT ![u] = p]
    /\ UNCHANGED used

\* One request deletes a set of users; those that are gone already do not matter.
Delete(us) ==
    /\ users' = [u \in UserIds |-> IF u \in us THEN Absent ELSE users[u]]
    /\ UNCHANGED used

StoreNext ==
    \/ \E u \in UserIds, p \in Profiles : Create(u, p) \/ Update(u, p)
    \/ \E us \in SUBSET UserIds : Delete(us)

StoreSpec == StoreInit /\ [][StoreNext]_storeVars
=============================================================================
