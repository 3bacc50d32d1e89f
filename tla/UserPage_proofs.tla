-------------------------- MODULE UserPage_proofs --------------------------
(***************************************************************************)
(* Proofs about UserPage, for every set of users, profiles and searches,   *)
(* every page length and every bound.                                      *)
(***************************************************************************)
EXTENDS UserPage, FiniteSetTheorems, TLAPS

-----------------------------------------------------------------------------
(* The inductive invariant.                                                  *)

\* Where ScreenIsCache comes from. The body shows rows only after an answer that
\* also gave the rendering its key; the fixed column never returns; and no
\* rendering that does not exist yet has asked or written.
ScreenInv ==
    /\ ScreenIsCache
    /\ view.main = "rows" => view.keyed
    /\ ~view.fixed => view.buttons = <<>>
    /\ cacheTable <= view.table
    /\ \A q \in pulls : q.table <= view.table

\* Where AskedIsSent comes from: what a form or a confirmation would send is what
\* the administrator asked for when it was opened.
FormsInv ==
    /\ modal.settled =>
          /\ modal.kind = "add" => userForm = NoId /\ modal.asked = {}
          /\ modal.kind = "edit" => userForm \in UserIds /\ modal.asked = {userForm}
          /\ modal.kind = "assign" => modal.user = NoId \/ modal.asked = {modal.user}
    /\ dialog.settled => dialog.ids = dialog.asked

IInv == TypeOK /\ ScreenInv /\ FormsInv /\ AskedIsSent

-----------------------------------------------------------------------------
(* Lemmas about rows.                                                        *)

LEMMA EmptyLists == <<>> \in RowLists /\ <<>> \in IdLists
<1>1. 0 \in 0..PageLen  BY PageAssumption
<1>2. <<>> \in [1..0 -> [id : UserIds, tick : BOOLEAN]] /\ <<>> \in [1..0 -> UserIds]
  OBVIOUS
<1>. QED  BY <1>1, <1>2 DEF RowLists, IdLists

\* Mark keeps the ids, and Rows takes them over.
LEMMA MarkType ==
    ASSUME NEW rows \in RowLists, NEW idxs, NEW t \in BOOLEAN
    PROVE  Mark(rows, idxs, t) \in RowLists /\ Ids(Mark(rows, idxs, t)) = Ids(rows)
<1>. PICK n \in 0..PageLen : rows \in [1..n -> [id : UserIds, tick : BOOLEAN]]
  BY DEF RowLists
<1>1. Mark(rows, idxs, t) \in [1..n -> [id : UserIds, tick : BOOLEAN]]  BY DEF Mark
<1>2. Ids(Mark(rows, idxs, t)) = Ids(rows)  BY DEF Mark, Ids
<1>. QED  BY <1>1, <1>2 DEF RowLists

LEMMA RowsType ==
    ASSUME NEW ids \in IdLists, NEW t \in BOOLEAN
    PROVE  /\ Rows(ids, t) \in RowLists
           /\ Ids(Rows(ids, t)) = ids
           /\ ids # <<>> => (t <=> AllTicked(Rows(ids, t)))
<1>. PICK n \in 0..PageLen : ids \in [1..n -> UserIds]  BY DEF IdLists
<1>1. Rows(ids, t) \in [1..n -> [id : UserIds, tick : BOOLEAN]]  BY DEF Rows
<1>2. Ids(Rows(ids, t)) = ids  BY DEF Rows, Ids
<1>3. ASSUME ids # <<>> PROVE t <=> AllTicked(Rows(ids, t))
  <2>1. n # 0  BY <1>3
  <2>2. 1 \in DOMAIN ids /\ DOMAIN Rows(ids, t) = DOMAIN ids  BY <2>1 DEF Rows
  <2>. QED  BY <2>2 DEF AllTicked, Rows
<1>. QED  BY <1>1, <1>2, <1>3 DEF RowLists

\* The ticked ones are users.
LEMMA TickedType ==
    ASSUME NEW rows \in RowLists
    PROVE  Ticked(rows) \in SUBSET UserIds /\ IsFiniteSet(Ticked(rows))
<1>. PICK n \in 0..PageLen : rows \in [1..n -> [id : UserIds, tick : BOOLEAN]]
  BY DEF RowLists
<1>1. Ticked(rows) \in SUBSET UserIds  BY DEF Ticked
<1>. QED  BY <1>1, FS_Subset, PageAssumption

\* The number of pages is a number.
LEMMA PagesType ==
    ASSUME NEW filter
    PROVE  PageCount(Found(filter)) \in Nat
<1>1. Found(filter) \in SUBSET UserIds  BY DEF Found
<1>2. Cardinality(Found(filter)) \in Nat
  BY <1>1, FS_Subset, FS_CardinalityType, PageAssumption
<1>. QED  BY <1>2, PageAssumption DEF PageCount

-----------------------------------------------------------------------------
(* Type correctness.                                                         *)

LEMMA BlankType ==
    ASSUME NEW t \in 1..MaxTables, NEW filter \in Filters, NEW mark \in BOOLEAN
    PROVE  Blank(t, filter, mark) \in Views /\ FirstPull(t, filter) \in Pulls
BY EmptyLists DEF Blank, Views, FirstPull, Pulls

LEMMA DialogTypes ==
    NoModal \in Modals /\ NoDialog \in Dialogs /\ Alert \in Dialogs
BY DEF NoModal, Modals, NoDialog, Alert, Dialogs, NoId

LEMMA SendType ==
    ASSUME TypeOK, NEW kind \in {"save", "delete", "assign"}, NEW ids \in SUBSET UserIds,
           NEW p \in Profiles \cup {Absent}, NEW asked \in SUBSET UserIds,
           NEW settled \in BOOLEAN, Send(kind, ids, p, asked, settled)
    PROVE  posts' \in [1..MaxPosts -> Posts \cup {NoPost}]
BY DEF TypeOK, Send, Posts

LEMMA AnsweredType ==
    ASSUME TypeOK, NEW s \in 1..MaxPosts, posts[s] # NoPost, NEW a \in {"ok", "refused"}
    PROVE  Answered(s, a) \in [1..MaxPosts -> Posts \cup {NoPost}]
<1>1. posts[s] \in Posts  BY DEF TypeOK
<1>2. [Forget(posts[s]) EXCEPT !.answer = a, !.profile = Absent] \in Posts
  BY <1>1 DEF Forget, Posts
<1>. QED  BY <1>2 DEF Answered, TypeOK

LEMMA ReloadType ==
    ASSUME NEW inFlight \in [1..MaxPosts -> Posts \cup {NoPost}], Reload(inFlight),
           TypeOK, UNCHANGED server
    PROVE  TypeOK'
<1>1. \A post \in Posts : [Forget(post) EXCEPT !.here = FALSE] \in Posts
  BY DEF Forget, Posts
<1>2. posts' \in [1..MaxPosts -> Posts \cup {NoPost}]  BY <1>1 DEF Reload
<1>3. 1 \in 1..MaxTables /\ Profiles \in Filters  BY PageAssumption
<1>4. view' \in Views /\ pulls' \in SUBSET Pulls
  BY <1>3, BlankType DEF Reload
<1>5. cache' \in RowLists /\ cacheTable' \in 0..MaxTables /\ colMark' \in BOOLEAN
  <2>1. 0 \in 0..MaxTables  BY PageAssumption
  <2>. QED  BY <2>1, EmptyLists DEF Reload
<1>6. modal' \in Modals /\ dialog' \in Dialogs /\ userForm' \in UserIds \cup {NoId}
  BY DialogTypes DEF Reload
<1>. QED  BY <1>2, <1>4, <1>5, <1>6 DEF TypeOK, server

LEMMA InitType == Init => TypeOK
<1>. SUFFICES ASSUME Init PROVE TypeOK  OBVIOUS
<1>1. 1 \in 1..MaxTables /\ Profiles \in Filters /\ 0 \in 0..MaxTables  BY PageAssumption
<1>2. view \in Views /\ pulls \in SUBSET Pulls  BY <1>1, BlankType DEF Init
<1>. QED  BY <1>1, <1>2, EmptyLists, DialogTypes DEF Init, TypeOK

\* The answers to the table's requests.
LEMMA AnswerType == ASSUME TypeOK, AnswerTable PROVE TypeOK'
<1>1. ASSUME NEW q \in pulls, NEW ids \in IdLists, AnswerRows(q, ids) PROVE TypeOK'
  <2>1. cache' \in RowLists  BY <1>1, RowsType DEF AnswerRows, TypeOK
  <2>2. q \in Pulls  BY DEF TypeOK
  <2>3. cacheTable' \in 0..MaxTables  BY <1>1, <2>2 DEF AnswerRows, Pulls
  <2>4. view' \in Views
    BY <1>1, RowsType, PagesType DEF AnswerRows, TypeOK, Views
  <2>. QED
    BY <1>1, <2>1, <2>3, <2>4 DEF AnswerRows, TypeOK, server, forms
<1>2. ASSUME NEW q \in pulls, AnswerNone(q) PROVE TypeOK'
  <2>1. q \in Pulls  BY DEF TypeOK
  <2>2. view' \in Views  BY <1>2, EmptyLists DEF AnswerNone, TypeOK, Views
  <2>. QED
    BY <1>2, <2>1, <2>2, EmptyLists DEF AnswerNone, TypeOK, server, forms, Pulls
<1>3. ASSUME NEW q \in pulls, AnswerError(q) PROVE TypeOK'
  <2>1. view' \in Views  BY <1>3, EmptyLists DEF AnswerError, TypeOK, Views
  <2>. QED  BY <1>3, <2>1 DEF AnswerError, TypeOK, server, forms
<1>. QED  BY <1>1, <1>2, <1>3 DEF AnswerTable

LEMMA SyncType ==
    ASSUME TypeOK, NEW newCache \in RowLists, NEW newRows \in RowLists,
           SyncCheckAll(newCache, newRows)
    PROVE  cache' \in RowLists /\ view' \in Views /\ colMark' \in BOOLEAN
BY DEF SyncCheckAll, TypeOK, Views

\* The pager, the search and the checkboxes.
LEMMA TableType ==
    ASSUME TypeOK,
           \/ \E p \in 1..view.pages : JumpPage(p)
           \/ \E filter \in Filters : SearchUser(filter)
           \/ \E i \in 1..PageLen : TickRow(i)
           \/ TickHeader
    PROVE  TypeOK'
<1>1. ASSUME NEW p \in 1..view.pages, JumpPage(p) PROVE TypeOK'
  <2>1. [table |-> view.table, filter |-> view.filter, page |-> p] \in Pulls
    BY DEF TypeOK, Views, Pulls
  <2>. QED  BY <1>1, <2>1 DEF JumpPage, TypeOK, server, forms
<1>2. ASSUME NEW filter \in Filters, SearchUser(filter) PROVE TypeOK'
  <2>1. view.table + 1 \in 1..MaxTables
    BY <1>2, PageAssumption DEF SearchUser, TypeOK, Views
  <2>. QED  BY <1>2, <2>1, BlankType DEF SearchUser, TypeOK, server, forms
<1>3. view.rows \in RowLists /\ cache \in RowLists /\ view.head \in BOOLEAN
  BY DEF TypeOK, Views
<1>4. ASSUME NEW i \in DOMAIN view.rows, TickRow(i) PROVE TypeOK'
  <2>1. (~view.rows[i].tick) \in BOOLEAN  OBVIOUS
  <2>2. cache' \in RowLists /\ view' \in Views /\ colMark' \in BOOLEAN
    BY <1>3, <1>4, <2>1, MarkType, SyncType DEF TickRow
  <2>. QED  BY <1>4, <2>2 DEF TickRow, TypeOK, server, forms
<1>5. CASE TickHeader
  <2>1. cache' \in RowLists /\ view' \in Views /\ colMark' \in BOOLEAN
    BY <1>3, <1>5, MarkType, SyncType DEF TickHeader
  <2>. QED  BY <1>5, <2>1 DEF TickHeader, TypeOK, server, forms
<1>. QED  BY <1>1, <1>2, <1>4, <1>5 DEF TickRow

\* The buttons, the forms and the dialogs.
LEMMA FormsType ==
    ASSUME TypeOK,
           \/ AddUser \/ EditUser \/ DeleteUser \/ DismissDialog \/ CloseModal
           \/ \E i \in 1..PageLen : AssignRole(i)
    PROVE  TypeOK'
<1>1. /\ Ticked(cache) \in SUBSET UserIds
      /\ Ticked(view.rows) \in SUBSET UserIds
      /\ Settled \in BOOLEAN
  BY TickedType DEF TypeOK, Views, Settled
<1>2. CASE AddUser
  BY <1>2 DEF AddUser, TypeOK, server, table, Modals
<1>3. CASE EditUser
  BY <1>3, <1>1, DialogTypes DEF EditUser, TypeOK, server, table, Modals
<1>4. CASE DeleteUser
  BY <1>4, <1>1, DialogTypes DEF DeleteUser, TypeOK, server, table, forms, Dialogs
<1>5. CASE DismissDialog
  BY <1>5, DialogTypes DEF DismissDialog, TypeOK, server, table, forms
<1>6. CASE CloseModal
  BY <1>6, DialogTypes DEF CloseModal, TypeOK, server, table
<1>7. ASSUME NEW i \in 1..PageLen, AssignRole(i) PROVE TypeOK'
  <2>1. view.buttons[i] \in UserIds
    BY <1>7 DEF AssignRole, TypeOK, Views, IdLists
  <2>2. i \in DOMAIN cache => cache[i].id \in UserIds
    BY DEF TypeOK, RowLists
  <2>. QED  BY <1>7, <2>1, <2>2 DEF AssignRole, TypeOK, server, table, Modals
<1>. QED  BY <1>2, <1>3, <1>4, <1>5, <1>6, <1>7

\* What is sent, what the server makes of it, and what the page makes of the answer.
LEMMA PostsType ==
    ASSUME TypeOK,
           \/ ConfirmDelete \/ SubmitRole \/ CancelRole \/ Execute
           \/ \E p \in Profiles : SubmitUser(p)
           \/ \E s \in 1..MaxPosts : DeliverOk(s) \/ DeliverRefusal(s)
    PROVE  TypeOK'
<1>1. CASE ConfirmDelete
  <2>1. dialog.ids \in SUBSET UserIds /\ dialog.asked \in SUBSET UserIds
        /\ dialog.settled \in BOOLEAN
    BY DEF TypeOK, Dialogs
  <2>2. posts' \in [1..MaxPosts -> Posts \cup {NoPost}]
    BY <1>1, <2>1, SendType DEF ConfirmDelete
  <2>. QED  BY <1>1, <2>2, DialogTypes DEF ConfirmDelete, TypeOK, server, table, forms
<1>2. modal.asked \in SUBSET UserIds /\ modal.settled \in BOOLEAN
      /\ modal.user \in UserIds \cup {NoId}
  BY DEF TypeOK, Modals
<1>3. CASE SubmitRole
  <2>1. posts' \in [1..MaxPosts -> Posts \cup {NoPost}]
    BY <1>2, <1>3, SendType DEF SubmitRole
  <2>. QED  BY <1>3, <2>1 DEF SubmitRole, TypeOK, server, table, forms
<1>4. ASSUME NEW p \in Profiles, SubmitUser(p) PROVE TypeOK'
  <2>1. {userForm} \ {NoId} \in SUBSET UserIds  BY DEF TypeOK
  <2>2. posts' \in [1..MaxPosts -> Posts \cup {NoPost}]
    BY <1>2, <1>4, <2>1, SendType DEF SubmitUser
  <2>. QED  BY <1>4, <2>2 DEF SubmitUser, TypeOK, server, table, forms
<1>5. CASE CancelRole
  BY <1>5, ReloadType DEF CancelRole, TypeOK
<1>6. ASSUME NEW s \in 1..MaxPosts, DeliverOk(s) PROVE TypeOK'
  <2>1. [posts EXCEPT ![s] = NoPost] \in [1..MaxPosts -> Posts \cup {NoPost}]
    BY DEF TypeOK
  <2>. QED  BY <1>6, <2>1, ReloadType DEF DeliverOk
<1>7. ASSUME NEW s \in 1..MaxPosts, DeliverRefusal(s) PROVE TypeOK'
  BY <1>7, DialogTypes DEF DeliverRefusal, TypeOK, server, table, forms
<1>8. CASE Execute
  <2>. SUFFICES /\ posts' \in [1..MaxPosts -> Posts \cup {NoPost}]
                /\ users' \in [UserIds -> Profiles \cup {Absent}]
                /\ used' \in SUBSET UserIds
    BY <1>8 DEF Execute, TypeOK, table, forms
  <2>1. ASSUME NEW s \in 1..MaxPosts, posts[s] # NoPost
        PROVE  posts[s].profile \in Profiles \cup {Absent}
    BY <2>1 DEF TypeOK, Posts
  <2>. QED
    BY <1>8, <2>1, AnsweredType
    DEF Execute, ExecuteCreate, ExecuteUpdate, ExecuteDelete, ExecuteAssign, ServerRefuses,
        ServerFails, Awaited, TypeOK, server
<1>. QED  BY <1>1, <1>3, <1>4, <1>5, <1>6, <1>7, <1>8

LEMMA TypeStep == TypeOK /\ [Next]_vars => TypeOK'
<1>. SUFFICES ASSUME TypeOK, [Next]_vars PROVE TypeOK'  OBVIOUS
<1>1. ASSUME NEW u \in UserIds, OthersDelete(u) PROVE TypeOK'
  BY <1>1 DEF OthersDelete, TypeOK, table, forms
<1>2. ASSUME NEW u \in UserIds, NEW p \in Profiles, OthersSave(u, p) PROVE TypeOK'
  BY <1>2 DEF OthersSave, TypeOK, table, forms
<1>3. CASE UNCHANGED vars  BY <1>3 DEF vars, TypeOK
<1>. QED  BY <1>1, <1>2, <1>3, AnswerType, TableType, FormsType, PostsType DEF Next

-----------------------------------------------------------------------------
(* The table and its cache.                                                  *)

LEMMA InitScreen == Init => ScreenInv
BY PageAssumption DEF Init, ScreenInv, ScreenIsCache, Settled, Blank, FirstPull

LEMMA ReloadScreen ==
    ASSUME NEW inFlight, Reload(inFlight)
    PROVE  ScreenInv'
BY PageAssumption DEF Reload, ScreenInv, ScreenIsCache, Settled, Blank, FirstPull

\* Marking the same rows here and there keeps the two alike.
LEMMA SyncScreen ==
    ASSUME TypeOK, ScreenInv, NEW idxs, NEW t \in BOOLEAN,
           SyncCheckAll(Mark(cache, idxs, t), Mark(view.rows, idxs, t)),
           UNCHANGED <<cacheTable, pulls>>
    PROVE  ScreenInv'
<1>1. /\ view'.rows = Mark(view.rows, idxs, t)
      /\ view'.head = (view.keyed /\ AllTicked(cache'))
      /\ view'.table = view.table /\ view'.main = view.main /\ view'.fixed = view.fixed
      /\ view'.buttons = view.buttons /\ view'.keyed = view.keyed
      /\ cache' = Mark(cache, idxs, t)
  BY DEF SyncCheckAll, TypeOK, Views
<1>2. Ids(cache') = Ids(cache)  BY <1>1, MarkType DEF TypeOK
<1>3. Settled' => Settled  BY <1>1 DEF Settled
<1>4. ScreenIsCache'
  BY <1>1, <1>2, <1>3 DEF ScreenInv, ScreenIsCache, Settled
<1>. QED  BY <1>1, <1>4 DEF ScreenInv

\* An answer writes the cache for its own rendering: either that is the newest, and
\* the screen gets the same rows, or the cache no longer belongs to the screen.
LEMMA AnswerScreen == ASSUME TypeOK, ScreenInv, AnswerTable PROVE ScreenInv'
<1>1. ASSUME NEW q \in pulls, NEW ids \in IdLists, AnswerRows(q, ids) PROVE ScreenInv'
  <2>1. /\ Ids(Rows(ids, colMark)) = ids
        /\ colMark <=> AllTicked(Rows(ids, colMark))
    BY <1>1, RowsType DEF AnswerRows, TypeOK
  <2>2. /\ cache' = Rows(ids, colMark) /\ cacheTable' = q.table
        /\ q.table <= view.table /\ pulls' \subseteq pulls
    BY <1>1 DEF AnswerRows, ScreenInv
  <2>3. CASE q.table # view.table
    <3>1. view' = view  BY <1>1, <2>3 DEF AnswerRows
    <3>. QED  BY <2>2, <2>3, <3>1 DEF ScreenInv, ScreenIsCache, Settled
  <2>4. CASE q.table = view.table
    <3>1. /\ view'.table = view.table /\ view'.fixed = view.fixed /\ view'.keyed
          /\ view'.buttons = IF view.fixed THEN ids ELSE view.buttons
          /\ view'.head = colMark
          /\ view'.main = "rows" => view'.rows = Rows(ids, colMark)
      BY <1>1, <2>4 DEF AnswerRows, TypeOK, Views
    <3>2. ScreenIsCache'  BY <2>1, <2>2, <3>1 DEF ScreenIsCache, Settled
    <3>. QED  BY <2>2, <3>1, <3>2 DEF ScreenInv
  <2>. QED  BY <2>3, <2>4
<1>2. ASSUME NEW q \in pulls, AnswerNone(q) PROVE ScreenInv'
  <2>1. Ids(<<>>) = <<>>  BY DEF Ids
  <2>2. CASE q.table # view.table
    BY <1>2, <2>2 DEF AnswerNone, ScreenInv, ScreenIsCache, Settled
  <2>3. CASE q.table = view.table
    <3>1. /\ view'.table = view.table /\ ~view'.fixed /\ view'.buttons = <<>>
          /\ view'.main = "none" /\ view'.keyed
      BY <1>2, <2>3 DEF AnswerNone, TypeOK, Views
    <3>. QED
      BY <1>2, <2>1, <2>3, <3>1 DEF AnswerNone, ScreenInv, ScreenIsCache, Settled
  <2>. QED  BY <2>2, <2>3
<1>3. ASSUME NEW q \in pulls, AnswerError(q) PROVE ScreenInv'
  <2>1. CASE q.table # view.table
    BY <1>3, <2>1 DEF AnswerError, ScreenInv, ScreenIsCache, Settled
  <2>2. CASE q.table = view.table
    <3>1. /\ view'.table = view.table /\ view'.fixed = view.fixed
          /\ view'.buttons = view.buttons /\ view'.main = "error"
      BY <1>3, <2>2 DEF AnswerError, TypeOK, Views
    <3>. QED  BY <1>3, <3>1 DEF AnswerError, ScreenInv, ScreenIsCache, Settled
  <2>. QED  BY <2>1, <2>2
<1>. QED  BY <1>1, <1>2, <1>3 DEF AnswerTable

LEMMA ScreenStep == TypeOK /\ ScreenInv /\ [Next]_vars => ScreenInv'
<1>. SUFFICES ASSUME TypeOK, ScreenInv, [Next]_vars PROVE ScreenInv'  OBVIOUS
<1>1. CASE UNCHANGED table
  BY <1>1 DEF table, ScreenInv, ScreenIsCache, Settled
<1>2. ASSUME NEW p \in 1..view.pages, JumpPage(p) PROVE ScreenInv'
  BY <1>2 DEF JumpPage, ScreenInv, ScreenIsCache, Settled, TypeOK, Views
<1>3. ASSUME NEW filter \in Filters, SearchUser(filter) PROVE ScreenInv'
  <2>1. /\ view'.table = view.table + 1 /\ view'.main = "blank" /\ view'.fixed
        /\ view.table \in Nat
    BY <1>3 DEF SearchUser, Blank, TypeOK, Views
  <2>2. cacheTable' # view'.table /\ cacheTable' <= view'.table
    BY <1>3, <2>1 DEF SearchUser, ScreenInv, TypeOK
  <2>3. \A q \in pulls' : q.table <= view'.table
    BY <1>3, <2>1 DEF SearchUser, ScreenInv, FirstPull, TypeOK, Pulls
  <2>. QED  BY <2>1, <2>2, <2>3 DEF ScreenInv, ScreenIsCache, Settled
<1>4. ASSUME NEW i \in 1..PageLen, TickRow(i) PROVE ScreenInv'
  <2>1. (~view.rows[i].tick) \in BOOLEAN  OBVIOUS
  <2>. QED  BY <1>4, <2>1, SyncScreen DEF TickRow
<1>5. CASE TickHeader
  <2>1. (~view.head) \in BOOLEAN  OBVIOUS
  <2>. QED  BY <1>5, <2>1, SyncScreen DEF TickHeader
<1>6. ASSUME NEW s \in 1..MaxPosts, DeliverOk(s) PROVE ScreenInv'
  BY <1>6, ReloadScreen DEF DeliverOk
<1>7. CASE CancelRole  BY <1>7, ReloadScreen DEF CancelRole
<1>8. CASE AnswerTable  BY <1>8, AnswerScreen
<1>. QED
  BY <1>1, <1>2, <1>3, <1>4, <1>5, <1>6, <1>7, <1>8
  DEF Next, vars, table, AssignRole, AddUser, EditUser, DeleteUser, DismissDialog, CloseModal,
      ConfirmDelete, SubmitUser, SubmitRole, Execute, DeliverRefusal, OthersDelete, OthersSave

-----------------------------------------------------------------------------
(* The forms, the dialogs and what they send.                                *)

LEMMA InitForms == Init => FormsInv /\ AskedIsSent
BY DEF Init, FormsInv, NoModal, NoDialog, AskedIsSent

\* What a form remembers is what was asked, given that the cache it was read from
\* is what the screen showed.
LEMMA FormsStep == TypeOK /\ ScreenInv /\ FormsInv /\ [Next]_vars => FormsInv'
<1>. SUFFICES ASSUME TypeOK, ScreenInv, FormsInv, [Next]_vars PROVE FormsInv'
  OBVIOUS
<1>1. CASE UNCHANGED <<modal, userForm, dialog>>
  BY <1>1 DEF FormsInv
<1>2. CASE UNCHANGED <<modal, userForm>> /\ dialog' \in {NoDialog, Alert}
  BY <1>2 DEF FormsInv, NoDialog, Alert
<1>3. ASSUME NEW inFlight, Reload(inFlight) PROVE FormsInv'
  BY <1>3 DEF Reload, FormsInv, NoModal, NoDialog
<1>4. Settled => Ticked(view.rows) = Ticked(cache)
  BY DEF ScreenInv, ScreenIsCache
<1>5. CASE AddUser
  BY <1>5 DEF AddUser, FormsInv
<1>6. CASE EditUser
  <2>1. CASE Cardinality(Ticked(cache)) # 1
    BY <1>2, <1>6, <2>1 DEF EditUser
  <2>2. CASE Cardinality(Ticked(cache)) = 1
    <3>1. Ticked(cache) \in SUBSET UserIds /\ IsFiniteSet(Ticked(cache))
      BY TickedType DEF TypeOK
    <3>2. PICK u : Ticked(cache) = {u}  BY <2>2, <3>1, FS_Singleton
    <3>3. u \in UserIds /\ userForm' = u  BY <1>6, <2>2, <3>1, <3>2 DEF EditUser
    <3>. QED  BY <1>4, <1>6, <2>2, <3>2, <3>3 DEF EditUser, FormsInv
  <2>. QED  BY <2>1, <2>2
<1>7. CASE DeleteUser
  <2>1. CASE Ticked(cache) = {}
    BY <1>2, <1>7, <2>1 DEF DeleteUser, forms
  <2>2. CASE Ticked(cache) # {}
    BY <1>4, <1>7, <2>2 DEF DeleteUser, FormsInv, forms
  <2>. QED  BY <2>1, <2>2
<1>8. ASSUME NEW i \in 1..PageLen, AssignRole(i) PROVE FormsInv'
  <2>. DEFINE own == cacheTable = view.table
              user == IF i \in DOMAIN cache THEN cache[i].id ELSE NoId
  <2>1. /\ i \in DOMAIN view.buttons
        /\ modal' = [kind |-> "assign", asked |-> {view.buttons[i]}, settled |-> own,
                     user |-> user]
        /\ UNCHANGED <<userForm, dialog>>
    BY <1>8 DEF AssignRole
  <2>2. ASSUME cacheTable = view.table, i \in DOMAIN cache
        PROVE  view.buttons[i] = cache[i].id
    <3>1. view.fixed  BY <2>1 DEF ScreenInv
    <3>2. view.buttons = Ids(cache)  BY <2>2, <3>1 DEF ScreenInv, ScreenIsCache
    <3>. QED  BY <2>2, <3>2 DEF Ids
  <2>3. own => user = NoId \/ {view.buttons[i]} = {user}  BY <2>2
  <2>. HIDE DEF own, user
  <2>. QED  BY <2>1, <2>3 DEF FormsInv
<1>9. CASE CloseModal
  BY <1>9 DEF CloseModal, FormsInv, NoModal
<1>. QED
  BY <1>1, <1>2, <1>3, <1>5, <1>6, <1>7, <1>8, <1>9
  DEF Next, vars, table, forms, AnswerTable, AnswerRows, AnswerNone, AnswerError, JumpPage,
      SearchUser, TickRow, TickHeader, DismissDialog, ConfirmDelete, SubmitUser, SubmitRole,
      CancelRole, Execute, DeliverOk, DeliverRefusal, OthersDelete, OthersSave

\* A request is good when it names who was asked for.
Good(post) == post # NoPost /\ post.settled => post.ids = post.asked

LEMMA AllGood ==
    /\ AskedIsSent => \A s \in 1..MaxPosts : Good(posts[s])
    /\ (\A s \in 1..MaxPosts : Good(posts[s]))' => AskedIsSent'
BY DEF AskedIsSent, Good

LEMMA SendGood ==
    ASSUME TypeOK, \A s \in 1..MaxPosts : Good(posts[s]),
           NEW kind, NEW ids, NEW p, NEW asked, NEW settled,
           Send(kind, ids, p, asked, settled),
           settled => ids = asked
    PROVE  (\A s \in 1..MaxPosts : Good(posts[s]))'
BY DEF Send, Good, TypeOK

\* Executing, answering, forgetting and reloading leave a request good.
LEMMA PostsStep ==
    TypeOK /\ FormsInv /\ AskedIsSent /\ [Next]_vars => AskedIsSent'
<1>. SUFFICES ASSUME TypeOK, FormsInv, \A s \in 1..MaxPosts : Good(posts[s]), [Next]_vars
              PROVE  (\A s \in 1..MaxPosts : Good(posts[s]))'
  BY AllGood
<1>1. CASE UNCHANGED posts
  BY <1>1 DEF Good
<1>2. ASSUME NEW s \in 1..MaxPosts, posts' = [posts EXCEPT ![s] = NoPost]
      PROVE  (\A r \in 1..MaxPosts : Good(posts[r]))'
  BY <1>2 DEF Good, TypeOK
<1>3. ASSUME NEW s \in 1..MaxPosts, posts[s] # NoPost, NEW a \in {"ok", "refused"},
             posts' = Answered(s, a)
      PROVE  (\A r \in 1..MaxPosts : Good(posts[r]))'
  <2>1. posts[s] \in Posts  BY <1>3 DEF TypeOK
  <2>2. posts'[s] = NoPost \/ (~posts'[s].settled /\ posts'[s].answer = a)
    BY <1>3, <2>1 DEF Answered, Forget, Posts, TypeOK
  <2>3. \A r \in 1..MaxPosts : r # s => posts'[r] = posts[r]
    BY <1>3 DEF Answered, TypeOK
  <2>. QED  BY <2>2, <2>3 DEF Good
<1>4. ASSUME NEW inFlight \in [1..MaxPosts -> Posts \cup {NoPost}], Reload(inFlight),
             \A s \in 1..MaxPosts : Good(inFlight[s])
      PROVE  (\A s \in 1..MaxPosts : Good(posts[s]))'
  <2>1. ASSUME NEW s \in 1..MaxPosts PROVE Good(posts'[s])
    <3>1. posts'[s] = IF inFlight[s] # NoPost /\ inFlight[s].answer = "awaited"
                      THEN [Forget(inFlight[s]) EXCEPT !.here = FALSE] ELSE NoPost
      BY <1>4 DEF Reload
    <3>2. inFlight[s] # NoPost => inFlight[s] \in Posts  OBVIOUS
    <3>. QED  BY <1>4, <3>1, <3>2 DEF Good, Forget, Posts
  <2>. QED  BY <2>1 DEF Good
<1>5. CASE ConfirmDelete
  BY <1>5, SendGood DEF ConfirmDelete, FormsInv
<1>6. ASSUME NEW p \in Profiles, SubmitUser(p)
      PROVE  (\A s \in 1..MaxPosts : Good(posts[s]))'
  <2>1. modal.settled => {userForm} \ {NoId} = modal.asked
    BY <1>6, PageAssumption DEF SubmitUser, FormOpen, FormsInv, NoId
  <2>. QED  BY <1>6, <2>1, SendGood DEF SubmitUser
<1>7. CASE SubmitRole
  <2>1. modal.settled => {modal.user} = modal.asked
    BY <1>7 DEF SubmitRole, FormOpen, FormsInv
  <2>. QED  BY <1>7, <2>1, SendGood DEF SubmitRole
<1>8. CASE CancelRole
  BY <1>4, <1>8 DEF CancelRole, TypeOK
<1>9. ASSUME NEW s \in 1..MaxPosts, DeliverOk(s)
      PROVE  (\A r \in 1..MaxPosts : Good(posts[r]))'
  <2>1. [posts EXCEPT ![s] = NoPost] \in [1..MaxPosts -> Posts \cup {NoPost}]
    BY DEF TypeOK
  <2>2. \A r \in 1..MaxPosts : Good([posts EXCEPT ![s] = NoPost][r])
    BY DEF Good, TypeOK
  <2>. QED  BY <1>4, <1>9, <2>1, <2>2 DEF DeliverOk
<1>10. CASE Execute
  BY <1>2, <1>3, <1>10
  DEF Execute, ExecuteCreate, ExecuteUpdate, ExecuteDelete, ExecuteAssign, ServerRefuses,
      ServerFails, Awaited
<1>. QED
  BY <1>1, <1>2, <1>5, <1>6, <1>7, <1>8, <1>9, <1>10
  DEF Next, vars, table, forms, AnswerTable, AnswerRows, AnswerNone, AnswerError, JumpPage,
      SearchUser, TickRow, TickHeader, AddUser, EditUser, DeleteUser, AssignRole,
      DismissDialog, CloseModal, DeliverRefusal, OthersDelete, OthersSave

-----------------------------------------------------------------------------
(* The theorems.                                                             *)

LEMMA Invariant == Spec => []IInv
<1>1. Init => IInv  BY InitType, InitScreen, InitForms DEF IInv
<1>2. IInv /\ [Next]_vars => IInv'
  BY TypeStep, ScreenStep, FormsStep, PostsStep DEF IInv
<1>. QED  BY <1>1, <1>2, PTL DEF Spec

\* Every variable keeps its type.
THEOREM Typing == Spec => []TypeOK
BY Invariant, PTL DEF IInv

\* Whatever answers arrive in whatever order, as long as the cache belongs to the
\* table on the screen the two agree (table.js renderData, setCheckData).
THEOREM ScreenAgrees == Spec => []ScreenIsCache
BY Invariant, PTL DEF IInv, ScreenInv

\* A request names the users that the administrator pointed at when the table on
\* the screen was the one the cache belonged to (user.js 43-173).
THEOREM SentAsAsked == Spec => []AskedIsSent
BY Invariant, PTL DEF IInv
=============================================================================
