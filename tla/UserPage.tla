------------------------------ MODULE UserPage ------------------------------
(***************************************************************************)
(* The page on which an administrator manages users: public/app/user.js    *)
(* with the layui table, layer and form it drives. Everything it asks of   *)
(* the server is an asynchronous request, and the administrator goes on    *)
(* clicking while requests are in flight. Three copies of the rows must    *)
(* agree: the table on the screen, layui's cache of row data (ONE per      *)
(* table id, shared by every rendering of that table) and what a dialog    *)
(* remembers. To the server a request takes effect at once, as UserStore   *)
(* has it (module UserAdmin looks inside). list.html loads layui.all.js,   *)
(* the minified bundle of the modules under public/layui/lay/modules to    *)
(* which the definitions refer.                                            *)
(***************************************************************************)
EXTENDS Naturals, FiniteSets, Sequences

CONSTANTS
    UserIds,    \* ids of base_user: positive numbers
    Profiles,   \* profiles of a user; the search looks at the name in it
    Absent,     \* no such user
    Filters,    \* searches: each is the set of profiles it matches
    PageLen,    \* rows per page of the table
    MaxTables,  \* bound: renderings of the table per loaded page
    MaxPulls,   \* bound: table requests in flight
    MaxPosts    \* bound: saves, deletions and role assignments in flight

ASSUME PageAssumption ==
    /\ UserIds \subseteq Nat \ {0}
    /\ IsFiniteSet(UserIds)
    /\ Absent \notin Profiles
    /\ Filters \subseteq SUBSET Profiles
    /\ Profiles \in Filters
    /\ PageLen \in Nat \ {0}
    /\ MaxTables \in Nat \ {0}
    /\ MaxPulls \in Nat \ {0}
    /\ MaxPosts \in Nat

NoId == 0                \* an empty hidden field
NoPost == [kind |-> "none"]

VARIABLES
    users, used,  \* the server's base_user, as in UserStore
    view,         \* the newest rendering of the table: what is on the screen
    colMark,      \* LAY_CHECKED of the checkbox column, shared by all renderings
    cache,        \* table.cache[userTableId]: the rows' data, with their marks
    cacheTable,   \* the rendering that wrote the cache last, 0 before the first answer
    pulls,        \* requests for table data in flight
    modal,        \* the form that is open, and for which rows it was asked
    userForm,     \* hidden field id of #userForm; it outlives the dialog
    dialog,       \* the alert or confirmation that is open
    posts         \* saves, deletions and assignments in flight
vars == <<users, used, view, colMark, cache, cacheTable, pulls, modal, userForm,
          dialog, posts>>

server == <<users, used>>
table  == <<view, colMark, cache, cacheTable, pulls>>
forms  == <<modal, userForm>>

-----------------------------------------------------------------------------
(* Rows: a sequence of [id, tick]; the screen's and the cache's alike.       *)

Ids(rows) == [i \in DOMAIN rows |-> rows[i].id]
Ticked(rows) == {rows[i].id : i \in {j \in DOMAIN rows : rows[j].tick}}
AllTicked(rows) == \A i \in DOMAIN rows : rows[i].tick
Rows(ids, t) == [i \in DOMAIN ids |-> [id |-> ids[i], tick |-> t]]

IdLists == UNION {[1..n -> UserIds] : n \in 0..PageLen}
RowLists == UNION {[1..n -> [id : UserIds, tick : BOOLEAN]] : n \in 0..PageLen}

\* The users a search finds, newest id first, PageLen to a page.
Found(filter) == {u \in UserIds : users[u] \in filter}
Rank(u, found) == Cardinality({v \in found : v >= u})
IsPage(ids, found, page) ==
    /\ {ids[i] : i \in DOMAIN ids} =
          {u \in found : Rank(u, found) \in ((page - 1) * PageLen + 1)..(page * PageLen)}
    /\ \A i, j \in DOMAIN ids : i < j => ids[i] > ids[j]
PageCount(found) == (Cardinality(found) + PageLen - 1) \div PageLen

-----------------------------------------------------------------------------
(* The table's state on the screen.                                          *)
(*   main   the body: blank until the first answer, then rows, or the text   *)
(*          "no data" or "request failed" in its place                       *)
(*   rows   the rows of the body, with their checkboxes                      *)
(*   buttons, fixed   the role buttons of the right column, which is removed *)
(*          for good by an empty answer                                      *)
(*   head   the checkbox of the header                                       *)
(*   keyed  a first answer told the rendering its key into the cache         *)
(*   pages  what the pager offers                                            *)

Blank(t, filter, mark) ==
    [table |-> t, filter |-> filter, main |-> "blank", rows |-> <<>>,
     buttons |-> <<>>, fixed |-> TRUE, head |-> mark, keyed |-> FALSE, pages |-> 0]

\* Mutant: pages counted from 0.
FirstPullFromZero(t, filter) == [table |-> t, filter |-> filter, page |-> 0]

FirstPull(t, filter) == [table |-> t, filter |-> filter, page |-> 1]

Views == [table : 1..MaxTables, filter : Filters,
          main : {"blank", "rows", "none", "error"}, rows : RowLists,
          buttons : IdLists, fixed : BOOLEAN, head : BOOLEAN, keyed : BOOLEAN,
          pages : Nat]
Pulls == [table : 1..MaxTables, filter : Filters, page : Nat \ {0}]

\* asked: the rows the administrator pointed at; settled: the table on the
\* screen was the one the cache belongs to. Both are history. user: the hidden
\* field of the role form, which every opening sets.
NoModal == [kind |-> "none", asked |-> {}, settled |-> FALSE, user |-> NoId]
Modals == [kind : {"none", "add", "edit", "assign"}, asked : SUBSET UserIds,
           settled : BOOLEAN, user : UserIds \cup {NoId}]
NoDialog == [kind |-> "none", ids |-> {}, asked |-> {}, settled |-> FALSE]
Alert == [NoDialog EXCEPT !.kind = "alert"]
Dialogs == [kind : {"none", "alert", "confirm"}, ids : SUBSET UserIds,
            asked : SUBSET UserIds, settled : BOOLEAN]

\* here: the page that sent it is still loaded, so its callback runs.
Posts == [kind : {"save", "delete", "assign"}, ids : SUBSET UserIds,
          profile : Profiles \cup {Absent}, asked : SUBSET UserIds,
          settled : BOOLEAN, answer : {"awaited", "ok", "refused"}, here : BOOLEAN]

TypeOK ==
    /\ users \in [UserIds -> Profiles \cup {Absent}]
    /\ used \in SUBSET UserIds
    /\ view \in Views
    /\ colMark \in BOOLEAN
    /\ cache \in RowLists
    /\ cacheTable \in 0..MaxTables
    /\ pulls \in SUBSET Pulls
    /\ modal \in Modals
    /\ userForm \in UserIds \cup {NoId}
    /\ dialog \in Dialogs
    /\ posts \in [1..MaxPosts -> Posts \cup {NoPost}]

\* The page has just been loaded and renders its table.
Init ==
    /\ users \in [UserIds -> Profiles \cup {Absent}]
    /\ used = {u \in UserIds : users[u] # Absent}
    /\ view = Blank(1, Profiles, FALSE)
    /\ colMark = FALSE
    /\ cache = <<>>
    /\ cacheTable = 0
    /\ pulls = {FirstPull(1, Profiles)}
    /\ modal = NoModal
    /\ userForm = NoId
    /\ dialog = NoDialog
    /\ posts = [s \in 1..MaxPosts |-> NoPost]

-----------------------------------------------------------------------------
(* The table's requests.                                                     *)

\* renderData with rows. Whatever rendering asked, the shared cache is replaced;
\* the screen changes only if it was the newest, and the body only if an empty
\* or failed answer has not taken the place of its rows.
AnswerRows(q, ids) ==
    /\ q \in pulls
    /\ ids # <<>>
    /\ IsPage(ids, Found(q.filter), q.page)
    /\ pulls' = pulls \ {q}
    /\ cache' = Rows(ids, colMark)
    /\ cacheTable' = q.table
    /\ view' = IF q.table # view.table THEN view
               ELSE LET open == view.main \in {"blank", "rows"}
                    IN  [view EXCEPT
                           !.main = IF open THEN "rows" ELSE @,
                           !.rows = IF open THEN Rows(ids, colMark) ELSE @,
                           !.buttons = IF view.fixed THEN ids ELSE @,
                           !.head = colMark,
                           !.keyed = TRUE,
                           !.pages = PageCount(Found(q.filter))]
    /\ UNCHANGED <<server, colMark, forms, dialog, posts>>

\* renderData without rows: "no data" replaces the body, the fixed column goes.
AnswerNone(q) ==
    /\ q \in pulls
    /\ IsPage(<<>>, Found(q.filter), q.page)
    /\ pulls' = pulls \ {q}
    /\ cache' = <<>>
    /\ cacheTable' = q.table
    /\ view' = IF q.table # view.table THEN view
               ELSE [view EXCEPT !.main = "none", !.rows = <<>>, !.buttons = <<>>,
                                 !.fixed = FALSE, !.keyed = TRUE]
    /\ UNCHANGED <<server, colMark, forms, dialog, posts>>

\* Mutant: no error callback.
AnswerErrorIgnored(q) ==
    /\ q \in pulls
    /\ pulls' = pulls \ {q}
    /\ UNCHANGED <<server, view, colMark, cache, cacheTable, forms, dialog, posts>>

\* The error callback of pullData (a status other than 200, an answer that is
\* not JSON, a lost connection): a text replaces the body, the cache stays.
AnswerError(q) ==
    /\ q \in pulls
    /\ pulls' = pulls \ {q}
    /\ view' = IF q.table # view.table THEN view
               ELSE [view EXCEPT !.main = "error", !.rows = <<>>]
    /\ UNCHANGED <<server, colMark, cache, cacheTable, forms, dialog, posts>>

AnswerTable == \E q \in pulls : \/ \E ids \in IdLists : AnswerRows(q, ids)
                                \/ AnswerNone(q)
                                \/ AnswerError(q)

\* layer's shade keeps the mouse off the page while a form or a dialog is open.
Clickable == modal.kind = "none" /\ dialog.kind = "none"
FormOpen(kinds) == modal.kind \in kinds /\ dialog.kind = "none"

\* The pager: the same rendering asks for another page. (Bound: not for one it
\* is already waiting for.)
JumpPage(p) ==
    LET q == [table |-> view.table, filter |-> view.filter, page |-> p]
    IN  /\ Clickable
        /\ p \in 1..view.pages
        /\ q \notin pulls
        /\ Cardinality(pulls) < MaxPulls
        /\ pulls' = pulls \cup {q}
        /\ UNCHANGED <<server, view, colMark, cache, cacheTable, forms, dialog,
                       posts>>

\* searchUser: reload makes a NEW rendering, blank, and asks for its first page.
SearchUser(filter) ==
    /\ Clickable
    /\ view.table < MaxTables
    /\ Cardinality(pulls) < MaxPulls
    /\ view' = Blank(view.table + 1, filter, colMark)
    /\ pulls' = pulls \cup {FirstPull(view.table + 1, filter)}
    /\ UNCHANGED <<server, colMark, cache, cacheTable, forms, dialog, posts>>

-----------------------------------------------------------------------------
(* The checkboxes. A row's index on the screen addresses the cache.          *)

\* setCheckData for the rows idxs
Mark(rows, idxs, t) ==
    [i \in DOMAIN rows |-> IF i \in idxs THEN [rows[i] EXCEPT !.tick = t] ELSE rows[i]]

\* Mutant: the header is not brought in line.
SyncCheckAllNever(newCache, newRows) ==
    /\ cache' = newCache
    /\ view' = [view EXCEPT !.rows = newRows]
    /\ UNCHANGED colMark

\* syncCheckAll: the header and the column follow the cache.
SyncCheckAll(newCache, newRows) ==
    LET all == view.keyed /\ AllTicked(newCache)
    IN  /\ cache' = newCache
        /\ colMark' = all
        /\ view' = [view EXCEPT !.rows = newRows, !.head = all]

TickRow(i) ==
    /\ Clickable
    /\ i \in DOMAIN view.rows
    /\ LET t == ~view.rows[i].tick
       IN  SyncCheckAll(Mark(cache, {i}, t), Mark(view.rows, {i}, t))
    /\ UNCHANGED <<server, cacheTable, pulls, forms, dialog, posts>>

TickHeader ==
    /\ Clickable
    /\ LET idxs == DOMAIN view.rows
           t == ~view.head
       IN  SyncCheckAll(Mark(cache, idxs, t), Mark(view.rows, idxs, t))
    /\ UNCHANGED <<server, cacheTable, pulls, forms, dialog, posts>>

-----------------------------------------------------------------------------
(* The buttons. checkStatus answers with the marked rows of the cache.       *)

Settled == view.main = "rows" /\ cacheTable = view.table

AddUser ==
    /\ Clickable
    /\ modal' = [kind |-> "add", asked |-> {}, settled |-> TRUE, user |-> NoId]
    /\ userForm' = NoId
    /\ UNCHANGED <<server, table, dialog, posts>>

EditUser ==
    /\ Clickable
    /\ IF Cardinality(Ticked(cache)) # 1
       THEN /\ dialog' = Alert
            /\ UNCHANGED <<modal, userForm>>
       ELSE /\ modal' = [kind |-> "edit", asked |-> Ticked(view.rows),
                       settled |-> Settled, user |-> NoId]
            /\ userForm' \in Ticked(cache)
            /\ UNCHANGED dialog
    /\ UNCHANGED <<server, table, posts>>

DeleteUser ==
    /\ Clickable
    /\ dialog' = IF Ticked(cache) = {} THEN Alert
                 ELSE [kind |-> "confirm", ids |-> Ticked(cache),
                       asked |-> Ticked(view.rows), settled |-> Settled]
    /\ UNCHANGED <<server, table, forms, posts>>

\* The button of row i of the right column; the cache may have no such row.
AssignRole(i) ==
    /\ Clickable
    /\ i \in DOMAIN view.buttons
    /\ modal' = [kind |-> "assign", asked |-> {view.buttons[i]},
                 settled |-> cacheTable = view.table,
                 user |-> IF i \in DOMAIN cache THEN cache[i].id ELSE NoId]
    /\ UNCHANGED <<server, table, userForm, dialog, posts>>

-----------------------------------------------------------------------------
(* The dialogs and the forms.                                                *)

\* The history of a request is kept until it is executed or its page is gone.
Forget(post) == [post EXCEPT !.asked = {}, !.settled = FALSE]

DismissDialog ==
    /\ dialog.kind # "none"
    /\ dialog' = NoDialog
    /\ UNCHANGED <<server, table, forms, posts>>

CloseModal ==
    /\ FormOpen({"add", "edit", "assign"})
    /\ modal' = NoModal
    /\ UNCHANGED <<server, table, userForm, dialog, posts>>

\* $.ajax: the request takes the first free slot.
Send(kind, ids, p, asked, settled) ==
    \E s \in 1..MaxPosts :
        /\ posts[s] = NoPost
        /\ \A r \in 1..(s - 1) : posts[r] # NoPost
        /\ posts' = [posts EXCEPT ![s] =
              [kind |-> kind, ids |-> ids, profile |-> p, asked |-> asked,
               settled |-> settled, answer |-> "awaited", here |-> TRUE]]

\* Mutant: the callback reads checkStatus again.
ConfirmDeleteNow ==
    /\ dialog.kind = "confirm"
    /\ Send("delete", Ticked(cache), Absent, dialog.asked, dialog.settled)
    /\ dialog' = NoDialog
    /\ UNCHANGED <<server, table, forms>>

\* The callback of the confirmation uses the rows read when it was opened.
ConfirmDelete ==
    /\ dialog.kind = "confirm"
    /\ Send("delete", dialog.ids, Absent, dialog.asked, dialog.settled)
    /\ dialog' = NoDialog
    /\ UNCHANGED <<server, table, forms>>

\* submit(saveBtn), with whatever the text fields hold. The dialog stays open
\* and the button enabled: it can be pressed again.
SubmitUser(p) ==
    /\ FormOpen({"add", "edit"})
    /\ Send("save", {userForm} \ {NoId}, p, modal.asked, modal.settled)
    /\ UNCHANGED <<server, table, forms, dialog>>

\* window.location.reload(), with the requests in flight. Nothing of the old page
\* is left but the requests the server has not executed yet. (The instant until
\* the new page is there is not modelled: all that happens to the old page in it
\* is lost.)
Reload(inFlight) ==
    /\ view' = Blank(1, Profiles, FALSE)
    /\ colMark' = FALSE
    /\ cache' = <<>>
    /\ cacheTable' = 0
    /\ pulls' = {FirstPull(1, Profiles)}
    /\ modal' = NoModal
    /\ userForm' = NoId
    /\ dialog' = NoDialog
    /\ posts' = [s \in 1..MaxPosts |->
          IF inFlight[s] # NoPost /\ inFlight[s].answer = "awaited"
          THEN [Forget(inFlight[s]) EXCEPT !.here = FALSE] ELSE NoPost]

\* submit(assignBtn); the name, empty when the row was not found, is required.
SubmitRole ==
    /\ FormOpen({"assign"})
    /\ modal.user # NoId
    /\ Send("assign", {modal.user}, Absent, modal.asked, modal.settled)
    /\ UNCHANGED <<server, table, forms, dialog>>

\* The cancel button of the role form has no valid type: it submits the form
\* natively, which loads the page again.
CancelRole ==
    /\ FormOpen({"assign"})
    /\ Reload(posts)
    /\ UNCHANGED server

-----------------------------------------------------------------------------
(* The server, as far as the page can tell: UserController and UserStore.    *)

\* A request without an error takes effect as a whole. An answer nobody waits
\* for is dropped.
Answered(s, a) ==
    [posts EXCEPT ![s] =
        IF posts[s].here THEN [Forget(posts[s]) EXCEPT !.answer = a, !.profile = Absent]
        ELSE NoPost]
Awaited(s, kind) ==
    /\ posts[s] # NoPost
    /\ posts[s].kind = kind
    /\ posts[s].answer = "awaited"

ExecuteCreate(s, u) ==
    /\ Awaited(s, "save")
    /\ posts[s].ids = {}
    /\ u \in UserIds \ used
    /\ users' = [users EXCEPT ![u] = posts[s].profile]
    /\ used' = used \cup {u}
    /\ posts' = Answered(s, "ok")

ExecuteUpdate(s, u) ==
    /\ Awaited(s, "save")
    /\ posts[s].ids = {u}
    /\ users[u] # Absent
    /\ users' = [users EXCEPT ![u] = posts[s].profile]
    /\ posts' = Answered(s, "ok")
    /\ UNCHANGED used

ExecuteDelete(s) ==
    /\ Awaited(s, "delete")
    /\ users' = [u \in UserIds |-> IF u \in posts[s].ids THEN Absent ELSE users[u]]
    /\ posts' = Answered(s, "ok")
    /\ UNCHANGED used

ExecuteAssign(s) ==
    /\ Awaited(s, "assign")
    /\ \A u \in posts[s].ids : users[u] # Absent
    /\ posts' = Answered(s, "ok")
    /\ UNCHANGED server

\* A result code other than 0: the controller has it for saves and roles whose
\* repository returns nothing.
ServerRefuses(s) ==
    /\ Awaited(s, "save") \/ Awaited(s, "assign")
    /\ posts' = Answered(s, "refused")
    /\ UNCHANGED server

\* HTTP 500: nothing was changed. No request has an error callback, so the page
\* does nothing either. It is the only outcome for a user who is not there.
ServerFails(s) ==
    /\ \E kind \in {"save", "delete", "assign"} : Awaited(s, kind)
    /\ posts' = [posts EXCEPT ![s] = NoPost]
    /\ UNCHANGED server

Execute ==
    /\ \E s \in 1..MaxPosts :
          \/ \E u \in UserIds : ExecuteCreate(s, u) \/ ExecuteUpdate(s, u)
          \/ ExecuteDelete(s)
          \/ ExecuteAssign(s)
          \/ ServerRefuses(s)
          \/ ServerFails(s)
    /\ UNCHANGED <<table, forms, dialog>>

\* Mutant: the success is reported and nothing else happens.
DeliverOkAlertOnly(s) ==
    /\ posts[s] # NoPost
    /\ posts[s].answer = "ok"
    /\ dialog' = Alert
    /\ posts' = [posts EXCEPT ![s] = NoPost]
    /\ UNCHANGED <<server, table, forms>>

\* The success callback: after a success the page is loaded again; otherwise an
\* alert says so, and takes the place of the dialog that is open.
DeliverOk(s) ==
    /\ posts[s] # NoPost
    /\ posts[s].answer = "ok"
    /\ Reload([posts EXCEPT ![s] = NoPost])
    /\ UNCHANGED server

DeliverRefusal(s) ==
    /\ posts[s] # NoPost
    /\ posts[s].answer = "refused"
    /\ dialog' = Alert
    /\ posts' = [posts EXCEPT ![s] = NoPost]
    /\ UNCHANGED <<server, table, forms>>

\* Administrators at other pages.
OthersSave(u, p) ==
    /\ users[u] # Absent \/ u \notin used
    /\ users' = [users EXCEPT ![u] = p]
    /\ used' = used \cup {u}
    /\ UNCHANGED <<table, forms, dialog, posts>>

OthersDelete(u) ==
    /\ users' = [users EXCEPT ![u] = Absent]
    /\ UNCHANGED <<used, table, forms, dialog, posts>>

-----------------------------------------------------------------------------
Next ==
    \/ AnswerTable
    \/ \E p \in 1..view.pages : JumpPage(p)
    \/ \E filter \in Filters : SearchUser(filter)
    \/ \E i \in 1..PageLen : TickRow(i) \/ AssignRole(i)
    \/ TickHeader
    \/ AddUser \/ EditUser \/ DeleteUser
    \/ DismissDialog \/ CloseModal
    \/ ConfirmDelete
    \/ \E p \in Profiles : SubmitUser(p)
    \/ SubmitRole \/ CancelRole
    \/ Execute
    \/ \E s \in 1..MaxPosts : DeliverOk(s) \/ DeliverRefusal(s)
    \/ \E u \in UserIds : OthersDelete(u) \/ \E p \in Profiles : OthersSave(u, p)

Spec == Init /\ [][Next]_vars

\* A request ends in an answer or an error, and the browser runs the callback.
\* (The rendering on the screen sends no further request while it is blank, so
\* fairness to the table's requests as a whole is enough.) Nobody has to click.
Fairness ==
    /\ WF_vars(AnswerTable)
    /\ \A s \in 1..MaxPosts : WF_vars(DeliverOk(s) \/ DeliverRefusal(s))
FairSpec == Spec /\ Fairness

-----------------------------------------------------------------------------
(* Properties.                                                               *)

\* While the cache belongs to the table on the screen and its body shows rows,
\* the two agree, row by row and tick by tick, and so do the role buttons; and
\* the header's box is ticked exactly when every row on the screen is
\* (table.js renderData, setCheckData and syncCheckAll, whatever arrives when).
ScreenIsCache ==
    /\ cacheTable = view.table /\ view.fixed => view.buttons = Ids(cache)
    /\ Settled => /\ view.rows = cache
                  /\ view.head <=> AllTicked(view.rows)

\* Every request names exactly the users the administrator pointed at when the
\* dialog was opened - the ticked rows for a deletion, the ticked row for a
\* change, nobody for a new user, the row of the button for a role - although
\* answers kept arriving meanwhile; as long as the table on the screen was the
\* one the cache belonged to at that moment (user.js 43-173).
AskedIsSent ==
    \A s \in 1..MaxPosts :
        posts[s] # NoPost /\ posts[s].settled => posts[s].ids = posts[s].asked

\* A table that is drawn blank does not stay blank (table.js pullData).
TableSettles == view.main = "blank" ~> view.main # "blank"

\* After a deletion was carried out, the time comes when its users are no longer
\* in the cache, hence not on the screen, and never will be (user.js 89-92).
DeletedLeavesTable ==
    \A u \in UserIds :
        (\E s \in 1..MaxPosts : /\ posts[s] # NoPost
                                /\ posts[s].kind = "delete"
                                /\ posts[s].answer = "ok"
                                /\ u \in posts[s].ids)
        ~> [](\A i \in DOMAIN cache : cache[i].id # u)
=============================================================================
