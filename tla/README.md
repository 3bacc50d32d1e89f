# A TLA+ verification of kss

kss is a set of Java services: two libraries (`kss-commons`, `kss-data-center`), a
management web application (`manage-web`), five thin data services and a
service registry. Most of the files are a vendored JavaScript library (layui)
and start-up classes; the program's own logic is in the two libraries and in
the user administration of `manage-web`. This directory holds TLA+ modules that
model that logic, configurations that check them with TLC, and proofs that
TLAPS checks.

Contents: [inventory](#1-inventory), [modules](#2-modules),
[DistDB](#3-distdb-distributed-transactions), [SqlTemplate](#4-sqltemplate-statements-and-parameters),
[user administration](#5-userstore-userpage-useradmin-user-administration),
[ResultMapCache](#6-resultmapcache-the-result-maps-of-mybatis),
[runs](#7-runs), [proofs](#8-proofs), [findings](#9-where-the-code-and-its-comments-disagree),
[limits](#10-what-is-not-modelled), [how to run](#11-how-to-run).

## 1. Inventory

Paths are relative to the repository; `commons` stands for
`kss-commons/src/main/java/com/kss`, `engine` for
`kss-data-center/src/main/java/com/kss/sqlengine`, `manage` for
`manage-web/server/src/main/java/com/kss/manage`.

### Distributed transactions: `commons/persistence/atomikos`

`AtomikosDBHelper` (interface `IDistDBHelper`), a Spring singleton.

* State: three `ConcurrentHashMap`s shared by every request. `utxCache`: id to
  `UserTransaction`; `dsCache`: id to its Atomikos data source beans;
  `connCache`: id to a plain `HashMap` from data source to connection. Outside
  it: the JTA transaction of each *thread*, and the pools of the beans.
* Operations: `newDistTransaction`, `beginTransaction`, `getConnection`,
  `commitTransaction`, `rollbackTransaction`, `deleteDistTransaction`, and over
  all ids `commitAllTransaction`, `rollAllTransaction`, `deleteAllDistTransaction`.
* Hard: no lock is taken, so the methods interleave at every map access; ids
  are strings anyone can pass, whereas transactions belong to threads; closing
  can fail half-way; transactions time out; ids are identity hash codes.
* Correct when: no connection is lost or mixed up, the end of a transaction
  releases all of its connections, and transactions of different threads do not
  affect each other.

### SQL engine: `engine/SQLEngine`, `SQLExecutor`

* State: the lazily created default engine (static), otherwise what the helper
  above keeps. The connection of a call is a local.
* Operations: `beginTransaction`, `commit`, `rollback`, `executeQuery`,
  `executeUpdate`, `execute`, `executeBatchInsert`, inside a transaction (by
  id) or outside of one (a connection of its own).
* Hard: who closes the connection on which path; a `begin` that fails after the
  id was made; two threads that create the default engine at once.
* Correct when: a connection outside a transaction is closed on every path on
  which the caller cannot close it; one inside a transaction never is.

### SQL templates: string handling of `SQLEngine`, binding of `SQLExecutor`

* State: the list of `SqlParam` objects, which belongs to the *caller* and which
  the engine changes: it removes elements and sets values.
* Operations: `replaceParamInSql`, `deleteNullParamClauseInSQL`, `convertSql`,
  `setParameters`, `getOutParameters`.
* Hard: a loop over a text that the loop changes; lines and parameters that
  disappear on the way; a list that is passed again after a call that failed.
* Correct when: the i-th placeholder gets the parameter that the i-th reference
  names, the list survives, the loop ends.

### Session routing: `commons/persistence/routing`, `ExtSqlSessionTemplate`

* State: `RoutingContext` (two `ThreadLocal`s: data source and session factory).
* Operations: every call of a mapper registers its route, then opens, uses and
  closes a MyBatis session of the factory that the route names.
* Hard: routes are set and never cleared, threads are pooled, mapper calls nest.
* Correct when: each statement runs on the data source its own call selects.

### MyBatis plugins: `commons/persistence/plugin`, `dialect`

* State: `AutoResultMap` keeps a static `ConcurrentHashMap` from a class to a result
  map, and fills result maps, which all threads share, by reflection;
  `Pagination` rewrites the statement of one call and keeps nothing.
* Hard: several accesses to the cache that are not atomic together; result maps
  that are filled field by field, without a lock, while other threads read them.
* Correct when: what is copied is complete, nothing filled is overwritten by
  something that is not, and a map does not stay half filled.

### User administration: `manage/web/user`, `manage/security/UserService`, `public/app/user.js`

* State: users and their roles in the database (`manage-web.sql`); in the browser
  the table on the screen, layui's cache of its rows and marks, the form or dialog
  that is open, a hidden field that outlives it, and requests in flight.
* Operations: list, search, turn pages, tick; add, edit, delete, assign a role;
  on the server `tableData`, `saveOrUpdate`, `delete`, `saveOrUpdateRole`.
* Hard: answers arrive late, out of order or not at all while the administrator
  goes on clicking; several renderings of the table share one cache; on the
  server a request reads in one transaction and writes in another; there is no
  version column, foreign key or unique key.
* Correct when: a request names the users the administrator meant, the screen
  and what stands behind it agree, a deleted user stays deleted, and nobody
  inherits another user's role.

### Utilities of kss-commons

`DateUtil` shares `SimpleDateFormat` objects between threads; `JsonMapper` keeps
an `ObjectMapper` per thread and configures one of them; `EncryptDecryptUtil`,
`DESEncryptUtil`, `MD5Helper`, `CommonUtil`, `BeanUtil`, `ResultSetUtil` are
stateless; `KssTask` is a template method without a subclass.

### The rest

Login, security configuration and pages of `manage-web`, the five data
services, the registry: framework configuration and start-up. layui: vendored.

`PROJECT.json` lists every component with its files, and under `hazards` each
place where something hard to test can go wrong, with the property that covers
it or the reason why none does.

### How the parts interact

`SQLEngine` is the only caller of `AtomikosDBHelper` in the repository: it makes
and begins a transaction in one call, hands the id to its own caller, and asks
for a connection in each later call that carries the id. `DistDB` takes from
that what its callers may do: pass any id they were handed, in any order, and on any
thread when `SharedIds`. `SqlTemplate` models what `SQLEngine` does
between getting the connection and handing it to `SQLExecutor`. Routing and
plugins work below the mappers of the other services and share nothing with
the SQL engine. The page of `user.js` and `UserController` exchange HTTP requests;
what each may rely on is `UserStore`: `UserPage` sees the server as that store, and
`UserAdmin`, which looks inside the server, implements it.

## 2. Modules

| module | models | abstract specification | proofs |
|---|---|---|---|
| `DistDB` | `AtomikosDBHelper`, interleaved | `DistTransaction`: what one id promises | `DistDB_proofs`, `DistDB_private_proofs`, `DistDB_shared_proofs` |
| `SqlTemplate` | statements, parameters, binding in `SQLEngine` and `SQLExecutor` | | `SqlTemplate_lemmas`, `SqlTemplate_proofs` |
| `UserPage` | `user.js` and the layui parts it drives, requests in flight | | `UserPage_proofs` |
| `UserAdmin` | `UserController`, `UserService`, the repositories | `UserStore`: `base_user` | `UserAdmin_proofs` |
| `ResultMapCache` | `AutoResultMap` | | `ResultMapCache_proofs` |

Each has a module `MC...` with values for its constants. Every safety
property that a run checks is also a theorem (section 8), the findings aside; the
four liveness properties are checked by TLC only.

## 3. DistDB: distributed transactions

### State

| variable | code |
|---|---|
| `utxCache` | the key set of `utxCache` (the values are interchangeable: see below) |
| `dsCache` | `dsCache`, the beans reduced to the data sources they are for |
| `connCache` | `connCache`; an id without an inner map has no connection at all (an inner map is created with its first entry and dropped as a whole, so an empty one does not exist) |
| `connState` | each connection of a bean's pool: not lent yet, open, closed |
| `txs` | per thread, the JTA transactions in progress, innermost first (which id they were begun for nobody knows) |
| `call` | per thread, the method it is in, the next step (`pc`), its locals |
| `known` | per thread, the ids its caller may pass: those that `newDistTransaction` returned to it, or to anybody when `SharedIds` |

A JTA `UserTransaction` acts on the transaction of the thread that calls it,
whichever object it is. That is why `utxCache` is a set and why `txs` is indexed
by thread; it is also the origin of two findings.

### Actions

The maps are `ConcurrentHashMap`s: one access is atomic, two are not. So every
method is split at its accesses to a shared map, and an access to state of the
own thread only is merged with the step before it.

| code | actions |
|---|---|
| `newDistTransaction` | `NewRefused` (the timeout is refused), `NewPutUtx`, `NewPutDs` (stores the beans, or fails on a data source with a null property, leaving the id behind) |
| `beginTransaction` | `BeginTransaction` |
| `commitTransaction`, `rollbackTransaction` | `EndTransaction`, then `closeConnection` if the thread has no transaction left |
| `closeConnection` | `CloseConns`, `DropConnMap`, `DropDsMap` |
| `getConnection(id, ds)` | `GetLookup`, `GetPeek`, `GetFetch` (a cached connection: the map is read three times); `GetOpen`, `GetCheckMap`, `GetPutOld`, `GetPutNew` (a new one) |
| `deleteDistTransaction` | `DeleteDs`, `DeleteUtx` |
| `deleteAllDistTransaction` | `DeleteAll` |
| `commitAllTransaction`, `rollAllTransaction` | `BulkStart`, `BulkEnd` (one per id), `BulkClose` and `closeConnection` per id |
| transaction manager | `Timeout` (rollback-only), `Complete` (a commit or rollback that succeeds, throws and ends the transaction, or throws and leaves it) |

Exceptions are results: `TransactionException` (the helper's own),
`NullPointerException` and `ConcurrentModificationException` where the code
dereferences or iterates what another step took away. A `SQLException` in
`getConnection` is only printed and the method returns null, as in the code.

### Abstractions

* `getTransactionStatus` is taken not to fail, and the loops over a
  `ConcurrentHashMap` (weakly consistent iterators) visit a snapshot.
* Beans are not told apart from the id and the data source they were made for:
  an id that is deleted and handed out again lends from the same pool.
* `getConnection(ds)`, without an id, opens a plain connection and touches none
  of this state.
* `SharedIds = FALSE` describes callers that use an id on the thread that made it
  and stop using it once deleted, and that do not use the operations over all
  ids; `Collisions = FALSE` says that no two live `UserTransaction` objects have
  one hash code.
* `TakeTurns` describes callers that pass any id on any thread but do not call for
  one id while another call for it runs, nor at the same time as an operation over
  all ids (`Turn`, `TurnOfAll`). Transactions overlap all the same, and calls for
  different ids interleave step by step. Without it (`shared`) calls for one id
  interleave as well. The code itself makes nobody wait: `TakeTurns` is a condition on
  callers.

### Properties

* `NoOrphan`: an open connection is in `connCache` under its own key or about to be
  put there. A lost one stays open for good.
* `OneOpenPerPool`: never two open connections of one id and data source, which
  the default pool of one connection could not lend. Like `NoOrphan` it is for callers
  that keep ids to themselves or take turns: `getConnection` tests `connCache` and puts
  into it later, and two calls for one id that overlap there do lose a connection.
  Nothing in the code forbids that, so no property does.
* `ConnInv`: the inductive invariant behind the two for callers that keep ids to
  themselves (section 8 has that for callers that take turns).
* `EndReleases`, `BulkReleases`: a commit or rollback that returns normally has
  closed every connection of the id and emptied its entries; `BulkReleases`, for
  callers that take turns, says it of all registered ids, other threads' included.
  `EndInv` and `BulkInv` are the inductive invariants behind them.
* `Isolation`: what a thread does never shows in what is kept for the ids of
  another one.
* `NoStaleConnection`: `getConnection` answers from the cache with an open
  connection only, when `close()` does not fail and calls for one id do not
  overlap; `KeptOpen`, the invariant behind it, says what is open when.
* `ConnectionPlaced`: whatever threads do, ids that repeat included, an entry is a
  connection that was lent for the id and data source it is under, it is in one
  place only, and none is closed under the hands of the call that opened it. It does
  not keep apart two transactions that were given one id, which share their entries,
  and it accepts that an entry is overwritten.
* `ImplementsDistTransaction`: refinement of `DistTransaction`, in which an id is
  created, lends at most one connection per data source, and takes all of them
  back in one step. The mapping (`phaseBar`, `lentBar`) places the creation at the
  write to `dsCache`, the end at the closing of the connections and the deletion
  at the removal from `dsCache`.

Safety only: nothing in the helper has to happen eventually unless a caller
calls, so no fairness is assumed.

## 4. SqlTemplate: statements and parameters

One caller with one list of parameters, passed to call after call.

A statement is a sequence of lines, a line a sequence of tokens: text, a
placeholder, a reference `#name#`, a substitution `#$name#`, or a delimiter
without a partner. That is all the string operations of the code tell apart: they
look for delimiters, names between them and line ends. `exact` records whether a
reference is spelled like the parameter, because one method compares names with
`contains` and the other with `equalsIgnoreCase`.

| variable | code |
|---|---|
| `params` | the caller's `List<SqlParam>`, shared with the engine |
| `lines` | the statement as `replaceParamInSql` leaves it, split at line ends |
| `text` | the `StringBuilder` of `deleteNullParamClauseInSQL`, then `sql` in the loop of `convertSql` |
| `bound` | `realParamList`; after execution, what was bound |
| `op`, `pc`, `sql`, `given`, `res`, `runs` | the call in progress, its arguments, how the last one ended, how many statements were handed to the driver |

| code | action |
|---|---|
| `executeQuery`, `executeUpdate`, up to the first method they call | `Start` (an update skips `replaceParamInSql`) |
| `replaceParamInSql` | `Substitute` |
| `deleteNullParamClauseInSQL` | `DropLines`, failing where `DropFails` |
| one iteration of the loop of `convertSql` | `Convert` |
| `SQLExecutor`: bind, execute, read back | `Run`; `RunFails` for a value that does not convert or an error of the database, also while OUT parameters are read back, with some of them set |
| the caller makes another list | `NewList` |

Values are null, blank, given, or the number of the execution they were read
from. Statements and their lines begin with text (`InputsAssumption`), so an
index that is 0, where the loop condition `beginIndex > 0` would stop, does not
arise; a substituted value holds no delimiter; a list that is null is one that
is empty; the database answers an OUT parameter with a value or with null. The
driver refuses a position that does not exist and one that was not set.

* `BoundAsWritten`: after a call that succeeded, the parameters bound are those
  that the references of the remaining lines name, in their order. The lines that
  remain are the caller's without those of the optional parameters that have no
  value. It is stated for calls whose required parameters have a value
  (`RequiredGiven`): without that it is `RequiredLinesRun`, which fails (section 9).
* `ListKept`: whatever happened, the list is as it was passed, but for parameters
  that were substituted into the text of a query and OUT parameters without a
  value.
* `CallsReturn`: every call ends. Fairness: `WF_vars(Step)`. A call runs in its
  caller's thread from method to method and waits for nothing of this model, so a
  step that can be taken is taken eventually; calls need not be made, so `Start`
  and `NewList` have no fairness. The property is about the loop of `convertSql`,
  whose condition depends on the text it rewrites.

## 5. UserStore, UserPage, UserAdmin: user administration

`UserStore` is `base_user` as everybody outside may rely on: a user is created
under an id that was never used, keeps it, is changed as long as it exists, and
once deleted never returns. Its `used` is the AUTO_INCREMENT counter, reduced to the
set of ids it has passed. `UserAdmin` is shown to implement it; `UserPage` takes it as
what the server does, so it too assumes that ids are not handed out again.

### UserPage

| variable | code |
|---|---|
| `users`, `used` | the server's store |
| `view` | the newest rendering made by `userTable.render` or `reload`: its number, search, what its body shows, rows with ticks, the role buttons of the right column, the header's box, the pager |
| `colMark` | `LAY_CHECKED` of the checkbox column, an object all renderings share |
| `cache`, `cacheTable` | layui's `table.cache['userTableId']` and which rendering filled it |
| `pulls` | table requests in flight, of any rendering |
| `modal`, `userForm`, `dialog` | the open form, the hidden id of `#userForm`, the open alert or question |
| `posts` | saves, deletions, role assignments in flight: sent, executed, refused |

| code | actions |
|---|---|
| `table.js` `pullData`, `renderData` | `AnswerRows`, `AnswerNone`, `AnswerError`; answers come in any order, and any of them may be an error |
| `laypage.js` jump; `active.searchUser` | `JumpPage`; `SearchUser` (a NEW rendering, while requests of the old one go on) |
| checkboxes, `syncCheckAll` | `TickRow`, `TickHeader` |
| `active.addUser`, `editUser`, `deleteUser`, `tool(userTableTool)` | `AddUser`, `EditUser`, `DeleteUser`, `AssignRole` |
| `layer.confirm` callback, `submit(saveBtn)`, `submit(assignBtn)` | `ConfirmDelete`, `SubmitUser`, `SubmitRole` |
| `layer.close`; the role form's cancel button | `DismissDialog`, `CloseModal`; `CancelRole` (its type is no valid one, so it submits the form natively and loads the page again) |
| the controller | `ExecuteCreate`, `ExecuteUpdate`, `ExecuteDelete`, `ExecuteAssign`, `ServerRefuses`, `ServerFails` |
| success callbacks | `DeliverOk` (`window.location.reload`), `DeliverRefusal` (an alert) |
| other administrators | `OthersSave`, `OthersDelete` |

`table`, `laypage` and `layer` are mapped to the files under `lay/modules`. `list.html`
loads `layui.all.js`, which is a bundle of these modules.

What is simplified: the answer to a table request is computed when it is delivered,
so an answer is never older than its delivery (which rows an answer holds is
free for what compares screen, cache and requests; for `DeletedLeavesTable` it
matters only across the reload after the deletion, which drops the answers of the
old page); two equal table requests of one rendering are one; `window.location.reload` is
atomic; only the mouse is used, so that a shade keeps clicks off what is below
it; a profile is name, code and phone together. Administrators elsewhere change
`base_user` at any time.

* `ScreenIsCache`: as long as the cache belongs to the rendering on the screen,
  the two agree row by row and tick by tick, and so do the role buttons and the
  header's box. A row's *index* addresses the cache, so a tick or a role button is
  right only if this holds.
* `AskedIsSent`: a request names the users the administrator pointed at when the
  dialog was opened. `settled` is its reservation, and a real one: after a search
  was started and before its answer (for good, if the answer is an error) the
  screen is empty but the cache still has the old rows, ticks included, and the
  delete button works on them. Without the reservation the property fails in five
  steps: tick, search, press delete, confirm.
* `TableSettles`: a blank table does not stay blank. `DeletedLeavesTable`: after a
  deletion was carried out its users leave the cache for good, although older
  requests are in flight.

Fairness, for the last two only: a request is answered or fails (`WF` of
`AnswerTable`), and the browser runs the callback of an answer (`WF` of the
delivery per slot). That a request ends is what HTTP and the browser's time-out
give; nothing is assumed of the administrator or of other clients. `WF` of all
table requests together is enough because a rendering that is blank sends no
second request.

### UserAdmin

One `EntityManager` per request (Spring Boot's default), one transaction per
repository call: `findOne` in the first, `save` in the second, with other requests
in between. `request` holds what a request read and is about to write; `roleRows`
is `base_user_role`; `raced` is history. `delete` is one transaction, split into
what it reads and what its flush writes.

Ids of `base_user_role` are any free ones; the password is not part of a profile;
the controllers' branch "save returned null" cannot be taken by the repositories
(`UserPage` has it as `ServerRefuses`, because a page cannot know). `Fail` is a
second transaction that is rolled back; a request that fails in its first one
changes nothing and is no step.

`Restart` is a restart of the database, by which requests may lose their connection.
InnoDB from 8.0 on keeps AUTO_INCREMENT over it (`CounterKept`); up to 5.7 the counter
starts again after the greatest id in the table (`UsedAfterReset`), so that the ids of
the newest users, if they were deleted, are handed out a second time. The repository
does not say which version it is for. `ImplementsUserStore` and `NewUserHasNoRole` need the
counter to be kept: with `CounterKept = FALSE` both fail, the second by deleting the
newest user, restarting and adding one, who then has the role row left behind. The
run's mutant `UsedAfterRestartReset` is that database.

* `ImplementsUserStore`: an update never brings back a user who was deleted between
  its two transactions (the entity is managed, so its UPDATE finds no row), and a
  deletion that lost a race to another one is rolled back as a whole.
* `TwoRolesOnlyByRace`: `saveOrUpdateRole` looks a role row up and inserts it in two
  transactions, and `base_user_role` has no unique key on the user, so two requests
  may insert two rows, against the `@OneToOne` of `UserPo`. This happens in no other
  way.
* `BrokenIsStuck`: why that matters. Every load of that user fails from then on, so
  that no operation changes or deletes the user or removes a row, unless it had
  read the user before.
* `NewUserHasNoRole`: a deletion leaves role rows behind, and an assignment may
  insert one for a user who is gone; no new user inherits it, because ids are not
  handed out again, on a database that keeps the counter.

## 6. ResultMapCache: the result maps of MyBatis

`AutoResultMap` intercepts each query. If the first result map of the statement
has no mappings it is filled with four writes by reflection, either from the
class of its rows or from another map of that class found in a cache.

| variable | code |
|---|---|
| `written` | the references that were written to each of the four fields of each `ResultMap`: to a list that some thread built, or to the empty one |
| `cached` | `CACHED_RESULT_MAP` |
| `known`, `published` | the Java memory model: the facts (a field was written, a list has its contents) that happen before what a thread does next, and before an entry of the cache |
| `call` | per thread: the step it is at, the maps and field it works on |

`Query` is lines 44-50, `CheckCache` 51, `GetCached` 52, `CopyField` 53-56, one field
each, `BuildField` 98-101, likewise, `PutCached` 60, `Proceed` 65; `BuildThrows` is line 94,
where a property without a type handler ends the statement before anything is written.

What a thread reads in a field (`Values`) is any reference that was ever written to it,
and the empty list of the beginning unless the thread knows of a write. Whether it
finds mappings there (`Finds`) it is sure of only if it knows the contents of
every list it may be referred to: the list another thread built and stored by a racy
write may still look empty although the reference is seen. The accesses to the
`ConcurrentHashMap` that find an entry (`Acquire`) make known what its writer knew
(`Put`). So the racy reads of the code are choices over what the memory model
permits. A list is named by its thread and class (`Lists`): a thread that has built for a
class finds the class in the cache from then on.

Left out: result maps with mappings of their own and primitive classes, which the
plugin leaves alone, and classes without a setter, for which nothing is ever
written and every query builds again.

* `CacheComplete`, `NeverUndone`: threads that check, get and put in any order copy only
  complete maps, see that they are, and never write an empty list over one that
  was built.
* `OwnIsComplete`: a query that built or copied the mappings maps its rows with all of
  them, if one thread only ever built for that class (`OneBuilder`). If two did at the
  same time, a field of one's own map may refer to the other one's list, whose
  contents one need not see; then even the query that filled the map may miss
  mappings.
* `HalfFilledIsFinished`: whoever began to fill a map finishes. Fairness: `WF` of the
  steps of each thread's call; they are plain statements that wait for nothing. No
  query has to be made.
* `NoHalfMap` fails (section 9): a query on another thread does map rows with half
  a result map.

## 7. Runs

| run | instance | checks |
|---|---|---|
| `private` | two threads with their own ids, two ids, two data sources, failing closes, timeouts | `ConnInv`, `EndInv`, `EndReleases`, `Isolation`, `ImplementsDistTransaction` |
| `turns` | two threads that use two ids in turns, nesting, a misconfigured data source, ids deleted and handed out again, up to two connections per data source, the operations over all ids | `KeptOpen`, `BulkInv`, `NoOrphan`, `OneOpenPerPool`, `BulkReleases`, `NoStaleConnection` |
| `shared` | two threads on two ids in any interleaving, hashes that repeat, two data sources, failing closes | `TypeOK`, `ConnectionPlaced` |
| `template` | twelve statements, every list of up to two parameters, two executions | `TypeOK`, `BoundAsWritten`, `ListKept`, `CallsReturn` |
| `page` | two users, two rows per page, a search that finds everybody and one that finds nobody, two renderings, two table requests and one other request in flight | `TypeOK`, `ScreenIsCache`, `AskedIsSent` |
| `live` | one user, three renderings and three table requests, one other request | `TableSettles`, `DeletedLeavesTable` |
| `admin` | three requests, two users, three role rows, restarts of a database that keeps its counter | `TypeOK`, `TwoRolesOnlyByRace`, `BrokenIsStuck`, `NewUserHasNoRole`, `ImplementsUserStore` |
| `maps` | two threads, two result maps of one class | `TypeOK`, `CacheComplete`, `OwnIsComplete`, `NeverUndone`, `HalfFilledIsFinished` |
| `v_npe`, `v_optional`, `v_required`, `v_maps` | an instance that shows the finding | one property each (section 9) |

Bounds, and why they are enough to see what the properties are about:

* Threads: 2. Every race of the helper is between a step of one thread and the
  check of another; a third thread can only repeat what the second did.
* Ids: 2, so that one id can be left alone while the other is worked on, and each
  can be deleted and handed out again.
* Data sources: 2, so that closing can fail between two connections and a second
  entry is put next to a first one; in `turns` the second one is misconfigured. In
  `shared` transactions are made with one of the two, and calls ask for either.
* `MaxConns` bounds how many connections one id and data source ever opens: 2 in
  `turns`, so that a second is opened after the first was closed. When it is
  exhausted, `getConnection` returns null, as it does for an exhausted pool.
* `MaxDepth` (2) bounds nested transactions of a thread.
* `PoolSize` (2) is larger than the default (1), so that two open connections of a
  pool could be seen; the default would hide them.
* Statements: each shape the string operations tell apart at least once, with
  repetition, two orders, one line and two; lists: every list of no, one or two
  parameters over the two directions, required or not, and three values;
  `MaxRuns` (2) lets a list be passed again after a call changed it.

* `UserPage`: two users make "the other row" and a full page; two renderings make
  an answer of the old one arrive under the new one; `MaxPulls` (2) lets answers
  overtake each other; one slot for other requests, because what a second one
  could add - a change of the store at any time - administrators elsewhere do
  anyway. `live` trades rows for a third rendering and request. The proofs are
  for any of these numbers.
* `UserAdmin`: three requests, so that two can race and a third see the result; two
  users, so that a deleted one can be the newest; three role rows, one more than a
  race needs.
* `ResultMapCache`: two threads contend, the second map of a class is what is copied
  to. Maps of different classes share nothing but the cache's entries, which are
  per class. The proofs are for any numbers.

Threads, ids and, where they are only given together, data sources are symmetric
(`Symmetric`, `AllSymmetric`); no run with symmetry checks liveness. No run turns
off deadlock checking.

For each property of a passing run `PROJECT.json` names a mutant: a definition
of the model with a plausible mistake (they are marked "WRONG variant" or
"Mutant" and stand before the definition they replace) under which the property
fails.

## 8. Proofs

`DistDB_proofs` proves, for any sets of threads, ids and data sources and any
bounds:

* `Typing`: `TypeOK` is invariant, with or without shared ids and collisions. One
  lemma per group of actions (`NewType`, `BeginType`, `EndType`, `CloseType`,
  `GetType`, `DeleteType`, `BulkType`, `TimeoutType`). The type of `call` is a
  dependent one: which locals are set depends on the step the call is at.
* `ConnInvHolds`: `ConnInv` is invariant under the assumption
  `PrivateUse == ~SharedIds /\ ~Collisions`.
* `NoConnectionLost` (`NoOrphan`), `OnePerPool` (`OneOpenPerPool`) and `IdsIsolated`
  (`Isolation`) follow from it.

`NoOrphan` alone is not inductive: `getConnection` tests `connCache` in one step
and acts on the answer in a later one, and `closeConnection` closes in one step
and drops the map in a later one. `ConnInv` adds why the answer is still true.
`OwnIds`: an id belongs to at most one thread, the one that knows it or is in a
call on it. `SeenStillSo`: what a call has seen in `connCache` is so until it acts.
`CacheKeyed`: entries are under their keys. The proof follows that argument:
`OwnStep` says how a step changes the ids a thread owns (it takes a new one,
gives one up or keeps them), `OwnIdsKept` that ownership stays exclusive,
`OnlyOwnTouched` that a step changes entries of its own ids only, `OthersStillSo`
that therefore nobody's view changes but the own one, and `OwnStillSo` what the
step does to that.

`DistDB_private_proofs` goes on from there, for the same callers:

* `EndInvHolds`: `EndInv` is invariant. It says why the end of a transaction finds
  all there is to release: whatever is cached for an id in use was opened from data
  sources that are still in `dsCache`; when `closeConnection` comes to `dsCache`,
  `connCache` is empty for the id; a thread has one transaction at most unless
  the transaction manager nests.
* `EndingReleases` (`EndReleases`), with the hypothesis `~Subtransactions`: a commit
  that leaves an outer transaction of the thread in progress returns without
  closing anything, by design.
* `Implementation` (`ImplementsDistTransaction`): one lemma per group of actions maps
  each step to one of `DistTransaction` or to a stutter. `PhaseIs` and `BarAt`
  say how the mapping looks at an id that a step touches, and `OnlyOwnTouched`
  that the abstract state of every other id stays.

`DistDB_shared_proofs` proves what holds for callers that do share:

* `PlacedAlways` (`ConnectionPlaced`), with no hypothesis at all: not on callers, nor
  on ids that collide, closes that fail or transactions that nest.
* `KeptOpenHolds` and `NothingStale` (`NoStaleConnection`), for callers that keep ids
  to themselves or take turns, on any number of threads. Both imply that no two
  calls are on one id at a time (`ExclusiveCalls`), which is what the proof uses. The
  hypothesis `~CloseFaults` is needed: a `close()` that throws half-way leaves
  connections in the cache that are closed.
* `BulkInvHolds`, `BulkReleasesAll` (`BulkReleases`) and `NothingLostInTurns` (`NoOrphan` and
  `OneOpenPerPool`), for callers that take turns: any number of threads, each
  passing any id that was ever handed out, whoever made it, also after it was
  deleted. `TurnsKept` says that taking turns at the start of a call is enough to
  keep calls apart at every step (`ExclusiveCalls`, and `BulkAlone`: an operation over
  all ids runs alone), `OnlyCalledTouched` that a step changes what is kept for the
  ids of its own call only, `BulkUndisturbed` that nobody steps in while a bulk
  operation goes through its ids; the inductive invariant is `TurnsConnInv`. With
  calls that overlap none of this holds: ids appear and are used between the
  loops of a bulk operation, and two calls on one id overwrite each other's entry.

The hypotheses describe instances that exist: `private` and `turns` satisfy them and
reach the states in question. What two threads do to each other on one id
without them is in `shared`.

`SqlTemplate_proofs` proves, for statements, lines and lists of every length and
any number of calls:

* `Typing` (`TypeOK`, with the fact that a call that was begun still has an
  execution left to count).
* `ListSurvives` (`ListKept`), from `ListInv`: during a call each parameter that was
  passed is still in the list, or all those of its name were taken out because
  the text of the query named it; the list holds nothing else; and the lines
  have the references that the statement has.
* `BoundRight` (`BoundAsWritten`, so only where `RequiredGiven`), from `ConvInv`: there is a position `n` in the text
  that `convertSql` began with (`Base`) such that up to `n` every reference was
  found in the list and replaced, after `n` the text is as it was, and `bound` names
  the references up to `n`. At the end no delimiter is left, so `bound` names all
  of them. That `Base` has the references of `Written` is `KeptIsWritten`: the two
  disagree on a line only if it refers to a parameter without a value that is not
  in the list any more, and then the conversion has thrown.
* `LoopProgress`: each iteration of `convertSql` that is not the last takes one
  delimiter off the text and puts in none. This is the argument for `CallsReturn`
  without its fairness.

`SqlTemplate_lemmas` holds what these rest on: what `Pick` and `FlattenSeq` contain and
preserve, for every sequence. Both are recursive functions. The induction
theorems of the library take an operator as a parameter, which the provers cannot
instantiate, so each induction is one over a *set* of numbers: `SetInduction`, which
follows from the well-foundedness of `<`, says that a set which contains 0 and
is closed under successor contains the naturals, and is used with the set of
the lengths for which the fact holds. `Iteration` gives the existence of a recursive
function, from which `PickSteps` and `FlatSteps` get the equations of the two. The
model uses `Pick` in place of `SelectSeq` because the prover has no definition of
the latter.

`UserPage_proofs` proves, for any users, page length, number of renderings and of
requests in flight, `Typing`, `ScreenAgrees` (`ScreenIsCache`) and `SentAsAsked`
(`AskedIsSent`). The inductive invariant is `TypeOK /\ ScreenInv /\ FormsInv /\
AskedIsSent`. `ScreenIsCache` alone is not inductive: an
answer is drawn on the screen only if its rendering is the newest, so `ScreenInv`
adds that neither the cache nor a request in flight is of a rendering later than
that; that a body with rows has told its key to the cache (without it
`syncCheckAll` finds nothing ticked); and that a fixed column that was removed has no
buttons. `FormsInv` carries what
was pointed at from the opening of a dialog to the request: the ids a question
remembers, or the hidden field, are the rows asked for if the table was settled.

`UserAdmin_proofs` proves, for any number of requests, users and rows, `Typing`,
`OnlyByRace` (`TwoRolesOnlyByRace`), `Stuck` (`BrokenIsStuck`), `NoRoleInherited`
(`NewUserHasNoRole`), `Implements` and, as a consequence of the latter,
`DeletedForGood` (a deleted user stays deleted and his id is not used again), from
`TypeOK /\ UsedBefore /\ RowStillThere /\ RacedNoted /\ TwoRolesOnlyByRace`:
every id in `base_user`, in a role row or in an assignment has been handed out; a row that an
assignment read is still there and still that user's, since no row is deleted or
moved; and if two assignments hold "no row" for one user, or one does and there is
a row by now, then `raced` says so. Cardinalities are handled by `AtMostOne`: a
user is not broken exactly when any two of its rows are equal.

`Stuck`, `NoRoleInherited`, `Implements` and `DeletedForGood` have the hypothesis
`CounterKept`. `Typing` and `OnlyByRace` do without.

`ResultMapCache_proofs` proves, for any threads, maps and classes, `Typing`, `Complete`
(`CacheComplete`), `OwnComplete` (`OwnIsComplete`) and `Undone` (`NeverUndone`), from
`TypeOK /\ SeenIsWritten /\ RightLists /\ EntryIsPublished` and a `CallInv` per thread: what is known or published was written; a field refers to lists of its
own class only, never to the empty one (which is `NeverUndone`); the cache's entry publishes every field of the map it names and the
contents of a list that some thread built (`Covers`); and each thread knows of the
fields before the one it is at. A thread that copies therefore knows every field of
the map it copies from to be written, so the branch in which it would copy the
empty list is never taken. `AllSure` is the point of `OwnComplete`: if there is only one
builder, the contents the thread knows are those of every list it may find.

Only model-checked: `CallsReturn`, `TableSettles`, `DeletedLeavesTable` and
`HalfFilledIsFinished`. They are liveness properties under weak fairness, and the
prover has neither fairness nor ENABLED. `LoopProgress` is the part of the first that
needs neither.

## 9. Where the code and its comments disagree

* `v_npe`: a commit of a transaction that never asked for a connection is carried
  out and then reported as a `NullPointerException` (`closeConnection` iterates a
  map that is null), and its data sources stay cached.
* `v_optional`: leaving out two optional parameters of one line ends in a
  `NullPointerException` where the comment says the line is deleted. (Another way
  the same property fails: a query whose only references were on deleted lines
  binds the whole list to a statement without placeholders.)
* `v_required`: a required parameter whose value is blank has its line deleted, and
  the statement runs without it (a condition less in a WHERE clause, for example),
  where the comments speak of optional parameters only: in the condition of line 292
  `&&` binds tighter than `||`.
* `v_maps`: a query that runs on another thread between the first and the last of
  the four writes takes the result map for complete (line 48 looks at the first
  field only) and maps its rows with half of it.

Met on the way, but not contradicting what the code says: the branch of
`commitTransaction` for "a transaction that no longer exists" looks at the calling
thread's transaction; `commitAllTransaction` acts on that thread's transaction
only; an OUT parameter that was passed with a value keeps it; the delete button
works on rows that a search has taken off the screen, and two assignments may
give a user two role rows (section 5).

## 10. What is not modelled

* When a single call of `SQLEngine` closes a connection outside any transaction: each
  path is one call of one thread, decided by its arguments and by where it throws;
  no order of steps matters.
* Session routing: the route is a `ThreadLocal` that each reader sets right before it
  reads it, and the template keeps the factory in a local; nothing can come in
  between.
* `Pagination` and the dialects: stateless; that its `switch` falls through to the
  Oracle form a unit test shows.
* `DateUtil`: its race is inside library objects (a `HashMap` and `SimpleDateFormat`
  objects that threads share). `JsonMapper`: configured once.
* Start-up and Spring configuration, login and pages (the framework's behaviour),
  stateless conversions and data holders, cipher code, jobs (no subclass exists),
  the parts of layui that the user page does not drive, logging.
* In the modelled parts: the contents of SQL text beyond delimiters, the
  conversion of values to their declared types (it succeeds or fails freely),
  passwords, and crashes of the process (nothing is persisted but by the
  database, and a request that a crash cuts off is one that fails: `Fail`,
  `ServerFails`; restarts of the database are in `UserAdmin`).
* What holds of calls for one id that overlap, beyond `TypeOK` and `ConnectionPlaced`: such
  callers do lose connections and get closed ones, and nothing in the code says
  they may not call.

## 11. How to run

In this directory:

    tlc -workers 2 -config MCDistDB_private.cfg MCDistDB
    tlc -workers 2 -config MCSqlTemplate_template.cfg MCSqlTemplate
    tlc -workers 2 -config MCUserPage_page.cfg MCUserPage
    tlc -workers 2 -config MCUserAdmin_admin.cfg MCUserAdmin
    tlc -workers 2 -config MCResultMapCache_maps.cfg MCResultMapCache
    tlapm DistDB_proofs.tla
    tlapm DistDB_private_proofs.tla
    tlapm DistDB_shared_proofs.tla
    tlapm SqlTemplate_lemmas.tla
    tlapm SqlTemplate_proofs.tla
    tlapm UserPage_proofs.tla
    tlapm UserAdmin_proofs.tla
    tlapm ResultMapCache_proofs.tla

The longest runs, `private` and `turns`, take about two minutes each; the proofs a few minutes each.
