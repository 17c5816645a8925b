# A TLA+ model of the server

This directory verifies the server's own logic: what happens when its requests
run at the same time, wait for each other's row locks, lose races, fail halfway
or are retried. Three components are modelled statement by statement, checked with
TLC on small instances and proved about with TLAPS for every size: the sign-in
sessions (`Sessions`), accounts (`Accounts`) and the product catalogue (`Products`).
Two more are modelled from the other side: what any request goes through in its
process, from the pool to the answer (`RequestPath`), and what a client learns from
a listing that changes under it (`ProductListing`).

Paths are relative to the repository; `PROJECT.json` maps each definition to the
lines it stands for.

## The system

A FastAPI application (`src/app/main.py`) run by uvicorn workers against one
PostgreSQL database at READ COMMITTED. Every request gets one `AsyncSession`
(`src/app/db/session.py`), a coroutine that other requests interleave with at
each `await`, and at most one open transaction. The workers share no memory that
matters: across processes the database, with its row locks and unique indexes, is
the only meeting point. Within a process, requests also share the pool of
connections and two slots for password work. No request calls another one.

| Component | State | Operations | What is hard | What makes it correct |
|---|---|---|---|---|
| Sessions (`modules/auth`) | `refresh_tokens`; the user's `password_hash` and `is_active`; access tokens in the hands of clients | login, refresh, logout, logout-all, the bearer check | concurrent rotation and replay of one token; revoking rows another transaction is about to add; a password verified outside any transaction | one live token per family; a revoked family stays dead; no session outlives the password it was opened with; no deadlock |
| Users (`modules/users`) | `users` | change password, update profile, read | the same, from the other side | hash and revocations change together |
| Accounts (`modules/auth`, `cli.py`) | `users.email` | register, `create-admin` | two prechecks and a pause for hashing before the insert | one account per address, in lower case |
| Catalogue (`modules/products`) | `products` | create, patch, delete, get | unique SKU against racing and rolled-back inserts; patch against delete; columns the unit of work thinks unchanged | a SKU names one product for ever; no lost update; nothing after a delete |
| Listing (`modules/products`, `core/responses.py`) | reads `products` | list | count and page are two snapshots; order, offset, `total_pages` | pages partition the listing when nothing changes, and err only by what changed |
| Password work (`core/security.py`) | a semaphore per event loop | hash, verify in threads | requests that queue for a slot while they hold a connection | at most two threads hash |
| Database plumbing (`db/`) | engine, pool, transactions, `created_at`/`updated_at` | open and close sessions, name a violated constraint | pool exhaustion; `now()` is the transaction's start; cyclic exception graphs | no session is left open |
| Request pipeline (`core/errors.py`, `core/*middleware.py`, `core/logging.py`) | trace id, context variables, "response started" | answer every exception once | failures after the response began; context shared by tasks | one answer per request, with its own trace id |
| Configuration, health, migrations and containers, documentation scripts | environment, schema | start, migrate, probe | start order | see *Not modelled* |

### What can go wrong

`PROJECT.json` lists the hazards one by one at their lines. The recurring kind is
*state read before a wait and used after it*: a captured password hash, the owner
and family of a token, a loaded row, a precheck. The code's answers are a second
look under a row lock (`with_for_update` with `populate_existing`), one lock order
(the owner's row before any token row), and unique constraints whose violation is
translated into the precheck's error.

## The models

| Module | What it is |
|---|---|
| `Sessions` | login, refresh, logout, logout-all and change-password, one action per statement |
| `SessionsAbs` | what sessions promise: the same operations, atomic, without locks or clock |
| `SessionsProperties` | the properties, the refinement mapping, the inductive invariant |
| `SessionsProofs`, `SessionsHistoryProofs` | the TLAPS proofs: the invariant `IInv` and what follows; the stronger `HInv`, the remaining properties and the refinement |
| `Products`, `ProductsAbs`, `ProductsProperties`, `ProductsProofs` | the same four for the catalogue |
| `Accounts`, `AccountsAbs`, `AccountsProperties`, `AccountsProofs` | and for registration, the `create-admin` command and the profile update |
| `RequestPath`, `RequestPathProperties`, `RequestPathProofs` | a request in its process: connection, hashing slot, row lock, and the layers an exception or a result passes on its way out |
| `ConstraintName` | `get_constraint_name`, one round of its loop, and what it should find; part of `RequestPath` |
| `ProductListing`, `ProductListingProperties`, `ProductListingProofs` | GET /products page after page, while the catalogue changes |
| `LikePattern`, `LikePatternProofs` | escaping, ILIKE, and what a search is for; part of `ProductListing` |
| `MC*` and their `.cfg` files | the instances TLC checks |

`Sessions` covers two components because they meet in one row: change-password
(`src/app/modules/users/service.py`) is only interesting against a login that
verified the old hash. `Accounts` has the other writers of `users`: they meet in
the unique index on the address, and with an operator's deactivation in the row.
`RequestPath` is the layer below all of these: it forgets what statements do and
keeps what they wait for, so that password work, pool, health endpoints and error
handling are one module; they are only interesting against each other.
The modules are not composed with each other: what one of them needs of another
is an action of its environment (`SetActive`, `SignIn`, `Write`).

### How the code becomes state and actions

* **A request** is an element of `Req` and used once. `pc[r]` is the statement it
  is about to run, `req[r]` what it carries and what it captured from early reads,
  `answer[r]` what it answered. An arrival is one action up to the first statement
  that can wait; then there is one action per locking, writing or committing
  statement, in the code's order, with its early returns.
* **Names.** The row a request inserts, the family a login opens and the salt of
  a hash are named after the request. UUIDs, 256-bit tokens and salts are fresh in
  the code by randomness and here by construction; a collision is not modelled.
* **Transactions.** `users`, `tokens`, `accounts` and `products` hold committed rows only. What
  a transaction has written is a function of the request's local state (`NewRow`,
  `RevokedRow`) and becomes visible in `Commit`, in one step, as PostgreSQL does.
  `Rollback` drops it. Row locks (`userLock`, `tokenLock`, `rowLock`) and an
  uncommitted entry of a unique index (`skuLock`, `mailLock`) are held to the end of the
  transaction.
* **READ COMMITTED.** A plain SELECT reads the committed rows. `SELECT ... FOR
  UPDATE` waits for the lock and re-evaluates its condition on the last version. An
  `UPDATE ... WHERE` is two actions: `BeginUpdate` fixes the candidate rows from
  its snapshot, `ApplyUpdate` waits for their locks and drops rows that no longer
  match; a row committed in between is missed. This is the window the owner's
  lock closes.
* **Password work** runs between transactions, against captured values, and its
  outcome is fixed by them, so it is decided with the capture; the race with
  whatever commits during the hashing is the race with whatever commits before
  the next lock. A hash is a pair of plaintext and salt: `==` on two hashes of one
  password is false, and the code relies on it.
* **Time.** `clock` is the service's `datetime.now(UTC)` or the database's `now()`.
  `now[r]` is read where the code reads it: before the lock in logout-all, after it
  elsewhere. In `Products`, `req[r].began` is the start of the transaction, that is,
  the bearer check's SELECT in the same session, because PostgreSQL's `now()` is
  the transaction's start time.
* **Waits.** In `RequestPath` a handler is the list of waits its code comes to
  (`Script`): a statement that needs the connection, one that may wait for a row or
  an index entry, the end of a transaction, password work. The bearer check is the
  first read. The connection is taken at the first statement of a transaction and
  given back at its end, as SQLAlchemy does. `REFRESH` has the waits of any other update
  (`UPDATE`: a PATCH or DELETE of a product, a profile update, a logout) and is an
  operation of its own because it alone raises an AppError after its commit: reuse
  detection commits the revocation and then refuses. `place[r]` is the layer: `run` in the
  handler, `fail` an exception that has not met a rollback, `search` in
  `get_constraint_name`, `raise` at the handlers and the middleware, `sent` a result
  that is answered while the session is still open. The order of the last steps is
  FastAPI's: for a result first the response, then the exit of `get_session`; for
  an exception first the exit, then the handler. One row (or index entry) stands
  for all that are contended.
* **Listings.** A page is two actions, `Count` and `Select`, each reading the
  committed table; `Write` is any commit of the catalogue. `Orders` is the set of row
  orders that ORDER BY permits: one, as long as it ends in the primary key. The sort
  columns are one integer, SKU and name are sequences of characters. `ILike` goes through
  the pattern from its end: `m[i]` is the set of positions of the text from which the rest
  of the pattern matches.
* **Failures.** `Abort` ends a running request at any statement: a database error or a
  dead worker. (No IntegrityError is among them: the migration gives `users` no constraint
  but its key and the unique address, so `register` has no other one to translate.)
  An answer the client never receives needs no
  action of its own: the retry is another request with the same token.
* **Addresses.** `Spellings` are e-mail addresses as typed and `Lower` what
  `strip().lower()` makes of them; `Address(r)` is applied by register and by the
  command alike. In `Accounts` the pause for hashing is the gap between two actions.
* **Environment.** `SetActive` is an operator's SQL (the repository's tests do
  this; no endpoint does). `SignIn`/`SignedIn` in `Products` stand for the
  transactions of `Sessions` that lock a users row, which the foreign key
  `created_by_id` waits for.
* **Data.** A product's updatable columns are a function from `Columns` to `Values`;
  the SKU is already trimmed and upper-cased by the schema. `Dirty` is SQLAlchemy's
  unit of work: it writes a column only if the value differs from the loaded one.

In `RequestPath` a failure is more particular: a request may be refused before its
first statement (`Refuse`), any wait on a live connection may raise the exceptions that
its code can raise (`Fail`, `Raises`), a COMMIT may take effect and still raise, and the
pool may time out; these are `Mishap(r)`. `DatabaseRestart` kills the open
connections, which nobody notices before the next statement (`FailDead`), rollback or
close, and may leave dead ones in the pool (there is no pre-ping).

### Bounds

`MaxRestarts` bounds the restarts of the database and `MaxWrites` the commits during
a walk; `MaxPage` is the code's page cap, reached in the instance. `PoolSize` and
`HashSlots` are the code's 15 and 2. `MaxClock` bounds the clock. `Req`, and the sets of users, SKUs, passwords, columns
and values, are the size of an instance. `Ops` selects the operations an instance
offers, so that a run spends its requests on the question it asks. The proofs
assume nothing of these but the named assumptions of each module (in most
`ConstantsAssumption` and `NoneAssumption`; `ListingAssumption` for listings: finitely many
rows, a positive page cap, and SKUs, names and terms that are sequences of characters), and
`AbsNoneAssumption` for the catalogue's refinement.

## The runs

| Run | Instance | What it shows |
|---|---|---|
| `rotation` | 5 requests, 1 user; login, refresh, logout, failures | `OneLivePerFamily`, `RotationPath`, `RotatedOnce`, `AnsweredRevocationHolds`, `EndedForGood`, `NoHoldAndWait`, types |
| `password` | 4 requests, 2 users, 2 passwords; login, refresh, logout-all, change-password, deactivation | `NoSessionSurvives`; the service implements `SessionsAbs` |
| `expiry` | 4 requests, 2 passwords, clock to 3, refresh tokens of 2 ticks | `SlidingExpiry`, `AccessSupplyStops`, `LiveSessionsMatchPassword` |
| `liveness` | 3 requests, every operation, failures | `EveryRequestAnswered` |
| `bearer` | 3 requests, deactivation | a violation: see *Disagreements* |
| `catalogue_create` | 4 requests, 2 SKUs; create, delete, failures, sign-ins | `SkuUnique`, `RefusedSkuIsTaken` |
| `catalogue_write` | 4 requests, 1 SKU, 2 columns of 2 values; create, patch, delete, get | `DeletedOnce`, `NothingAfterDeletion`, `UpdateTakesEffect`, types; the service implements `ProductsAbs` |
| `catalogue_liveness` | 3 requests, failures, sign-ins | `EveryRequestAnswered` |
| `accounts` | 3 requests, 2 spellings of one address, 2 names; register, `create-admin`, profile update, deactivation, failures | `AddressUnique`, `RefusedAddressIsTaken`, `ProfileTakesEffect`, `EveryRequestAnswered`, types; the operations implement `AccountsAbs` |
| `updated_at` | 3 requests, clock to 1 | a violation: see *Disagreements* |
| `requests` | 3 requests (one of any kind, an update, a password change), 2 connections, 1 hashing slot, 1 restart, cyclic exceptions with each possible name | `WaitersHoldNothing`, `NothingKept`, `AnsweredOnce`, `AnswersTellTheOutcome`, `ConflictIsNamed`, `EveryRequestAnswered`, types |
| `listing` | 4 products, 3 row values, 2 search terms or none, both orders, page sizes 1 and 2, page cap 3, 2 commits | `TotalFitsPage`, `PagesAnnounced`, `QuietWalkIsComplete`, `NoRepeatWithoutEntry`, `NoSkipWithoutLeave`, types; the escaping against substring search for all texts of up to 3 characters and terms of up to 2 (`EscapingAssumption`) |

Why the bounds are enough to be interesting: rotation needs a login, a rotation,
a concurrent second use of the same token, a logout, and one request more to meet
the result; a bulk revocation needs a session, a second way into the account
under way and the revocation; a lost update needs a creation, two patches of
different columns and a deletion; a race for an address needs two registrations
and a third whose outcome depends on theirs; a full pool needs a request that waits
for a row with a connection in its hands, the holder of the row, and one that finds
no connection; a page boundary needs more products than fit a page, and an anomaly a
commit before it. Each property has a mutant in `PROJECT.json`, a
plausible bug of the code (a SELECT without FOR UPDATE, the owner's lock skipped,
a partial unique index, `exclude_unset` forgotten, ...), that makes TLC report the
property violated in the same instance: no property holds for lack of a behaviour.

Symmetry is used where the values are interchangeable (requests always; users and
SKUs where the configuration does not single one out) and never in a liveness run.
Deadlock is checked everywhere: `Terminated` is the only way to stop.

What `listing` shows is the exact promise of OFFSET pagination. A repetition needs a
product that came in or moved, an omission one that left or moved, and a page and its
total differ by no more products than were committed between the two statements. One
case is not covered by "left or moved": a commit between the COUNT and the SELECT of
what the COUNT says is the last page can push a product beyond it, which a client that
believes `total_pages` never sees. `NoSkipWithoutLeave` therefore asks for a last page
without such a commit (`since = 0`); TLC shows the omission when the conjunct is dropped.

### Fairness

`Sessions!FairSpec` and `Accounts!FairSpec` are weak fairness of `Advance(r)` for each request: the event
loop resumes a coroutine whose statement can run, and PostgreSQL runs it. Nothing
obliges clients to send requests, or anything to fail. With finitely many
requests a lock that is free is eventually free for good, so weak fairness is
enough.

So it is in `RequestPath!FairSpec`, whose `Advance(r)` holds only what a request is
owed: a statement whose lock is free is run, a thread ends, an exception is passed on, and
a statement on a connection that has died raises. An error on a live connection, a
refusal, a pool timeout and a restart (`Mishap`, `DatabaseRestart`) are owed to nobody;
in particular nothing ends the wait for a row, since no `lock_timeout` is set. A lock
or a connection that is not given back therefore shows as a request that is never
answered: with the session's rollback left out (`RollbackForgotten`) TLC finds one that
waits for ever behind a request long answered.

In `Products` sign-ins may hold the creator's row again and again; there
`Advance(r)` is strongly fair, because PostgreSQL queues lock waiters and does not
let later ones overtake for ever, and a sign-in that holds the row ends.

## What is proved

The seven `*Proofs` modules prove, for every value of the constants:

| Theorem | Statement |
|---|---|
| `SessionsProofs!Invariance`, `TypeCorrect` | `Spec => []IInv`, `Spec => []TypeOK` |
| `SessionsProofs!SingleLiveToken` | `Spec => []OneLivePerFamily` |
| `SessionsProofs!PasswordEndsSessions` | `Spec => []LiveSessionsMatchPassword` |
| `SessionsHistoryProofs!HistoryInvariance` | `Spec => []HInv` |
| `SessionsHistoryProofs!RotationIsAPath`, `OneSuccessor`, `ExpirySlides` | `RotationPath`, `RotatedOnce`, `SlidingExpiry` |
| `SessionsHistoryProofs!RevocationStays`, `SupplyStops`, `LocksNeverDeadlock` | `AnsweredRevocationHolds`, `AccessSupplyStops`, `NoHoldAndWait` |
| `SessionsHistoryProofs!EndedStays`, `AllSessionsEnd` | the action properties `EndedForGood`, `NoSessionSurvives` |
| `SessionsHistoryProofs!ServiceImplementsAbs` | `Spec => ImplementsAbs` |
| `ProductsProofs!Invariance`, `TypeCorrect` | `Spec => []IInv`, `Spec => []TypeOK` |
| `ProductsProofs!SkuNamesOneProduct`, `RefusalsAreJustified`, `OneDeletion` | `SkuUnique`, `RefusedSkuIsTaken`, `DeletedOnce` |
| `ProductsProofs!UpdatesTakeEffect`, `NothingFollowsDeletion` | the two action properties |
| `ProductsProofs!Refinement` | `Spec => ImplementsAbs` |
| `AccountsProofs!Invariance`, `TypeCorrect` | `Spec => []IInv`, `Spec => []TypeOK` |
| `AccountsProofs!OneAccountPerAddress`, `RefusalsAreJustified`, `UpdatesTakeEffect` | `AddressUnique`, `RefusedAddressIsTaken`, `ProfileTakesEffect` |
| `AccountsProofs!Refinement` | `Spec => ImplementsAbs` |
| `RequestPathProofs!Invariance`, `TypeCorrect` | `Spec => []IInv`, `Spec => []TypeOK` |
| `RequestPathProofs!NoWaitWhileHolding`, `NothingLeaks` | `WaitersHoldNothing`, `NothingKept` |
| `RequestPathProofs!OutcomesAreTold`, `OneResponse` | `AnswersTellTheOutcome`, `AnsweredOnce` |
| `RequestPathProofs!ConflictsAreNamed` | `ConflictIsNamed`, on every exception graph |
| `ProductListingProofs!ListingInvariance`, `ListingTypeCorrect` | `Spec => []LInv`, `Spec => []TypeOK` |
| `ProductListingProofs!TotalAndPageAgree`, `PagesAreAnnounced` | `TotalFitsPage`, `PagesAnnounced` |
| `ProductListingProofs!RepeatNeedsEntry`, `SkipNeedsLeave`, `QuietWalk` | `NoRepeatWithoutEntry`, `NoSkipWithoutLeave`, `QuietWalkIsComplete` |
| `LikePatternProofs!SearchIsExact` | `ILike(text, Pattern(term)) <=> ContainsTerm(text, term)`, for texts and terms of every length |

**Sessions.** Neither `OneLivePerFamily` nor `LiveSessionsMatchPassword` is inductive: a commit decides from what a request
read some steps earlier. `IInv` (in `SessionsProperties`) says what protects that
reading. `OwnerLocked`: from its locking read to its end, a request holds its
user's row. `IdentityOK`: the owner and family read without a lock are still the
token's, since rows keep both. `Rooted`: every row belongs to an answered request
and its family's first row has the same owner. `TargetsOK`: between the two halves
of an UPDATE no row appears that it would miss. `SeenIsCurrent`: a hash checked
under the lock stays the account's. The heart of it is that at most one request
per user is between lock and commit (`Exclusive`), so a commit disturbs no other
request's part of the invariant; the steps that touch only one request's own
state are covered together by one lemma (`LocalStep`).

**The history of sessions.** The other properties speak of how a row came about and of
answers given long ago, which `IInv` forgets. `HInv` adds it, request by request
(`History`). `Inserted` and `Replaced` tie a row to the request that inserted it and to
the one that replaced it; path, single use and expiry are read off them. `RevocationHolds`
and `ChangeHolds` are what an answer said; they survive because a rotation's commit finds
its family alive (so it was not ended), and because `seen` of a session opened
later is another hash: `Used` and `SaltOK` say that salts come from answered password
changes, each its own, so that a hash that was replaced never returns. `Timely` orders the
`now` that are read under the owner's lock. `LocksOK` says that whoever has a
token's row has its owner's row, and has asked for both; a waiter that holds anything
would therefore wait for a row of its own user that somebody else holds, who would hold
the user's row as well. A step of the specification is one of four kinds (`Steps`): a
commit, an operator's statement, the clock, or a step of one request that writes no row
(`Quiet`), and only the first needs work. The refinement adds `Confirmed`, the account
found active is still active: with it a commit is the operation of `SessionsAbs` of the
same name (`AbsLogin`, `AbsRotate`, `AbsCloseOne`, `AbsCloseAll`).

**Products.** `IInv` is one conjunct per request (`ReqOK`): `HoldsSku`, from its
INSERT a creation has the index entry and no row has the SKU; `HoldsRow`, from its
locking SELECT a request's copy is the row; `ShowsRow`, what the response shows is
what the commit writes; `Answered`, what an answer says of the table stays true.
Every other step leaves a request's facts alone unless it commits to the same row
or SKU, which its lock excludes. The action properties and the refinement
(`CommitImplements`: a commit is an operation of `ProductsAbs`, every other step a
stutter) then follow from the invariant before the step.

**Accounts.** The same argument: `HoldsMail` for a new account, `HoldsRow` and
`ShowsRow` for a profile update, `Answered` for a refusal; `Stored` adds that
addresses are kept in lower case, each once. Two steps write a row, a commit and an
operator's statement; both are covered by one lemma (`OthersKeep`), which asks of the
written row only that it is new with an address of its own, or keeps the one it has
(`Fits`).

**Request path.** `IInv` is again one conjunct per request. `Holds`: a request that
hashes has no connection and one on its way out has nothing; it is inductive because
in every script a hash follows a hash or the end of a transaction (`ScriptFacts`).
`Outcome`: a running request has committed exactly if it is a writer past its last
wait, and a committed one that fails carries an exception which becomes a 500 or, in a
refresh and nowhere else, says that the token was reused (`AfterCommit`).
`Searching` is the invariant of the loop in `get_constraint_name` (`SearchOK`): what is
visited or pending is reachable from the raised error, and what has been visited
without finding a name links only to what is visited or pending. When nothing is
pending the visited exceptions are closed under links, so that they are all the
reachable ones (`SearchResult`). Requests meet only in the lock, the pool and the
slots; the invariant needs no more of the others than that they take no lock for one
another (`LocalStep`). That the search ends is checked by TLC.

**Listings.** The argument is by the place of a row in the listing. The rank of a row is
the number of listed rows up to it, itself included; in every order that ORDER BY permits
the n-th row has rank n (`RankOfItem`), because the order is strict and ends in the primary
key. So the SELECT with OFFSET and LIMIT returns the rows of `page_size` consecutive ranks
and no others (`ItemsAre`). A write of one row changes another row's rank by at most one,
upwards only if its row came in or moved and downwards only if it went out or moved.
`LInv` follows the walk: while nothing came in, a shown row's rank is at most that of
the place it was shown at (`ShownBehind`), so that it is never reached again; while nothing
went out, a row that was there from the start has been shown or has a rank beyond the
pages seen (`RestAhead`). `CountOK` bounds what a COUNT is off by, and `TotalPagesAre` says
of `TotalPages`, for every total and page size, where the last page is; with both, a walk that
saw its end has nothing ahead (`EndIsPast`).

**The search.** `SearchIsExact` is an induction over the text of the term. No installed
prover can instantiate an induction theorem with a predicate, but it can be stated of a set:
a set with 0 that has `n + 1` with each `n` contains the natural numbers (`SetInduction`:
if `n` were missing, counting one further would be an injection of the finite part of the
set below `n` into itself that misses 0, which `FS_Injection` excludes). With it, `FlattenLays` says where the pieces of a concatenation lie; `Codes` says of the escaped
term where each of its characters has gone, and that the three special ones, and no
others, have a backslash before them. It is preserved by each `replace`, in the code's
order. `ILikeIs` unrolls the matcher row by row; a character of the term then matches
itself (`MatchRowIs`, `MatchRowPlain`), and another induction, from the last wildcard
backwards, shows that the rows of the matcher are the positions where the rest of the
term stands (`Rest`). Nothing is used of `Lower`: the theorem holds for any folding of case.

**Only model-checked.** Liveness (`EveryRequestAnswered` in four runs), that the search of
`get_constraint_name` ends with it. Every invariant, action property and refinement that a
passing run checks is also a theorem.

## Disagreements

* *Access tokens and the database.* The design document
  (`docs/superpowers/specs/2026-07-23-fastapi-server-design.md:321`) says that
  access tokens are accepted without looking up server state.
  `get_current_user` reads the user on every request and refuses an inactive one
  (`src/app/modules/auth/dependencies.py:29`). Run `bearer`.
* *`updated_at`.* The same document (line 286) calls it the modification time. The
  column is set to `now()` (`src/app/db/base.py:22`), the time at which the
  transaction began, which for a product request is the bearer check. A PATCH that
  waits for another one commits later with the earlier time. Run `updated_at`.

## The plan

What is left, in order of what it adds:

1. That each round of `get_constraint_name` makes progress, as a theorem: the visited
   exceptions grow, and are finitely many.
2. The steps of the liveness argument that are safety: that a running request's next
   statement can run whenever the locks it asks for are free, in every module.

## Not modelled

* Trace ids, CORS, the OpenAPI document and the redaction of log lines: each is a
  function of one request or one log line, with no state between them. An answer in
  `RequestPath` is its error code alone.
* Validation schemas, settings and OpenAPI: pure functions from input to input,
  represented by the sets the actions choose from.
* Token formats, signatures and hashing: a token is the request that was issued
  it, and a bearer check is its expiry and the users row.
* A client that disconnects: the handlers run on; FastAPI does not cancel them.
* The migration and the start order of the containers: one migration on an empty
  schema, and an order that docker compose keeps.
* The documentation and export scripts: tools that run on the repository's files.
* A change of an administrator's role, or deletion of a user: no code does either.
