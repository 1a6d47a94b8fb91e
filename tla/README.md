# A TLA+ model of the BookNest backend

BookNest hands out review copies: authors publish books with a number of
copies, readers apply, authors (or a first-come rule, or a lottery) decide,
readers read and review.  The backend is a NestJS service over PostgreSQL
(TypeORM), with Redis for refresh tokens and cached analytics, S3 for files, FCM
for push messages and one nightly job.  It runs as ordinary request handlers
that interleave at every `await`.  Nothing in it serialises two requests except
PostgreSQL: row locks where a transaction asks for them, atomic single
statements, and unique indexes.

The hard part is therefore not any one handler but what two of them do to the
same row.  Two facts about the environment shape every model here:

* transactions run READ COMMITTED: a plain `findOne` neither waits nor blocks;
* TypeORM's `save(entity)` reads the row again, compares it with the entity and
  updates the columns that differ.  An entity loaded before somebody else's
  commit differs in the columns the other one changed, so saving it *undoes*
  that commit.  We call this a stale save.

## Inventory

| Part | State | Operations | Hard behaviour | What makes it correct |
|------|-------|-----------|----------------|-----------------------|
| Applications (`applications/`) | one row per reader and book: status, respondedAt, copySentAt, reading columns | create, update, bulk update, withdraw, mark sent/received, bulk mark sent, reading status, run lottery | contended copies, stale saves, opposite lock orders, a conflict after a partial transaction | copies are never oversold, approvals are backed by a reservation, answers stand, one draw, requests end |
| Books (`books/`) | one row per book: status, copies, method, deadlines, lotteryRunAt, urls, series; genre rows | create, update, publish, remove, uploads | stale saves over reservations and draws, counting approved applications without a lock, delete-then-validate of genres | copies stay within the total, genres and series are what was asked for |
| Scheduler (`books/services/books-scheduler`) | none of its own | nightly: three updates | the updates interleave with edits and draws | it takes nothing from the promises about copies |
| Files (`books/services/books-file`, `files/`, fingerprints) | S3 objects, urls in rows | upload, replace, remove, marked download, decoding a leaked copy | two stores changed one after the other, failures in between | a row never names an object that is gone; a copy names its reader |
| Lists (`books/helpers/books-query`, `author-follow`, `user-genre-preferences`) | none; follows and preferences are rows | browse, featured, trending, recommended, followed, one book, my applications | several statements per answer, writes in between | listed books could be applied for; pages partition the list; files stay hidden |
| Reports (`books-analytics*`, `users-reader-stats`, cache) | Redis entries with a TTL | author, book and reader reports | statements in any order, joins that multiply rows, stale entries | figures add up; staleness is bounded by the TTL |
| Reviews (`reviews/`) | review rows | create, update, remove, two lists | review and application saved separately; removal rewrites the application | a review exists iff its application says so |
| Sessions (`auth/`, `refresh-token-store`) | Redis: token -> user, user -> set of tokens | register, login, refresh, logout, logout all | read, revoke and issue are separate | sessions come from logins only; logout-all finds all of them |
| Verification codes (`auth/services/verification-code`) | code rows | issue, resend, verify, reset | update-then-insert, check-then-use | at most one valid code, used once |
| Friends, profiles, activity, notifications | rows per ordered pair, per user, per event | request, accept, decline, cancel, end; settings; feed; read, delete | mutual requests, answers to a request read earlier, one rule written twice | one relation per pair; privacy is respected |
| Addresses, users | rows per user | create, update, remove; profile, avatar, deletion | clear-then-save, find-then-save | one primary address; what was achieved stays |
| Push and device tokens, reports of users, mail, Redis, logging, config, controllers, guards, filters, migrations, seeds | none | | | not modelled |

They interact through the database: applications lock and update the book row,
books count applications, reviews write application rows, the scheduler updates
book rows, lists and reports read all of them.  Notifications, mail and the
activity log are called after the commit and feed nothing back.  `PROJECT.json`
lists every hazard we know of at its line.

## Modules

| Module | What it is |
|--------|------------|
| `Applications` | the handlers of `applications.service.ts`, the saves of the book in `books.service.ts`, and the scheduler, over one book |
| `CopyLedger` | what the reservation of copies promises, without requests, locks or rows |
| `Accounts` | users, sessions and verification codes: `auth/`, the profile and the deletion in `users.service.ts` |
| `SessionLedger` | what sessions promise: open tokens, tokens owed, logins |
| `Reviews` | one approved application, its review and the marks of reader and author |
| `Social` | friends, profiles, settings, feeds and notifications |
| `FriendshipRules` | what friendship promises: nobody, one asks, both are friends |
| `Files` | urls and objects of books and avatars, genres and series, downloads |
| `Catalog` | the lists of books, and addresses, over a database that changes |
| `Analytics` | the reports and their cache; EXTENDS `Catalog` |
| `ApplicationsProofs`, `AccountsProofs`, `ReviewsProofs`, `SocialProofs`, `FilesProofs`, `AnalyticsProofs` | theorems about each module; those of `Catalog` are in `AnalyticsProofs` |
| `SequentialProofs` | what `Applications` keeps when requests do not overlap; EXTENDS `ApplicationsProofs` |
| `FiguresProofs` | the figures of reports and the primary addresses; EXTENDS `AnalyticsProofs` |
| `MCApplications`, `MCAccounts`, `MCReviews`, `MCSocial`, `MCFiles`, `MCAnalytics` | the instances TLC checks |

### How `Applications` corresponds to the code

*One book.*  No handler touches two books, so one is modelled.  The unique index
on `(book_id, reader_id)` lets a reader name its application: `app[r]`.
Ids in bulk requests are sets of readers.  `draws` and `granted` are history:
they are written and never read by the handlers.

*Rows.*  `book` has the columns some property depends on; `drawn` stands for
`lotteryRunAt` being set.  `app[r]` has the status and whether `respondedAt` and
`copySentAt` are set.  Messages, notes, who responded and the reading columns
are payload.  Deadlines and the clock are small numbers; `NoDeadline` is a null
review deadline.

*Handlers.*  `req[h]` is what handler `h` is doing: the stage it is interrupted
at, the applications it is about, the entities it loaded (`ent`, `book`) and
what `save` read as the row's old value (`base`, `bookBase`).  Each stage is an
`await` at which another handler's step changes what happens next; awaits
between which nothing observable happens are one step.  A transaction that
holds the locks of everything it reads and writes is one step from the last
lock on.

| Action(s) | Code |
|-----------|------|
| `ApplyCheck`, `ApplyInsert`, `ApplyRefused` | `create`: the unlocked duplicate check; the transaction on the locked book; refusal by the book, or by the unique index with the reservation rolled back |
| `DecideCheck`, `DecideLock`, `DecideTx`, `DecideRefused`, `DecideReload` | `update` with a status: unlocked checks, lock the application, lock the book and answer, then the application is read again (and marked sent) and saved whole |
| `EditMessage`, `Withdraw`, `MarkSent`, `UpdateProgress` | load an application, check its status, change the entity |
| `SelectApp`, `WriteApp` | the two statements of `applicationRepo.save` |
| `BulkSentRead`, `BulkSentWrite` | `bulkMarkCopySent`: read approved applications, update by id |
| `BulkRead`, `BulkWrite`, `BulkRefused` | `bulkUpdateApplicationStatus`: the book is locked, the applications are not |
| `LotteryRead`, `LotteryDraw` | `runLotterySelection`; the draw ends with the save of the entity loaded at its start |
| `EditLoad`, `EditChange`, `Publish`, `SelectBook`, `WriteBook` | `update` of a book (an upload is one with an empty body), `publish`, the two statements of `bookRepo.save` |
| `NightlyOpen`, `NightlyDrawn`, `NightlyReview`, `NightlyFailed` | the nightly job; one reading of the clock for all three updates; a failing one ends the job |
| `AbortVictim` | PostgreSQL breaks a deadlock (not code of this repository) |

*Locks.*  `SELECT .. FOR UPDATE` is derived from the stages: bulk actions and
draws hold the book from their read to their end (`BookLocked`), a decision
holds its application while it waits for the book (`AppsLocked`).  Plain
updates, those of `save` and of the nightly job included, wait for these locks;
plain reads do not.

*Left out on purpose.*  Who may call what: an unauthorised request changes
nothing, so any handler may start any request.  `Eligible` is the set of readers
`validateUserForApplication` and `validateUserAgeForBook` let through.  Push
messages, activity records and mail.

### How the other modules correspond to the code

*Common form.*  `req[h]` is what handler `h` is doing, with the entities it
loaded.  Begin, one action per statement after which others can act, end.  As in
`Applications`, what several handlers may do to each other between two
statements is the point, and a crash or a failing call leaves the handler at
that point with what it has written.

*`save()`.*  `Applications` and `Reviews` split it into its SELECT and its
UPDATE of the columns that differ.  The others merge the two: what they store
does not depend on what changes in between, or no property tells it apart.
In all of them the save of a row that is gone inserts it again, as TypeORM does.

*`Accounts`.*  A refresh token is a JWT over user and second, so a token is
that pair and two logins in one second give the same token.  Redis has the keys
and, per user, the set `listed`; both are changed in separate steps
(`SaveToken`, `RefreshRevoke`, `LogoutAllRead`, ...).  A code row is unused,
used or gone.  Deleting an account takes its codes (cascade) but neither its
tokens nor its objects.  The address each account registers with is
`Email`: in the run both use one address, so one account takes it over when the
other is gone, and the two never hold it at once.

*`Reviews`.*  `disturbed` is history: requests that save the same row
overlapped, or one failed half-way.

*`Social`.*  A friendship is a row from the one who asked; the ways to ask about it
(`getFriendshipStatus`, `areFriends`, the search, the lists) are operators on the
rows.  The order of the list of friends is layout.  Profiles are inserted on
first use.  The log of activities is given, newest first; a feed is a set of
places in it, and `Newest` is `ORDER BY "createdAt" DESC LIMIT`.

*`Files`.*  An object has the owner, the type and the mark its bytes carry. `Drop`,
`Put`, `Load`, `Save` are the upload; each S3 call may fail. The bytes of a file are
what format they really have and the mark they carry; embedding replaces the mark,
and decoding reads what is there.  `asked` is history: the genres of the last
request that went through.

*`Catalog` and `Analytics`.*  `log` is the database after each write and clock
tick.  A statement reads the last entry; the rest is history with which the
properties compare an answer.  `load` picks, in the initial state, the database to
begin with and what is asked, so one run covers several situations that need not be
multiplied with each other.  A list is its statements: the page, the count, the
rows, the reader's applications.  A report is a function from its statements to
their figures, taken in any order (`Promise.all`).  Time is in weeks, ratings in tenths.

## What is checked

| Run | Asks | States |
|-----|------|--------|
| `applications` | Does every mix of applying, answering one by one and in bulk, withdrawing, editing messages and marking copies keep the promise `approved + available <= total` (`NoOverPromise`)?  Do the handlers implement `CopyLedger` (`LedgerSpec`)? | 1 300 000 |
| `decisions` | When readers neither withdraw nor edit: do answers stand (`AnswerIsFinal`), are copies conserved also when an insert fails or a transaction is aborted (`CopiesConserved`), is the lottery drawn once (`LotteryOnce`), does every request end (`RequestsEnd`)? | 79 000 |
| `books` | While the author edits and publishes from stale entities: types (`TypeOK`), no negative stock (`NeverOversold`), approvals only with a reservation (`ApprovedWasGranted`) | 910 000 |
| `accounts` | Do sessions follow `SessionLedger` (`LedgerSpec`), can all be revoked (`SessionsListed`), is a code used once (`CodeUsedOnce`), is one usable at a time (`OneUsableCode`), proves it something (`ProvenByCode`), does a late save take it back (`AccountKeepsProgress`)? | 610 000 |
| `reviews` | One review per application (`OneReview`), in agreement with it (`ReviewRecorded`), marks of others stay (`MarksStay`), word counts fit (`WordCountFits`), lists show what can be opened (`ListedCanBeOpened`) | 618 000 |
| `social` | Do the handlers implement `FriendshipRules` (`FriendshipSpec`), do all views agree (`ViewsAgree`), also the two privacy rules (`PrivacyRulesAgree`); feeds (`FeedRespectsPrivacy`), authors (`AuthorsPublic`), notifications (`NotesSettle`) | 523 000 |
| `files` | Do urls resolve (`UrlsResolve`), is nothing left behind (`NothingLeftBehind`), does a copy name its reader (`CopyNamesReader`), are genres and series sound (`BookLinksSound`)? | 1 087 000 |
| `catalog` | Could listed books be applied for at one moment of the request (`ListedWereOpen`), are pages and totals right (`PagesFaithful`), files hidden (`FilesHidden`), figures consistent (`FiguresAddUp`) and fresh (`ReportsFresh`)? | 544 000 |
| `lottery_stock` | violated: `NoOverPromise` with a draw | |
| `withdraw_race` | violated: `WithdrawOnlyPending` | |
| `lottery_once` | violated: `LotteryOnce` with a concurrent save of the book | |
| `date_range` | violated: `RangeHonoured` | |

Each module's type invariant is checked by one of its runs.  The violated properties
are statements of the repository that the code does not keep:

* **The draw gives the winners' copies out again.**  `runLotterySelection` loads
  the book, reserves copies with an UPDATE, and saves the loaded entity because
  its status was `active`.  The save writes the old `availableCopies` back.  Two
  requests suffice: apply, draw.  The README promises atomic reservation for
  draws; editing the book refuses such a count.
* **An approved application can be withdrawn.**  `withdrawApplication` checks an
  unlocked read and saves later.  If the approval commits in between, the
  application ends as withdrawn although the controller documents "pending
  applications only", and its copy stays reserved.
* **A lottery can be drawn twice.**  `PATCH /books/:id` saves an entity loaded
  before the draw, which resets `lotteryRunAt`; the controller documents "once
  per book".
* **Every date range is thirty days.**  The ranges the DTO accepts
  (`last_7_days`, ..., `all_time`) and those `getDateRange` knows (`7d`, ...,
  `all`) are disjoint, so all fall to the default.

### What the properties assume of clients

Most races here have no guard in the code at all: two refreshes of one token give
two sessions, two verifications of one code both pass, two mutual friend requests
sent at once give two rows.  Nothing in the repository says otherwise, so they
are not findings; and a property that is false says nothing about the rest.
The runs therefore take one of two ways, always visible:

* `Exclusive` names the pairs of request kinds that do not overlap for one
  account or pair of users (`Patient` in the MC modules): a client that waits for
  its own answer.  All other pairs do overlap, and the properties are about these.
  Without a pair of it TLC refutes a property of the run, with three exceptions:
  two saves of settings by one user only cost states, and two requests for a code
  would need a third code row to do harm (`MaxCodes`).
  `{"login", "logoutAll"}` is there because a token saved between the reading of
  the set and its deletion survives without being listed; `{"verify"}` and
  `{"reset"}` because a code is found and marked in two statements;
  `{"send"}` because the unique index is on the ordered pair; `{"accept",
  "cancel"}` because accepting inserts a cancelled request again.
* A history (`disturbed` in `Reviews` and `Files`, `clashed` in `Catalog`) marks the
  rows on which requests overlapped or failed half-way, and the property is about
  the others.  `Files` stops issuing requests once more than `MaxDisturbed` owners
  are marked.  In `Files`, `disturbed` includes an upload that is refused for its
  type or size: the old object is deleted before the check, so a refused upload
  loses the file it was to replace.

`OneReview`, `ListedCanBeOpened`, `CopyNamesReader`, `AuthorsPublic`, `NotesSettle`,
the lists and most figures need no such history.

### Things the code does that no property speaks of

Translated as they are, because they change state or answers:

* `getBooksFromFollowedAuthors` asks its raw rows for `application_bookId` where
  the column comes as `application_book_id` (the unit test mocks the former): the
  books a reader applied to are not dropped (`CutFollowed`).  With no accepting
  book, the query has an empty `IN ()` and fails.
* Browsing on the custom SQL path ignores search, status and author.
* Recommendations beyond the last page fall back to the unfiltered list.
* The rating distribution of an author keys decimals (`4.0`) where 1 to 5 are
  read, so these stay zero; that of a book assigns where it should add when two
  ratings round to one star.  `FiguresAddUp` says what is left: sums never exceed totals,
  and match them when all ratings are whole.
* Percentages built from two statements may exceed 100 if rows are written in between.

### Bounds

Two handlers everywhere, since each property is broken, if at all, by two requests on
one or two rows: the mutants are all caught and the violations are found with
two of each.

* `Applications`: two readers and one or two copies (with a copy left, a repeated
  first-come request fails after its reservation).  Two readers contend for the last
  copy; two copies let a stale save hide one reservation behind another. `MaxTime`
  bounds the clock: with deadline 1, time 1 is before and time 2 after it.  `Edits`
  holds an upload (a pure stale save), a change of the number of copies that also
  moves the deadlines, and a change of method together with the available copies.
  `draws` stops at 2, which is enough to refute "once".
* `Accounts`: two accounts with one address, two codes ever inserted (an old and a
  new one), two logins, a clock of two seconds: tokens and codes of the first second
  have expired in the second one.  One possible code, so that every guess is right
  and codes clash.
* `Reviews`: two reviews ever inserted (one, removed, another one); one viewer
  besides reader and author; bodies that change type and content separately, and an
  empty one.
* `Social`: two users and an author, two requests ever inserted, one notification,
  a feed of length 1 over a log of two.
* `Files`: one book and one user with two objects, one series, one copy, and files
  whose name, type and mark disagree.
* `Catalog`, `Analytics`: three books of two authors, two readers, pages of one
  item, two writes or ticks during an answer, at most one cached key; the databases
  `Busy` and `Early` in `MCAnalytics`.  The clock starts in week 60, beyond every range.

Handlers are symmetric except in the run with a liveness property and in
`catalog`, whose workloads name them.

### Fairness

`FairSpec` of `Applications` asks that a handler which can go on again and again
does so (strong, because a row lock comes and goes; PostgreSQL queues its waiters)
and that a deadlock is broken (weak: the detector runs after a timeout).  Nothing is
assumed about users: `Start`, the nightly job and the clock may never happen.
`RequestsEnd` needs both parts: the code has a real deadlock, since a decision locks
application then book and bulk actions and draws lock book then application.  The
other modules state no liveness: their handlers take no locks and end after a fixed
number of statements.

## What is proved

Every invariant, action property and refinement of a passing run is proved for every
value of the constants; only the liveness property is not.  All proofs are from `Spec`
and the named ASSUMEs of the module, which TLC evaluates on every run.

| Theorem | States | If |
|---------|--------|----|
| *`ApplicationsProofs`* | | |
| `TypeCorrect`, `StockNeverNegative`, `ApprovalsReserved` | `TypeOK`, `NeverOversold`, `ApprovedWasGranted` | |
| `PromiseKept`, `LedgerRefined` | `NoOverPromise`, `LedgerSpec` | no request saves the book |
| `AnswersStand` | `AnswerIsFinal` | `AnswersOnly` |
| `DrawnOnce` | `LotteryOnce` | `NoStaleSaves` |
| `CopiesKept` | `CopiesConserved` | both |
| *`SequentialProofs`* | | |
| `WithdrawnWhilePending` | `WithdrawOnlyPending` | `Alone` |
| `AnswersStandAlone`, `DrawnOnceAlone` | `AnswerIsFinal`, `LotteryOnce` | `Alone` |
| `PromiseKeptAlone` | `NoOverPromise` | `Alone`, no draws |
| *`AccountsProofs`* | | |
| `AccountsTypeCorrect`, `CodesProve` | `AccountsTypeOK`, `ProvenByCode` | |
| `CodeGoodOnce` | `CodeUsedOnce` | verify, reset wait |
| `LastCodeOnly` | `OneUsableCode` | requests for a code wait |
| `LogoutAllReaches` | `SessionsListed` | login, register, refresh wait for logout-all |
| `ProgressStays` | `AccountKeepsProgress` | profile waits for verify |
| `SessionsRefined` | `LedgerSpec` | refresh waits for refresh and the logouts; finitely many handlers |
| *`ReviewsProofs`* | | |
| `ReviewsTypeCorrect`, `ReviewsRecorded`, `WordCountsFit`, `MarksKeptBySaves`, `ListsOpen` | `ReviewsTypeOK`, `ReviewRecorded`, `WordCountFits`, `MarksStay`, `ListedCanBeOpened` | |
| `OneReviewKept` | `OneReview` | create waits; update waits for remove |
| *`SocialProofs`* | | |
| `SocialTypeCorrect`, `AuthorsStayPublic`, `PrivacyDecidedAlike`, `FeedKeepsPrivacy` | `SocialTypeOK`, `AuthorsPublic`, `PrivacyRulesAgree`, `FeedRespectsPrivacy` | |
| `NotificationsSettle` | `NotesSettle` | reading waits for deletion |
| `FriendshipSeenAlike`, `FriendshipRefined` | `ViewsAgree`, `FriendshipSpec` | `Waits` |
| *`FilesProofs`* | | |
| `FilesTypeCorrect`, `CopiesNameReaders`, `BookLinksStaySound`, `SettledUrlsResolve`, `BucketKeepsNothing` | `FilesTypeOK`, `CopyNamesReader`, `BookLinksSound`, `UrlsResolve`, `NothingLeftBehind` | |
| *`AnalyticsProofs`* | | |
| `CatalogTypeCorrect`, `OffersWereOpen`, `FilesStayHidden`, `PagesDivide`, `ServedReportsFresh` | `CatalogTypeOK`, `ListedWereOpen`, `FilesHidden`, `PagesFaithful`, `ReportsFresh` | |
| *`FiguresProofs`* | | |
| `ReportsAddUp` | `FiguresAddUp` | |
| `PrimaryAddressUnique` | a reader outside `clashed` has at most one primary address; no run lists it, `ReportsAddUp` rests on it | |

### Hypotheses

A theorem with a condition in the last column has it as an `ASSUME` of its own; the
others hold for any set of requests.  Each condition but `Alone` is met by the run that
checks the property, and none can be dropped: without it TLC finds a counterexample, except
where "What the properties assume of clients" says otherwise.

* "a waits for b" is `{a, b} \in Exclusive`: no two requests of these kinds are at
  work for one account, pair of users or application.  A theorem asks only for the
  pairs its proof uses, fewer than the run's `Patient`: `CodesProve`, the type
  invariants and the properties about histories need none.  `Waits` is `{send}`, and
  accept against cancel, decline and unfriend.
* `Requests \cap BookSaves = {}`: no draw, no publication, no edit of the book.
  `lottery_stock` is the counterexample without it.
* `AnswersOnly`: readers neither withdraw nor edit messages, and authors only
  approve or reject.  The trace of `withdraw_race` is a counterexample without the
  first; a request with the status `pending`, which the DTO lets through, is one
  without the second: it saves the pending entity over a later answer.
* `NoStaleSaves`: the book is neither edited nor published, so no stale entity of
  it is written back except by a draw, which holds the lock.  `lottery_once` is
  the counterexample without it.
* `Alone`: one handler, next to the nightly job and the clock; any mix of requests,
  decisions and edits.  The runs have two handlers and their violations are the
  counterexamples without it; TLC checks the theorems' invariants with one.  These
  theorems divide the findings: `withdraw_race` and `lottery_once` need an overlap, the
  draw of `lottery_stock` breaks the promise by itself, and no other request does alone.

The ASSUMEs say what values constants have: request kinds that exist, bodies the
DTOs accept, bounds that are numbers, finite sets where the code counts.
`FilesNulls` keeps the null values apart from every key, series, author, genre, row
and object, as model values do in TLC; `CatalogWorkloads` lets only readers ask for
their followed authors' books and their own applications, as the controllers' guards
do; `AnalyticsReports` says what the id in a report's path names: a book, an
author or the reader who asks; `ReaderIsNotAuthor` is the type of a user; `SocialBounds` takes limits from 1
on, since a feed of limit 0 would ask TypeORM for all rows.

### Arguments

Hardly an invariant is inductive alone, because an entity in flight can write an old value
back.  Each strengthening says of the requests in flight what the invariant says of
the rows.  TLC checked each before it was proved.  All modules follow one plan: the
type invariant together with what each stage knows of its request (`Staged`,
`TypeInv`), a lemma on the shape of a step (which request changes, and from which
stage to which), frame lemmas for the requests that do not move, and one lemma per
action.

* `Applications`.  `StockInv`: every loaded or edited entity has a non-negative
  stock, and `SavedBook` takes each column from entity or row.  `GrantInv`: an
  approved entity belongs to a reader in `granted`, which only grows.
  `LedgerInv` counts `granted` against the stock instead of the approved
  applications.  `FinalInv`: bulk actions and draws exclude each other by the lock of the
  book, what they read as pending under it is pending, and entities to be saved agree with
  the status of their row.  `DrawInv`: a draw under way holds the lock, alone, of a
  book that is not drawn, and a draw that is over left its mark.
  `AloneInv` and `OfferInv`, for one handler: what is loaded is still in the row when it
  is saved, and an accepted edit offers no more than it leaves.
* `Accounts`.  `ProvenInv`: an entity is verified only if a code of its user was
  accepted, and a request that is going to verify has had one accepted.  `UsedInv`:
  a code that is going to be marked used was accepted by no one, and no two requests
  hold it.  `OneCodeInv`: who is going to insert a code has retired the usable ones.
  `ListedInv`: logout-all knows every live token. `ProfileInv`: an entity in flight
  agrees with the row on what was proved.  The refinement adds `FoundInv`, that a
  refresh still holds its token, and maps `owed` by counting handlers between
  revoking and issuing.
* `Reviews`.  `OneInv`: a creation under way found no review, a save's review is
  still there.  `CalmInv`: while nothing disturbed them, each stage knows exactly what rows
  and entities agree on; two requests of kinds that save different rows need no care.
* `Social`.  `FriendsInv`: at most one row between two users, none when one is
  about to be inserted, and the row to be accepted is still there.  `AuthorsInv`: what
  is going to be saved over an author's profile is public.  `ContactsInv`: rows
  are between users of whom one asked.  That a feed is not empty and not too long
  is arithmetic on places in the log (`NewestFew`).
* `Files`.  `AloneInv`: an undisturbed owner is written by one request. `NamedInv`:
  a key is known to one owner at most, by its object, its row or a request.
  `TidyInv`: what the request of an undisturbed owner holds, its row and the bucket
  agree, stage by stage. `GenreInv` and `LinkInv` do the same for genres and series.
* `Catalog` and `Analytics`.  `ListInv`: what a list request holds was chosen by its
  conditions in one of the databases since it began; while nothing is written, the
  page it chose is the page by rank (`PagesByRank`), the count is the count.
  `ReportInv`: each figure was right in some database since the report began, and
  depends only on statements that returned before it (`ResultsKept`), so a later
  statement cannot make it wrong; an entry of the cache carries that for the key it
  is under, and requests with the same key ask for the same (`SameKey`).
* Figures.  `SumOf(f)` is the size of a set: one cell `<<x, i>>` for each unit of each
  entry of `f`.  So no sum needs induction: rows that are classified by a value are in
  bijection with the cells of the counts of their classes (`SumOfClasses`), a smaller
  function has a subset of the cells (`SumMonotone`), and bounds on means and
  percentages follow from cells in a rectangle (`SumBounded`).  With that, each
  statement's figures add up in any one database (`CountsRight` ... `ApprovedRight`).
  `ReportInv` also says that a figure came after the statement it waits for
  (`Awaited`), so that countries and genres are those of readers who were read; and
  `HomesInv` that a reader without clashes has one primary address in every database of
  the log, that only one of the reader's requests is saving, and that, when it is
  saving a primary one, the marks of the other addresses are cleared.

### What attempts at proof changed in the models

* Arms of two CASE expressions in `Catalog` overlapped.  TLC takes the first that is
  true, TLA+ leaves the choice open: they now exclude each other, in the order of
  the code.
* Three definitions relied on the precedence of `UNION`, `SUBSET` and `\cup`, which
  the tools read differently; they have parentheses.
* `FilesNulls` did not keep `None` apart from rows and objects: a constant set with
  such a member would have made a missing file a present one.
* `Catalog` let anybody ask for followed authors' books and for their applications;
  now only readers do.
* `clashed` was empty at first even when the database a run begins with holds a reader with two
  primary addresses, so `HomesInv` failed initially.  Such readers are in it from the start.
* The keys of an author's rating distribution were stars and one-element tuples, which
  cannot be compared; they are pairs now.  That part of the report had never met a public
  review in a run; `MCAnalytics` has a workload for it.
* The subject of a report was any id: without a type, the report of a "book" that is
  an author has no columns to count (`Subjects`).
* `Cleared` takes a set of addresses to keep, not a number that need not be one;
  the sums of reports are cardinalities instead of a fold over the rows.
* Feeds and caches are written with sets and functions instead of `SelectSeq` and
  `@@`, whose definitions recurse or choose.

### What is only model-checked

* `RequestsEnd`: liveness under strong fairness, beyond the prover, as is ENABLED.
* What the violated runs show: four counterexamples.

## Plan

The modules of the plan are written and their safety is proved.  What is left:

1. Deeper conditions: between `Alone` and excluding kinds of requests (`AnswersOnly`,
   `NoStaleSaves`) lies the condition that two requests on one row do not overlap.
2. The age check and the addresses in `create`, and the deadline rules against a
   reference.

## Not modelled

Besides the parts marked so above:

* PostgreSQL's behaviour other than row locks, READ COMMITTED, unique indexes and
  cascades; the two statements TypeORM makes of `take` with joins count as one;
  ties in the order of a page, which OFFSET may split, are decided one way for a request.
* Several instances of the service: the models interleave handlers
  arbitrarily, so two instances add nothing but a second nightly job.
* Push messages and device tokens: sent after the row is saved, failures are
  logged, nothing reads them back; a device token is one find-or-insert.  Mail the same.
* Reports of users: one insert.  Genres: read-only rows.
* `createWithFile`, `setPrimary`, `findPrimaryByUserId` and `cleanupExpiredCodes`:
  called by no controller or service.  File metadata and the loose `POST
  /files/upload`, to whose objects no row refers.
* Controllers, guards and filters: a request refused there changes nothing.  The
  guard of downloads reads the database and is in `Files`.
* Figures without a relation to others: word counts of reports, reading times, page counts.
* Migrations and seeds: run once; the constraints they create are in the actions.
* The wording, layout and order of anything no property is about.
