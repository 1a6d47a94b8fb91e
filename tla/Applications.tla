---------------------------- MODULE Applications ----------------------------
(***************************************************************************)
(* The applications of readers for the review copies of one book           *)
(* (src/src/applications) together with the row of that book               *)
(* (src/src/books).  Books do not interact, so one book is modelled; the   *)
(* unique index on (book_id, reader_id) lets a reader name its row.        *)
(*                                                                         *)
(* Every HTTP handler is a process that is interrupted at its awaits.  The *)
(* database runs READ COMMITTED.  A plain read sees the committed row; a   *)
(* SELECT .. FOR UPDATE waits for the row and keeps it until the end of    *)
(* the transaction; a plain UPDATE waits for such a lock.  TypeORM's       *)
(* save(entity) reads the row again, compares it with the entity column by *)
(* column and updates the columns that differ: an entity that was loaded   *)
(* before somebody else's commit writes the old values back.               *)
(***************************************************************************)
EXTENDS Integers, FiniteSets

CONSTANTS
  Readers,       \* users who may apply for the book
  Eligible,      \* those with a verified e-mail and the required age
  Handlers,      \* request handlers that can run at the same time
  Requests,      \* the kinds of request that are issued, see RequestKinds
  Decisions,     \* the statuses authors put in a request, out of AppStatus
  Edits,         \* the bodies of the PATCH requests on the book, see EditBody
  InitialBooks,  \* the rows that creating and publishing the book may have left
  MaxTime        \* bound on the clock

AppStatus    == {"pending", "approved", "rejected", "withdrawn"}
BookStatus   == {"draft", "active", "in_progress", "completed", "archived"}
Methods      == {"author_selects", "first_come", "lottery"}
RequestKinds == {"apply", "message", "withdraw", "decide", "bulk", "lottery",
                 "sent", "bulksent", "progress", "edit", "publish"}
Stages       == {"idle", "apply", "decide", "decideBook", "reload", "saveApp",
                 "writeApp", "bulk", "bulksent", "lottery", "edit", "saveBook",
                 "writeBook"}

\* A row of "applications": whether it exists, respondedAt and copySentAt.
\* Message, notes and reading columns are columns nothing here reads.
AppRow == [status : AppStatus \cup {"none"}, responded : BOOLEAN, sent : BOOLEAN]
NoApp  == [status |-> "none", responded |-> FALSE, sent |-> FALSE]

NoDeadline == 0

\* The row of "books"; drawn says that lotteryRunAt is set.
BookRow == [status : BookStatus, total : Nat, avail : Int, method : Methods,
            digital : BOOLEAN, appDeadline : Nat, reviewDeadline : Nat,
            drawn : BOOLEAN]
NoBook  == [status |-> "draft", total |-> 0, avail |-> 0,
            method |-> "author_selects", digital |-> FALSE, appDeadline |-> 0,
            reviewDeadline |-> NoDeadline, drawn |-> FALSE]

\* The body of PATCH /books/:id holds any of these columns, with the types
\* the DTO validates; a file or cover upload is a save with an empty body.
Columns  == {"total", "avail", "method", "digital", "appDeadline", "reviewDeadline"}
EditBody(e) ==
  /\ DOMAIN e \subseteq Columns
  /\ "total" \in DOMAIN e => e["total"] \in Nat \ {0}
  /\ "avail" \in DOMAIN e => e["avail"] \in Nat
  /\ "method" \in DOMAIN e => e["method"] \in Methods
  /\ "digital" \in DOMAIN e => e["digital"] \in BOOLEAN
  /\ "appDeadline" \in DOMAIN e => e["appDeadline"] \in Nat
  /\ "reviewDeadline" \in DOMAIN e => e["reviewDeadline"] \in Nat

ASSUME ReadersFinite   == IsFiniteSet(Readers)
ASSUME EligibleReaders == Eligible \subseteq Readers
ASSUME RequestsKnown   == Requests \subseteq RequestKinds
ASSUME DecisionsKnown  == Decisions \subseteq AppStatus
ASSUME EditsKnown      == \A e \in Edits : EditBody(e)
ASSUME MaxTimeNat      == MaxTime \in Nat
ASSUME BooksCreated    == \A b \in InitialBooks :
                            b \in BookRow /\ 0 <= b.avail /\ b.avail <= b.total

VARIABLES
  book,     \* the row of the book
  app,      \* the row of each reader's application
  now,      \* the clock
  cron,     \* the nightly job: the UPDATE it issues next, its "now"
  req,      \* what each handler is doing
  granted,  \* history: the readers a copy was ever reserved for
  draws     \* history: how many lotteries have decided applications, up to 2

vars == <<book, app, now, cron, req, granted, draws>>

NoEdit  == [c \in {} |-> 0]
NoApps  == [r \in Readers |-> NoApp]
Idle    == [at |-> "idle", ids |-> {}, status |-> "pending", ent |-> NoApps,
            base |-> NoApps, book |-> NoBook, bookBase |-> NoBook, edit |-> NoEdit]
Request == [at : Stages, ids : SUBSET Readers, status : AppStatus,
            ent : [Readers -> AppRow], base : [Readers -> AppRow],
            book : BookRow, bookBase : BookRow, edit : Edits \cup {NoEdit}]

Approved      == {r \in Readers : app[r].status = "approved"}
BookLocked    == \E g \in Handlers : req[g].at \in {"bulk", "lottery"}
AppsLocked(S) == \E g \in Handlers : req[g].at = "decideBook" /\ req[g].ids \cap S # {}
Rows(S)       == [r \in Readers |-> IF r \in S THEN app[r] ELSE NoApp]

-----------------------------------------------------------------------------
\* How save() and tryReserveCopies change rows

Column(base, ent, row) == IF ent # base THEN ent ELSE row

SavedApp(base, ent, row) ==
  [status    |-> Column(base.status, ent.status, row.status),
   responded |-> Column(base.responded, ent.responded, row.responded),
   sent      |-> Column(base.sent, ent.sent, row.sent)]

SavedBook(base, ent, row) ==
  [status         |-> Column(base.status, ent.status, row.status),
   total          |-> Column(base.total, ent.total, row.total),
   avail          |-> Column(base.avail, ent.avail, row.avail),
   method         |-> Column(base.method, ent.method, row.method),
   digital        |-> Column(base.digital, ent.digital, row.digital),
   appDeadline    |-> Column(base.appDeadline, ent.appDeadline, row.appDeadline),
   reviewDeadline |-> Column(base.reviewDeadline, ent.reviewDeadline, row.reviewDeadline),
   drawn          |-> Column(base.drawn, ent.drawn, row.drawn)]

\* Mutants: the guard of the UPDATE dropped, and off by one
CanReserveAny(b, n)  == TRUE
CanReserveMore(b, n) == b.avail >= n - 1

CanReserve(b, n) == b.avail >= n

\* Mutants: one copy whatever the number of applications, and a status that
\* the enumeration does not have
ReserveOne(b, n)    == [b EXCEPT !.avail = b.avail - 1]
ReserveClosed(b, n) == [b EXCEPT !.avail = b.avail - n, !.status = "closed"]

\* tryReserveCopies, with the status change of a book that ran out of copies
Reserve(b, n) ==
  [b EXCEPT !.avail = b.avail - n,
            !.status = IF b.avail = n /\ b.status = "active"
                       THEN "in_progress" ELSE b.status]

Answered(row, s, sent) == [status |-> s, responded |-> TRUE, sent |-> row.sent \/ sent]

-----------------------------------------------------------------------------
\* Handlers

Begin(h, kind, r) ==
  /\ kind \in Requests
  /\ req[h].at = "idle"
  /\ req' = [req EXCEPT ![h] = r]

GoTo(h, stage) == req' = [req EXCEPT ![h].at = stage]
Finish(h)      == req' = [req EXCEPT ![h] = Idle]

DataSame == UNCHANGED <<book, app, granted>>
RestSame == UNCHANGED <<now, cron, draws>>

\* create: the duplicate check is an unlocked read
ApplyCheck(h, r) ==
  /\ r \in Eligible
  /\ app[r] = NoApp
  /\ Begin(h, "apply", [Idle EXCEPT !.at = "apply", !.ids = {r}])
  /\ DataSame /\ RestSame

Accepting == book.status = "active" /\ book.avail > 0 /\ book.appDeadline >= now

\* create: the transaction on the locked book, when the insert goes through
ApplyInsert(h) ==
  /\ req[h].at = "apply"
  /\ ~BookLocked
  /\ Accepting
  /\ \E r \in req[h].ids :
       /\ app[r] = NoApp
       /\ LET auto == book.method = "first_come" /\ CanReserve(book, 1)
          IN  /\ app' = [app EXCEPT ![r] =
                           [status    |-> IF auto THEN "approved" ELSE "pending",
                            responded |-> auto,
                            sent      |-> auto /\ book.digital]]
              /\ book' = IF auto THEN Reserve(book, 1) ELSE book
              /\ granted' = IF auto THEN granted \cup {r} ELSE granted
  /\ Finish(h)
  /\ RestSame

\* Mutant: the reservation is not part of the transaction that rolls back
ApplyRefusedKept(h) ==
  /\ req[h].at = "apply"
  /\ ~BookLocked
  /\ Accepting => \E r \in req[h].ids : app[r] # NoApp
  /\ book' = IF Accepting /\ book.method = "first_come" THEN Reserve(book, 1) ELSE book
  /\ Finish(h)
  /\ UNCHANGED <<app, granted>> /\ RestSame

\* create: the book refuses, or the unique index rejects the second insert
\* and the transaction, its reservation included, is rolled back
ApplyRefused(h) ==
  /\ req[h].at = "apply"
  /\ ~BookLocked
  /\ Accepting => \E r \in req[h].ids : app[r] # NoApp
  /\ Finish(h)
  /\ DataSame /\ RestSame

\* update with a status: the application and its book are read without a lock
DecideCheck(h, r, s) ==
  /\ app[r] # NoApp
  /\ book.method # "lottery"
  /\ Begin(h, "decide", [Idle EXCEPT !.at = "decide", !.ids = {r}, !.status = s])
  /\ DataSame /\ RestSame

\* changePendingApplicationStatus locks the application, then the book
DecideLock(h) ==
  /\ req[h].at = "decide"
  /\ ~AppsLocked(req[h].ids)
  /\ GoTo(h, "decideBook")
  /\ DataSame /\ RestSame

\* Mutant: decides without looking at the status under the lock
MayDecideAgain(h) == req[h].status = "approved" => CanReserve(book, 1)

MayDecide(h) ==
  /\ \A r \in req[h].ids : app[r].status = "pending"
  /\ req[h].status = "approved" => CanReserve(book, 1)

\* Mutant: approves without a reservation
DecideTxUnreserved(h) ==
  /\ req[h].at = "decideBook"
  /\ ~BookLocked
  /\ MayDecide(h)
  /\ app' = [r \in Readers |-> IF r \in req[h].ids
                               THEN Answered(app[r], req[h].status, FALSE) ELSE app[r]]
  /\ GoTo(h, "reload")
  /\ UNCHANGED <<book, granted>> /\ RestSame

DecideTx(h) ==
  /\ req[h].at = "decideBook"
  /\ ~BookLocked
  /\ MayDecide(h)
  /\ LET approve == req[h].status = "approved"
     IN  /\ app' = [r \in Readers |->
                      IF r \in req[h].ids
                      THEN Answered(app[r], req[h].status, approve /\ book.digital)
                      ELSE app[r]]
         /\ book' = IF approve THEN Reserve(book, 1) ELSE book
         /\ granted' = IF approve THEN granted \cup req[h].ids ELSE granted
  /\ GoTo(h, "reload")
  /\ RestSame

DecideRefused(h) ==
  /\ req[h].at = "decideBook"
  /\ ~BookLocked
  /\ ~MayDecide(h)
  /\ Finish(h)
  /\ DataSame /\ RestSame

\* update: the application is read again and, with markCopySent in the same
\* request, marked sent; the entity is then saved whole
DecideReload(h, mark) ==
  /\ req[h].at = "reload"
  /\ IF mark => \A r \in req[h].ids : app[r].status = "approved"
     THEN req' = [req EXCEPT ![h].at = "saveApp",
                             ![h].ent = [r \in Readers |->
                               IF r \in req[h].ids /\ mark
                               THEN [app[r] EXCEPT !.sent = TRUE]
                               ELSE Rows(req[h].ids)[r]]]
     ELSE Finish(h)
  /\ DataSame /\ RestSame

\* A handler loads an application, checks its status and changes the entity
LoadApp(h, kind, r, status, ent) ==
  /\ app[r].status = status
  /\ Begin(h, kind, [Idle EXCEPT !.at = "saveApp", !.ids = {r},
                                 !.ent = [NoApps EXCEPT ![r] = ent]])
  /\ DataSame /\ RestSame

\* PATCH without a status.  A message needs a pending application; a body with
\* nothing in it is saved whatever the status.
EditMessage(h, r)    == app[r] # NoApp /\ LoadApp(h, "message", r, app[r].status, app[r])
Withdraw(h, r)       == LoadApp(h, "withdraw", r, "pending",
                                [app[r] EXCEPT !.status = "withdrawn"])
MarkSent(h, r)       == LoadApp(h, "sent", r, "approved", [app[r] EXCEPT !.sent = TRUE])
UpdateProgress(h, r) == LoadApp(h, "progress", r, "approved", app[r])

\* applicationRepo.save: SELECT of the row, then UPDATE of what differs
SelectApp(h) ==
  /\ req[h].at = "saveApp"
  /\ req' = [req EXCEPT ![h].at = "writeApp", ![h].base = Rows(req[h].ids)]
  /\ DataSame /\ RestSame

WriteApp(h) ==
  /\ req[h].at = "writeApp"
  /\ ~AppsLocked(req[h].ids)
  /\ app' = [r \in Readers |->
               IF r \in req[h].ids
               THEN SavedApp(req[h].base[r], req[h].ent[r], app[r])
               ELSE app[r]]
  /\ Finish(h)
  /\ UNCHANGED <<book, granted>> /\ RestSame

\* bulkMarkCopySent: reads the approved applications, then updates by id
BulkSentRead(h, S) ==
  /\ \A r \in S : app[r].status = "approved"
  /\ Begin(h, "bulksent", [Idle EXCEPT !.at = "bulksent", !.ids = S])
  /\ DataSame /\ RestSame

BulkSentWrite(h) ==
  /\ req[h].at = "bulksent"
  /\ ~AppsLocked(req[h].ids)
  /\ app' = [r \in Readers |-> IF r \in req[h].ids
                               THEN [app[r] EXCEPT !.sent = TRUE] ELSE app[r]]
  /\ Finish(h)
  /\ UNCHANGED <<book, granted>> /\ RestSame

\* bulkUpdateApplicationStatus locks the book and reads the applications,
\* which it does not lock
BulkRead(h, S, s) ==
  /\ ~BookLocked
  /\ book.method # "lottery"
  /\ \A r \in S : app[r].status = "pending"
  /\ Begin(h, "bulk", [Idle EXCEPT !.at = "bulk", !.ids = S, !.status = s,
                                   !.ent = Rows(S)])
  /\ DataSame /\ RestSame

BulkWrite(h) ==
  LET approve == req[h].status = "approved"
  IN  /\ req[h].at = "bulk"
      /\ approve => CanReserve(book, Cardinality(req[h].ids))
      /\ ~AppsLocked(req[h].ids)
      /\ app' = [r \in Readers |->
                   IF r \in req[h].ids
                   THEN Answered(req[h].ent[r], req[h].status, book.digital)
                   ELSE app[r]]
      /\ book' = IF approve THEN Reserve(book, Cardinality(req[h].ids)) ELSE book
      /\ granted' = IF approve THEN granted \cup req[h].ids ELSE granted
      /\ Finish(h)
      /\ RestSame

\* Mutant: a conflict leaves the transaction open
BulkRefusedOpen(h) == FALSE

BulkRefused(h) ==
  /\ req[h].at = "bulk"
  /\ req[h].status = "approved"
  /\ ~CanReserve(book, Cardinality(req[h].ids))
  /\ Finish(h)
  /\ DataSame /\ RestSame

\* Mutant: reads without the lock on the book
LotteryReadUnlocked(h) ==
  LET pending == {r \in Readers : app[r].status = "pending"}
  IN  /\ book.method = "lottery"
      /\ book.appDeadline <= now
      /\ ~book.drawn
      /\ pending # {}
      /\ Begin(h, "lottery", [Idle EXCEPT !.at = "lottery", !.ids = pending])
      /\ DataSame /\ RestSame

\* runLotterySelection locks the book and reads the pending applications
LotteryRead(h) ==
  LET pending == {r \in Readers : app[r].status = "pending"}
  IN  /\ ~BookLocked
      /\ book.method = "lottery"
      /\ book.appDeadline <= now
      /\ ~book.drawn
      /\ pending # {}
      /\ Begin(h, "lottery", [Idle EXCEPT !.at = "lottery", !.ids = pending])
      /\ DataSame /\ RestSame

Winners(S, copies) ==
  {W \in SUBSET S : \/ Cardinality(W) = copies
                    \/ W = S /\ Cardinality(S) < copies}

\* The draw.  For an active book the last save writes the entity that was
\* loaded before the reservation, with all its columns.
LotteryDraw(h) ==
  /\ req[h].at = "lottery"
  /\ ~AppsLocked(req[h].ids)
  /\ \E W \in Winners(req[h].ids, book.avail) :
       LET reserved == IF W = {} THEN book ELSE Reserve(book, Cardinality(W))
       IN  /\ app' = [r \in Readers |->
                        CASE r \in W -> Answered(app[r], "approved", book.digital)
                          [] r \in req[h].ids \ W -> Answered(app[r], "rejected", FALSE)
                          [] OTHER -> app[r]]
           /\ book' = IF book.status = "active"
                      THEN [book EXCEPT !.drawn = TRUE, !.status = "in_progress"]
                      ELSE [reserved EXCEPT !.drawn = TRUE]
           /\ granted' = granted \cup W
  /\ draws' = IF draws < 2 THEN draws + 1 ELSE draws
  /\ Finish(h)
  /\ UNCHANGED <<now, cron>>

\* A decision holds an application and waits for the book while a bulk action
\* or a draw holds the book and waits for the application: PostgreSQL aborts
\* the transaction of one of the two.
Deadlocked(g, h) ==
  /\ req[g].at = "decideBook"
  /\ req[h].at \in {"bulk", "lottery"}
  /\ req[g].ids \cap req[h].ids # {}

AbortVictim(g, h) ==
  /\ Deadlocked(g, h)
  /\ Finish(g) \/ Finish(h)
  /\ DataSame /\ RestSame

-----------------------------------------------------------------------------
\* Saves of the book entity

\* update and the file uploads load the book without a lock
EditLoad(h, e) ==
  /\ Begin(h, "edit", [Idle EXCEPT !.at = "edit", !.book = book, !.edit = e])
  /\ DataSame /\ RestSame

Publish(h) ==
  /\ Begin(h, "publish", [Idle EXCEPT !.at = "saveBook",
                                      !.book = [book EXCEPT !.status = "active"]])
  /\ DataSame /\ RestSame

Sets(e, c)         == c \in DOMAIN e
Field(e, c, value) == IF Sets(e, c) THEN e[c] ELSE value

\* updateDeadlines reopens a book whose new deadline lies in the future
EditedStatus(b, e) ==
  LET opened == IF Sets(e, "appDeadline") /\ b.status = "in_progress"
                   /\ e["appDeadline"] > now
                THEN "active" ELSE b.status
  IN  IF Sets(e, "reviewDeadline") /\ opened = "completed"
         /\ e["reviewDeadline"] > now
      THEN "in_progress" ELSE opened

\* updateBookFields, updateCopies and updateDeadlines, with the number of
\* approved applications counted in between
Edited(b, e, approved) ==
  [b EXCEPT !.method = Field(e, "method", b.method),
            !.digital = Field(e, "digital", b.digital),
            !.total = Field(e, "total", b.total),
            !.avail = IF Sets(e, "total") THEN e["total"] - approved
                      ELSE Field(e, "avail", b.avail),
            !.status = EditedStatus(b, e),
            !.appDeadline = Field(e, "appDeadline", b.appDeadline),
            !.reviewDeadline = Field(e, "reviewDeadline", b.reviewDeadline)]

EditAccepted(b, e, approved) ==
  LET new == Edited(b, e, approved)
  IN  /\ Sets(e, "total") => e["total"] >= approved
      /\ Sets(e, "avail") /\ ~Sets(e, "total") => e["avail"] <= b.total - approved
      /\ new.reviewDeadline # NoDeadline => new.reviewDeadline > new.appDeadline
      /\ new.avail <= new.total /\ new.avail >= 0

EditChange(h) ==
  LET b == req[h].book
      e == req[h].edit
      n == Cardinality(Approved)
  IN  /\ req[h].at = "edit"
      /\ IF EditAccepted(b, e, n)
         THEN req' = [req EXCEPT ![h].at = "saveBook", ![h].book = Edited(b, e, n)]
         ELSE Finish(h)
      /\ DataSame /\ RestSame

\* bookRepo.save: SELECT of the row, then UPDATE of what differs
SelectBook(h) ==
  /\ req[h].at = "saveBook"
  /\ req' = [req EXCEPT ![h].at = "writeBook", ![h].bookBase = book]
  /\ DataSame /\ RestSame

WriteBook(h) ==
  /\ req[h].at = "writeBook"
  /\ ~BookLocked
  /\ book' = SavedBook(req[h].bookBase, req[h].book, book)
  /\ Finish(h)
  /\ UNCHANGED <<app, granted>> /\ RestSame

-----------------------------------------------------------------------------
\* The nightly job: three UPDATE statements, one after the other

NightlyUpdate(from, to, t, where, status) ==
  /\ cron.at = from
  /\ ~BookLocked
  /\ cron' = [at |-> to, now |-> t]
  /\ book' = IF where THEN [book EXCEPT !.status = status] ELSE book
  /\ UNCHANGED <<app, now, req, granted, draws>>

ClosedFor(t) == book.status = "active" /\ book.appDeadline < t

NightlyOpen    == NightlyUpdate("idle", "drawn", now,
                    ClosedFor(now) /\ book.method # "lottery", "in_progress")
NightlyDrawn   == NightlyUpdate("drawn", "review", cron.now,
                    ClosedFor(cron.now) /\ book.method = "lottery" /\ book.drawn,
                    "in_progress")
NightlyReview  == NightlyUpdate("review", "idle", 0,
                    /\ book.status = "in_progress"
                    /\ book.reviewDeadline # NoDeadline
                    /\ book.reviewDeadline < cron.now, "completed")

\* An UPDATE fails: the error is logged and the rest is left to the next night
NightlyFailed ==
  /\ cron.at # "idle"
  /\ cron' = [at |-> "idle", now |-> 0]
  /\ UNCHANGED <<book, app, now, req, granted, draws>>

Tick ==
  /\ now < MaxTime
  /\ now' = now + 1
  /\ UNCHANGED <<book, app, cron, req, granted, draws>>

-----------------------------------------------------------------------------

Init ==
  /\ book \in InitialBooks
  /\ app = NoApps
  /\ now = 1
  /\ cron = [at |-> "idle", now |-> 0]
  /\ req = [h \in Handlers |-> Idle]
  /\ granted = {}
  /\ draws = 0

\* A request enters the service
Start(h) ==
  \/ \E r \in Readers :
       \/ ApplyCheck(h, r)
       \/ EditMessage(h, r)
       \/ Withdraw(h, r)
       \/ MarkSent(h, r)
       \/ UpdateProgress(h, r)
       \/ \E s \in Decisions : DecideCheck(h, r, s)
  \/ \E S \in (SUBSET Readers) \ {{}} :
       \/ BulkSentRead(h, S)
       \/ \E s \in Decisions : BulkRead(h, S, s)
  \/ LotteryRead(h)
  \/ \E e \in Edits : EditLoad(h, e)
  \/ Publish(h)

\* A handler runs from one await to the next
Continue(h) ==
  \/ ApplyInsert(h)
  \/ ApplyRefused(h)
  \/ DecideLock(h)
  \/ DecideTx(h)
  \/ DecideRefused(h)
  \/ \E mark \in BOOLEAN : DecideReload(h, mark)
  \/ SelectApp(h)
  \/ WriteApp(h)
  \/ BulkSentWrite(h)
  \/ BulkWrite(h)
  \/ BulkRefused(h)
  \/ LotteryDraw(h)
  \/ EditChange(h)
  \/ SelectBook(h)
  \/ WriteBook(h)

Nightly == NightlyOpen \/ NightlyDrawn \/ NightlyReview \/ NightlyFailed

Next ==
  \/ \E h \in Handlers : Start(h) \/ Continue(h)
  \/ \E g, h \in Handlers : AbortVictim(g, h)
  \/ Nightly
  \/ Tick

Spec == Init /\ [][Next]_vars

\* Row locks are handed on to those who wait for them and the database breaks
\* every deadlock, so a request that has started keeps running.
Fairness ==
  /\ \A h \in Handlers : SF_vars(Continue(h))
  /\ \A g, h \in Handlers : WF_vars(AbortVictim(g, h))

FairSpec == Spec /\ Fairness

-----------------------------------------------------------------------------
\* Type invariant: rows, clock, nightly job and handlers have their types.
TypeOK ==
  /\ book \in BookRow
  /\ app \in [Readers -> AppRow]
  /\ now \in Nat
  /\ cron \in [at : {"idle", "drawn", "review"}, now : Nat]
  /\ req \in [Handlers -> Request]
  /\ granted \subseteq Readers
  /\ draws \in 0..2

\* tryReserveCopies never takes a copy that is not there, and no save of a
\* book, however stale the entity, leaves a negative count of copies.
NeverOversold == book.avail >= 0

\* What makes NeverOversold inductive: the entities in flight satisfy it too.
StockInv == NeverOversold /\ \A h \in Handlers : req[h].book.avail >= 0

\* Whatever requests and stale saves interleave, an application is approved
\* only if a copy was reserved for it at some time.
ApprovedWasGranted == Approved \subseteq granted

\* What makes it inductive: an entity that would write "approved" back was
\* loaded from, or decided under the locks for, a reader who was granted.
GrantInv ==
  /\ ApprovedWasGranted
  /\ \A h \in Handlers, r \in Readers :
       req[h].ent[r].status = "approved" => r \in granted

\* The requests that save an entity of the book, the draw among them.
BookSaves == {"edit", "publish", "lottery"}

\* Approved applications and copies still offered never exceed the copies of
\* the book: the promise of create, update and bulk, with withdrawals,
\* message edits, marks and their stale saves running in between.
NoOverPromise == Cardinality(Approved) + book.avail <= book.total

\* What makes NoOverPromise inductive when no book entity is saved: the
\* readers ever granted a copy are counted, no handler is in such a save, and
\* a decision is about one application.
LedgerInv ==
  /\ GrantInv
  /\ Cardinality(granted) + book.avail <= book.total
  /\ \A h \in Handlers :
       /\ req[h].at \notin {"edit", "saveBook", "writeBook", "lottery"}
       /\ req[h].at \in {"decide", "decideBook"} => Cardinality(req[h].ids) = 1

\* Applications without book saves implement the abstract ledger: stock and
\* grants move together, approvals are always backed by a grant.
Ledger     == INSTANCE CopyLedger WITH free <- book.avail, holders <- granted,
                                       approved <- Approved
LedgerSpec == Ledger!Spec

\* An answer stands: no step takes an application out of approved, rejected
\* or withdrawn, when readers neither withdraw nor edit their message and
\* authors answer with approved or rejected.
AnswerIsFinal ==
  [][\A r \in Readers :
       app[r].status \in {"approved", "rejected", "withdrawn"}
         => app'[r].status = app[r].status]_vars

\* A copy is neither lost nor made up: where no lottery is drawn and no book
\* is saved, approved applications and offered copies keep their sum, also
\* when an insert fails on the unique index or a transaction is aborted.
CopiesConserved ==
  [][book.method # "lottery" =>
       Cardinality(Approved') + book'.avail = Cardinality(Approved) + book.avail]_vars

\* The draw decides applications once per book.
LotteryOnce == draws <= 1

\* An application is withdrawn only while it is pending.
WithdrawOnlyPending ==
  [][\A r \in Readers :
       app'[r].status = "withdrawn" /\ app[r].status # "withdrawn"
         => app[r].status = "pending"]_vars

\* Every request that starts is answered or refused: no handler waits for
\* ever for a row lock, decisions, bulk actions and draws included.
RequestsEnd == \A h \in Handlers : req[h].at # "idle" ~> req[h].at = "idle"
=============================================================================
