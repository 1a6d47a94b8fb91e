------------------------- MODULE ApplicationsProofs -------------------------
(***************************************************************************)
(* Theorems about Applications, for any readers, handlers, copies, edits   *)
(* and times.                                                              *)
(***************************************************************************)
EXTENDS Applications, FiniteSetTheorems, TLAPS

\* The constant parts of the state have their types.
LEMMA BlankTypes ==
  /\ NoApp \in AppRow
  /\ NoBook \in BookRow
  /\ NoApps \in [Readers -> AppRow]
  /\ Idle \in Request
BY DEF NoApp, AppRow, NoBook, BookRow, AppStatus, BookStatus, Methods, NoDeadline,
       NoApps, Idle, Request, Stages

\* A save yields a row when the row, the entity and its base are rows.
LEMMA SavedAppType ==
  ASSUME NEW b \in AppRow, NEW e \in AppRow, NEW row \in AppRow
  PROVE  SavedApp(b, e, row) \in AppRow
BY DEF SavedApp, Column, AppRow

LEMMA SavedBookType ==
  ASSUME NEW b \in BookRow, NEW e \in BookRow, NEW row \in BookRow
  PROVE  SavedBook(b, e, row) \in BookRow
BY DEF SavedBook, Column, BookRow

LEMMA ReserveType ==
  ASSUME NEW b \in BookRow, NEW n \in Nat
  PROVE  Reserve(b, n) \in BookRow
<1>1. b.avail - n \in Int
  BY DEF BookRow
<1>2. (IF b.avail = n /\ b.status = "active" THEN "in_progress" ELSE b.status)
        \in BookStatus
  BY DEF BookRow, BookStatus
<1>3. QED
  BY <1>1, <1>2 DEF Reserve, BookRow

\* What Reserve does to the count of copies.
LEMMA ReserveAvail ==
  ASSUME NEW b \in BookRow, NEW n \in Nat
  PROVE  Reserve(b, n).avail = b.avail - n /\ Reserve(b, n).total = b.total
BY DEF Reserve, BookRow

LEMMA AnsweredType ==
  ASSUME NEW row \in AppRow, NEW s \in AppStatus, NEW sent \in BOOLEAN
  PROVE  Answered(row, s, sent) \in AppRow
BY DEF Answered, AppRow

LEMMA RowsType ==
  ASSUME TypeOK, NEW S
  PROVE  Rows(S) \in [Readers -> AppRow]
BY BlankTypes DEF TypeOK, Rows

\* The readers of a request are finitely many.
LEMMA IdsFinite ==
  ASSUME NEW S \in SUBSET Readers
  PROVE  IsFiniteSet(S) /\ Cardinality(S) \in Nat
BY ReadersFinite, FS_Subset, FS_CardinalityType

LEMMA EditedType ==
  ASSUME NEW b \in BookRow, NEW e \in Edits \cup {NoEdit}, NEW n \in Nat
  PROVE  Edited(b, e, n) \in BookRow
<1>1. EditBody(e)
  BY EditsKnown DEF EditBody, NoEdit, Columns
<1>2. EditedStatus(b, e) \in BookStatus
  BY DEF EditedStatus, BookRow, BookStatus
<1>3. /\ Field(e, "method", b.method) \in Methods
      /\ Field(e, "digital", b.digital) \in BOOLEAN
      /\ Field(e, "total", b.total) \in Nat
      /\ Field(e, "avail", b.avail) \in Int
      /\ Field(e, "appDeadline", b.appDeadline) \in Nat
      /\ Field(e, "reviewDeadline", b.reviewDeadline) \in Nat
  BY <1>1 DEF EditBody, Field, Sets, BookRow
<1>4. Sets(e, "total") => e["total"] - n \in Int
  BY <1>1 DEF EditBody, Sets
<1>5. QED
  BY <1>2, <1>3, <1>4 DEF Edited, BookRow

-----------------------------------------------------------------------------
\* Type correctness, one lemma per group of steps

\* A handler that moves on or finishes keeps a well-typed request.
LEMMA GoToType ==
  ASSUME TypeOK, NEW h \in Handlers, NEW stage \in Stages, GoTo(h, stage)
  PROVE  req' \in [Handlers -> Request]
<1>1. [req[h] EXCEPT !.at = stage] \in Request
  <2>1. req[h] \in Request
    BY DEF TypeOK
  <2>2. QED
    BY <2>1 DEF Request
<1>2. QED
  BY <1>1 DEF TypeOK, GoTo

LEMMA FinishType ==
  ASSUME TypeOK, NEW h \in Handlers, Finish(h)
  PROVE  req' \in [Handlers -> Request]
BY BlankTypes DEF TypeOK, Finish

\* Starting a request changes nothing but the request.
LEMMA StartFrame ==
  ASSUME NEW h \in Handlers, Start(h)
  PROVE  UNCHANGED <<book, app, granted, now, cron, draws>>
BY DEF Start, ApplyCheck, EditMessage, Withdraw, MarkSent, UpdateProgress, LoadApp,
       DecideCheck, BulkSentRead, BulkRead, LotteryRead, EditLoad, Publish,
       DataSame, RestSame

LEMMA BeginType ==
  ASSUME TypeOK, NEW h \in Handlers, NEW kind, NEW x \in Request, Begin(h, kind, x)
  PROVE  req' \in [Handlers -> Request]
BY DEF TypeOK, Begin

\* The application requests begin with these records.
LEMMA AppRequestType ==
  ASSUME NEW stage \in Stages, NEW S \in SUBSET Readers, NEW s \in AppStatus,
         NEW ent \in [Readers -> AppRow]
  PROVE  /\ [Idle EXCEPT !.at = stage, !.ids = S] \in Request
         /\ [Idle EXCEPT !.at = stage, !.ids = S, !.status = s] \in Request
         /\ [Idle EXCEPT !.at = stage, !.ids = S, !.ent = ent] \in Request
         /\ [Idle EXCEPT !.at = stage, !.ids = S, !.status = s, !.ent = ent] \in Request
BY BlankTypes DEF Idle, Request

LEMMA BookRequestType ==
  ASSUME NEW stage \in Stages, NEW b \in BookRow, NEW e \in Edits
  PROVE  [Idle EXCEPT !.at = stage, !.book = b, !.edit = e] \in Request
BY BlankTypes DEF Idle, Request

LEMMA PublishRequestType ==
  ASSUME NEW stage \in Stages, NEW b \in BookRow
  PROVE  [Idle EXCEPT !.at = stage, !.book = b] \in Request
BY BlankTypes DEF Idle, Request

\* An entity loaded by LoadApp: one row changed, all others blank.
LEMMA LoadAppType ==
  ASSUME TypeOK, NEW h \in Handlers, NEW kind, NEW r \in Readers, NEW status,
         NEW ent \in AppRow, LoadApp(h, kind, r, status, ent)
  PROVE  req' \in [Handlers -> Request]
<1> DEFINE ents == [NoApps EXCEPT ![r] = ent]
<1>1. ents \in [Readers -> AppRow]
  BY BlankTypes
<1>2. "saveApp" \in Stages /\ {r} \in SUBSET Readers /\ "pending" \in AppStatus
  BY DEF Stages, AppStatus
<1> HIDE DEF ents
<1>3. [Idle EXCEPT !.at = "saveApp", !.ids = {r}, !.ent = ents] \in Request
  BY <1>1, <1>2, AppRequestType
<1>4. QED
  BY <1>3, BeginType DEF LoadApp, ents

LEMMA StartType ==
  ASSUME TypeOK, NEW h \in Handlers, Start(h)
  PROVE  req' \in [Handlers -> Request]
<1>1. ASSUME NEW r \in Readers, ApplyCheck(h, r)
      PROVE  req' \in [Handlers -> Request]
  <2>1. [Idle EXCEPT !.at = "apply", !.ids = {r}] \in Request
    BY "apply" \in Stages, {r} \in SUBSET Readers, "pending" \in AppStatus,
       AppRequestType, BlankTypes DEF Stages, AppStatus
  <2>2. QED
    BY <1>1, <2>1, BeginType DEF ApplyCheck
<1>2. ASSUME NEW r \in Readers,
             \/ EditMessage(h, r) \/ Withdraw(h, r)
             \/ MarkSent(h, r)    \/ UpdateProgress(h, r)
      PROVE  req' \in [Handlers -> Request]
  <2>1. /\ app[r] \in AppRow
        /\ [app[r] EXCEPT !.status = "withdrawn"] \in AppRow
        /\ [app[r] EXCEPT !.sent = TRUE] \in AppRow
    BY DEF TypeOK, AppRow, AppStatus
  <2>2. QED
    BY <1>2, <2>1, LoadAppType DEF EditMessage, Withdraw, MarkSent, UpdateProgress
<1>3. ASSUME NEW r \in Readers, NEW s \in Decisions, DecideCheck(h, r, s)
      PROVE  req' \in [Handlers -> Request]
  <2>1. [Idle EXCEPT !.at = "decide", !.ids = {r}, !.status = s] \in Request
    <3>1. "decide" \in Stages /\ {r} \in SUBSET Readers /\ s \in AppStatus
      BY DecisionsKnown DEF Stages
    <3>2. QED
      BY <3>1, AppRequestType, BlankTypes
  <2>2. QED
    BY <1>3, <2>1, BeginType DEF DecideCheck
<1>4. ASSUME NEW S \in SUBSET Readers, BulkSentRead(h, S)
      PROVE  req' \in [Handlers -> Request]
  <2>1. [Idle EXCEPT !.at = "bulksent", !.ids = S] \in Request
    BY AppRequestType, BlankTypes DEF Stages, AppStatus
  <2>2. QED
    BY <1>4, <2>1, BeginType DEF BulkSentRead
<1>5. ASSUME NEW S \in SUBSET Readers, NEW s \in Decisions, BulkRead(h, S, s)
      PROVE  req' \in [Handlers -> Request]
  <2>1. Rows(S) \in [Readers -> AppRow]
    BY RowsType
  <2>2. [Idle EXCEPT !.at = "bulk", !.ids = S, !.status = s, !.ent = Rows(S)] \in Request
    BY <2>1, AppRequestType, DecisionsKnown DEF Stages
  <2>3. QED
    BY <1>5, <2>2, BeginType DEF BulkRead
<1>6. ASSUME LotteryRead(h)
      PROVE  req' \in [Handlers -> Request]
  <2> DEFINE pending == {r \in Readers : app[r].status = "pending"}
  <2>1. [Idle EXCEPT !.at = "lottery", !.ids = pending] \in Request
    BY AppRequestType, BlankTypes DEF Stages, AppStatus
  <2>2. QED
    BY <1>6, <2>1, BeginType DEF LotteryRead
<1>7. ASSUME NEW e \in Edits, EditLoad(h, e)
      PROVE  req' \in [Handlers -> Request]
  <2>1. [Idle EXCEPT !.at = "edit", !.book = book, !.edit = e] \in Request
    BY BookRequestType DEF Stages, TypeOK
  <2>2. QED
    BY <1>7, <2>1, BeginType DEF EditLoad
<1>8. ASSUME Publish(h)
      PROVE  req' \in [Handlers -> Request]
  <2>1. [book EXCEPT !.status = "active"] \in BookRow
    BY DEF TypeOK, BookRow, BookStatus
  <2>2. [Idle EXCEPT !.at = "saveBook", !.book = [book EXCEPT !.status = "active"]]
          \in Request
    BY <2>1, PublishRequestType DEF Stages
  <2>3. QED
    BY <1>8, <2>2, BeginType DEF Publish
<1>9. QED
  BY <1>1, <1>2, <1>3, <1>4, <1>5, <1>6, <1>7, <1>8 DEF Start

\* Rows and requests of a handler in flight.
LEMMA InFlight ==
  ASSUME TypeOK, NEW h \in Handlers
  PROVE  /\ req[h] \in Request
         /\ req[h].ids \in SUBSET Readers
         /\ req[h].status \in AppStatus
         /\ req[h].ent \in [Readers -> AppRow]
         /\ req[h].base \in [Readers -> AppRow]
         /\ req[h].book \in BookRow
         /\ req[h].bookBase \in BookRow
         /\ req[h].edit \in Edits \cup {NoEdit}
         /\ IsFiniteSet(req[h].ids) /\ Cardinality(req[h].ids) \in Nat
<1>1. req[h] \in Request
  BY DEF TypeOK
<1>2. QED
  BY <1>1, IdsFinite DEF Request

LEMMA ContinueType ==
  ASSUME TypeOK, NEW h \in Handlers, Continue(h)
  PROVE  TypeOK'
<1> USE InFlight
<1> book \in BookRow /\ app \in [Readers -> AppRow] /\ granted \subseteq Readers
  BY DEF TypeOK
<1>1. ASSUME book' \in BookRow, app' \in [Readers -> AppRow], granted' \subseteq Readers,
             req' \in [Handlers -> Request], RestSame
      PROVE  TypeOK'
  BY <1>1 DEF TypeOK, RestSame
<1>2. ASSUME Finish(h), DataSame, RestSame
      PROVE  TypeOK'
  BY <1>2, <1>1, FinishType DEF DataSame
<1>3. CASE ApplyInsert(h)
  <2>1. PICK r \in req[h].ids :
          LET auto == book.method = "first_come" /\ CanReserve(book, 1)
          IN  /\ app' = [app EXCEPT ![r] =
                           [status    |-> IF auto THEN "approved" ELSE "pending",
                            responded |-> auto,
                            sent      |-> auto /\ book.digital]]
              /\ book' = IF auto THEN Reserve(book, 1) ELSE book
              /\ granted' = IF auto THEN granted \cup {r} ELSE granted
    BY <1>3 DEF ApplyInsert
  <2>2. book' \in BookRow
    BY <2>1, ReserveType
  <2>3. granted' \subseteq Readers
    BY <2>1
  <2>4. app' \in [Readers -> AppRow]
    <3> DEFINE auto == book.method = "first_come" /\ CanReserve(book, 1)
    <3>1. auto \in BOOLEAN /\ (auto /\ book.digital) \in BOOLEAN
      BY DEF CanReserve
    <3>2. [status    |-> IF auto THEN "approved" ELSE "pending",
           responded |-> auto,
           sent      |-> auto /\ book.digital] \in AppRow
      BY <3>1 DEF AppRow, AppStatus
    <3>3. QED
      BY <2>1, <3>2
  <2>5. QED
    BY <1>3, <1>1, <2>2, <2>3, <2>4, FinishType DEF ApplyInsert
<1>4. CASE DecideLock(h)
  BY <1>4, <1>1, GoToType, "decideBook" \in Stages DEF DecideLock, DataSame, Stages
<1>5. CASE DecideTx(h)
  <2>1. app' \in [Readers -> AppRow]
    <3>1. ASSUME NEW r \in Readers
          PROVE  Answered(app[r], req[h].status,
                          req[h].status = "approved" /\ book.digital) \in AppRow
      BY AnsweredType
    <3>2. QED
      BY <1>5, <3>1 DEF DecideTx
  <2>2. book' \in BookRow /\ granted' \subseteq Readers
    BY <1>5, ReserveType DEF DecideTx
  <2>3. req' \in [Handlers -> Request]
    BY <1>5, GoToType, "reload" \in Stages DEF DecideTx, Stages
  <2>4. QED
    BY <1>5, <1>1, <2>1, <2>2, <2>3 DEF DecideTx
<1>6. ASSUME NEW mark \in BOOLEAN, DecideReload(h, mark)
      PROVE  TypeOK'
  <2> DEFINE ents == [r \in Readers |-> IF r \in req[h].ids /\ mark
                                        THEN [app[r] EXCEPT !.sent = TRUE]
                                        ELSE Rows(req[h].ids)[r]]
  <2>1. ents \in [Readers -> AppRow]
    <3>1. ASSUME NEW r \in Readers
          PROVE  [app[r] EXCEPT !.sent = TRUE] \in AppRow
      BY DEF AppRow
    <3>2. QED
      BY <3>1, RowsType
  <2> HIDE DEF ents
  <2>2. [req[h] EXCEPT !.at = "saveApp", !.ent = ents] \in Request
    BY <2>1 DEF Request, Stages
  <2>3. \/ Finish(h)
        \/ req' = [req EXCEPT ![h] = [req[h] EXCEPT !.at = "saveApp", !.ent = ents]]
    BY <1>6 DEF DecideReload, ents, TypeOK
  <2>4. req' \in [Handlers -> Request]
    BY <2>2, <2>3, FinishType DEF TypeOK
  <2>5. QED
    BY <1>6, <1>1, <2>4 DEF DecideReload, DataSame
<1>7. CASE SelectApp(h)
  <2> DEFINE rows == Rows(req[h].ids)
  <2>1. rows \in [Readers -> AppRow]
    BY RowsType
  <2> HIDE DEF rows
  <2>2. [req[h] EXCEPT !.at = "writeApp", !.base = rows] \in Request
    BY <2>1 DEF Request, Stages
  <2>3. req' = [req EXCEPT ![h] = [req[h] EXCEPT !.at = "writeApp", !.base = rows]]
    BY <1>7 DEF SelectApp, rows, TypeOK
  <2>4. QED
    BY <1>7, <1>1, <2>2, <2>3 DEF SelectApp, DataSame, TypeOK
<1>8. CASE WriteApp(h)
  <2>1. ASSUME NEW r \in Readers
        PROVE  SavedApp(req[h].base[r], req[h].ent[r], app[r]) \in AppRow
    BY SavedAppType
  <2>2. app' \in [Readers -> AppRow]
    BY <1>8, <2>1 DEF WriteApp
  <2>3. QED
    BY <1>8, <1>1, <2>2, FinishType DEF WriteApp
<1>9. CASE BulkSentWrite(h)
  <2>1. ASSUME NEW r \in Readers
        PROVE  [app[r] EXCEPT !.sent = TRUE] \in AppRow
    BY DEF AppRow
  <2>2. app' \in [Readers -> AppRow]
    BY <1>9, <2>1 DEF BulkSentWrite
  <2>3. QED
    BY <1>9, <1>1, <2>2, FinishType DEF BulkSentWrite
<1>10. CASE BulkWrite(h)
  <2>1. ASSUME NEW r \in Readers
        PROVE  Answered(req[h].ent[r], req[h].status, book.digital) \in AppRow
    BY AnsweredType DEF BookRow
  <2>2. app' \in [Readers -> AppRow]
    BY <1>10, <2>1 DEF BulkWrite
  <2>3. book' \in BookRow /\ granted' \subseteq Readers
    BY <1>10, ReserveType DEF BulkWrite
  <2>4. QED
    BY <1>10, <1>1, <2>2, <2>3, FinishType DEF BulkWrite
<1>11. CASE LotteryDraw(h)
  <2>1. PICK W \in SUBSET req[h].ids :
          LET reserved == IF W = {} THEN book ELSE Reserve(book, Cardinality(W))
          IN  /\ app' = [r \in Readers |->
                           CASE r \in W -> Answered(app[r], "approved", book.digital)
                             [] r \in req[h].ids \ W -> Answered(app[r], "rejected", FALSE)
                             [] OTHER -> app[r]]
              /\ book' = IF book.status = "active"
                         THEN [book EXCEPT !.drawn = TRUE, !.status = "in_progress"]
                         ELSE [reserved EXCEPT !.drawn = TRUE]
              /\ granted' = granted \cup W
    BY <1>11 DEF LotteryDraw, Winners
  <2>2. app' \in [Readers -> AppRow]
    <3>1. ASSUME NEW r \in Readers
          PROVE  /\ Answered(app[r], "approved", book.digital) \in AppRow
                 /\ Answered(app[r], "rejected", FALSE) \in AppRow
      BY AnsweredType DEF AppStatus, BookRow
    <3>2. QED
      BY <2>1, <3>1
  <2>3. book' \in BookRow
    <3> DEFINE reserved == IF W = {} THEN book ELSE Reserve(book, Cardinality(W))
    <3>1. reserved \in BookRow
      BY IdsFinite, ReserveType
    <3> HIDE DEF reserved
    <3>2. /\ [book EXCEPT !.drawn = TRUE, !.status = "in_progress"] \in BookRow
          /\ [reserved EXCEPT !.drawn = TRUE] \in BookRow
      BY <3>1 DEF BookRow, BookStatus
    <3>3. QED
      BY <2>1, <3>2 DEF reserved
  <2>4. granted' \subseteq Readers /\ draws' \in 0..2
    BY <1>11, <2>1 DEF LotteryDraw, TypeOK
  <2>5. QED
    BY <1>11, <2>2, <2>3, <2>4, FinishType DEF LotteryDraw, TypeOK
<1>12. CASE EditChange(h)
  <2> DEFINE new == Edited(req[h].book, req[h].edit, Cardinality(Approved))
  <2>1. new \in BookRow
    BY IdsFinite, EditedType DEF Approved
  <2> HIDE DEF new
  <2>2. [req[h] EXCEPT !.at = "saveBook", !.book = new] \in Request
    BY <2>1 DEF Request, Stages
  <2>3. \/ Finish(h)
        \/ req' = [req EXCEPT ![h] = [req[h] EXCEPT !.at = "saveBook", !.book = new]]
    BY <1>12 DEF EditChange, new, TypeOK
  <2>4. req' \in [Handlers -> Request]
    BY <2>2, <2>3, FinishType DEF TypeOK
  <2>5. QED
    BY <1>12, <1>1, <2>4 DEF EditChange, DataSame
<1>13. CASE SelectBook(h)
  <2>1. [req[h] EXCEPT !.at = "writeBook", !.bookBase = book] \in Request
    BY DEF Request, Stages
  <2>2. req' = [req EXCEPT ![h] = [req[h] EXCEPT !.at = "writeBook", !.bookBase = book]]
    BY <1>13 DEF SelectBook, TypeOK
  <2>3. QED
    BY <1>13, <1>1, <2>1, <2>2 DEF SelectBook, DataSame, TypeOK
<1>14. CASE WriteBook(h)
  <2>1. book' \in BookRow
    BY <1>14, SavedBookType DEF WriteBook
  <2>2. QED
    BY <1>14, <1>1, <2>1, FinishType DEF WriteBook
<1>15. QED
  BY <1>2, <1>3, <1>4, <1>5, <1>6, <1>7, <1>8, <1>9, <1>10, <1>11, <1>12, <1>13, <1>14
     DEF Continue, ApplyRefused, DecideRefused, BulkRefused

LEMMA NightlyType ==
  ASSUME TypeOK, Nightly
  PROVE  TypeOK'
<1>1. ASSUME NEW s \in BookStatus
      PROVE  [book EXCEPT !.status = s] \in BookRow
  BY DEF TypeOK, BookRow
<1>2. /\ [book EXCEPT !.status = "in_progress"] \in BookRow
      /\ [book EXCEPT !.status = "completed"] \in BookRow
  BY <1>1 DEF BookStatus
<1>3. QED
  BY <1>2 DEF Nightly, NightlyOpen, NightlyDrawn, NightlyReview, NightlyFailed, NightlyUpdate, TypeOK

\* Every step keeps the types.
LEMMA NextType == TypeOK /\ [Next]_vars => TypeOK'
<1> SUFFICES ASSUME TypeOK, [Next]_vars
             PROVE  TypeOK'
  OBVIOUS
<1>1. ASSUME NEW h \in Handlers, Start(h)
      PROVE  TypeOK'
  BY <1>1, StartFrame, StartType DEF TypeOK
<1>2. ASSUME NEW h \in Handlers, Continue(h)
      PROVE  TypeOK'
  BY <1>2, ContinueType
<1>3. ASSUME NEW g \in Handlers, NEW h \in Handlers, AbortVictim(g, h)
      PROVE  TypeOK'
  BY <1>3, FinishType DEF AbortVictim, DataSame, RestSame, TypeOK
<1>4. CASE Nightly
  BY <1>4, NightlyType
<1>5. CASE Tick
  BY <1>5 DEF Tick, TypeOK
<1>6. CASE UNCHANGED vars
  BY <1>6 DEF vars, TypeOK
<1>7. QED
  BY <1>1, <1>2, <1>3, <1>4, <1>5, <1>6 DEF Next

\* The rows, the clock, the job and every request always have their types.
THEOREM TypeCorrect == Spec => []TypeOK
<1>1. Init => TypeOK
  BY BlankTypes, BooksCreated DEF Init, TypeOK
<1>2. QED
  BY <1>1, NextType, PTL DEF Spec

-----------------------------------------------------------------------------
\* What the entities in flight hold

\* A request that starts loads the book as it is, and an application whose
\* status is the one in its row or one that is not "approved".
Loaded(x) ==
  /\ x.book.avail \in {0, book.avail}
  /\ \A r \in Readers : x.ent[r].status = "approved" => app[r].status = "approved"

Started(h) == (\A g \in Handlers \ {h} : req'[g] = req[g]) /\ Loaded(req'[h])

\* A handler that goes on keeps the book entity, changes it to one with a
\* stock that is not negative, or drops it; its application entities stay or
\* are read again.
Kept(h, x) ==
  /\ x.book.avail = req[h].book.avail \/ x.book.avail >= 0
  /\ \A r \in Readers :
       x.ent[r].status = "approved"
         => req[h].ent[r].status = "approved" \/ app[r].status = "approved"

Moved(h) == (\A g \in Handlers \ {h} : req'[g] = req[g]) /\ Kept(h, req'[h])

LEMMA BeginReq ==
  ASSUME TypeOK, NEW h \in Handlers, NEW kind, NEW x, Loaded(x), Begin(h, kind, x)
  PROVE  Started(h)
BY DEF Begin, TypeOK, Started

LEMMA LoadAppReq ==
  ASSUME TypeOK, NEW h \in Handlers, NEW r \in Readers, NEW kind, NEW status,
         NEW ent \in AppRow, ent.status = "approved" => app[r].status = "approved",
         LoadApp(h, kind, r, status, ent)
  PROVE  Started(h)
<1> DEFINE x == [Idle EXCEPT !.at = "saveApp", !.ids = {r},
                             !.ent = [NoApps EXCEPT ![r] = ent]]
<1>1. Loaded(x)
  BY DEF Loaded, Idle, NoBook, NoApps, NoApp
<1>2. Begin(h, kind, x)
  BY DEF LoadApp
<1> HIDE DEF x
<1>3. QED
  BY <1>1, <1>2, BeginReq

LEMMA StartReq ==
  ASSUME TypeOK, NEW h \in Handlers, Start(h)
  PROVE  Started(h)
<1>1. ASSUME NEW r \in Readers,
             \/ EditMessage(h, r) \/ Withdraw(h, r)
             \/ MarkSent(h, r)    \/ UpdateProgress(h, r)
      PROVE  Started(h)
  <2>1. /\ app[r] \in AppRow
        /\ [app[r] EXCEPT !.status = "withdrawn"] \in AppRow
        /\ [app[r] EXCEPT !.status = "withdrawn"].status # "approved"
        /\ [app[r] EXCEPT !.sent = TRUE] \in AppRow
        /\ [app[r] EXCEPT !.sent = TRUE].status = app[r].status
    BY DEF TypeOK, AppRow, AppStatus
  <2>2. QED
    BY <1>1, <2>1, LoadAppReq DEF EditMessage, Withdraw, MarkSent, UpdateProgress
<1>2. ASSUME NEW r \in Readers, ApplyCheck(h, r)
      PROVE  Started(h)
  <2> DEFINE x == [Idle EXCEPT !.at = "apply", !.ids = {r}]
  <2>1. Loaded(x)
    BY DEF Loaded, Idle, NoBook, NoApps, NoApp
  <2>2. Begin(h, "apply", x)
    BY <1>2 DEF ApplyCheck
  <2> HIDE DEF x
  <2>3. QED
    BY <2>1, <2>2, BeginReq
<1>3. ASSUME NEW r \in Readers, NEW s \in Decisions, DecideCheck(h, r, s)
      PROVE  Started(h)
  <2> DEFINE x == [Idle EXCEPT !.at = "decide", !.ids = {r}, !.status = s]
  <2>1. Loaded(x)
    BY DEF Loaded, Idle, NoBook, NoApps, NoApp
  <2>2. Begin(h, "decide", x)
    BY <1>3 DEF DecideCheck
  <2> HIDE DEF x
  <2>3. QED
    BY <2>1, <2>2, BeginReq
<1>4. ASSUME NEW S \in SUBSET Readers, BulkSentRead(h, S)
      PROVE  Started(h)
  <2> DEFINE x == [Idle EXCEPT !.at = "bulksent", !.ids = S]
  <2>1. Loaded(x)
    BY DEF Loaded, Idle, NoBook, NoApps, NoApp
  <2>2. Begin(h, "bulksent", x)
    BY <1>4 DEF BulkSentRead
  <2> HIDE DEF x
  <2>3. QED
    BY <2>1, <2>2, BeginReq
<1>5. ASSUME NEW S \in SUBSET Readers, NEW s \in Decisions, BulkRead(h, S, s)
      PROVE  Started(h)
  <2> DEFINE x == [Idle EXCEPT !.at = "bulk", !.ids = S, !.status = s, !.ent = Rows(S)]
  <2>1. Loaded(x)
    BY DEF Loaded, Idle, NoBook, Rows, NoApp
  <2>2. Begin(h, "bulk", x)
    BY <1>5 DEF BulkRead
  <2> HIDE DEF x
  <2>3. QED
    BY <2>1, <2>2, BeginReq
<1>6. ASSUME LotteryRead(h)
      PROVE  Started(h)
  <2> DEFINE pending == {r \in Readers : app[r].status = "pending"}
  <2> DEFINE x == [Idle EXCEPT !.at = "lottery", !.ids = pending]
  <2>1. Loaded(x)
    BY DEF Loaded, Idle, NoBook, NoApps, NoApp
  <2>2. Begin(h, "lottery", x)
    BY <1>6 DEF LotteryRead
  <2> HIDE DEF x
  <2>3. QED
    BY <2>1, <2>2, BeginReq
<1>7. ASSUME NEW e \in Edits, EditLoad(h, e)
      PROVE  Started(h)
  <2> DEFINE x == [Idle EXCEPT !.at = "edit", !.book = book, !.edit = e]
  <2>1. Loaded(x)
    BY DEF Loaded, Idle, NoApps, NoApp
  <2>2. Begin(h, "edit", x)
    BY <1>7 DEF EditLoad
  <2> HIDE DEF x
  <2>3. QED
    BY <2>1, <2>2, BeginReq
<1>8. ASSUME Publish(h)
      PROVE  Started(h)
  <2> DEFINE x == [Idle EXCEPT !.at = "saveBook", !.book = [book EXCEPT !.status = "active"]]
  <2>1. Loaded(x)
    BY DEF Loaded, Idle, NoApps, NoApp, TypeOK, BookRow
  <2>2. Begin(h, "publish", x)
    BY <1>8 DEF Publish
  <2> HIDE DEF x
  <2>3. QED
    BY <2>1, <2>2, BeginReq
<1>9. QED
  BY <1>1, <1>2, <1>3, <1>4, <1>5, <1>6, <1>7, <1>8 DEF Start

LEMMA MoveReq ==
  ASSUME TypeOK, NEW h \in Handlers, NEW x, Kept(h, x), req' = [req EXCEPT ![h] = x]
  PROVE  Moved(h)
BY DEF TypeOK, Moved

LEMMA FinishReq ==
  ASSUME TypeOK, NEW h \in Handlers, Finish(h)
  PROVE  Moved(h)
<1>1. Kept(h, Idle)
  BY DEF Kept, Idle, NoApps, NoApp, NoBook
<1>2. QED
  BY <1>1, MoveReq DEF Finish

LEMMA ContinueReq ==
  ASSUME TypeOK, NEW h \in Handlers, Continue(h)
  PROVE  Moved(h)
<1>1. req[h] \in Request
  BY DEF TypeOK
<1>2. CASE DecideLock(h) \/ DecideTx(h)
  <2>1. PICK stage \in Stages : GoTo(h, stage)
    BY <1>2 DEF DecideLock, DecideTx, Stages
  <2> DEFINE x == [req[h] EXCEPT !.at = stage]
  <2>2. Kept(h, x)
    BY <1>1 DEF Kept, Request
  <2>3. req' = [req EXCEPT ![h] = x]
    BY <2>1 DEF GoTo, TypeOK
  <2> HIDE DEF x
  <2>4. QED
    BY <2>2, <2>3, MoveReq
<1>3. ASSUME NEW mark \in BOOLEAN, DecideReload(h, mark)
      PROVE  Moved(h)
  <2> DEFINE ents == [r \in Readers |-> IF r \in req[h].ids /\ mark
                                        THEN [app[r] EXCEPT !.sent = TRUE]
                                        ELSE Rows(req[h].ids)[r]]
  <2> DEFINE x == [req[h] EXCEPT !.at = "saveApp", !.ent = ents]
  <2>1. \A r \in Readers : ents[r].status = "approved" => app[r].status = "approved"
    BY DEF Rows, NoApp, TypeOK, AppRow
  <2>2. Finish(h) \/ req' = [req EXCEPT ![h] = x]
    BY <1>3 DEF DecideReload, TypeOK
  <2> HIDE DEF ents
  <2>3. x.ent = ents /\ x.book = req[h].book
    BY <1>1 DEF Request
  <2>4. Kept(h, x)
    BY <2>1, <2>3 DEF Kept
  <2> HIDE DEF x
  <2>5. QED
    BY <2>2, <2>4, MoveReq, FinishReq
<1>4. CASE SelectApp(h)
  <2> DEFINE x == [req[h] EXCEPT !.at = "writeApp", !.base = Rows(req[h].ids)]
  <2>1. Kept(h, x)
    BY <1>1 DEF Kept, Request
  <2>2. req' = [req EXCEPT ![h] = x]
    BY <1>4 DEF SelectApp, TypeOK
  <2> HIDE DEF x
  <2>3. QED
    BY <2>1, <2>2, MoveReq
<1>5. CASE SelectBook(h)
  <2> DEFINE x == [req[h] EXCEPT !.at = "writeBook", !.bookBase = book]
  <2>1. Kept(h, x)
    BY <1>1 DEF Kept, Request
  <2>2. req' = [req EXCEPT ![h] = x]
    BY <1>5 DEF SelectBook, TypeOK
  <2> HIDE DEF x
  <2>3. QED
    BY <2>1, <2>2, MoveReq
<1>6. CASE EditChange(h)
  <2> DEFINE new == Edited(req[h].book, req[h].edit, Cardinality(Approved))
  <2> DEFINE x == [req[h] EXCEPT !.at = "saveBook", !.book = new]
  <2>1. Finish(h) \/ (new.avail >= 0 /\ req' = [req EXCEPT ![h] = x])
    BY <1>6 DEF EditChange, EditAccepted, TypeOK
  <2> HIDE DEF new
  <2>2. new.avail >= 0 => Kept(h, x)
    BY <1>1 DEF Kept, Request
  <2> HIDE DEF x
  <2>3. QED
    BY <2>1, <2>2, MoveReq, FinishReq
<1>7. CASE \/ ApplyInsert(h) \/ ApplyRefused(h) \/ DecideRefused(h) \/ WriteApp(h)
           \/ BulkSentWrite(h) \/ BulkWrite(h) \/ BulkRefused(h) \/ LotteryDraw(h)
           \/ WriteBook(h)
  <2>1. Finish(h)
    BY <1>7 DEF ApplyInsert, ApplyRefused, DecideRefused, WriteApp, BulkSentWrite,
                BulkWrite, BulkRefused, LotteryDraw, WriteBook
  <2>2. QED
    BY <2>1, FinishReq
<1>8. QED
  BY <1>2, <1>3, <1>4, <1>5, <1>6, <1>7 DEF Continue

-----------------------------------------------------------------------------
\* The stock is never negative

\* Only these statements change the book.
LEMMA ContinueBook ==
  ASSUME TypeOK, StockInv, NEW h \in Handlers, Continue(h)
  PROVE  book'.avail >= 0
<1> book \in BookRow /\ book.avail \in Int /\ book.avail >= 0
  BY DEF TypeOK, BookRow, StockInv, NeverOversold
<1>1. ASSUME NEW n \in Nat, CanReserve(book, n)
      PROVE  Reserve(book, n).avail >= 0
  BY <1>1, ReserveAvail DEF CanReserve
<1>2. CASE ApplyInsert(h)
  BY <1>1, <1>2 DEF ApplyInsert
<1>3. CASE DecideTx(h)
  BY <1>1, <1>3 DEF DecideTx, MayDecide
<1>4. CASE BulkWrite(h)
  BY <1>1, <1>4, InFlight DEF BulkWrite
<1>5. CASE LotteryDraw(h)
  <2>1. PICK W \in Winners(req[h].ids, book.avail) :
          book' = IF book.status = "active"
                  THEN [book EXCEPT !.drawn = TRUE, !.status = "in_progress"]
                  ELSE [(IF W = {} THEN book ELSE Reserve(book, Cardinality(W)))
                          EXCEPT !.drawn = TRUE]
    BY <1>5 DEF LotteryDraw
  <2>2. Cardinality(W) \in Nat /\ CanReserve(book, Cardinality(W))
    BY InFlight, IdsFinite DEF Winners, CanReserve
  <2> DEFINE reserved == IF W = {} THEN book ELSE Reserve(book, Cardinality(W))
  <2>3. reserved.avail >= 0 /\ reserved \in BookRow
    BY <1>1, <2>2, ReserveType
  <2>4. book' = IF book.status = "active"
                THEN [book EXCEPT !.drawn = TRUE, !.status = "in_progress"]
                ELSE [reserved EXCEPT !.drawn = TRUE]
    BY <2>1
  <2> HIDE DEF reserved
  <2>5. QED
    BY <2>3, <2>4 DEF BookRow
<1>6. CASE WriteBook(h)
  BY <1>6 DEF WriteBook, SavedBook, Column, StockInv
<1>7. QED
  BY <1>2, <1>3, <1>4, <1>5, <1>6
     DEF Continue, ApplyRefused, DecideLock, DecideRefused, DecideReload, SelectApp,
         WriteApp, BulkSentWrite, BulkRefused, EditChange, SelectBook, DataSame

\* Every step keeps the stock and the stock of the entities in flight.
LEMMA StockStep == TypeOK /\ StockInv /\ [Next]_vars => StockInv'
<1> SUFFICES ASSUME TypeOK, StockInv, [Next]_vars
             PROVE  StockInv'
  OBVIOUS
<1> book \in BookRow /\ book.avail \in Int /\ book.avail >= 0
  BY DEF TypeOK, BookRow, StockInv, NeverOversold
<1>1. ASSUME NEW h \in Handlers, Start(h)
      PROVE  StockInv'
  BY <1>1, StartReq, StartFrame DEF Started, Loaded, StockInv, NeverOversold
<1>2. ASSUME NEW h \in Handlers, Continue(h)
      PROVE  StockInv'
  BY <1>2, ContinueReq, ContinueBook DEF Moved, Kept, StockInv, NeverOversold
<1>3. ASSUME NEW g \in Handlers, NEW h \in Handlers, AbortVictim(g, h)
      PROVE  StockInv'
  BY <1>3, FinishReq DEF AbortVictim, DataSame, Moved, Kept, StockInv, NeverOversold
<1>4. CASE Nightly
  BY <1>4 DEF Nightly, NightlyOpen, NightlyDrawn, NightlyReview, NightlyFailed, NightlyUpdate,
              StockInv, NeverOversold, BookRow
<1>5. CASE Tick \/ UNCHANGED vars
  BY <1>5 DEF Tick, vars, StockInv, NeverOversold
<1>6. QED
  BY <1>1, <1>2, <1>3, <1>4, <1>5 DEF Next

\* However requests, draws, edits with stale entities and the nightly job
\* interleave, the count of copies left is never negative.
THEOREM StockNeverNegative == Spec => []NeverOversold
<1>1. Init => StockInv
  BY BooksCreated DEF Init, StockInv, NeverOversold, Idle, NoBook
<1>2. StockInv => NeverOversold
  BY DEF StockInv
<1>3. QED
  BY <1>1, <1>2, StockStep, TypeCorrect, PTL DEF Spec

-----------------------------------------------------------------------------
\* Approvals are backed by reservations

\* The history of grants only grows.
LEMMA GrantedGrows ==
  ASSUME NEW h \in Handlers, Continue(h)
  PROVE  granted \subseteq granted'
BY DEF Continue, ApplyInsert, ApplyRefused, DecideLock, DecideTx, DecideRefused,
       DecideReload, SelectApp, WriteApp, BulkSentWrite, BulkWrite, BulkRefused,
       LotteryDraw, EditChange, SelectBook, WriteBook, DataSame

\* A handler that answers, inserts or saves applications approves only
\* readers it has just reserved a copy for, or who were granted one before.
LEMMA ContinueApp ==
  ASSUME TypeOK, GrantInv, NEW h \in Handlers, Continue(h)
  PROVE  ApprovedWasGranted'
<1> USE InFlight
<1> app \in [Readers -> AppRow]
  BY DEF TypeOK
<1>0. \A r \in Readers : app[r].status = "approved" => r \in granted
  BY DEF GrantInv, ApprovedWasGranted, Approved
<1>1. SUFFICES ASSUME NEW r \in Readers, app'[r].status = "approved"
               PROVE  r \in granted'
  BY DEF ApprovedWasGranted, Approved
<1>2. CASE app' = app
  BY <1>0, <1>1, <1>2, GrantedGrows
<1>3. CASE ApplyInsert(h)
  BY <1>0, <1>1, <1>3 DEF ApplyInsert
<1>4. CASE DecideTx(h)
  BY <1>0, <1>1, <1>4 DEF DecideTx, Answered
<1>5. CASE WriteApp(h)
  BY <1>0, <1>1, <1>5 DEF WriteApp, SavedApp, Column, GrantInv
<1>6. CASE BulkSentWrite(h)
  BY <1>0, <1>1, <1>6 DEF BulkSentWrite, AppRow
<1>7. CASE BulkWrite(h)
  BY <1>0, <1>1, <1>7 DEF BulkWrite, Answered
<1>8. CASE LotteryDraw(h)
  BY <1>0, <1>1, <1>8 DEF LotteryDraw, Answered
<1>9. QED
  BY <1>2, <1>3, <1>4, <1>5, <1>6, <1>7, <1>8
     DEF Continue, ApplyRefused, DecideLock, DecideRefused, DecideReload, SelectApp,
         BulkRefused, EditChange, SelectBook, WriteBook, DataSame

\* Every step keeps approvals, and entities that could write one back, backed.
LEMMA GrantStep == TypeOK /\ GrantInv /\ [Next]_vars => GrantInv'
<1> SUFFICES ASSUME TypeOK, GrantInv, [Next]_vars
             PROVE  GrantInv'
  OBVIOUS
<1>0. \A r \in Readers : app[r].status = "approved" => r \in granted
  BY DEF GrantInv, ApprovedWasGranted, Approved
<1>1. ASSUME NEW h \in Handlers, Start(h)
      PROVE  GrantInv'
  BY <1>0, <1>1, StartReq, StartFrame
     DEF Started, Loaded, GrantInv, ApprovedWasGranted, Approved
<1>2. ASSUME NEW h \in Handlers, Continue(h)
      PROVE  GrantInv'
  BY <1>0, <1>2, ContinueReq, ContinueApp, GrantedGrows DEF Moved, Kept, GrantInv
<1>3. ASSUME NEW g \in Handlers, NEW h \in Handlers, AbortVictim(g, h)
      PROVE  GrantInv'
  BY <1>0, <1>3, FinishReq
     DEF AbortVictim, DataSame, Moved, Kept, GrantInv, ApprovedWasGranted, Approved
<1>4. CASE Nightly
  BY <1>4 DEF Nightly, NightlyOpen, NightlyDrawn, NightlyReview, NightlyFailed, NightlyUpdate,
              GrantInv, ApprovedWasGranted, Approved
<1>5. CASE Tick \/ UNCHANGED vars
  BY <1>5 DEF Tick, vars, GrantInv, ApprovedWasGranted, Approved
<1>6. QED
  BY <1>1, <1>2, <1>3, <1>4, <1>5 DEF Next

\* An application is approved only if a copy was reserved for it at some
\* time, whatever stale saves of applications and books happen in between.
THEOREM ApprovalsReserved == Spec => []ApprovedWasGranted
<1>1. Init => GrantInv
  BY DEF Init, GrantInv, ApprovedWasGranted, Approved, NoApps, NoApp, Idle
<1>2. GrantInv => ApprovedWasGranted
  BY DEF GrantInv
<1>3. QED
  BY <1>1, <1>2, GrantStep, TypeCorrect, PTL DEF Spec

-----------------------------------------------------------------------------
\* Approved applications and copies, when no request saves the book

\* What LedgerInv says of one request.
LedgerReq(x) ==
  /\ x.at \notin {"edit", "saveBook", "writeBook", "lottery"}
  /\ x.at \in {"decide", "decideBook"} => Cardinality(x.ids) = 1

\* Requests that do not save the book start and go on without doing so.
LEMMA StartLedger ==
  ASSUME TypeOK, Requests \cap BookSaves = {}, NEW h \in Handlers, Start(h)
  PROVE  LedgerReq(req'[h])
<1>1. ASSUME NEW kind, NEW x, Begin(h, kind, x), LedgerReq(x)
      PROVE  LedgerReq(req'[h])
  BY <1>1 DEF Begin, TypeOK
<1>2. ASSUME NEW kind, NEW x, Begin(h, kind, x)
      PROVE  kind \notin BookSaves /\ req'[h] = x
  BY <1>2 DEF Begin, TypeOK
<1>3. ASSUME NEW r \in Readers, NEW s \in Decisions, DecideCheck(h, r, s)
      PROVE  LedgerReq(req'[h])
  <2>1. Cardinality({r}) = 1
    BY FS_Singleton
  <2>2. req'[h].at = "decide" /\ req'[h].ids = {r}
    BY <1>3 DEF DecideCheck, Begin, Idle, TypeOK
  <2>3. QED
    BY <2>1, <2>2 DEF LedgerReq
<1>4. ASSUME NEW r \in Readers,
             \/ ApplyCheck(h, r) \/ EditMessage(h, r) \/ Withdraw(h, r)
             \/ MarkSent(h, r)   \/ UpdateProgress(h, r)
      PROVE  LedgerReq(req'[h])
  <2>1. req'[h].at \in {"apply", "saveApp"}
    BY <1>4 DEF ApplyCheck, EditMessage, Withdraw, MarkSent, UpdateProgress, LoadApp,
                Begin, Idle, TypeOK
  <2>2. QED
    BY <2>1 DEF LedgerReq
<1>5. ASSUME NEW S \in SUBSET Readers, \/ BulkSentRead(h, S)
                                       \/ \E s \in Decisions : BulkRead(h, S, s)
      PROVE  LedgerReq(req'[h])
  <2>1. req'[h].at \in {"bulk", "bulksent"}
    BY <1>5 DEF BulkSentRead, BulkRead, Begin, Idle, TypeOK
  <2>2. QED
    BY <2>1 DEF LedgerReq
<1>6. ~LotteryRead(h) /\ ~Publish(h) /\ \A e \in Edits : ~EditLoad(h, e)
  BY DEF LotteryRead, Publish, EditLoad, Begin, BookSaves
<1>7. QED
  BY <1>3, <1>4, <1>5, <1>6 DEF Start

LEMMA NoBookSave ==
  ASSUME LedgerInv, NEW h \in Handlers
  PROVE  ~LotteryDraw(h) /\ ~EditChange(h) /\ ~SelectBook(h) /\ ~WriteBook(h)
BY DEF LedgerInv, LotteryDraw, EditChange, SelectBook, WriteBook

LEMMA ContinueLedger ==
  ASSUME TypeOK, LedgerInv, NEW h \in Handlers, Continue(h)
  PROVE  LedgerReq(req'[h])
<1>1. LedgerReq(req[h]) /\ req[h] \in Request
  BY DEF TypeOK, LedgerInv, LedgerReq
<1>2. ASSUME Finish(h)
      PROVE  LedgerReq(req'[h])
  BY <1>2 DEF Finish, TypeOK, LedgerReq, Idle
<1>3. CASE DecideLock(h)
  BY <1>1, <1>3 DEF DecideLock, GoTo, TypeOK, LedgerReq, Request
<1>4. CASE DecideTx(h)
  BY <1>1, <1>4 DEF DecideTx, GoTo, TypeOK, LedgerReq, Request
<1>5. ASSUME NEW mark \in BOOLEAN, DecideReload(h, mark)
      PROVE  LedgerReq(req'[h])
  <2>1. Finish(h) \/ req'[h].at = "saveApp"
    BY <1>1, <1>5 DEF DecideReload, TypeOK, Request
  <2>2. QED
    BY <1>2, <2>1 DEF LedgerReq
<1>6. CASE SelectApp(h)
  BY <1>1, <1>6 DEF SelectApp, TypeOK, LedgerReq, Request
<1>7. CASE \/ ApplyInsert(h) \/ ApplyRefused(h) \/ DecideRefused(h) \/ WriteApp(h)
           \/ BulkSentWrite(h) \/ BulkWrite(h) \/ BulkRefused(h)
  BY <1>2, <1>7 DEF ApplyInsert, ApplyRefused, DecideRefused, WriteApp, BulkSentWrite,
                    BulkWrite, BulkRefused
<1>8. QED
  BY <1>3, <1>4, <1>5, <1>6, <1>7, NoBookSave DEF Continue

\* A step of a handler that does not save the book promises copies to a set
\* of readers, or leaves stock and grants alone.
Promised(S) ==
  /\ Cardinality(S) <= book.avail
  /\ book'.avail = book.avail - Cardinality(S)
  /\ granted' = granted \cup S
  /\ Approved' = Approved \cup S

LEMMA ContinuePromise ==
  ASSUME TypeOK, LedgerInv, NEW h \in Handlers, Continue(h)
  PROVE  /\ book'.total = book.total
         /\ \/ \E S \in SUBSET Readers : Promised(S)
            \/ book'.avail = book.avail /\ granted' = granted
<1> USE InFlight
<1> book \in BookRow /\ app \in [Readers -> AppRow]
  BY DEF TypeOK
<1>1. CASE ApplyInsert(h)
  <2>1. PICK r \in req[h].ids :
          LET auto == book.method = "first_come" /\ CanReserve(book, 1)
          IN  /\ app' = [app EXCEPT ![r] =
                           [status    |-> IF auto THEN "approved" ELSE "pending",
                            responded |-> auto,
                            sent      |-> auto /\ book.digital]]
              /\ book' = IF auto THEN Reserve(book, 1) ELSE book
              /\ granted' = IF auto THEN granted \cup {r} ELSE granted
    BY <1>1 DEF ApplyInsert
  <2>2. CASE book.method = "first_come" /\ CanReserve(book, 1)
    <3>1. Cardinality({r}) = 1 /\ {r} \in SUBSET Readers
      BY FS_Singleton
    <3>2. Reserve(book, 1).avail = book.avail - 1 /\ Reserve(book, 1).total = book.total
      BY ReserveAvail
    <3>3. Approved' = Approved \cup {r}
      BY <2>1, <2>2 DEF Approved
    <3>4. Promised({r}) /\ book'.total = book.total
      BY <2>1, <2>2, <3>1, <3>2, <3>3 DEF Promised, CanReserve
    <3>5. QED
      BY <3>1, <3>4
  <2>3. CASE ~(book.method = "first_come" /\ CanReserve(book, 1))
    BY <2>1, <2>3
  <2>4. QED
    BY <2>2, <2>3
<1>2. CASE DecideTx(h)
  <2>1. CASE req[h].status = "approved"
    <3>1. Cardinality(req[h].ids) = 1
      BY <1>2 DEF DecideTx, LedgerInv
    <3>2. Reserve(book, 1).avail = book.avail - 1 /\ Reserve(book, 1).total = book.total
      BY ReserveAvail
    <3>3. Approved' = Approved \cup req[h].ids
      BY <1>2, <2>1 DEF DecideTx, Approved, Answered
    <3>4. Promised(req[h].ids) /\ book'.total = book.total
      BY <1>2, <2>1, <3>1, <3>2, <3>3 DEF DecideTx, MayDecide, CanReserve, Promised
    <3>5. QED
      BY <3>4
  <2>2. CASE req[h].status # "approved"
    BY <1>2, <2>2 DEF DecideTx
  <2>3. QED
    BY <2>1, <2>2
<1>3. CASE BulkWrite(h)
  <2>1. CASE req[h].status = "approved"
    <3> DEFINE n == Cardinality(req[h].ids)
    <3>1. Reserve(book, n).avail = book.avail - n /\ Reserve(book, n).total = book.total
      BY ReserveAvail
    <3>2. Approved' = Approved \cup req[h].ids
      BY <1>3, <2>1 DEF BulkWrite, Approved, Answered
    <3>3. Promised(req[h].ids) /\ book'.total = book.total
      BY <1>3, <2>1, <3>1, <3>2 DEF BulkWrite, CanReserve, Promised
    <3>4. QED
      BY <3>3
  <2>2. CASE req[h].status # "approved"
    BY <1>3, <2>2 DEF BulkWrite
  <2>3. QED
    BY <2>1, <2>2
<1>4. CASE UNCHANGED <<book, granted>>
  BY <1>4
<1>5. QED
  BY <1>1, <1>2, <1>3, <1>4, NoBookSave
     DEF Continue, ApplyRefused, DecideLock, DecideRefused, DecideReload, SelectApp,
         WriteApp, BulkSentWrite, BulkRefused, DataSame

\* Every step keeps the count of grants within the copies of the book.
LEMMA LedgerStep ==
  ASSUME Requests \cap BookSaves = {}, TypeOK, LedgerInv, [Next]_vars
  PROVE  LedgerInv'
<1>1. GrantInv'
  BY GrantStep DEF LedgerInv
<1>2. LedgerReq(Idle) /\ \A h \in Handlers : LedgerReq(req[h])
  BY DEF LedgerInv, LedgerReq, Idle
<1>3. book \in BookRow /\ granted \in SUBSET Readers
  BY DEF TypeOK
<1>4. IsFiniteSet(granted) /\ Cardinality(granted) \in Nat
  BY <1>3, IdsFinite
<1>5. ASSUME UNCHANGED granted, book'.avail = book.avail, book'.total = book.total,
             \A h \in Handlers : LedgerReq(req'[h])
      PROVE  LedgerInv'
  BY <1>1, <1>5 DEF LedgerInv, LedgerReq
<1>6. ASSUME NEW h \in Handlers, Start(h)
      PROVE  LedgerInv'
  <2>1. \A g \in Handlers : LedgerReq(req'[g])
    BY <1>2, <1>6, StartReq, StartLedger DEF Started
  <2>2. QED
    BY <1>5, <1>6, <2>1, StartFrame
<1>7. ASSUME NEW h \in Handlers, Continue(h)
      PROVE  LedgerInv'
  <2>1. \A g \in Handlers : LedgerReq(req'[g])
    BY <1>2, <1>7, ContinueReq, ContinueLedger DEF Moved
  <2>2. ASSUME NEW S \in SUBSET Readers, Promised(S), book'.total = book.total
        PROVE  LedgerInv'
    <3>1. IsFiniteSet(S) /\ Cardinality(S) \in Nat
      BY IdsFinite
    <3>2. /\ Cardinality(granted \cup S) \in Nat
          /\ Cardinality(granted \cup S) <= Cardinality(granted) + Cardinality(S)
      <4>1. /\ IsFiniteSet(granted \cup S)
            /\ Cardinality(granted \cup S)
                 = Cardinality(granted) + Cardinality(S) - Cardinality(granted \cap S)
        BY <1>4, <3>1, FS_Union
      <4>2. Cardinality(granted \cap S) \in Nat
        BY <1>3, IdsFinite, (granted \cap S) \in SUBSET Readers
      <4>3. Cardinality(granted \cup S) \in Nat
        BY <4>1, FS_CardinalityType
      <4>4. QED
        BY <1>4, <3>1, <4>1, <4>2, <4>3
    <3>3. Cardinality(granted') + book'.avail <= book'.total
      BY <1>3, <1>4, <2>2, <3>1, <3>2 DEF Promised, LedgerInv, BookRow
    <3>4. QED
      BY <1>1, <2>1, <3>3 DEF LedgerInv, LedgerReq
  <2>3. QED
    BY <1>5, <1>7, <2>1, <2>2, ContinuePromise
<1>8. ASSUME NEW g \in Handlers, NEW h \in Handlers, AbortVictim(g, h)
      PROVE  LedgerInv'
  <2>1. \A i \in Handlers : LedgerReq(req'[i])
    BY <1>2, <1>8 DEF AbortVictim, Finish, TypeOK
  <2>2. QED
    BY <1>5, <1>8, <2>1 DEF AbortVictim, DataSame
<1>9. CASE Nightly
  BY <1>2, <1>3, <1>5, <1>9
     DEF Nightly, NightlyOpen, NightlyDrawn, NightlyReview, NightlyFailed, NightlyUpdate, BookRow
<1>10. CASE Tick \/ UNCHANGED vars
  BY <1>2, <1>5, <1>10 DEF Tick, vars
<1>11. QED
  BY <1>6, <1>7, <1>8, <1>9, <1>10 DEF Next

LEMMA LedgerInit == Init => LedgerInv
<1> SUFFICES ASSUME Init
             PROVE  LedgerInv
  OBVIOUS
<1>1. Cardinality({}) = 0
  BY FS_EmptySet
<1>2. GrantInv
  BY DEF Init, GrantInv, ApprovedWasGranted, Approved, NoApps, NoApp, Idle
<1>3. book \in BookRow /\ book.avail <= book.total
  BY BooksCreated DEF Init
<1>4. QED
  BY <1>1, <1>2, <1>3 DEF Init, LedgerInv, Idle, BookRow

\* The invariant keeps the promise.
LEMMA LedgerPromise == TypeOK /\ LedgerInv => NoOverPromise
<1> SUFFICES ASSUME TypeOK, LedgerInv
             PROVE  NoOverPromise
  OBVIOUS
<1>1. Approved \subseteq granted /\ IsFiniteSet(granted) /\ Cardinality(granted) \in Nat
  BY IdsFinite, granted \in SUBSET Readers DEF TypeOK, LedgerInv, GrantInv, ApprovedWasGranted
<1>2. Cardinality(Approved) \in Nat /\ Cardinality(Approved) <= Cardinality(granted)
  BY <1>1, FS_Subset, FS_CardinalityType
<1>3. QED
  BY <1>1, <1>2 DEF LedgerInv, NoOverPromise, TypeOK, BookRow

\* When no request saves the book, approved applications and offered copies
\* together never exceed the copies of the book.
THEOREM PromiseKept ==
  ASSUME Requests \cap BookSaves = {}
  PROVE  Spec => []NoOverPromise
<1>1. TypeOK /\ LedgerInv /\ [Next]_vars => LedgerInv'
  BY LedgerStep
<1>2. QED
  BY <1>1, LedgerInit, LedgerPromise, TypeCorrect, PTL DEF Spec

\* A step that leaves stock and grants alone announces, or does nothing.
LEMMA AnnounceStep ==
  ASSUME GrantInv', book'.avail = book.avail, granted' = granted
  PROVE  Ledger!Next
BY DEF Ledger!Next, Ledger!Announce, GrantInv, ApprovedWasGranted

\* Every step of the requests is a step of the abstract ledger.
LEMMA LedgerNext ==
  ASSUME Requests \cap BookSaves = {}, TypeOK, LedgerInv, [Next]_vars
  PROVE  [Ledger!Next]_(Ledger!vars)
<1>1. GrantInv'
  BY LedgerStep DEF LedgerInv
<1>2. ASSUME NEW h \in Handlers, Start(h)
      PROVE  Ledger!Next
  BY <1>1, <1>2, StartFrame, AnnounceStep
<1>3. ASSUME NEW h \in Handlers, Continue(h)
      PROVE  Ledger!Next
  <2>1. ASSUME NEW S \in SUBSET Readers, Promised(S), S # {}
        PROVE  Ledger!Next
    BY <2>1 DEF Promised, Ledger!Next, Ledger!Promise, Cardinality,
                Ledger!Cardinality
  <2>2. ASSUME Promised({})
        PROVE  Ledger!Next
    <3>1. book.avail \in Int /\ Cardinality({}) = 0
      BY FS_EmptySet DEF TypeOK, BookRow
    <3>2. QED
      BY <1>1, <2>2, <3>1, AnnounceStep DEF Promised
  <2>3. QED
    BY <1>1, <1>3, <2>1, <2>2, ContinuePromise, AnnounceStep
<1>4. ASSUME NEW g \in Handlers, NEW h \in Handlers, AbortVictim(g, h)
      PROVE  Ledger!Next
  BY <1>1, <1>4, AnnounceStep DEF AbortVictim, DataSame
<1>5. CASE Nightly
  <2>1. book'.avail = book.avail /\ granted' = granted
    BY <1>5 DEF Nightly, NightlyOpen, NightlyDrawn, NightlyReview, NightlyFailed, NightlyUpdate,
                TypeOK, BookRow
  <2>2. QED
    BY <1>1, <2>1, AnnounceStep
<1>6. CASE Tick \/ UNCHANGED vars
  BY <1>1, <1>6, AnnounceStep DEF Tick, vars
<1>7. QED
  BY <1>2, <1>3, <1>4, <1>5, <1>6 DEF Next

\* When no request saves the book, the handlers implement the abstract ledger:
\* copies leave the stock only with a grant to their readers, and nobody is
\* approved who was not granted a copy.
THEOREM LedgerRefined ==
  ASSUME Requests \cap BookSaves = {}
  PROVE  Spec => LedgerSpec
<1>1. Init => Ledger!Init
  BY BooksCreated DEF Init, Ledger!Init, BookRow, Approved, NoApps, NoApp
<1>2. TypeOK /\ LedgerInv /\ [Next]_vars => LedgerInv'
  BY LedgerStep
<1>3. TypeOK /\ LedgerInv /\ [Next]_vars => [Ledger!Next]_(Ledger!vars)
  BY LedgerNext
<1>4. QED
  BY <1>1, <1>2, <1>3, LedgerInit, TypeCorrect, PTL DEF Spec, LedgerSpec, Ledger!Spec

-----------------------------------------------------------------------------
\* Answers stand, when readers neither withdraw nor edit their message

Final == {"approved", "rejected", "withdrawn"}

\* Authors approve and reject; "pending" is a decision the DTO lets through.
AnswersOnly == Requests \cap {"withdraw", "message"} = {} /\ Decisions \subseteq {"approved", "rejected"}

Holding(x) == x.at \in {"bulk", "lottery"}

\* What a request in flight knows about the rows of its applications
FinalReq(x) ==
  /\ x.at = "reload" => \A r \in x.ids : app[r].status \in Final
  /\ x.at \in {"saveApp", "writeApp"} =>
       \A r \in x.ids : app[r].status \in Final /\ x.ent[r].status = app[r].status
  /\ Holding(x) => \A r \in x.ids : app[r].status = "pending"
  /\ x.at \in {"decide", "decideBook", "bulk"} => x.status \in {"approved", "rejected"}
  /\ x.at \in {"decide", "decideBook"} => Cardinality(x.ids) = 1

\* What makes AnswerIsFinal inductive: what was read as pending under the lock
\* of the book stays so, and the entities to be saved agree with their rows.
FinalInv ==
  /\ \A g, h \in Handlers : Holding(req[g]) /\ Holding(req[h]) => g = h
  /\ \A h \in Handlers : FinalReq(req[h])

LEMMA IdleFinal == FinalReq(Idle) /\ ~Holding(Idle)
BY DEF FinalReq, Holding, Idle

LEMMA StartFinal ==
  ASSUME AnswersOnly, TypeOK, NEW h \in Handlers, Start(h)
  PROVE  /\ FinalReq(req'[h])
         /\ Holding(req'[h]) => \A g \in Handlers : ~Holding(req[g])
<1>1. \A r \in Readers : ~EditMessage(h, r) /\ ~Withdraw(h, r)
  BY DEF EditMessage, Withdraw, LoadApp, Begin, AnswersOnly
<1>2. ASSUME NEW r \in Readers, ApplyCheck(h, r)
      PROVE  req'[h].at = "apply"
  BY <1>2 DEF ApplyCheck, Begin, Idle, TypeOK
<1>3. ASSUME NEW r \in Readers, MarkSent(h, r) \/ UpdateProgress(h, r)
      PROVE  FinalReq(req'[h]) /\ ~Holding(req'[h])
  <2>1. PICK ent : ent.status = "approved" /\ app[r].status = "approved"
                   /\ req'[h] = [Idle EXCEPT !.at = "saveApp", !.ids = {r},
                                             !.ent = [NoApps EXCEPT ![r] = ent]]
    <3>1. [app[r] EXCEPT !.sent = TRUE].status = app[r].status
      BY DEF TypeOK, AppRow
    <3>2. QED
      BY <1>3, <3>1 DEF MarkSent, UpdateProgress, LoadApp, Begin, TypeOK
  <2>2. req'[h].at = "saveApp" /\ req'[h].ids = {r} /\ req'[h].ent[r] = ent
    BY <2>1 DEF Idle, NoApps
  <2>3. QED
    BY <2>1, <2>2 DEF FinalReq, Holding, Final
<1>4. ASSUME NEW r \in Readers, NEW s \in Decisions, DecideCheck(h, r, s)
      PROVE  FinalReq(req'[h]) /\ ~Holding(req'[h])
  <2>1. req'[h].at = "decide" /\ req'[h].ids = {r} /\ req'[h].status = s
    BY <1>4 DEF DecideCheck, Begin, Idle, TypeOK
  <2>2. Cardinality({r}) = 1
    BY FS_Singleton
  <2>3. QED
    BY <2>1, <2>2 DEF FinalReq, Holding, AnswersOnly
<1>5. ASSUME NEW S, BulkSentRead(h, S)
      PROVE  req'[h].at = "bulksent"
  BY <1>5 DEF BulkSentRead, Begin, Idle, TypeOK
<1>6. ASSUME NEW S, NEW s \in Decisions, BulkRead(h, S, s)
      PROVE  FinalReq(req'[h]) /\ \A g \in Handlers : ~Holding(req[g])
  <2>1. req'[h].at = "bulk" /\ req'[h].ids = S /\ req'[h].status = s
    BY <1>6 DEF BulkRead, Begin, Idle, TypeOK
  <2>2. QED
    BY <1>6, <2>1 DEF BulkRead, FinalReq, Holding, AnswersOnly, BookLocked
<1>7. ASSUME LotteryRead(h)
      PROVE  FinalReq(req'[h]) /\ \A g \in Handlers : ~Holding(req[g])
  <2>1. req'[h].at = "lottery" /\ req'[h].ids = {r \in Readers : app[r].status = "pending"}
    BY <1>7 DEF LotteryRead, Begin, Idle, TypeOK
  <2>2. QED
    BY <1>7, <2>1 DEF LotteryRead, FinalReq, Holding, BookLocked
<1>8. ASSUME NEW e, EditLoad(h, e)
      PROVE  req'[h].at = "edit"
  BY <1>8 DEF EditLoad, Begin, Idle, TypeOK
<1>9. ASSUME Publish(h)
       PROVE  req'[h].at = "saveBook"
  BY <1>9 DEF Publish, Begin, Idle, TypeOK
<1>10. req'[h].at \in {"apply", "bulksent", "edit", "saveBook"} => FinalReq(req'[h]) /\ ~Holding(req'[h])
  BY DEF FinalReq, Holding
<1>11. QED
  BY <1>1, <1>2, <1>3, <1>4, <1>5, <1>6, <1>7, <1>8, <1>9, <1>10 DEF Start

\* What a handler may do to the status of the applications: answers stay, and
\* so does what another one read under the lock of the book.
Answers(h) ==
  /\ \A r \in Readers : app[r].status \in Final => app'[r].status = app[r].status
  /\ \A g \in Handlers : g # h /\ Holding(req[g]) =>
       \A r \in req[g].ids : app'[r].status = app[r].status

LEMMA ContinueAnswers ==
  ASSUME TypeOK, FinalInv, NEW h \in Handlers, Continue(h)
  PROVE  Answers(h)
<1> USE InFlight
<1> app \in [Readers -> AppRow]
  BY DEF TypeOK
<1>1. FinalReq(req[h])
  BY DEF FinalInv
<1>2. \A g \in Handlers : Holding(req[g]) => BookLocked
  BY DEF Holding, BookLocked
<1>3. CASE ApplyInsert(h)
  <2>1. \A r \in Readers : app[r].status \in Final => app'[r] = app[r]
    BY <1>3 DEF ApplyInsert, NoApp, Final
  <2>2. QED
    BY <1>2, <1>3, <2>1 DEF ApplyInsert, Answers
<1>4. CASE DecideTx(h)
  <2>1. \A r \in Readers : app[r].status \in Final => app'[r] = app[r]
    BY <1>4 DEF DecideTx, MayDecide, Final
  <2>2. QED
    BY <1>2, <1>4, <2>1 DEF DecideTx, Answers
<1>5. CASE WriteApp(h)
  <2>1. \A r \in Readers : app'[r].status = app[r].status
    BY <1>1, <1>5 DEF WriteApp, FinalReq, SavedApp, Column
  <2>2. QED
    BY <2>1 DEF Answers
<1>6. CASE BulkSentWrite(h)
  <2>1. \A r \in Readers : app'[r].status = app[r].status
    BY <1>6 DEF BulkSentWrite, AppRow
  <2>2. QED
    BY <2>1 DEF Answers
<1>7. CASE BulkWrite(h) \/ LotteryDraw(h)
  <2>1. Holding(req[h])
    BY <1>7 DEF BulkWrite, LotteryDraw, Holding
  <2>2. \A g \in Handlers : g # h => ~Holding(req[g])
    BY <2>1 DEF FinalInv
  <2>3. \A r \in Readers : r \notin req[h].ids => app'[r] = app[r]
    BY <1>7 DEF BulkWrite, LotteryDraw, Winners
  <2>4. \A r \in req[h].ids : app[r].status \notin Final
    BY <1>1, <2>1 DEF FinalReq, Final
  <2>5. QED
    BY <2>2, <2>3, <2>4 DEF Answers
<1>8. CASE app' = app
  BY <1>8 DEF Answers
<1>9. QED
  BY <1>3, <1>4, <1>5, <1>6, <1>7, <1>8
     DEF Continue, ApplyRefused, DecideLock, DecideRefused, DecideReload, SelectApp, BulkRefused,
         EditChange, SelectBook, WriteBook, DataSame

LEMMA ContinueFinal ==
  ASSUME TypeOK, FinalInv, NEW h \in Handlers, Continue(h)
  PROVE  FinalReq(req[h])' /\ ~Holding(req'[h])
<1> USE InFlight
<1>1. FinalReq(req[h]) /\ req[h] \in Request
  BY DEF FinalInv, TypeOK
<1>2. ASSUME Finish(h)
      PROVE  FinalReq(req[h])' /\ ~Holding(req'[h])
  <2>1. req'[h].at = "idle"
    BY <1>2 DEF Finish, TypeOK, Idle
  <2>2. QED
    BY <2>1 DEF FinalReq, Holding
<1>3. CASE DecideLock(h)
  <2>1. req'[h].at = "decideBook" /\ req'[h].ids = req[h].ids /\ req'[h].status = req[h].status
    BY <1>1, <1>3 DEF DecideLock, GoTo, TypeOK, Request
  <2>2. QED
    BY <1>1, <1>3, <2>1 DEF DecideLock, FinalReq, Holding
<1>4. CASE DecideTx(h)
  <2>1. req'[h].at = "reload" /\ req'[h].ids = req[h].ids
    BY <1>1, <1>4 DEF DecideTx, GoTo, TypeOK, Request
  <2>2. req[h].status \in Final
    BY <1>1, <1>4 DEF DecideTx, FinalReq, Final
  <2>3. \A r \in req[h].ids : app'[r].status \in Final
    BY <1>4, <2>2 DEF DecideTx, Answered
  <2>4. QED
    BY <2>1, <2>3 DEF FinalReq, Holding
<1>5. ASSUME NEW mark \in BOOLEAN, DecideReload(h, mark)
      PROVE  FinalReq(req[h])' /\ ~Holding(req'[h])
  <2> DEFINE ents == [r \in Readers |-> IF r \in req[h].ids /\ mark
                                        THEN [app[r] EXCEPT !.sent = TRUE]
                                        ELSE Rows(req[h].ids)[r]]
  <2>1. \A r \in req[h].ids : ents[r].status = app[r].status /\ app[r].status \in Final
    BY <1>1, <1>5 DEF Rows, TypeOK, AppRow, FinalReq, DecideReload
  <2>2. Finish(h) \/ req'[h] = [req[h] EXCEPT !.at = "saveApp", !.ent = ents]
    BY <1>5 DEF DecideReload, TypeOK
  <2>3. app' = app
    BY <1>5 DEF DecideReload, DataSame
  <2> HIDE DEF ents
  <2>4. CASE req'[h] = [req[h] EXCEPT !.at = "saveApp", !.ent = ents]
    <3>1. req'[h].at = "saveApp" /\ req'[h].ids = req[h].ids /\ req'[h].ent = ents
      BY <1>1, <2>4 DEF Request
    <3>2. QED
      BY <2>1, <2>3, <3>1 DEF FinalReq, Holding
  <2>5. QED
    BY <1>2, <2>2, <2>4
<1>6. CASE SelectApp(h)
  <2>1. req'[h].at = "writeApp" /\ req'[h].ids = req[h].ids /\ req'[h].ent = req[h].ent
    BY <1>1, <1>6 DEF SelectApp, TypeOK, Request
  <2>2. QED
    BY <1>1, <1>6, <2>1 DEF SelectApp, FinalReq, Holding, DataSame
<1>7. CASE EditChange(h) \/ SelectBook(h)
  <2>1. Finish(h) \/ req'[h].at \in {"saveBook", "writeBook"}
    BY <1>1, <1>7 DEF EditChange, SelectBook, TypeOK, Request
  <2>2. QED
    BY <1>2, <2>1 DEF FinalReq, Holding
<1>8. CASE \/ ApplyInsert(h) \/ ApplyRefused(h) \/ DecideRefused(h) \/ WriteApp(h)
           \/ BulkSentWrite(h) \/ BulkWrite(h) \/ BulkRefused(h) \/ LotteryDraw(h)
           \/ WriteBook(h)
  BY <1>2, <1>8 DEF ApplyInsert, ApplyRefused, DecideRefused, WriteApp, BulkSentWrite, BulkWrite,
                    BulkRefused, LotteryDraw, WriteBook
<1>9. QED
  BY <1>3, <1>4, <1>5, <1>6, <1>7, <1>8 DEF Continue

LEMMA FinalStep ==
  ASSUME AnswersOnly, TypeOK, FinalInv, [Next]_vars
  PROVE  FinalInv' /\ \A r \in Readers : app[r].status \in Final => app'[r].status = app[r].status
<1>1. ASSUME NEW h \in Handlers, Start(h)
      PROVE  FinalInv' /\ app' = app
  <2>1. app' = app /\ \A g \in Handlers : g # h => req'[g] = req[g]
    BY <1>1, StartFrame, StartReq DEF Started
  <2>2. QED
    BY <1>1, <2>1, StartFinal DEF FinalInv, FinalReq
<1>2. ASSUME NEW h \in Handlers, Continue(h)
      PROVE  FinalInv' /\ Answers(h)
  <2>1. Answers(h) /\ \A g \in Handlers : g # h => req'[g] = req[g]
    BY <1>2, ContinueAnswers, ContinueReq DEF Moved
  <2>2. \A g \in Handlers : g # h => FinalReq(req[g])'
    <3> SUFFICES ASSUME NEW g \in Handlers, g # h
                 PROVE  FinalReq(req[g])'
      OBVIOUS
    <3>1. req'[g] = req[g] /\ FinalReq(req[g]) /\ req[g].ids \subseteq Readers
      BY <2>1, InFlight DEF FinalInv
    <3>2. QED
      BY <2>1, <3>1 DEF FinalReq, Answers
  <2>3. QED
    BY <1>2, <2>1, <2>2, ContinueFinal DEF FinalInv
<1>3. ASSUME NEW g \in Handlers, NEW h \in Handlers, AbortVictim(g, h)
      PROVE  FinalInv' /\ app' = app
  <2>1. app' = app /\ \A i \in Handlers : req'[i] = req[i] \/ req'[i] = Idle
    BY <1>3 DEF AbortVictim, DataSame, Finish, TypeOK
  <2>2. QED
    BY <2>1, IdleFinal DEF FinalInv, FinalReq
<1>4. CASE Nightly \/ Tick \/ UNCHANGED vars
  <2>1. app' = app /\ req' = req
    BY <1>4 DEF Nightly, NightlyOpen, NightlyDrawn, NightlyReview, NightlyFailed, NightlyUpdate,
                Tick, vars
  <2>2. QED
    BY <2>1 DEF FinalInv, FinalReq
<1>5. QED
  BY <1>1, <1>2, <1>3, <1>4 DEF Next, Answers

LEMMA FinalInit == Init => FinalInv
BY IdleFinal DEF Init, FinalInv

\* Whatever marks, readings, draws and bulk actions interleave, no application
\* leaves approved or rejected: the readers alone may take an answer back, by
\* withdrawing or by the save of an edited message.
THEOREM AnswersStand ==
  ASSUME AnswersOnly
  PROVE  Spec => AnswerIsFinal
<1>1. TypeOK /\ FinalInv /\ [Next]_vars => FinalInv'
  BY FinalStep
<1>2. TypeOK /\ FinalInv /\ [Next]_vars
        => [\A r \in Readers : app[r].status \in {"approved", "rejected", "withdrawn"}
                                 => app'[r].status = app[r].status]_vars
  BY FinalStep DEF Final
<1>3. QED
  BY <1>1, <1>2, FinalInit, TypeCorrect, PTL DEF Spec, AnswerIsFinal
-----------------------------------------------------------------------------
\* The draw is made once, and copies are conserved, when no entity of the book
\* is saved over what the draw has written

NoStaleSaves == Requests \cap {"edit", "publish"} = {}

DrawReq(x) ==
  /\ x.at \notin {"edit", "saveBook", "writeBook"}
  /\ x.at = "lottery" => book.method = "lottery" /\ ~book.drawn

\* What makes LotteryOnce inductive: a draw that is under way holds the lock of
\* a book that is not drawn, alone, and a draw that is over left its mark.
DrawInv ==
  /\ draws = 0 \/ (draws = 1 /\ book.drawn)
  /\ \A g, h \in Handlers : Holding(req[g]) /\ Holding(req[h]) => g = h
  /\ \A h \in Handlers : DrawReq(req[h])

\* The columns of the book that nothing but a save of the entity or a draw sets.
DrawFrame == book'.drawn = book.drawn /\ book'.method = book.method /\ draws' = draws

LEMMA IdleDraw == DrawReq(Idle) /\ ~Holding(Idle)
BY DEF DrawReq, Holding, Idle

LEMMA StartDraw ==
  ASSUME NoStaleSaves, TypeOK, NEW h \in Handlers, Start(h)
  PROVE  /\ DrawReq(req'[h])
         /\ Holding(req'[h]) => \A g \in Handlers : ~Holding(req[g])
<1>1. ~Publish(h) /\ \A e \in Edits : ~EditLoad(h, e)
  BY DEF Publish, EditLoad, Begin, NoStaleSaves
<1>2. ASSUME NEW r \in Readers,
             \/ ApplyCheck(h, r) \/ EditMessage(h, r) \/ Withdraw(h, r)
             \/ MarkSent(h, r)   \/ UpdateProgress(h, r)
             \/ \E s \in Decisions : DecideCheck(h, r, s)
      PROVE  req'[h].at \in {"apply", "saveApp", "decide"}
  BY <1>2 DEF ApplyCheck, EditMessage, Withdraw, MarkSent, UpdateProgress, LoadApp, DecideCheck,
              Begin, Idle, TypeOK
<1>3. ASSUME NEW S, BulkSentRead(h, S)
      PROVE  req'[h].at = "bulksent"
  BY <1>3 DEF BulkSentRead, Begin, Idle, TypeOK
<1>4. ASSUME NEW S, NEW s \in Decisions, BulkRead(h, S, s)
      PROVE  req'[h].at = "bulk" /\ \A g \in Handlers : ~Holding(req[g])
  BY <1>4 DEF BulkRead, Begin, Idle, TypeOK, Holding, BookLocked
<1>5. ASSUME LotteryRead(h)
      PROVE  DrawReq(req'[h]) /\ \A g \in Handlers : ~Holding(req[g])
  <2>1. req'[h].at = "lottery"
    BY <1>5 DEF LotteryRead, Begin, Idle, TypeOK
  <2>2. QED
    BY <1>5, <2>1 DEF LotteryRead, DrawReq, Holding, BookLocked
<1>6. req'[h].at \in {"apply", "saveApp", "decide", "bulksent"} => DrawReq(req'[h]) /\ ~Holding(req'[h])
  BY DEF DrawReq, Holding
<1>7. req'[h].at = "bulk" => DrawReq(req'[h])
  BY DEF DrawReq
<1>8. QED
  BY <1>1, <1>2, <1>3, <1>4, <1>5, <1>6, <1>7 DEF Start

LEMMA ContinueDraw ==
  ASSUME TypeOK, DrawInv, NEW h \in Handlers, Continue(h)
  PROVE  /\ ~EditChange(h) /\ ~SelectBook(h) /\ ~WriteBook(h)
         /\ req'[h].at \notin {"bulk", "lottery", "edit", "saveBook", "writeBook"}
         /\ \/ DrawFrame
            \/ /\ Holding(req[h]) /\ ~book.drawn /\ book'.drawn
               /\ draws' = (IF draws < 2 THEN draws + 1 ELSE draws)
<1> USE InFlight
<1> book \in BookRow
  BY DEF TypeOK
<1>1. req[h] \in Request /\ DrawReq(req[h])
  BY DEF DrawInv, TypeOK
<1>2. ~EditChange(h) /\ ~SelectBook(h) /\ ~WriteBook(h)
  BY <1>1 DEF DrawReq, EditChange, SelectBook, WriteBook
<1>3. ASSUME Finish(h)
      PROVE  req'[h].at = "idle"
  BY <1>3 DEF Finish, TypeOK, Idle
<1>4. ASSUME NEW n
      PROVE  Reserve(book, n).drawn = book.drawn /\ Reserve(book, n).method = book.method
  BY DEF Reserve, BookRow
<1>5. CASE DecideLock(h) \/ SelectApp(h) \/ DecideTx(h) \/ \E mark \in BOOLEAN : DecideReload(h, mark)
  <2>1. Finish(h) \/ req'[h].at \in {"decideBook", "writeApp", "reload", "saveApp"}
    BY <1>1, <1>5 DEF DecideLock, SelectApp, DecideTx, DecideReload, GoTo, TypeOK, Request
  <2>2. DrawFrame
    BY <1>4, <1>5 DEF DecideLock, SelectApp, DecideTx, DecideReload, DataSame, RestSame, DrawFrame
  <2>3. QED
    BY <1>2, <1>3, <2>1, <2>2
<1>6. CASE \/ ApplyInsert(h) \/ ApplyRefused(h) \/ DecideRefused(h) \/ WriteApp(h)
           \/ BulkSentWrite(h) \/ BulkWrite(h) \/ BulkRefused(h)
  <2>1. Finish(h)
    BY <1>6 DEF ApplyInsert, ApplyRefused, DecideRefused, WriteApp, BulkSentWrite, BulkWrite,
                BulkRefused
  <2>2. DrawFrame
    BY <1>4, <1>6 DEF ApplyInsert, ApplyRefused, DecideRefused, WriteApp, BulkSentWrite, BulkWrite,
                      BulkRefused, DataSame, RestSame, DrawFrame
  <2>3. QED
    BY <1>2, <1>3, <2>1, <2>2
<1>7. CASE LotteryDraw(h)
  <2>1. PICK W \in Winners(req[h].ids, book.avail) :
          LET reserved == IF W = {} THEN book ELSE Reserve(book, Cardinality(W))
          IN  book' = IF book.status = "active"
                      THEN [book EXCEPT !.drawn = TRUE, !.status = "in_progress"]
                      ELSE [reserved EXCEPT !.drawn = TRUE]
    BY <1>7 DEF LotteryDraw
  <2>2. book'.drawn = TRUE
    BY <2>1 DEF BookRow, Reserve
  <2>3. QED
    BY <1>1, <1>2, <1>3, <1>7, <2>2 DEF LotteryDraw, DrawReq, Holding
<1>8. QED
  BY <1>2, <1>5, <1>6, <1>7 DEF Continue

LEMMA DrawStep ==
  ASSUME NoStaleSaves, TypeOK, DrawInv, [Next]_vars
  PROVE  DrawInv'
<1>1. ASSUME NEW h \in Handlers, Start(h)
      PROVE  DrawInv'
  <2>1. UNCHANGED <<book, draws>> /\ \A g \in Handlers : g # h => req'[g] = req[g]
    BY <1>1, StartFrame, StartReq DEF Started
  <2>2. QED
    BY <1>1, <2>1, StartDraw DEF DrawInv, DrawReq
<1>2. ASSUME NEW h \in Handlers, Continue(h)
      PROVE  DrawInv'
  <2>1. \A g \in Handlers : g # h => req'[g] = req[g]
    BY <1>2, ContinueReq DEF Moved
  <2>2. ~Holding(req'[h]) /\ DrawReq(req[h])'
    BY <1>2, ContinueDraw DEF Holding, DrawReq
  <2>3. CASE DrawFrame
    BY <2>1, <2>2, <2>3 DEF DrawFrame, DrawInv, DrawReq
  <2>4. CASE /\ Holding(req[h]) /\ ~book.drawn /\ book'.drawn
             /\ draws' = (IF draws < 2 THEN draws + 1 ELSE draws)
    <3>1. draws' = 1 /\ book'.drawn
      BY <2>4 DEF DrawInv
    <3>2. \A g \in Handlers : g # h => ~Holding(req'[g])
      BY <2>1, <2>4 DEF DrawInv
    <3>3. \A g \in Handlers : DrawReq(req[g])'
      BY <2>1, <2>2, <3>2 DEF DrawInv, DrawReq, Holding
    <3>4. QED
      BY <2>2, <3>1, <3>2, <3>3 DEF DrawInv
  <2>5. QED
    BY <1>2, <2>3, <2>4, ContinueDraw
<1>3. ASSUME NEW g \in Handlers, NEW h \in Handlers, AbortVictim(g, h)
      PROVE  DrawInv'
  <2>1. UNCHANGED <<book, draws>> /\ \A i \in Handlers : req'[i] = req[i] \/ req'[i] = Idle
    BY <1>3 DEF AbortVictim, DataSame, RestSame, Finish, TypeOK
  <2>2. QED
    BY <2>1, IdleDraw DEF DrawInv, DrawReq
<1>4. CASE Nightly \/ Tick \/ UNCHANGED vars
  <2>1. DrawFrame /\ req' = req
    BY <1>4 DEF Nightly, NightlyOpen, NightlyDrawn, NightlyReview, NightlyFailed, NightlyUpdate,
                Tick, vars, DrawFrame, TypeOK, BookRow
  <2>2. QED
    BY <2>1 DEF DrawFrame, DrawInv, DrawReq
<1>5. QED
  BY <1>1, <1>2, <1>3, <1>4 DEF Next

LEMMA DrawInit == Init => DrawInv
BY IdleDraw DEF Init, DrawInv

\* However many draws are asked for at once, and whatever is decided, bulk
\* decided or withdrawn in between, the lottery decides applications once: the
\* lock on the book and lotteryRunAt suffice as long as no stale entity of the
\* book is written back.
THEOREM DrawnOnce ==
  ASSUME NoStaleSaves
  PROVE  Spec => []LotteryOnce
<1>1. TypeOK /\ DrawInv /\ [Next]_vars => DrawInv'
  BY DrawStep
<1>2. DrawInv => LotteryOnce
  BY DEF DrawInv, LotteryOnce
<1>3. QED
  BY <1>1, <1>2, DrawInit, TypeCorrect, PTL DEF Spec

\* A step takes as many copies as it approves applications that were not
\* approved before, or neither.
Conserves(S) ==
  /\ S \cap Approved = {}
  /\ Approved' = Approved \cup S
  /\ book'.avail = book.avail - Cardinality(S)

LEMMA ContinueConserves ==
  ASSUME TypeOK, FinalInv, DrawInv, book.method # "lottery", NEW h \in Handlers, Continue(h)
  PROVE  \E S \in SUBSET Readers : Conserves(S)
<1> USE InFlight
<1> book \in BookRow /\ app \in [Readers -> AppRow]
  BY DEF TypeOK
<1>1. FinalReq(req[h]) /\ DrawReq(req[h])
  BY DEF FinalInv, DrawInv
<1>2. \A n \in Nat : Reserve(book, n).avail = book.avail - n
  BY ReserveAvail
<1>3. ASSUME book'.avail = book.avail, Approved' = Approved
      PROVE  Conserves({}) /\ {} \in SUBSET Readers
  <2>1. Cardinality({}) = 0 /\ book.avail \in Int
    BY FS_EmptySet DEF BookRow
  <2>2. QED
    BY <1>3, <2>1 DEF Conserves
<1>4. CASE ApplyInsert(h)
  <2>1. PICK r \in req[h].ids :
          LET auto == book.method = "first_come" /\ CanReserve(book, 1)
          IN  /\ app[r] = NoApp
              /\ app' = [app EXCEPT ![r] =
                           [status    |-> IF auto THEN "approved" ELSE "pending",
                            responded |-> auto,
                            sent      |-> auto /\ book.digital]]
              /\ book' = IF auto THEN Reserve(book, 1) ELSE book
    BY <1>4 DEF ApplyInsert
  <2>2. r \in Readers /\ r \notin Approved
    BY <2>1 DEF Approved, NoApp
  <2>3. CASE book.method = "first_come" /\ CanReserve(book, 1)
    <3>1. Approved' = Approved \cup {r}
      BY <2>1, <2>2, <2>3 DEF Approved
    <3>2. Cardinality({r}) = 1
      BY FS_Singleton
    <3>3. Conserves({r})
      BY <1>2, <2>1, <2>2, <2>3, <3>1, <3>2 DEF Conserves
    <3>4. QED
      BY <2>2, <3>3
  <2>4. CASE ~(book.method = "first_come" /\ CanReserve(book, 1))
    <3>1. Approved' = Approved
      BY <2>1, <2>2, <2>4 DEF Approved
    <3>2. QED
      BY <1>3, <2>1, <2>4, <3>1
  <2>5. QED
    BY <2>3, <2>4
<1>5. CASE DecideTx(h) \/ BulkWrite(h)
  <2>1. req[h].ids \cap Approved = {}
    BY <1>1, <1>5 DEF DecideTx, MayDecide, BulkWrite, FinalReq, Holding, Approved
  <2>2. CASE req[h].status = "approved"
    <3>1. Approved' = Approved \cup req[h].ids
      BY <1>5, <2>2 DEF DecideTx, BulkWrite, Approved, Answered
    <3>2. book' = Reserve(book, Cardinality(req[h].ids))
      BY <1>1, <1>5, <2>2 DEF DecideTx, BulkWrite, FinalReq
    <3>3. Conserves(req[h].ids)
      BY <1>2, <2>1, <3>1, <3>2 DEF Conserves
    <3>4. QED
      BY <3>3
  <2>3. CASE req[h].status # "approved"
    <3>1. Approved' = Approved
      BY <1>5, <2>1, <2>3 DEF DecideTx, BulkWrite, Approved, Answered
    <3>2. book' = book
      BY <1>5, <2>3 DEF DecideTx, BulkWrite
    <3>3. QED
      BY <1>3, <3>1, <3>2
  <2>4. QED
    BY <2>2, <2>3
<1>6. CASE WriteApp(h) \/ BulkSentWrite(h)
  <2>1. \A r \in Readers : app'[r].status = app[r].status
    BY <1>1, <1>6 DEF WriteApp, BulkSentWrite, FinalReq, SavedApp, Column, AppRow
  <2>2. Approved' = Approved
    BY <2>1 DEF Approved
  <2>3. QED
    BY <1>3, <1>6, <2>2 DEF WriteApp, BulkSentWrite
<1>7. ~LotteryDraw(h) /\ ~WriteBook(h) /\ ~EditChange(h) /\ ~SelectBook(h)
  BY <1>1 DEF DrawReq, LotteryDraw, WriteBook, EditChange, SelectBook
<1>8. CASE UNCHANGED <<book, app>>
  BY <1>3, <1>8 DEF Approved
<1>9. QED
  BY <1>4, <1>5, <1>6, <1>7, <1>8
     DEF Continue, ApplyRefused, DecideLock, DecideRefused, DecideReload, SelectApp, BulkRefused,
         DataSame

LEMMA ConserveStep ==
  ASSUME TypeOK, FinalInv, DrawInv, [Next]_vars, book.method # "lottery"
  PROVE  Cardinality(Approved') + book'.avail = Cardinality(Approved) + book.avail
<1>1. Approved \in SUBSET Readers /\ IsFiniteSet(Approved) /\ Cardinality(Approved) \in Nat
  BY IdsFinite, Approved \in SUBSET Readers DEF Approved
<1>2. book.avail \in Int
  BY DEF TypeOK, BookRow
<1>3. ASSUME NEW S \in SUBSET Readers, Conserves(S)
      PROVE  Cardinality(Approved') + book'.avail = Cardinality(Approved) + book.avail
  <2>1. IsFiniteSet(S) /\ Cardinality(S) \in Nat
    BY IdsFinite
  <2>2. Cardinality(Approved \cup S)
          = Cardinality(Approved) + Cardinality(S) - Cardinality(Approved \cap S)
    BY <1>1, <2>1, FS_Union
  <2>3. Cardinality(Approved \cap S) = 0
    BY <1>3, FS_EmptySet, Approved \cap S = {} DEF Conserves
  <2>4. QED
    BY <1>1, <1>2, <1>3, <2>1, <2>2, <2>3 DEF Conserves
<1>4. ASSUME app' = app, book'.avail = book.avail
      PROVE  Cardinality(Approved') + book'.avail = Cardinality(Approved) + book.avail
  BY <1>4 DEF Approved
<1>5. ASSUME NEW h \in Handlers, Start(h)
      PROVE  app' = app /\ book' = book
  BY <1>5, StartFrame
<1>6. ASSUME NEW g \in Handlers, NEW h \in Handlers, AbortVictim(g, h)
      PROVE  app' = app /\ book' = book
  BY <1>6 DEF AbortVictim, DataSame
<1>7. CASE Nightly \/ Tick \/ UNCHANGED vars
  <2>1. app' = app /\ book'.avail = book.avail
    BY <1>7 DEF Nightly, NightlyOpen, NightlyDrawn, NightlyReview, NightlyFailed, NightlyUpdate,
                Tick, vars, TypeOK, BookRow
  <2>2. QED
    BY <1>4, <2>1
<1>8. QED
  BY <1>3, <1>4, <1>5, <1>6, <1>7, ContinueConserves DEF Next

\* A copy is neither lost nor made up: an insert that the unique index rejects,
\* an aborted transaction and a refused decision give their copies back, and
\* every approval takes one.  Only a draw of an active book, a withdrawal and a
\* save of the book break the sum.
THEOREM CopiesKept ==
  ASSUME AnswersOnly, NoStaleSaves
  PROVE  Spec => CopiesConserved
<1>1. TypeOK /\ FinalInv /\ [Next]_vars => FinalInv'
  BY FinalStep
<1>2. TypeOK /\ DrawInv /\ [Next]_vars => DrawInv'
  BY DrawStep
<1>3. TypeOK /\ FinalInv /\ DrawInv /\ [Next]_vars
        => [book.method # "lottery" =>
              Cardinality(Approved') + book'.avail = Cardinality(Approved) + book.avail]_vars
  BY ConserveStep
<1>4. QED
  BY <1>1, <1>2, <1>3, FinalInit, DrawInit, TypeCorrect, PTL DEF Spec, CopiesConserved
=============================================================================
