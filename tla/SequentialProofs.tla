-------------------------- MODULE SequentialProofs --------------------------
(***************************************************************************)
(* What Applications keeps when requests come one after another: a single  *)
(* handler, next to the nightly job and the clock.  The promises that      *)
(* overlapping requests break then hold for every mix of requests, except  *)
(* that a draw still gives the copies of the winners out again.            *)
(***************************************************************************)
EXTENDS ApplicationsProofs

Alone == \A g, h \in Handlers : g = h

-----------------------------------------------------------------------------
\* What the one request in flight knows of the rows

\* A save leaves the status of the application, or withdraws a pending one.
KeepsStatus(x) == \A r \in x.ids :
  x.ent[r].status = app[r].status \/ (x.ent[r].status = "withdrawn" /\ app[r].status = "pending")

AloneReq(x) ==
  /\ x.at \in {"saveApp", "writeApp"} => KeepsStatus(x)
  /\ Holding(x) => \A r \in x.ids : app[r].status = "pending"
  /\ x.at \in {"edit", "saveBook", "writeBook"} => x.book.drawn = book.drawn
  /\ x.at = "lottery" => ~book.drawn

AloneInv ==
  /\ draws = 0 \/ (draws = 1 /\ book.drawn)
  /\ \A h \in Handlers : AloneReq(req[h])

\* What a step does to the applications: answers stay, and only pending
\* applications are withdrawn.
StatusStep == \A r \in Readers :
  \/ app'[r].status = app[r].status
  \/ app[r].status = "pending"
  \/ app[r] = NoApp /\ app'[r].status # "withdrawn"

\* What it does to the draws of the book
DrawStepped ==
  \/ draws' = draws /\ book'.drawn = book.drawn
  \/ draws = 0 /\ draws' = 1 /\ book'.drawn

LEMMA IdleAlone == AloneReq(Idle)
BY DEF AloneReq, KeepsStatus, Holding, Idle

LEMMA StartAlone ==
  ASSUME TypeOK, NEW h \in Handlers, Start(h)
  PROVE  AloneReq(req'[h])
<1>1. ASSUME NEW r \in Readers, NEW kind, NEW status, NEW ent, LoadApp(h, kind, r, status, ent),
             ent.status = app[r].status \/ (ent.status = "withdrawn" /\ app[r].status = "pending")
      PROVE  AloneReq(req'[h])
  <2>1. req'[h] = [Idle EXCEPT !.at = "saveApp", !.ids = {r}, !.ent = [NoApps EXCEPT ![r] = ent]]
    BY <1>1 DEF LoadApp, Begin, TypeOK
  <2>2. req'[h].at = "saveApp" /\ req'[h].ids = {r} /\ req'[h].ent[r] = ent
    BY <2>1 DEF Idle, NoApps
  <2>3. QED
    BY <1>1, <2>2 DEF AloneReq, KeepsStatus, Holding
<1>2. ASSUME NEW r \in Readers, EditMessage(h, r) \/ Withdraw(h, r) \/ MarkSent(h, r) \/ UpdateProgress(h, r)
      PROVE  AloneReq(req'[h])
  <2>1. /\ app[r].status = "pending" => [app[r] EXCEPT !.status = "withdrawn"].status = "withdrawn"
        /\ [app[r] EXCEPT !.sent = TRUE].status = app[r].status
    BY DEF TypeOK, AppRow
  <2>2. app[r].status = "pending" \/ ~Withdraw(h, r)
    BY DEF Withdraw, LoadApp
  <2>3. QED
    BY <1>1, <1>2, <2>1, <2>2 DEF EditMessage, Withdraw, MarkSent, UpdateProgress
<1>3. ASSUME NEW r \in Readers, ApplyCheck(h, r) \/ \E s \in Decisions : DecideCheck(h, r, s)
      PROVE  req'[h].at \in {"apply", "decide"}
  BY <1>3 DEF ApplyCheck, DecideCheck, Begin, Idle, TypeOK
<1>4. ASSUME NEW S, BulkSentRead(h, S)
      PROVE  req'[h].at = "bulksent"
  BY <1>4 DEF BulkSentRead, Begin, Idle, TypeOK
<1>5. ASSUME NEW S, NEW s, BulkRead(h, S, s)
      PROVE  AloneReq(req'[h])
  <2>1. req'[h].at = "bulk" /\ req'[h].ids = S
    BY <1>5 DEF BulkRead, Begin, Idle, TypeOK
  <2>2. QED
    BY <1>5, <2>1 DEF BulkRead, AloneReq, Holding
<1>6. ASSUME LotteryRead(h)
      PROVE  AloneReq(req'[h])
  <2>1. req'[h].at = "lottery" /\ req'[h].ids = {r \in Readers : app[r].status = "pending"}
    BY <1>6 DEF LotteryRead, Begin, Idle, TypeOK
  <2>2. QED
    BY <1>6, <2>1 DEF LotteryRead, AloneReq, Holding
<1>7. ASSUME (\E e \in Edits : EditLoad(h, e)) \/ Publish(h)
      PROVE  AloneReq(req'[h])
  <2>1. PICK x : req'[h] = x /\ (\/ \E e \in Edits : x = [Idle EXCEPT !.at = "edit", !.book = book, !.edit = e]
                                 \/ x = [Idle EXCEPT !.at = "saveBook", !.book = [book EXCEPT !.status = "active"]])
    BY <1>7 DEF EditLoad, Publish, Begin, TypeOK
  <2>2. x.at \in {"edit", "saveBook"} /\ (x.book = book \/ x.book = [book EXCEPT !.status = "active"])
    BY <2>1 DEF Idle
  <2>3. [book EXCEPT !.status = "active"].drawn = book.drawn
    BY DEF TypeOK, BookRow
  <2>4. QED
    BY <2>1, <2>2, <2>3 DEF AloneReq, Holding
<1>8. req'[h].at \in {"apply", "decide", "bulksent"} => AloneReq(req'[h])
  BY DEF AloneReq, Holding
<1>9. QED
  BY <1>2, <1>3, <1>4, <1>5, <1>6, <1>7, <1>8 DEF Start

LEMMA ContinueStatus ==
  ASSUME TypeOK, AloneInv, NEW h \in Handlers, Continue(h)
  PROVE  StatusStep
<1> USE InFlight
<1> app \in [Readers -> AppRow]
  BY DEF TypeOK
<1>1. AloneReq(req[h])
  BY DEF AloneInv
<1>2. CASE ApplyInsert(h)
  <2>1. PICK r \in req[h].ids : app[r] = NoApp /\ \A q \in Readers \ {r} : app'[q] = app[q]
    BY <1>2 DEF ApplyInsert
  <2>2. \A q \in Readers : app'[q] = app[q] \/ (app[q] = NoApp /\ app'[q].status # "withdrawn")
    BY <1>2 DEF ApplyInsert
  <2>3. QED
    BY <2>2 DEF StatusStep
<1>3. CASE DecideTx(h)
  BY <1>3 DEF DecideTx, MayDecide, StatusStep
<1>4. CASE BulkWrite(h) \/ LotteryDraw(h)
  <2>1. \A r \in req[h].ids : app[r].status = "pending"
    BY <1>1, <1>4 DEF BulkWrite, LotteryDraw, AloneReq, Holding
  <2>2. \A r \in Readers : r \notin req[h].ids => app'[r] = app[r]
    BY <1>4 DEF BulkWrite, LotteryDraw, Winners
  <2>3. QED
    BY <2>1, <2>2 DEF StatusStep
<1>5. CASE WriteApp(h)
  <2>1. KeepsStatus(req[h])
    BY <1>1, <1>5 DEF WriteApp, AloneReq
  <2>2. \A r \in Readers : app'[r].status \in {app[r].status} \cup
                             (IF r \in req[h].ids THEN {req[h].ent[r].status} ELSE {})
    BY <1>5 DEF WriteApp, SavedApp, Column
  <2>3. QED
    BY <2>1, <2>2 DEF StatusStep, KeepsStatus
<1>6. CASE BulkSentWrite(h)
  <2>1. \A r \in Readers : app'[r].status = app[r].status
    BY <1>6 DEF BulkSentWrite, AppRow
  <2>2. QED
    BY <2>1 DEF StatusStep
<1>7. CASE app' = app
  BY <1>7 DEF StatusStep
<1>8. QED
  BY <1>2, <1>3, <1>4, <1>5, <1>6, <1>7
     DEF Continue, ApplyRefused, DecideLock, DecideRefused, DecideReload, SelectApp, BulkRefused,
         EditChange, SelectBook, WriteBook, DataSame

LEMMA ContinueDraws ==
  ASSUME TypeOK, AloneInv, NEW h \in Handlers, Continue(h)
  PROVE  DrawStepped
<1> USE InFlight
<1> book \in BookRow
  BY DEF TypeOK
<1>1. AloneReq(req[h])
  BY DEF AloneInv
<1>2. ASSUME NEW n
      PROVE  Reserve(book, n).drawn = book.drawn
  BY DEF Reserve, BookRow
<1>3. CASE ApplyInsert(h) \/ DecideTx(h) \/ BulkWrite(h)
  BY <1>2, <1>3 DEF ApplyInsert, DecideTx, BulkWrite, RestSame, DrawStepped
<1>4. CASE LotteryDraw(h)
  <2>1. draws = 0 /\ draws' = 1
    BY <1>1, <1>4 DEF LotteryDraw, AloneReq, AloneInv
  <2>2. PICK W \in Winners(req[h].ids, book.avail) :
          LET reserved == IF W = {} THEN book ELSE Reserve(book, Cardinality(W))
          IN  book' = IF book.status = "active"
                      THEN [book EXCEPT !.drawn = TRUE, !.status = "in_progress"]
                      ELSE [reserved EXCEPT !.drawn = TRUE]
    BY <1>4 DEF LotteryDraw
  <2>3. book'.drawn = TRUE
    BY <2>2 DEF BookRow, Reserve
  <2>4. QED
    BY <2>1, <2>3 DEF DrawStepped
<1>5. CASE WriteBook(h)
  <2>1. req[h].book.drawn = book.drawn
    BY <1>1, <1>5 DEF WriteBook, AloneReq
  <2>2. book'.drawn = book.drawn
    BY <1>5, <2>1 DEF WriteBook, SavedBook, Column
  <2>3. QED
    BY <1>5, <2>2 DEF WriteBook, RestSame, DrawStepped
<1>6. CASE book' = book /\ draws' = draws
  BY <1>6 DEF DrawStepped
<1>7. QED
  BY <1>3, <1>4, <1>5, <1>6
     DEF Continue, ApplyRefused, DecideLock, DecideRefused, DecideReload, SelectApp, WriteApp,
         BulkSentWrite, BulkRefused, EditChange, SelectBook, DataSame, RestSame

LEMMA ContinueAlone ==
  ASSUME TypeOK, AloneInv, NEW h \in Handlers, Continue(h)
  PROVE  AloneReq(req[h])'
<1> USE InFlight
<1>1. AloneReq(req[h]) /\ req[h] \in Request
  BY DEF AloneInv, TypeOK
<1>2. ASSUME req'[h].at \in {"idle", "decideBook", "reload"}
      PROVE  AloneReq(req[h])'
  BY <1>2 DEF AloneReq, Holding
<1>3. ASSUME Finish(h)
      PROVE  AloneReq(req[h])'
  <2>1. req'[h].at = "idle"
    BY <1>3 DEF Finish, TypeOK, Idle
  <2>2. QED
    BY <1>2, <2>1
<1>4. CASE DecideLock(h) \/ DecideTx(h)
  <2>1. req'[h].at \in {"decideBook", "reload"}
    BY <1>1, <1>4 DEF DecideLock, DecideTx, GoTo, TypeOK, Request
  <2>2. QED
    BY <1>2, <2>1
<1>5. ASSUME NEW mark \in BOOLEAN, DecideReload(h, mark)
      PROVE  AloneReq(req[h])'
  <2> DEFINE ents == [r \in Readers |-> IF r \in req[h].ids /\ mark
                                        THEN [app[r] EXCEPT !.sent = TRUE]
                                        ELSE Rows(req[h].ids)[r]]
  <2>1. \A r \in req[h].ids : ents[r].status = app[r].status
    BY DEF Rows, TypeOK, AppRow
  <2>2. Finish(h) \/ req'[h] = [req[h] EXCEPT !.at = "saveApp", !.ent = ents]
    BY <1>5 DEF DecideReload, TypeOK
  <2>3. app' = app
    BY <1>5 DEF DecideReload, DataSame
  <2> HIDE DEF ents
  <2>4. CASE req'[h] = [req[h] EXCEPT !.at = "saveApp", !.ent = ents]
    <3>1. req'[h].at = "saveApp" /\ req'[h].ids = req[h].ids /\ req'[h].ent = ents
      BY <1>1, <2>4 DEF Request
    <3>2. QED
      BY <2>1, <2>3, <3>1 DEF AloneReq, KeepsStatus, Holding
  <2>5. QED
    BY <1>3, <2>2, <2>4
<1>6. CASE SelectApp(h)
  <2>1. req'[h].at = "writeApp" /\ req'[h].ids = req[h].ids /\ req'[h].ent = req[h].ent /\ app' = app
    BY <1>1, <1>6 DEF SelectApp, TypeOK, Request, DataSame
  <2>2. QED
    BY <1>1, <1>6, <2>1 DEF SelectApp, AloneReq, KeepsStatus, Holding
<1>7. CASE EditChange(h)
  <2> DEFINE new == Edited(req[h].book, req[h].edit, Cardinality(Approved))
  <2>1. new.drawn = req[h].book.drawn
    BY DEF Edited, BookRow
  <2>2. Finish(h) \/ req' = [req EXCEPT ![h].at = "saveBook", ![h].book = new]
    BY <1>7 DEF EditChange
  <2>3. book' = book /\ req[h].book.drawn = book.drawn
    BY <1>1, <1>7 DEF EditChange, DataSame, AloneReq
  <2> HIDE DEF new
  <2>4. CASE req' = [req EXCEPT ![h].at = "saveBook", ![h].book = new]
    <3>1. req'[h].at = "saveBook" /\ req'[h].book = new
      BY <1>1, <2>4 DEF TypeOK, Request
    <3>2. QED
      BY <2>1, <2>3, <3>1 DEF AloneReq, Holding
  <2>5. QED
    BY <1>3, <2>2, <2>4
<1>8. CASE SelectBook(h)
  <2>1. req'[h].at = "writeBook" /\ req'[h].book = req[h].book /\ book' = book
    BY <1>1, <1>8 DEF SelectBook, TypeOK, Request, DataSame
  <2>2. QED
    BY <1>1, <1>8, <2>1 DEF SelectBook, AloneReq, Holding
<1>9. CASE \/ ApplyInsert(h) \/ ApplyRefused(h) \/ DecideRefused(h) \/ WriteApp(h)
           \/ BulkSentWrite(h) \/ BulkWrite(h) \/ BulkRefused(h) \/ LotteryDraw(h)
           \/ WriteBook(h)
  BY <1>3, <1>9 DEF ApplyInsert, ApplyRefused, DecideRefused, WriteApp, BulkSentWrite, BulkWrite,
                    BulkRefused, LotteryDraw, WriteBook
<1>10. QED
  BY <1>4, <1>5, <1>6, <1>7, <1>8, <1>9 DEF Continue

LEMMA AloneStep ==
  ASSUME Alone, TypeOK, AloneInv, [Next]_vars
  PROVE  AloneInv' /\ StatusStep
<1>1. ASSUME NEW h \in Handlers, Start(h)
      PROVE  AloneInv' /\ StatusStep
  <2>1. UNCHANGED <<app, book, draws>>
    BY <1>1, StartFrame
  <2>2. AloneReq(req[h])'
    BY <1>1, <2>1, StartAlone DEF AloneReq, KeepsStatus
  <2>3. QED
    BY <2>1, <2>2 DEF Alone, AloneInv, StatusStep
<1>2. ASSUME NEW h \in Handlers, Continue(h)
      PROVE  AloneInv' /\ StatusStep
  BY <1>2, ContinueStatus, ContinueDraws, ContinueAlone DEF Alone, AloneInv, DrawStepped
<1>3. ASSUME NEW g \in Handlers, NEW h \in Handlers, AbortVictim(g, h)
      PROVE  FALSE
  BY <1>3 DEF Alone, AbortVictim, Deadlocked
<1>4. CASE Nightly \/ Tick \/ UNCHANGED vars
  <2>1. UNCHANGED <<app, req, draws>> /\ book'.drawn = book.drawn
    BY <1>4 DEF Nightly, NightlyOpen, NightlyDrawn, NightlyReview, NightlyFailed, NightlyUpdate,
                Tick, vars, TypeOK, BookRow
  <2>2. QED
    BY <2>1 DEF AloneInv, AloneReq, KeepsStatus, StatusStep
<1>5. QED
  BY <1>1, <1>2, <1>3, <1>4 DEF Next

LEMMA AloneInit == Init => AloneInv
BY IdleAlone DEF Init, AloneInv

\* "Pending applications only" of the controller: true of withdrawals that do
\* not overlap another request, whatever the author, the nightly job and other
\* readers did before.  withdraw_race shows it false when they do.
THEOREM WithdrawnWhilePending ==
  ASSUME Alone
  PROVE  Spec => WithdrawOnlyPending
<1>1. TypeOK /\ AloneInv /\ [Next]_vars => AloneInv'
  BY AloneStep
<1>2. TypeOK /\ AloneInv /\ [Next]_vars
        => [\A r \in Readers : app'[r].status = "withdrawn" /\ app[r].status # "withdrawn"
                                 => app[r].status = "pending"]_vars
  BY AloneStep DEF StatusStep
<1>3. QED
  BY <1>1, <1>2, AloneInit, TypeCorrect, PTL DEF Spec, WithdrawOnlyPending

\* An answer stands when requests do not overlap, message edits, withdrawals and
\* answers with any status included.
THEOREM AnswersStandAlone ==
  ASSUME Alone
  PROVE  Spec => AnswerIsFinal
<1>1. TypeOK /\ AloneInv /\ [Next]_vars => AloneInv'
  BY AloneStep
<1>2. TypeOK /\ AloneInv /\ [Next]_vars
        => [\A r \in Readers : app[r].status \in {"approved", "rejected", "withdrawn"}
                                 => app'[r].status = app[r].status]_vars
  BY AloneStep DEF StatusStep, NoApp
<1>3. QED
  BY <1>1, <1>2, AloneInit, TypeCorrect, PTL DEF Spec, AnswerIsFinal

\* The lottery is drawn once when requests do not overlap: edits, publications
\* and uploads then save the lotteryRunAt that is in the row.
THEOREM DrawnOnceAlone ==
  ASSUME Alone
  PROVE  Spec => []LotteryOnce
<1>1. TypeOK /\ AloneInv /\ [Next]_vars => AloneInv'
  BY AloneStep
<1>2. AloneInv => LotteryOnce
  BY DEF AloneInv, LotteryOnce
<1>3. QED
  BY <1>1, <1>2, AloneInit, TypeCorrect, PTL DEF Spec
-----------------------------------------------------------------------------
\* The promise of copies, for requests that do not draw

Offer(b) == Cardinality(Approved) + b.avail <= b.total

OfferReq(x) ==
  /\ x.at # "lottery"
  /\ x.at \in {"edit", "saveBook", "writeBook"} => Offer(x.book)
  /\ x.at = "writeBook" => x.bookBase.avail = book.avail /\ x.bookBase.total = book.total
  /\ x.at \in {"decide", "decideBook"} => Cardinality(x.ids) = 1

\* The book a request is going to save offers no more than it has, and was
\* loaded from the row as it still is.
OfferInv == NoOverPromise /\ \A h \in Handlers : OfferReq(req[h])

LEMMA ApprovedFinite ==
  ASSUME NEW S \in SUBSET Readers
  PROVE  /\ IsFiniteSet(Approved) /\ Cardinality(Approved) \in Nat /\ Cardinality(S) \in Nat
         /\ Cardinality(Approved \cup S) <= Cardinality(Approved) + Cardinality(S)
<1>1. IsFiniteSet(Approved) /\ Cardinality(Approved) \in Nat /\ IsFiniteSet(S) /\ Cardinality(S) \in Nat
  BY IdsFinite, Approved \in SUBSET Readers DEF Approved
<1>2. IsFiniteSet(Approved \cap S) /\ Cardinality(Approved \cap S) \in Nat
  BY <1>1, FS_Intersection, FS_CardinalityType
<1>3. Cardinality(Approved \cup S) = Cardinality(Approved) + Cardinality(S) - Cardinality(Approved \cap S)
  BY <1>1, FS_Union
<1>4. QED
  BY <1>1, <1>2, <1>3

LEMMA StartOffer ==
  ASSUME "lottery" \notin Requests, TypeOK, OfferInv, NEW h \in Handlers, Start(h)
  PROVE  OfferReq(req'[h])
<1>1. ASSUME NEW r \in Readers, \/ ApplyCheck(h, r) \/ EditMessage(h, r) \/ Withdraw(h, r)
                                \/ MarkSent(h, r)   \/ UpdateProgress(h, r)
      PROVE  req'[h].at \in {"apply", "saveApp"}
  BY <1>1 DEF ApplyCheck, EditMessage, Withdraw, MarkSent, UpdateProgress, LoadApp, Begin, Idle, TypeOK
<1>2. ASSUME NEW r \in Readers, NEW s \in Decisions, DecideCheck(h, r, s)
      PROVE  OfferReq(req'[h])
  <2>1. req'[h].at = "decide" /\ req'[h].ids = {r}
    BY <1>2 DEF DecideCheck, Begin, Idle, TypeOK
  <2>2. QED
    BY <2>1, FS_Singleton DEF OfferReq
<1>3. ASSUME NEW S, BulkSentRead(h, S) \/ \E s \in Decisions : BulkRead(h, S, s)
      PROVE  req'[h].at \in {"bulksent", "bulk"}
  BY <1>3 DEF BulkSentRead, BulkRead, Begin, Idle, TypeOK
<1>4. ~LotteryRead(h)
  BY DEF LotteryRead, Begin
<1>5. ASSUME (\E e \in Edits : EditLoad(h, e)) \/ Publish(h)
      PROVE  OfferReq(req'[h])
  <2>1. PICK x : req'[h] = x /\ (\/ \E e \in Edits : x = [Idle EXCEPT !.at = "edit", !.book = book, !.edit = e]
                                 \/ x = [Idle EXCEPT !.at = "saveBook", !.book = [book EXCEPT !.status = "active"]])
    BY <1>5 DEF EditLoad, Publish, Begin, TypeOK
  <2>2. x.at \in {"edit", "saveBook"} /\ (x.book = book \/ x.book = [book EXCEPT !.status = "active"])
    BY <2>1 DEF Idle
  <2>3. /\ [book EXCEPT !.status = "active"].avail = book.avail
        /\ [book EXCEPT !.status = "active"].total = book.total
    BY DEF TypeOK, BookRow
  <2>4. QED
    BY <2>1, <2>2, <2>3 DEF OfferReq, Offer, OfferInv, NoOverPromise
<1>6. req'[h].at \in {"apply", "saveApp", "bulksent", "bulk"} => OfferReq(req'[h])
  BY DEF OfferReq
<1>7. QED
  BY <1>1, <1>2, <1>3, <1>4, <1>5, <1>6 DEF Start

\* A step that reserves copies gives them to the readers it approves.
LEMMA OfferReserved ==
  ASSUME TypeOK, NoOverPromise, NEW S \in SUBSET Readers, Approved' = Approved \cup S,
         book' = Reserve(book, Cardinality(S))
  PROVE  NoOverPromise'
<1>1. Cardinality(S) \in Nat /\ book \in BookRow
  BY ApprovedFinite DEF TypeOK
<1>2. book'.avail = book.avail - Cardinality(S) /\ book'.total = book.total
  BY <1>1, ReserveAvail
<1>3. book.avail \in Int /\ book.total \in Int
  BY <1>1 DEF BookRow
<1>4. Cardinality(Approved)' <= Cardinality(Approved) + Cardinality(S)
  BY ApprovedFinite
<1>5. Cardinality(Approved)' \in Nat /\ Cardinality(Approved) \in Nat
  BY ApprovedFinite, Approved \cup S \in SUBSET Readers, IdsFinite DEF Approved
<1>6. QED
  BY <1>1, <1>2, <1>3, <1>4, <1>5 DEF NoOverPromise

LEMMA OfferApproves ==
  ASSUME TypeOK, AloneInv, OfferInv, NEW h \in Handlers,
         ApplyInsert(h) \/ DecideTx(h) \/ BulkWrite(h)
  PROVE  NoOverPromise'
<1> USE InFlight
<1> book \in BookRow /\ app \in [Readers -> AppRow] /\ NoOverPromise
  BY DEF TypeOK, OfferInv
<1>1. AloneReq(req[h]) /\ OfferReq(req[h])
  BY DEF AloneInv, OfferInv
<1>2. ASSUME book' = book, Approved' = Approved
      PROVE  NoOverPromise'
  BY <1>2 DEF NoOverPromise
<1>3. CASE ApplyInsert(h)
  <2>1. PICK r \in req[h].ids :
          LET auto == book.method = "first_come" /\ CanReserve(book, 1)
          IN  /\ app[r] = NoApp
              /\ app' = [app EXCEPT ![r] =
                           [status    |-> IF auto THEN "approved" ELSE "pending",
                            responded |-> auto,
                            sent      |-> auto /\ book.digital]]
              /\ book' = IF auto THEN Reserve(book, 1) ELSE book
    BY <1>3 DEF ApplyInsert
  <2>2. r \in Readers /\ r \notin Approved
    BY <2>1 DEF Approved, NoApp
  <2>3. CASE book.method = "first_come" /\ CanReserve(book, 1)
    <3>1. Approved' = Approved \cup {r}
      BY <2>1, <2>2, <2>3 DEF Approved
    <3>2. Cardinality({r}) = 1
      BY FS_Singleton
    <3>3. QED
      BY <2>1, <2>2, <2>3, <3>1, <3>2, OfferReserved
  <2>4. CASE ~(book.method = "first_come" /\ CanReserve(book, 1))
    <3>1. Approved' = Approved
      BY <2>1, <2>2, <2>4 DEF Approved
    <3>2. QED
      BY <1>2, <2>1, <2>4, <3>1
  <2>5. QED
    BY <2>3, <2>4
<1>4. CASE DecideTx(h) \/ BulkWrite(h)
  <2>1. req[h].ids \cap Approved = {}
    BY <1>1, <1>4 DEF DecideTx, MayDecide, BulkWrite, AloneReq, Holding, Approved
  <2>2. CASE req[h].status = "approved"
    <3>1. Approved' = Approved \cup req[h].ids
      BY <1>4, <2>2 DEF DecideTx, BulkWrite, Approved, Answered
    <3>2. book' = Reserve(book, Cardinality(req[h].ids))
      BY <1>1, <1>4, <2>2 DEF DecideTx, BulkWrite, OfferReq
    <3>3. QED
      BY <3>1, <3>2, OfferReserved
  <2>3. CASE req[h].status # "approved"
    <3>1. Approved' = Approved
      BY <1>4, <2>1, <2>3 DEF DecideTx, BulkWrite, Approved, Answered
    <3>2. book' = book
      BY <1>4, <2>3 DEF DecideTx, BulkWrite
    <3>3. QED
      BY <1>2, <3>1, <3>2
  <2>4. QED
    BY <2>2, <2>3
<1>5. QED
  BY <1>3, <1>4

LEMMA ContinuesOffer ==
  ASSUME TypeOK, AloneInv, OfferInv, NEW h \in Handlers, Continue(h)
  PROVE  NoOverPromise'
<1> USE InFlight
<1> app \in [Readers -> AppRow] /\ NoOverPromise
  BY DEF TypeOK, OfferInv
<1>1. AloneReq(req[h]) /\ OfferReq(req[h])
  BY DEF AloneInv, OfferInv
<1>2. CASE WriteApp(h) \/ BulkSentWrite(h)
  <2>1. \A r \in Readers : app'[r].status = "approved" => app[r].status = "approved"
    <3>1. CASE BulkSentWrite(h)
      BY <3>1 DEF BulkSentWrite, AppRow
    <3>2. CASE WriteApp(h)
      <4>1. KeepsStatus(req[h])
        BY <1>1, <3>2 DEF WriteApp, AloneReq
      <4>2. \A r \in Readers : app'[r].status \in {app[r].status} \cup
                                 (IF r \in req[h].ids THEN {req[h].ent[r].status} ELSE {})
        BY <3>2 DEF WriteApp, SavedApp, Column
      <4>3. QED
        BY <4>1, <4>2 DEF KeepsStatus
    <3>3. QED
      BY <1>2, <3>1, <3>2
  <2>2. Approved' \subseteq Approved
    BY <2>1 DEF Approved
  <2>3. /\ Cardinality(Approved)' <= Cardinality(Approved)
        /\ Cardinality(Approved)' \in Nat /\ Cardinality(Approved) \in Nat
    BY <2>2, ApprovedFinite, {} \in SUBSET Readers, FS_Subset, FS_CardinalityType
  <2>4. book' = book /\ book.avail \in Int /\ book.total \in Int
    BY <1>2 DEF WriteApp, BulkSentWrite, TypeOK, BookRow
  <2>5. QED
    BY <2>3, <2>4 DEF NoOverPromise
<1>3. CASE WriteBook(h)
  <2>1. /\ book' = SavedBook(req[h].bookBase, req[h].book, book) /\ app' = app
        /\ Offer(req[h].book) /\ req[h].bookBase.avail = book.avail /\ req[h].bookBase.total = book.total
    BY <1>1, <1>3 DEF WriteBook, OfferReq
  <2>2. book'.avail = req[h].book.avail /\ book'.total = req[h].book.total
    BY <2>1 DEF SavedBook, Column
  <2>3. Approved' = Approved
    BY <2>1 DEF Approved
  <2>4. QED
    BY <2>1, <2>2, <2>3 DEF Offer, NoOverPromise
<1>4. CASE UNCHANGED <<book, app>>
  BY <1>4 DEF NoOverPromise, Approved
<1>5. CASE ApplyInsert(h) \/ DecideTx(h) \/ BulkWrite(h)
  BY <1>5, OfferApproves
<1>6. ~LotteryDraw(h)
  BY <1>1 DEF LotteryDraw, OfferReq
<1>7. QED
  BY <1>2, <1>3, <1>4, <1>5, <1>6
     DEF Continue, ApplyRefused, DecideLock, DecideRefused, DecideReload, SelectApp, BulkRefused,
         EditChange, SelectBook, DataSame

\* An accepted edit offers no more than the copies it leaves.
LEMMA EditOffers ==
  ASSUME TypeOK, NEW b \in BookRow, NEW e \in Edits \cup {NoEdit}, Offer(b),
         EditAccepted(b, e, Cardinality(Approved))
  PROVE  Offer(Edited(b, e, Cardinality(Approved)))
<1> DEFINE n == Cardinality(Approved)
<1>1. n \in Nat
  BY ApprovedFinite, {} \in SUBSET Readers
<1>2. /\ Sets(e, "total") => e["total"] \in Nat
      /\ Sets(e, "avail") => e["avail"] \in Nat
  BY EditsKnown DEF EditBody, Sets, NoEdit
<1>3. b.avail \in Int /\ b.total \in Int
  BY DEF BookRow
<1>4. /\ Edited(b, e, n).total = Field(e, "total", b.total)
      /\ Edited(b, e, n).avail = IF Sets(e, "total") THEN e["total"] - n ELSE Field(e, "avail", b.avail)
  BY DEF Edited, BookRow
<1>5. Sets(e, "avail") /\ ~Sets(e, "total") => e["avail"] <= b.total - n
  BY DEF EditAccepted
<1> HIDE DEF n
<1>6. n + b.avail <= b.total
  BY DEF Offer, n
<1>7. n + Edited(b, e, n).avail <= Edited(b, e, n).total
  <2>1. CASE Sets(e, "total")
    BY <1>1, <1>2, <1>4, <2>1 DEF Field
  <2>2. CASE ~Sets(e, "total") /\ Sets(e, "avail")
    BY <1>1, <1>2, <1>3, <1>4, <1>5, <2>2 DEF Field
  <2>3. CASE ~Sets(e, "total") /\ ~Sets(e, "avail")
    BY <1>4, <1>6, <2>3 DEF Field
  <2>4. QED
    BY <2>1, <2>2, <2>3
<1>8. QED
  BY <1>7 DEF Offer, n

LEMMA ContinueOffer ==
  ASSUME TypeOK, OfferInv, NEW h \in Handlers, Continue(h)
  PROVE  OfferReq(req[h])'
<1> USE InFlight
<1>1. OfferReq(req[h]) /\ req[h] \in Request
  BY DEF OfferInv, TypeOK
<1>2. ASSUME req'[h].at \in {"idle", "reload", "saveApp", "writeApp"}
      PROVE  OfferReq(req[h])'
  BY <1>2 DEF OfferReq
<1>3. ASSUME Finish(h)
      PROVE  OfferReq(req[h])'
  <2>1. req'[h].at = "idle"
    BY <1>3 DEF Finish, TypeOK, Idle
  <2>2. QED
    BY <1>2, <2>1
<1>4. CASE DecideLock(h)
  <2>1. req'[h].at = "decideBook" /\ req'[h].ids = req[h].ids
    BY <1>1, <1>4 DEF DecideLock, GoTo, TypeOK, Request
  <2>2. QED
    BY <1>1, <1>4, <2>1 DEF DecideLock, OfferReq
<1>5. CASE DecideTx(h) \/ SelectApp(h) \/ \E mark \in BOOLEAN : DecideReload(h, mark)
  <2>1. Finish(h) \/ req'[h].at \in {"reload", "saveApp", "writeApp"}
    BY <1>1, <1>5 DEF DecideTx, SelectApp, DecideReload, GoTo, TypeOK, Request
  <2>2. QED
    BY <1>2, <1>3, <2>1
<1>6. CASE EditChange(h)
  <2> DEFINE new == Edited(req[h].book, req[h].edit, Cardinality(Approved))
  <2>1. Finish(h) \/ (Offer(new) /\ req' = [req EXCEPT ![h].at = "saveBook", ![h].book = new])
    BY <1>1, <1>6, EditOffers DEF EditChange, OfferReq
  <2>2. Approved' = Approved
    BY <1>6 DEF EditChange, DataSame, Approved
  <2> HIDE DEF new
  <2>3. CASE Offer(new) /\ req' = [req EXCEPT ![h].at = "saveBook", ![h].book = new]
    <3>1. req'[h].at = "saveBook" /\ req'[h].book = new
      BY <1>1, <2>3 DEF TypeOK, Request
    <3>2. QED
      BY <2>2, <2>3, <3>1 DEF OfferReq, Offer
  <2>4. QED
    BY <1>3, <2>1, <2>3
<1>7. CASE SelectBook(h)
  <2>1. /\ req'[h].at = "writeBook" /\ req'[h].book = req[h].book /\ req'[h].bookBase = book
        /\ book' = book /\ app' = app
    BY <1>1, <1>7 DEF SelectBook, TypeOK, Request, DataSame
  <2>2. Approved' = Approved
    BY <2>1 DEF Approved
  <2>3. QED
    BY <1>1, <1>7, <2>1, <2>2 DEF SelectBook, OfferReq, Offer
<1>8. CASE \/ ApplyInsert(h) \/ ApplyRefused(h) \/ DecideRefused(h) \/ WriteApp(h)
           \/ BulkSentWrite(h) \/ BulkWrite(h) \/ BulkRefused(h) \/ LotteryDraw(h)
           \/ WriteBook(h)
  BY <1>3, <1>8 DEF ApplyInsert, ApplyRefused, DecideRefused, WriteApp, BulkSentWrite, BulkWrite,
                    BulkRefused, LotteryDraw, WriteBook
<1>9. QED
  BY <1>4, <1>5, <1>6, <1>7, <1>8 DEF Continue

LEMMA OfferStep ==
  ASSUME Alone, "lottery" \notin Requests, TypeOK, AloneInv, OfferInv, [Next]_vars
  PROVE  OfferInv'
<1>1. ASSUME NEW h \in Handlers, Start(h)
      PROVE  OfferInv'
  <2>1. UNCHANGED <<app, book>> /\ OfferReq(req'[h])
    BY <1>1, StartFrame, StartOffer
  <2>2. Approved' = Approved
    BY <2>1 DEF Approved
  <2>3. OfferReq(req[h])'
    BY <2>1, <2>2 DEF OfferReq, Offer
  <2>4. QED
    BY <2>1, <2>2, <2>3 DEF Alone, OfferInv, NoOverPromise
<1>2. ASSUME NEW h \in Handlers, Continue(h)
      PROVE  OfferInv'
  BY <1>2, ContinuesOffer, ContinueOffer DEF Alone, OfferInv
<1>3. ASSUME NEW g \in Handlers, NEW h \in Handlers, AbortVictim(g, h)
      PROVE  FALSE
  BY <1>3 DEF Alone, AbortVictim, Deadlocked
<1>4. CASE Nightly \/ Tick \/ UNCHANGED vars
  <2>1. UNCHANGED <<app, req>> /\ book'.avail = book.avail /\ book'.total = book.total
    BY <1>4 DEF Nightly, NightlyOpen, NightlyDrawn, NightlyReview, NightlyFailed, NightlyUpdate,
                Tick, vars, TypeOK, BookRow
  <2>2. Approved' = Approved
    BY <2>1 DEF Approved
  <2>3. QED
    BY <2>1, <2>2 DEF OfferInv, OfferReq, Offer, NoOverPromise
<1>5. QED
  BY <1>1, <1>2, <1>3, <1>4 DEF Next

LEMMA OfferInit == Init => OfferInv
<1> SUFFICES ASSUME Init
             PROVE  OfferInv
  OBVIOUS
<1>1. Approved = {}
  BY DEF Init, Approved, NoApps, NoApp
<1>2. NoOverPromise
  BY <1>1, BooksCreated, FS_EmptySet DEF Init, NoOverPromise, BookRow
<1>3. QED
  BY <1>2 DEF Init, OfferInv, OfferReq, Idle

\* No more copies are promised than the book has, edits of its copies and
\* method, publications and the nightly job included, when requests do not
\* overlap and none is a draw.  lottery_stock needs a draw and nothing else.
THEOREM PromiseKeptAlone ==
  ASSUME Alone, "lottery" \notin Requests
  PROVE  Spec => []NoOverPromise
<1>1. TypeOK /\ AloneInv /\ [Next]_vars => AloneInv'
  BY AloneStep
<1>2. TypeOK /\ AloneInv /\ OfferInv /\ [Next]_vars => OfferInv'
  BY OfferStep
<1>3. OfferInv => NoOverPromise
  BY DEF OfferInv
<1>4. QED
  BY <1>1, <1>2, <1>3, AloneInit, OfferInit, TypeCorrect, PTL DEF Spec
=============================================================================
