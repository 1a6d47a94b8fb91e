---------------------------- MODULE ReviewsProofs ----------------------------
(***************************************************************************)
(* Theorems about Reviews, for any handlers, reviews, bodies and statuses. *)
(***************************************************************************)
EXTENDS Reviews, FiniteSetTheorems, TLAPS

ReviewColumns == {"there", "type", "content", "public", "words"}
AppColumns    == {"reading", "started", "completed", "submitted", "sent", "received"}
Marks         == {"started", "completed", "sent", "received"}

\* A mark that is set in one row of the application is set in the other
MarksKept(row, ent) == \A c \in Marks : row[c] => ent[c]

WordsFit(row) == row.words = calculateWordCount(row.type, row.content)

-----------------------------------------------------------------------------
\* Rows

LEMMA BlankTypes == NewApp \in AppRow /\ NoReview \in ReviewRow /\ Idle \in Request
BY DEF NewApp, AppRow, ReadingStatus, NoReview, ReviewRow, ReviewType, Content, Idle, Request,
       Stages, RequestKinds

LEMMA Columns ==
  /\ \A row \in ReviewRow : DOMAIN row = ReviewColumns
  /\ \A row \in AppRow : DOMAIN row = AppColumns
  /\ DOMAIN NewApp = AppColumns /\ DOMAIN NoReview = ReviewColumns
<1>1. \A row \in ReviewRow : DOMAIN row = ReviewColumns
  BY DEF ReviewRow, ReviewColumns
<1>2. \A row \in AppRow : DOMAIN row = AppColumns
  BY DEF AppRow, AppColumns
<1>3. QED
  BY <1>1, <1>2, BlankTypes

LEMMA WordCountType ==
  ASSUME NEW type \in ReviewType, NEW content \in Content
  PROVE  calculateWordCount(type, content) \in 0..2
<1>1. \A c \in Content : WordsOf[c] \in {0, 1, 2}
  BY DEF WordsOf, Content
<1>2. QED
  BY <1>1 DEF calculateWordCount

\* What a PATCH request makes of a review.
LEMMA EditedRow ==
  ASSUME NEW row \in ReviewRow, NEW e \in Edits
  PROVE  /\ Edited(row, e) \in ReviewRow
         /\ Edited(row, e).there = row.there
         /\ WordsFit(row) => WordsFit(Edited(row, e))
<1> DEFINE type == Given(e, "type", row.type)
           content == Given(e, "content", row.content)
           public == Given(e, "public", row.public)
           words == IF DOMAIN e = {} THEN row.words ELSE calculateWordCount(type, content)
<1>1. EditBody(e)
  BY ReviewEditsKnown
<1>2. type \in ReviewType /\ content \in Content /\ public \in BOOLEAN
  BY <1>1 DEF EditBody, Given, ReviewRow
<1>3. words \in 0..2
  BY <1>2, WordCountType DEF ReviewRow
<1>4. DOMAIN e = {} => type = row.type /\ content = row.content
  BY DEF Given
<1>5. WordsFit(row) => words = calculateWordCount(type, content)
  BY <1>4 DEF WordsFit
<1>6. Edited(row, e) = [row EXCEPT !.type = type, !.content = content, !.public = public,
                                   !.words = words]
  BY DEF Edited
<1> HIDE DEF type, content, public, words
<1>7. QED
  BY <1>2, <1>3, <1>5, <1>6 DEF ReviewRow, WordsFit

\* What a reader writes.
LEMMA NewReviewRow ==
  ASSUME NEW d \in Drafts
  PROVE  NewReview(d) \in ReviewRow /\ NewReview(d).there /\ WordsFit(NewReview(d))
<1>1. d.type \in ReviewType /\ d.content \in Content /\ d.public \in BOOLEAN
  BY ReviewInputsKnown
<1>2. calculateWordCount(d.type, d.content) \in 0..2
  BY <1>1, WordCountType
<1>3. QED
  BY <1>1, <1>2 DEF NewReview, ReviewRow, WordsFit

\* What the save of an entity leaves in a row.
LEMMA UpdatedReview ==
  ASSUME NEW ent \in ReviewRow, NEW row \in ReviewRow, NEW cols
  PROVE  /\ Updated(ent, cols, row) \in ReviewRow
         /\ \A c \in ReviewColumns :
              Updated(ent, cols, row)[c] = IF c \in cols THEN ent[c] ELSE row[c]
<1>1. Updated(ent, cols, row) = [c \in ReviewColumns |-> IF c \in cols THEN ent[c] ELSE row[c]]
  BY Columns DEF Updated
<1>2. QED
  BY <1>1 DEF ReviewRow, ReviewColumns

LEMMA UpdatedApp ==
  ASSUME NEW ent \in AppRow, NEW row \in AppRow, NEW cols
  PROVE  /\ Updated(ent, cols, row) \in AppRow
         /\ \A c \in AppColumns :
              Updated(ent, cols, row)[c] = IF c \in cols THEN ent[c] ELSE row[c]
<1>1. Updated(ent, cols, row) = [c \in AppColumns |-> IF c \in cols THEN ent[c] ELSE row[c]]
  BY Columns DEF Updated
<1>2. QED
  BY <1>1 DEF AppRow, AppColumns

\* The requests keep the marks, and say whether the application is submitted.
LEMMA ChangedApp ==
  ASSUME NEW row \in AppRow, NEW s \in Statuses
  PROVE  /\ Reviewed(row) \in AppRow /\ MarksKept(row, Reviewed(row)) /\ Reviewed(row).submitted
         /\ Cleared(row) \in AppRow /\ MarksKept(row, Cleared(row)) /\ ~Cleared(row).submitted
         /\ Progressed(row, s) \in AppRow /\ MarksKept(row, Progressed(row, s))
         /\ Progressed(row, s).submitted = row.submitted
<1>1. /\ Reviewed(row) \in AppRow /\ MarksKept(row, Reviewed(row)) /\ Reviewed(row).submitted
  BY DEF Reviewed, MarksKept, Marks, AppRow, ReadingStatus
<1>2. /\ Cleared(row) \in AppRow /\ MarksKept(row, Cleared(row)) /\ ~Cleared(row).submitted
  BY DEF Cleared, MarksKept, Marks, AppRow, ReadingStatus
<1>3. s \in ReadingStatus
  BY ReviewInputsKnown
<1>4. /\ Progressed(row, s) \in AppRow /\ MarksKept(row, Progressed(row, s))
      /\ Progressed(row, s).submitted = row.submitted
  BY <1>3 DEF Progressed, MarksKept, Marks, AppRow
<1>5. QED
  BY <1>1, <1>2, <1>4

LEMMA MarkedApp ==
  ASSUME NEW row \in AppRow, NEW mark \in {"received", "sent"}
  PROVE  /\ [row EXCEPT ![mark] = TRUE] \in AppRow
         /\ MarksKept(row, [row EXCEPT ![mark] = TRUE])
         /\ [row EXCEPT ![mark] = TRUE].submitted = row.submitted
<1>1. CASE mark = "received"
  BY <1>1 DEF MarksKept, Marks, AppRow
<1>2. CASE mark = "sent"
  BY <1>2 DEF MarksKept, Marks, AppRow
<1>3. QED
  BY <1>1, <1>2

-----------------------------------------------------------------------------
\* Stages and types

\* The request of a handler, by its stage
ReqStaged(r) ==
  /\ r.at = "insert" => r.kind = "create" /\ r.id \in Ids /\ r.rev.there
  /\ r.at = "delete" => r.kind = "remove" /\ r.id \in Ids
  /\ r.at \in {"saveApp", "writeApp"} => r.kind # "update"
  /\ r.at \in {"saveReview", "writeReview"} => r.kind = "update" /\ r.id \in Ids /\ r.rev.there

Staged ==
  /\ ReviewsTypeOK
  /\ \A h \in Handlers : ReqStaged(req[h])

Others(h) == \A g \in Handlers : g # h => req'[g] = req[g]

\* A request entered the service and stands at its first await
Begun(h) ==
  LET r == req'[h]
  IN  /\ req[h].at = "idle" /\ r \in Request
      /\ disturbed' = (disturbed \/ Disturbs(h, r.kind)) /\ NoteCrowd(r)
      /\ UNCHANGED <<app, review, mixed>>
      /\ \/ /\ r.at = "insert" /\ r.kind = "create" /\ r.id \in Ids
            /\ \A i \in Ids : ~review[i].there
            /\ r.app = app /\ r.rev.there /\ WordsFit(r.rev)
            /\ r.id \notin inserted /\ inserted' = inserted \cup {r.id}
         \/ /\ r.at = "saveReview" /\ r.kind = "update" /\ r.id \in Ids
            /\ review[r.id].there /\ r.rev.there /\ inserted' = inserted
            /\ WordsFit(review[r.id]) => WordsFit(r.rev)
         \/ /\ r.at = "delete" /\ r.kind = "remove" /\ r.id \in Ids
            /\ review[r.id].there /\ r.app = app /\ inserted' = inserted
         \/ /\ r.at = "saveApp" /\ r.kind \in {"progress", "received", "sent"}
            /\ MarksKept(app, r.app) /\ r.app.submitted = app.submitted
            /\ inserted' = inserted

LEMMA BeginShape ==
  ASSUME ReviewsTypeOK, NEW h \in Handlers, NEW kind \in RequestKinds, NEW r \in Request,
         Begin(h, kind, r)
  PROVE  /\ Others(h) /\ req' \in [Handlers -> Request]
         /\ req[h].at = "idle" /\ NoteCrowd(req'[h]) /\ mixed' = mixed
         /\ disturbed' = (disturbed \/ Disturbs(h, kind))
         /\ req'[h].at = r.at /\ req'[h].kind = kind /\ req'[h].id = r.id
         /\ req'[h].app = r.app /\ req'[h].rev = r.rev
<1>1. [r EXCEPT !.kind = kind] \in Request
  BY DEF Request
<1>2. req \in [Handlers -> Request] /\ req' = [req EXCEPT ![h] = [r EXCEPT !.kind = kind]]
  BY DEF ReviewsTypeOK, Begin
<1>3. req'[h] = [r EXCEPT !.kind = kind] /\ Others(h) /\ req' \in [Handlers -> Request]
  BY <1>1, <1>2 DEF Others
<1>4. QED
  BY <1>3 DEF Begin, Request, NoteCrowd

\* The records that requests begin with.
LEMMA BeginTypes ==
  ASSUME NEW stage \in Stages, NEW i \in Ids \cup {0}, NEW a \in AppRow, NEW row \in ReviewRow
  PROVE  /\ [Idle EXCEPT !.at = stage, !.id = i, !.app = a, !.rev = row] \in Request
         /\ [Idle EXCEPT !.at = stage, !.id = i, !.rev = row] \in Request
         /\ [Idle EXCEPT !.at = stage, !.id = i, !.app = a] \in Request
         /\ [Idle EXCEPT !.at = stage, !.app = a] \in Request
BY BlankTypes DEF Idle, Request

LEMMA ArriveShape ==
  ASSUME ReviewsTypeOK, NEW h \in Handlers, Arrive(h)
  PROVE  /\ Others(h) /\ Begun(h)
         /\ req' \in [Handlers -> Request] /\ inserted' \subseteq Ids
<1> app \in AppRow /\ review \in [Ids -> ReviewRow] /\ inserted \subseteq Ids
  BY DEF ReviewsTypeOK
<1>1. ASSUME NEW d \in Drafts, Create(h, d)
      PROVE  Others(h) /\ Begun(h) /\ req' \in [Handlers -> Request] /\ inserted' \subseteq Ids
  <2>1. PICK i \in Ids \ inserted :
          /\ Begin(h, "create", [Idle EXCEPT !.at = "insert", !.id = i, !.app = app,
                                             !.rev = NewReview(d)])
          /\ inserted' = inserted \cup {i}
    BY <1>1 DEF Create
  <2> DEFINE r == [Idle EXCEPT !.at = "insert", !.id = i, !.app = app, !.rev = NewReview(d)]
  <2>2. r \in Request
    BY NewReviewRow, BeginTypes DEF Stages
  <2>3. r.at = "insert" /\ r.id = i /\ r.app = app /\ r.rev = NewReview(d)
    BY DEF Idle
  <2> HIDE DEF r
  <2>4. /\ Others(h) /\ req' \in [Handlers -> Request]
        /\ req[h].at = "idle" /\ NoteCrowd(req'[h]) /\ mixed' = mixed
        /\ disturbed' = (disturbed \/ Disturbs(h, "create"))
        /\ req'[h].at = "insert" /\ req'[h].kind = "create" /\ req'[h].id = i
        /\ req'[h].app = app /\ req'[h].rev = NewReview(d)
    BY <2>1, <2>2, <2>3, BeginShape DEF RequestKinds, r
  <2>5. QED
    BY <1>1, <2>1, <2>4, NewReviewRow DEF Create, Begun
<1>2. ASSUME NEW i \in Ids, Remove(h, i)
      PROVE  Others(h) /\ Begun(h) /\ req' \in [Handlers -> Request] /\ inserted' \subseteq Ids
  <2> DEFINE r == [Idle EXCEPT !.at = "delete", !.id = i, !.app = app]
  <2>1. r \in Request
    BY BlankTypes, BeginTypes DEF Stages
  <2>2. r.at = "delete" /\ r.id = i /\ r.app = app /\ Begin(h, "remove", r)
    BY <1>2 DEF Idle, Remove
  <2> HIDE DEF r
  <2>3. /\ Others(h) /\ req' \in [Handlers -> Request]
        /\ req[h].at = "idle" /\ NoteCrowd(req'[h]) /\ mixed' = mixed
        /\ disturbed' = (disturbed \/ Disturbs(h, "remove"))
        /\ req'[h].at = "delete" /\ req'[h].kind = "remove" /\ req'[h].id = i
        /\ req'[h].app = app
    BY <2>1, <2>2, BeginShape DEF RequestKinds
  <2>4. QED
    BY <1>2, <2>3 DEF Remove, Begun
<1>3. ASSUME NEW i \in Ids, NEW e \in Edits, Update(h, i, e)
      PROVE  Others(h) /\ Begun(h) /\ req' \in [Handlers -> Request] /\ inserted' \subseteq Ids
  <2> DEFINE r == [Idle EXCEPT !.at = "saveReview", !.id = i, !.rev = Edited(review[i], e)]
  <2>1. /\ Edited(review[i], e) \in ReviewRow /\ review[i].there
        /\ Edited(review[i], e).there = review[i].there
        /\ WordsFit(review[i]) => WordsFit(Edited(review[i], e))
    BY <1>3, EditedRow DEF Update
  <2>2. r \in Request
    BY <2>1, BlankTypes, BeginTypes DEF Stages
  <2>3. r.at = "saveReview" /\ r.id = i /\ r.rev = Edited(review[i], e) /\ Begin(h, "update", r)
    BY <1>3 DEF Idle, Update
  <2> HIDE DEF r
  <2>4. /\ Others(h) /\ req' \in [Handlers -> Request]
        /\ req[h].at = "idle" /\ NoteCrowd(req'[h]) /\ mixed' = mixed
        /\ disturbed' = (disturbed \/ Disturbs(h, "update"))
        /\ req'[h].at = "saveReview" /\ req'[h].kind = "update" /\ req'[h].id = i
        /\ req'[h].rev = Edited(review[i], e)
    BY <2>2, <2>3, BeginShape DEF RequestKinds
  <2>5. QED
    BY <1>3, <2>1, <2>4 DEF Update, Begun
<1>4. ASSUME NEW kind \in {"progress", "received", "sent"}, NEW ent \in AppRow,
             Mark(h, kind, ent), MarksKept(app, ent), ent.submitted = app.submitted
      PROVE  Others(h) /\ Begun(h) /\ req' \in [Handlers -> Request] /\ inserted' \subseteq Ids
  <2> DEFINE r == [Idle EXCEPT !.at = "saveApp", !.app = ent]
  <2>1. r \in Request
    BY BlankTypes, BeginTypes DEF Stages
  <2>2. r.at = "saveApp" /\ r.app = ent /\ Begin(h, kind, r)
    BY <1>4 DEF Idle, Mark
  <2> HIDE DEF r
  <2>3. /\ Others(h) /\ req' \in [Handlers -> Request]
        /\ req[h].at = "idle" /\ NoteCrowd(req'[h]) /\ mixed' = mixed
        /\ disturbed' = (disturbed \/ Disturbs(h, kind))
        /\ req'[h].at = "saveApp" /\ req'[h].kind = kind /\ req'[h].app = ent
    BY <2>1, <2>2, BeginShape DEF RequestKinds
  <2>4. QED
    BY <1>4, <2>3 DEF Mark, Begun
<1>5. ASSUME NEW s \in Statuses, Mark(h, "progress", Progressed(app, s))
      PROVE  Others(h) /\ Begun(h) /\ req' \in [Handlers -> Request] /\ inserted' \subseteq Ids
  BY <1>4, <1>5, ChangedApp
<1>6. ASSUME NEW mark \in {"received", "sent"}, Mark(h, mark, [app EXCEPT ![mark] = TRUE])
      PROVE  Others(h) /\ Begun(h) /\ req' \in [Handlers -> Request] /\ inserted' \subseteq Ids
  BY <1>4, <1>6, MarkedApp
<1>7. QED
  BY <1>1, <1>2, <1>3, <1>5, <1>6 DEF Arrive

\* A handler went on to its next await, or is done
Moved(h) ==
  LET p == req[h]
      r == req'[h]
  IN  /\ p.at # "idle" /\ r \in Request /\ p \in Request /\ ReqStaged(p)
      /\ \/ /\ r = Idle
            /\ WriteReview(h) \/ WriteApp(h) \/ Fail(h)
         \/ /\ Insert(h) /\ r.at = "saveApp" /\ r.kind = p.kind
            /\ r.app = Reviewed(p.app)
         \/ /\ Delete(h) /\ r.at = "saveApp" /\ r.kind = p.kind
            /\ r.app = Cleared(p.app)
         \/ /\ SelectReview(h) /\ r.at = "writeReview" /\ r.kind = p.kind /\ r.id = p.id
            /\ r.rev = p.rev /\ r.cols = Differing(p.rev, review[p.id])
         \/ /\ SelectApp(h) /\ r.at = "writeApp" /\ r.kind = p.kind /\ r.id = p.id
            /\ r.app = p.app /\ r.cols = Differing(p.app, app)

\* One request is replaced.
LEMMA FrameReq ==
  ASSUME NEW h \in Handlers, NEW r \in Request, req \in [Handlers -> Request],
         req' = [req EXCEPT ![h] = r]
  PROVE  req'[h] = r /\ Others(h) /\ req' \in [Handlers -> Request]
BY DEF Others

LEMMA ContinueShape ==
  ASSUME Staged, NEW h \in Handlers, Continue(h)
  PROVE  /\ Others(h) /\ Moved(h)
         /\ req' \in [Handlers -> Request] /\ inserted' = inserted
<1> DEFINE p == req[h]
<1>1. /\ req \in [Handlers -> Request] /\ p \in Request /\ ReqStaged(p)
      /\ p.app \in AppRow /\ p.rev \in ReviewRow /\ app \in AppRow
      /\ review \in [Ids -> ReviewRow]
  BY DEF Staged, ReviewsTypeOK, Request
<1>2. CASE WriteReview(h) \/ WriteApp(h) \/ Fail(h)
  <2>1. Finish(h) /\ p.at # "idle" /\ inserted' = inserted
    BY <1>2 DEF WriteReview, WriteApp, Fail
  <2>2. req'[h] = Idle /\ Others(h) /\ req' \in [Handlers -> Request]
    BY <1>1, <2>1, BlankTypes, FrameReq DEF Finish
  <2>3. QED
    BY <1>1, <1>2, <2>1, <2>2, BlankTypes DEF Moved
<1>3. CASE Insert(h)
  <2> DEFINE r == [Idle EXCEPT !.at = "saveApp", !.kind = "create", !.app = Reviewed(p.app)]
  <2>1. Reviewed(p.app) \in AppRow
    BY <1>1 DEF Reviewed, AppRow, ReadingStatus
  <2>2. r \in Request
    BY <2>1, BlankTypes DEF Request, Stages, RequestKinds
  <2>3. req' = [req EXCEPT ![h] = r] /\ p.kind = "create" /\ p.at # "idle" /\ inserted' = inserted
    BY <1>1, <1>3 DEF Insert, ReqStaged
  <2>4. r.at = "saveApp" /\ r.kind = p.kind /\ r.app = Reviewed(p.app)
    BY <2>3 DEF Idle
  <2> HIDE DEF r
  <2>5. req'[h] = r /\ Others(h) /\ req' \in [Handlers -> Request]
    BY <1>1, <2>2, <2>3, FrameReq
  <2>6. QED
    BY <1>1, <1>3, <2>2, <2>3, <2>4, <2>5 DEF Moved
<1>4. CASE Delete(h)
  <2> DEFINE r == [Idle EXCEPT !.at = "saveApp", !.kind = "remove", !.app = Cleared(p.app)]
  <2>1. Cleared(p.app) \in AppRow
    BY <1>1 DEF Cleared, AppRow, ReadingStatus
  <2>2. r \in Request
    BY <2>1, BlankTypes DEF Request, Stages, RequestKinds
  <2>3. req' = [req EXCEPT ![h] = r] /\ p.kind = "remove" /\ p.at # "idle" /\ inserted' = inserted
    BY <1>1, <1>4 DEF Delete, ReqStaged
  <2>4. r.at = "saveApp" /\ r.kind = p.kind /\ r.app = Cleared(p.app)
    BY <2>3 DEF Idle
  <2> HIDE DEF r
  <2>5. req'[h] = r /\ Others(h) /\ req' \in [Handlers -> Request]
    BY <1>1, <2>2, <2>3, FrameReq
  <2>6. QED
    BY <1>1, <1>4, <2>2, <2>3, <2>4, <2>5 DEF Moved
<1>5. CASE SelectReview(h)
  <2> DEFINE cols == Differing(p.rev, review[p.id])
             r == [p EXCEPT !.at = "writeReview", !.cols = cols]
  <2>1. p.at = "saveReview" /\ review[p.id] \in ReviewRow
    BY <1>1, <1>5 DEF SelectReview, ReqStaged
  <2>2. cols \subseteq ReviewColumns
    BY <2>1, Columns DEF Differing
  <2>3. cols \in SUBSET (DOMAIN NewApp \cup DOMAIN NoReview)
    BY <2>2, Columns
  <2>4. req' = [req EXCEPT ![h] = [p EXCEPT !.at = "writeReview", !.cols = cols]]
        /\ inserted' = inserted
    BY <1>1, <1>5 DEF SelectReview
  <2> HIDE DEF cols
  <2>5. r \in Request
    BY <1>1, <2>3 DEF Request, Stages
  <2>6. r.at = "writeReview" /\ r.kind = p.kind /\ r.id = p.id /\ r.rev = p.rev /\ r.cols = cols
    BY <1>1 DEF Request
  <2>7. req'[h] = r /\ Others(h) /\ req' \in [Handlers -> Request]
    BY <1>1, <2>4, <2>5, FrameReq
  <2> HIDE DEF r
  <2>8. QED
    BY <1>1, <1>5, <2>1, <2>4, <2>5, <2>6, <2>7 DEF Moved, cols
<1>6. CASE SelectApp(h)
  <2> DEFINE cols == Differing(p.app, app)
             r == [p EXCEPT !.at = "writeApp", !.cols = cols]
  <2>1. p.at = "saveApp"
    BY <1>6 DEF SelectApp
  <2>2. cols \subseteq AppColumns
    BY <1>1, Columns DEF Differing
  <2>3. cols \in SUBSET (DOMAIN NewApp \cup DOMAIN NoReview)
    BY <2>2, Columns
  <2>4. req' = [req EXCEPT ![h] = [p EXCEPT !.at = "writeApp", !.cols = cols]]
        /\ inserted' = inserted
    BY <1>1, <1>6 DEF SelectApp
  <2> HIDE DEF cols
  <2>5. r \in Request
    BY <1>1, <2>3 DEF Request, Stages
  <2>6. r.at = "writeApp" /\ r.kind = p.kind /\ r.id = p.id /\ r.app = p.app /\ r.cols = cols
    BY <1>1 DEF Request
  <2>7. req'[h] = r /\ Others(h) /\ req' \in [Handlers -> Request]
    BY <1>1, <2>4, <2>5, FrameReq
  <2> HIDE DEF r
  <2>8. QED
    BY <1>1, <1>6, <2>1, <2>4, <2>5, <2>6, <2>7 DEF Moved, cols
<1>7. QED
  BY <1>2, <1>3, <1>4, <1>5, <1>6 DEF Continue

\* The stage a step leads to.
LEMMA StageAfter ==
  ASSUME req \in [Handlers -> Request], NEW h \in Handlers
  PROVE  /\ Insert(h) \/ Delete(h) => req'[h].at = "saveApp"
         /\ SelectReview(h) => req'[h].at = "writeReview"
         /\ SelectApp(h) => req'[h].at = "writeApp"
         /\ WriteReview(h) \/ WriteApp(h) \/ Fail(h) => req'[h] = Idle /\ req'[h].at = "idle"
<1>1. req[h] \in Request
  OBVIOUS
<1>2. Insert(h) => req'[h].at = "saveApp"
  BY DEF Insert, Idle
<1>3. Delete(h) => req'[h].at = "saveApp"
  BY DEF Delete, Idle
<1>4. SelectReview(h) => req'[h].at = "writeReview"
  BY <1>1 DEF SelectReview, Request
<1>5. SelectApp(h) => req'[h].at = "writeApp"
  BY <1>1 DEF SelectApp, Request
<1>6. WriteReview(h) \/ WriteApp(h) \/ Fail(h) => req'[h] = Idle
  BY DEF WriteReview, WriteApp, Fail, Finish
<1>7. Idle.at = "idle"
  BY DEF Idle
<1>8. QED
  BY <1>2, <1>3, <1>4, <1>5, <1>6, <1>7

\* What the save of a review leaves in the row.
LEMMA SavedReview ==
  ASSUME NEW ent \in ReviewRow, NEW row \in ReviewRow, NEW cols, ent.there
  PROVE  /\ Saved(ent, cols, row) \in ReviewRow
         /\ row.there => Saved(ent, cols, row).there
         /\ \/ Saved(ent, cols, row) \in {ent, row}
            \/ /\ row.there /\ Saved(ent, cols, row) = Updated(ent, cols, row)
               /\ \A c \in ReviewColumns :
                    Saved(ent, cols, row)[c] = IF c \in cols THEN ent[c] ELSE row[c]
<1>1. CASE row.there = ("there" \in cols)
  BY <1>1 DEF Saved
<1>2. CASE "there" \in cols /\ ~row.there
  BY <1>2 DEF Saved
<1>3. CASE "there" \notin cols /\ row.there
  <2>1. Saved(ent, cols, row) = Updated(ent, cols, row)
    BY <1>3 DEF Saved
  <2>2. Saved(ent, cols, row) \in ReviewRow /\ Saved(ent, cols, row)["there"] = row["there"]
    BY <1>3, <2>1, UpdatedReview DEF ReviewColumns
  <2>3. Saved(ent, cols, row).there = row.there
    BY <2>2 DEF ReviewRow
  <2>4. QED
    BY <1>3, <2>1, <2>2, <2>3, UpdatedReview
<1>4. row.there \in BOOLEAN
  BY DEF ReviewRow
<1>5. QED
  BY <1>1, <1>2, <1>3, <1>4

LEMMA WrittenReview ==
  ASSUME Staged, NEW h \in Handlers, WriteReview(h)
  PROVE  /\ app' = app /\ req[h].id \in Ids /\ req[h].rev.there /\ req[h].rev \in ReviewRow
         /\ \A i \in Ids : i # req[h].id => review'[i] = review[i]
         /\ review'[req[h].id] = Saved(req[h].rev, req[h].cols, review[req[h].id])
         /\ review'[req[h].id] \in ReviewRow
         /\ review' \in [Ids -> ReviewRow]
<1>1. /\ review \in [Ids -> ReviewRow] /\ req[h] \in Request /\ req[h].at = "writeReview"
      /\ req[h].id \in Ids /\ req[h].rev.there
  BY DEF Staged, ReviewsTypeOK, ReqStaged, WriteReview
<1>2. req[h].rev \in ReviewRow /\ review[req[h].id] \in ReviewRow
  BY <1>1 DEF Request
<1>3. Saved(req[h].rev, req[h].cols, review[req[h].id]) \in ReviewRow
  BY <1>1, <1>2, SavedReview
<1>4. QED
  BY <1>1, <1>2, <1>3 DEF WriteReview

LEMMA WritersFinite == IsFiniteSet(Writers) /\ Cardinality(Writers) \in Nat
<1>1. Writers \in SUBSET Handlers
  BY DEF Writers
<1>2. QED
  BY <1>1, HandlersFinite, FS_Subset, FS_CardinalityType

\* The histories of a handler that goes on.
LEMMA NotesMoved ==
  ASSUME ReviewsTypeOK, NEW h \in Handlers, Continue(h)
  PROVE  /\ crowd' = crowd /\ disturbed' \in BOOLEAN
         /\ WriteReview(h) \/ mixed' = mixed
         /\ WriteReview(h) => NoteMixed(h)
BY DEF Continue, Insert, Delete, SelectReview, SelectApp, WriteReview, WriteApp, Fail, notes,
       ReviewsTypeOK

LEMMA StagedStep == Staged /\ [Next]_vars => Staged'
<1> SUFFICES ASSUME Staged, [Next]_vars
             PROVE  Staged'
  OBVIOUS
<1>1. /\ req \in [Handlers -> Request] /\ app \in AppRow /\ review \in [Ids -> ReviewRow]
      /\ inserted \subseteq Ids /\ disturbed \in BOOLEAN /\ crowd \in Nat /\ mixed \subseteq Ids
      /\ \A h \in Handlers : ReqStaged(req[h])
  BY DEF Staged, ReviewsTypeOK
<1>2. ASSUME NEW h \in Handlers, Others(h), ReqStaged(req'[h])
      PROVE  \A g \in Handlers : ReqStaged(req'[g])
  BY <1>1, <1>2 DEF Others
<1>3. ASSUME NEW h \in Handlers, Arrive(h)
      PROVE  Staged'
  <2>1. Others(h) /\ Begun(h) /\ req' \in [Handlers -> Request] /\ inserted' \subseteq Ids
    BY <1>3, ArriveShape DEF Staged
  <2>2. ReqStaged(req'[h]) /\ app' = app /\ review' = review /\ disturbed' \in BOOLEAN
    BY <1>1, <2>1 DEF Begun, ReqStaged, Disturbs
  <2>3. mixed' = mixed /\ crowd' \in Nat
    BY <1>1, <2>1, WritersFinite DEF Begun, NoteCrowd
  <2>4. QED
    BY <1>1, <1>2, <2>1, <2>2, <2>3 DEF Staged, ReviewsTypeOK, ReqStaged
<1>4. ASSUME NEW h \in Handlers, Continue(h)
      PROVE  Staged'
  <2>1. Others(h) /\ Moved(h) /\ req' \in [Handlers -> Request] /\ inserted' = inserted
    BY <1>4, ContinueShape
  <2>2. ReqStaged(req'[h])
    BY <2>1 DEF Moved, ReqStaged, Idle, Insert, Delete, SelectReview, SelectApp
  <2>3. disturbed' \in BOOLEAN /\ crowd' \in Nat /\ mixed' \subseteq Ids
    <3>1. WriteReview(h) => req[h].id \in Ids
      BY <1>1 DEF WriteReview, ReqStaged
    <3>2. QED
      BY <1>1, <1>4, <3>1, NotesMoved DEF Staged, NoteMixed
  <2>4. review' \in [Ids -> ReviewRow]
    <3>1. CASE Insert(h) \/ Delete(h)
      <4>1. req[h].rev \in ReviewRow
        BY <1>1 DEF Request
      <4>2. QED
        BY <1>1, <3>1, <4>1, BlankTypes DEF Insert, Delete
    <3>2. CASE WriteReview(h)
      BY <3>2, WrittenReview
    <3>3. CASE SelectReview(h) \/ SelectApp(h) \/ WriteApp(h) \/ Fail(h)
      BY <1>1, <3>3 DEF SelectReview, SelectApp, WriteApp, Fail
    <3>4. QED
      BY <1>4, <3>1, <3>2, <3>3 DEF Continue
  <2>5. app' \in AppRow
    <3>1. CASE WriteApp(h)
      <4>1. req[h].app \in AppRow
        BY <1>1 DEF Request
      <4>2. QED
        BY <1>1, <3>1, <4>1, UpdatedApp DEF WriteApp
    <3>2. CASE ~WriteApp(h)
      BY <1>1, <1>4, <3>2 DEF Continue, Insert, Delete, SelectReview, SelectApp, WriteReview, Fail
    <3>3. QED
      BY <3>1, <3>2
  <2>6. QED
    BY <1>1, <1>2, <2>1, <2>2, <2>3, <2>4, <2>5 DEF Staged, ReviewsTypeOK, ReqStaged
<1>5. CASE UNCHANGED vars
  BY <1>1, <1>5 DEF vars, notes, Staged, ReviewsTypeOK, ReqStaged
<1>6. QED
  BY <1>3, <1>4, <1>5 DEF Next

LEMMA StagedInit == Init => Staged
<1> SUFFICES ASSUME Init
             PROVE  Staged
  OBVIOUS
<1>1. ReviewsTypeOK
  BY BlankTypes DEF Init, ReviewsTypeOK
<1>2. \A h \in Handlers : req[h].at = "idle"
  BY DEF Init, Idle
<1>3. QED
  BY <1>1, <1>2 DEF Staged, ReqStaged

\* Rows and handlers have their types.
THEOREM ReviewsTypeCorrect == Spec => []ReviewsTypeOK
<1>1. Staged => ReviewsTypeOK
  BY DEF Staged
<1>2. QED
  BY <1>1, StagedInit, StagedStep, PTL DEF Spec

\* Every step is a request's first one, a handler's next one, or none.
LEMMA StepShape ==
  ASSUME Staged, [Next]_vars
  PROVE  \/ UNCHANGED vars
         \/ \E h \in Handlers : Others(h) /\ (Begun(h) \/ Moved(h))
BY ArriveShape, ContinueShape DEF Staged, Next

-----------------------------------------------------------------------------
\* OneReview: reviews that are there and that are being written

Taken == Present \cup {req[h].id : h \in Writers}

CrowdInv == Cardinality(Taken) <= crowd

LEMMA TakenFinite ==
  ASSUME NEW S \in SUBSET Ids
  PROVE  IsFiniteSet(S) /\ Cardinality(S) \in Nat
<1>1. IsFiniteSet(Ids)
  BY MaxReviewsNat, FS_Interval DEF Ids
<1>2. QED
  BY <1>1, FS_Subset, FS_CardinalityType

LEMMA TakenIds == Staged => Taken \in SUBSET Ids /\ Present \in SUBSET Taken
BY DEF Taken, Present, Writers, Staged, ReqStaged

\* Requests that write hold as many reviews as they are, at most.
LEMMA HeldByWriters ==
  ASSUME NEW r, NEW W, IsFiniteSet(W)
  PROVE  Cardinality({r[h].id : h \in W}) <= Cardinality(W)
<1> DEFINE held == {r[h].id : h \in W}
           f == [h \in W |-> r[h].id]
<1>1. f \in Surjection(W, held)
  BY DEF Surjection
<1> HIDE DEF f, held
<1>2. Cardinality(held) <= Cardinality(W)
  BY <1>1, FS_Surjection
<1>3. QED
  BY <1>2 DEF held

\* Nothing is taken, and nobody is crowded out.
LEMMA CrowdFrame ==
  ASSUME Staged, Staged', CrowdInv, Taken' \subseteq Taken, crowd' >= crowd
  PROVE  CrowdInv'
<1>1. Taken' \in SUBSET Taken /\ crowd \in Nat /\ crowd' \in Nat
  BY DEF Staged, ReviewsTypeOK
<1>2. Cardinality(Taken') <= Cardinality(Taken)
  BY <1>1, TakenIds, TakenFinite, FS_Subset
<1>3. Cardinality(Taken) \in Nat /\ Cardinality(Taken') \in Nat
  BY <1>1, TakenIds, TakenFinite
<1>4. QED
  BY <1>1, <1>2, <1>3 DEF CrowdInv

LEMMA CrowdBegun ==
  ASSUME Staged, Staged', CrowdInv, NEW h \in Handlers, Others(h), Begun(h)
  PROVE  CrowdInv'
<1> DEFINE r == req'[h]
<1>1. /\ Present' = Present /\ crowd \in Nat /\ crowd' \in Nat /\ req[h].at = "idle"
      /\ crowd' >= crowd
      /\ r.at \in {"insert", "saveReview"} => crowd' >= Cardinality(Writers) + 1
  <2>1. crowd \in Nat /\ Cardinality(Writers) \in Nat /\ NoteCrowd(r)
    BY WritersFinite DEF Staged, ReviewsTypeOK, Begun
  <2>2. QED
    BY <2>1 DEF Begun, Present, NoteCrowd
<1>2. \A g \in Handlers : g # h => req'[g] = req[g]
  BY DEF Others
<1>3. CASE r.at = "insert"
  <2>1. Present' = {}
    BY <1>1, <1>3 DEF Begun, Present
  <2>2. Writers' = Writers \cup {h} /\ h \notin Writers
    BY <1>1, <1>2, <1>3 DEF Writers
  <2>3. Cardinality(Writers') = Cardinality(Writers) + 1 /\ IsFiniteSet(Writers')
    BY <2>2, WritersFinite, FS_AddElement
  <2>4. Cardinality({req'[g].id : g \in Writers'}) <= Cardinality(Writers')
    BY <2>3, HeldByWriters
  <2>5. Taken' = {req'[g].id : g \in Writers'}
    BY <2>1 DEF Taken
  <2>6. Cardinality(Taken') \in Nat
    <3>1. Taken' \in SUBSET Ids
      BY <2>1, <2>5 DEF Writers, Staged, ReqStaged
    <3>2. QED
      BY <3>1, TakenFinite
  <2>7. QED
    BY <1>1, <1>3, <2>3, <2>4, <2>5, <2>6, WritersFinite DEF CrowdInv
<1>4. CASE r.at # "insert"
  <2>1. r.at = "saveReview" => r.id \in Present
    BY DEF Begun, Present
  <2>2. \A g \in Writers' : (g \in Writers /\ req'[g].id = req[g].id) \/ req'[g].id \in Present
    BY <1>2, <1>4, <2>1 DEF Writers, Begun
  <2>3. Taken' \subseteq Taken
    BY <1>1, <2>2 DEF Taken
  <2>4. QED
    BY <1>1, <2>3, CrowdFrame
<1>5. QED
  BY <1>3, <1>4

LEMMA CrowdMoved ==
  ASSUME Staged, Staged', CrowdInv, NEW h \in Handlers, Others(h), Moved(h), Continue(h)
  PROVE  CrowdInv'
<1>1. /\ req \in [Handlers -> Request] /\ review \in [Ids -> ReviewRow] /\ crowd' = crowd
      /\ crowd \in Nat /\ ReqStaged(req[h])
  BY NotesMoved DEF Staged, ReviewsTypeOK
<1>2. \A g \in Writers' : g \in Writers /\ req'[g].id = req[g].id
  <2>1. ASSUME h \in Writers'
        PROVE  h \in Writers /\ req'[h].id = req[h].id
    BY <2>1 DEF Writers, Moved, Idle, SelectReview
  <2>2. QED
    BY <2>1 DEF Writers, Others
<1>3. Present' \subseteq Taken
  <2>1. CASE Insert(h)
    <3>1. /\ h \in Writers /\ req[h].id \in Ids
          /\ review' = [review EXCEPT ![req[h].id] = req[h].rev]
      BY <1>1, <2>1 DEF Insert, Writers, ReqStaged
    <3>2. Present' \subseteq Present \cup {req[h].id}
      BY <1>1, <3>1 DEF Present
    <3>3. QED
      BY <3>1, <3>2 DEF Taken
  <2>2. CASE Delete(h)
    BY <1>1, <2>2 DEF Delete, Present, Taken, NoReview, ReqStaged
  <2>3. CASE WriteReview(h)
    <3>1. h \in Writers /\ \A i \in Ids : i # req[h].id => review'[i] = review[i]
      BY <2>3, WrittenReview DEF WriteReview, Writers
    <3>2. Present' \subseteq Present \cup {req[h].id}
      BY <3>1 DEF Present
    <3>3. QED
      BY <3>1, <3>2 DEF Taken
  <2>4. CASE SelectReview(h) \/ SelectApp(h) \/ WriteApp(h) \/ Fail(h)
    BY <2>4 DEF SelectReview, SelectApp, WriteApp, Fail, Present, Taken
  <2>5. QED
    BY <2>1, <2>2, <2>3, <2>4 DEF Moved
<1>4. Taken' \subseteq Taken
  BY <1>2, <1>3 DEF Taken
<1>5. QED
  BY <1>1, <1>4, CrowdFrame

LEMMA CrowdStep == Staged /\ Staged' /\ CrowdInv /\ [Next]_vars => CrowdInv'
<1>1. ASSUME UNCHANGED vars, CrowdInv
      PROVE  CrowdInv'
  BY <1>1 DEF vars, notes, CrowdInv, Taken, Present, Writers
<1>2. ASSUME Staged, Staged', CrowdInv, NEW h \in Handlers, Arrive(h)
      PROVE  CrowdInv'
  BY <1>2, ArriveShape, CrowdBegun DEF Staged
<1>3. ASSUME Staged, Staged', CrowdInv, NEW h \in Handlers, Continue(h)
      PROVE  CrowdInv'
  BY <1>3, ContinueShape, CrowdMoved
<1>4. QED
  BY <1>1, <1>2, <1>3 DEF Next

\* An application never has more reviews than requests were writing a review
\* at a time: however requests of the reader overlap, and wherever they fail,
\* each of them brings one review at most.
THEOREM OneReviewKept == Spec => []OneReview
<1>1. Init => CrowdInv
  <2> SUFFICES ASSUME Init
               PROVE  CrowdInv
    OBVIOUS
  <2>1. Present = {} /\ Writers = {}
    BY DEF Init, Present, Writers, NoReview, Idle
  <2>2. Taken = {}
    BY <2>1 DEF Taken
  <2>3. QED
    BY <2>2, FS_EmptySet DEF Init, CrowdInv
<1>2. Staged /\ CrowdInv => OneReview
  <2> SUFFICES ASSUME Staged, CrowdInv
               PROVE  Cardinality(Present) <= crowd
    BY DEF OneReview
  <2>1. Cardinality(Present) <= Cardinality(Taken) /\ Cardinality(Present) \in Nat
    BY TakenIds, TakenFinite, FS_Subset
  <2>2. QED
    BY <2>1, TakenIds, TakenFinite DEF CrowdInv, Staged, ReviewsTypeOK
<1>3. QED
  BY <1>1, <1>2, StagedInit, StagedStep, CrowdStep, PTL DEF Spec

-----------------------------------------------------------------------------
\* WordCountFits: an entity fits itself, and a save that has selected the row
\* finds it as it was

\* A review that is going to be inserted has an id of its own
Fresh ==
  /\ \A i \in Ids : review[i].there => i \in inserted
  /\ \A h \in Writers : req[h].id \in inserted
  /\ \A h \in Writers : req[h].at = "insert" =>
       /\ ~review[req[h].id].there
       /\ \A g \in Writers : g # h => req[g].id # req[h].id

FitReq(r) ==
  r.id \notin mixed =>
    /\ r.at \in {"insert", "saveReview", "writeReview"} => WordsFit(r.rev)
    /\ r.at = "writeReview" /\ review[r.id].there =>
         \A c \in ReviewColumns : c \in r.cols \/ review[r.id][c] = r.rev[c]

FitInv ==
  /\ Fresh
  /\ \A i \in Ids \ mixed : review[i].there => WordsFit(review[i])
  /\ \A h \in Handlers : FitReq(req[h])

\* What an arriving request leaves as it was.
LEMMA FitBegun ==
  ASSUME Staged, FitInv, NEW h \in Handlers, Others(h), Begun(h)
  PROVE  FitInv'
<1> DEFINE r == req'[h]
<1>1. /\ review' = review /\ mixed' = mixed /\ req[h].at = "idle" /\ h \notin Writers
      /\ inserted \subseteq inserted'
  BY DEF Begun, Writers
<1>2. \A g \in Handlers : g # h => req'[g] = req[g]
  BY DEF Others
<1>3. \A g \in Writers' : g # h => g \in Writers /\ req'[g] = req[g] /\ req[g].id \in inserted
  BY <1>1, <1>2 DEF FitInv, Fresh, Writers
<1>4. \A g \in Writers' : req'[g].at = "insert" /\ g # h => ~review'[req'[g].id].there
  BY <1>1, <1>3 DEF FitInv, Fresh
<1>5. \A i \in Ids : review'[i].there => i \in inserted'
  BY <1>1 DEF FitInv, Fresh
<1>6. CASE r.at = "insert"
  <2>1. r.id \notin inserted /\ r.id \in inserted' /\ WordsFit(r.rev) /\ ~review[r.id].there
    BY <1>6 DEF Begun
  <2>2. Fresh'
    BY <1>1, <1>3, <1>4, <1>5, <2>1 DEF Fresh, FitInv
  <2>3. FitReq(req[h])'
    BY <1>6, <2>1 DEF FitReq, WordsFit
  <2>4. QED
    BY <1>1, <1>2, <2>2, <2>3 DEF FitInv, FitReq, WordsFit
<1>7. CASE r.at = "saveReview"
  <2>1. /\ r.id \in Ids /\ review[r.id].there /\ (WordsFit(review[r.id]) => WordsFit(r.rev))
        /\ inserted' = inserted
    BY <1>7 DEF Begun
  <2>2. r.id \in inserted' /\ \A g \in Writers : req[g].at = "insert" => req[g].id # r.id
    BY <2>1 DEF FitInv, Fresh
  <2>3. Fresh'
    BY <1>1, <1>3, <1>4, <1>5, <1>7, <2>2 DEF Fresh, FitInv
  <2>4. FitReq(req[h])'
    BY <1>1, <1>7, <2>1 DEF FitReq, FitInv, WordsFit
  <2>5. QED
    BY <1>1, <1>2, <2>3, <2>4 DEF FitInv, FitReq, WordsFit
<1>8. CASE r.at \in {"delete", "saveApp"}
  <2>1. h \notin Writers'
    BY <1>8 DEF Writers
  <2>2. Fresh'
    BY <1>1, <1>3, <1>4, <1>5, <2>1 DEF Fresh, FitInv
  <2>3. FitReq(req[h])'
    BY <1>8 DEF FitReq
  <2>4. QED
    BY <1>1, <1>2, <2>2, <2>3 DEF FitInv, FitReq, WordsFit
<1>9. QED
  BY <1>6, <1>7, <1>8 DEF Begun

\* A step that leaves the rows alone.
LEMMA FitFrame ==
  ASSUME Staged, FitInv, NEW h \in Handlers, Others(h), review' = review, mixed' = mixed,
         inserted' = inserted, FitReq(req[h])', h \notin Writers' \/
           (h \in Writers /\ req'[h].id = req[h].id /\ req'[h].at # "insert")
  PROVE  FitInv'
<1>1. \A g \in Handlers : g # h => req'[g] = req[g]
  BY DEF Others
<1>2. \A g \in Writers' : /\ g \in Writers /\ req'[g].id = req[g].id
                          /\ req'[g].at = "insert" => req[g].at = "insert"
  BY <1>1 DEF Writers
<1>3. Fresh'
  BY <1>2 DEF FitInv, Fresh
<1>4. QED
  BY <1>1, <1>3 DEF FitInv, FitReq, WordsFit

LEMMA FitMoved ==
  ASSUME Staged, Staged', FitInv, NEW h \in Handlers, Others(h), Moved(h), Continue(h)
  PROVE  FitInv'
<1> DEFINE p == req[h]
           i == p.id
<1>1. /\ req \in [Handlers -> Request] /\ review \in [Ids -> ReviewRow] /\ ReqStaged(p)
      /\ inserted' = inserted /\ FitReq(p) /\ (WriteReview(h) \/ mixed' = mixed)
      /\ p \in Request /\ p.rev \in ReviewRow
  BY ContinueShape, NotesMoved DEF Staged, ReviewsTypeOK, FitInv, Request
<1>2. \A g \in Handlers : g # h => req'[g] = req[g]
  BY DEF Others
<1>3. CASE Insert(h)
  <2>1. /\ h \in Writers /\ p.at = "insert" /\ i \in Ids /\ p.rev.there /\ mixed' = mixed
        /\ review' = [review EXCEPT ![i] = p.rev] /\ req'[h].at = "saveApp"
    BY <1>1, <1>3, StageAfter DEF Insert, Writers, ReqStaged, notes
  <2>2. \A g \in Writers' : g # h /\ g \in Writers /\ req'[g] = req[g] /\ req[g].id # i
    BY <1>2, <2>1 DEF Writers, FitInv, Fresh
  <2>3. \A j \in Ids : j # i => review'[j] = review[j]
    BY <1>1, <2>1
  <2>4. Fresh'
    <3>1. i \in inserted
      BY <2>1 DEF FitInv, Fresh
    <3>2. \A g \in Writers' : req'[g].id \in Ids
      BY <2>2 DEF Staged, ReqStaged, Writers
    <3>3. QED
      BY <1>1, <2>2, <2>3, <3>1, <3>2 DEF FitInv, Fresh
  <2>5. \A j \in Ids \ mixed' : review'[j].there => WordsFit(review'[j])
    <3>1. review'[i] = p.rev
      BY <1>1, <2>1
    <3>2. i \notin mixed => WordsFit(p.rev)
      BY <1>1, <2>1 DEF FitReq
    <3>3. QED
      BY <2>1, <2>3, <3>1, <3>2 DEF FitInv
  <2>6. \A g \in Handlers : FitReq(req[g])'
    <3>1. FitReq(req[h])'
      BY <2>1 DEF FitReq
    <3>2. ASSUME NEW g \in Handlers, g # h
          PROVE  FitReq(req[g])'
      <4>1. FitReq(req[g]) /\ req'[g] = req[g]
        BY <1>2, <3>2 DEF FitInv
      <4>2. req[g].at = "writeReview" => req[g].id \in Ids /\ req[g].id # i
        BY <2>2, <3>2, <4>1 DEF Writers, Staged, ReqStaged
      <4>3. QED
        BY <2>1, <2>3, <4>1, <4>2 DEF FitReq, WordsFit
    <3>3. QED
      BY <3>1, <3>2
  <2>7. QED
    BY <2>4, <2>5, <2>6 DEF FitInv, WordsFit
<1>4. CASE Delete(h)
  <2>1. /\ i \in Ids /\ mixed' = mixed /\ req'[h].at = "saveApp"
        /\ review' = [review EXCEPT ![i] = NoReview]
    BY <1>1, <1>4, StageAfter DEF Delete, ReqStaged, notes
  <2>2. \A j \in Ids : review'[j].there => review[j].there /\ review'[j] = review[j]
    BY <1>1, <2>1 DEF NoReview
  <2>3. \A g \in Writers' : /\ g # h /\ g \in Writers /\ req'[g] = req[g] /\ req[g].id \in Ids
    BY <1>2, <2>1 DEF Writers, Staged, ReqStaged
  <2>4. Fresh'
    BY <1>1, <2>2, <2>3 DEF FitInv, Fresh
  <2>5. \A g \in Handlers : FitReq(req[g])'
    <3>1. FitReq(req[h])'
      BY <2>1 DEF FitReq
    <3>2. ASSUME NEW g \in Handlers, g # h
          PROVE  FitReq(req[g])'
      <4>1. FitReq(req[g]) /\ req'[g] = req[g]
        BY <1>2, <3>2 DEF FitInv
      <4>2. req[g].at = "writeReview" => req[g].id \in Ids
        BY DEF Staged, ReqStaged
      <4>3. QED
        BY <2>1, <2>2, <4>1, <4>2 DEF FitReq, WordsFit
    <3>3. QED
      BY <3>1, <3>2
  <2>6. QED
    BY <2>1, <2>2, <2>4, <2>5 DEF FitInv, WordsFit
<1>5. CASE SelectReview(h)
  <2>1. /\ p.at = "saveReview" /\ i \in Ids /\ review' = review /\ mixed' = mixed
        /\ h \in Writers /\ req'[h].at = "writeReview"
    BY <1>1, <1>5, StageAfter DEF SelectReview, ReqStaged, Writers, notes
  <2>2. req'[h].id = i /\ req'[h].rev = p.rev /\ req'[h].cols = Differing(p.rev, review[i])
    BY <2>1 DEF Moved, Idle
  <2>3. review[i] \in ReviewRow
    BY <1>1, <2>1
  <2>4. \A c \in ReviewColumns : c \in req'[h].cols \/ review[i][c] = p.rev[c]
    BY <2>2, <2>3, Columns DEF Differing
  <2>5. FitReq(req[h])'
    BY <1>1, <2>1, <2>2, <2>4 DEF FitReq, WordsFit
  <2>6. QED
    BY <1>1, <2>1, <2>2, <2>5, FitFrame
<1>6. CASE WriteReview(h)
  <2>1. /\ p.at = "writeReview" /\ i \in Ids /\ p.rev.there /\ h \in Writers
        /\ req'[h].at = "idle" /\ review[i] \in ReviewRow /\ i \in inserted
        /\ \A j \in Ids : j # i => review'[j] = review[j]
        /\ review'[i] = Saved(p.rev, p.cols, review[i])
        /\ mixed \subseteq mixed'
    BY <1>1, <1>6, StageAfter, WrittenReview, NotesMoved
       DEF WriteReview, Writers, FitInv, Fresh, NoteMixed, Staged
  <2>2. \A g \in Handlers : g # h /\ req[g].at = "writeReview" /\ req[g].id = i => i \in mixed'
    BY <1>6, NotesMoved DEF NoteMixed, Staged
  <2>3. \A g \in Writers' : g # h /\ g \in Writers /\ req'[g] = req[g] /\ req[g].id \in Ids
    BY <1>2, <2>1 DEF Writers, Staged, ReqStaged
  <2>4. \A g \in Writers : req[g].at = "insert" => req[g].id # i
    BY <2>1 DEF FitInv, Fresh
  <2>5. Fresh'
    BY <1>1, <2>1, <2>3, <2>4 DEF FitInv, Fresh
  <2>6. i \notin mixed' /\ review'[i].there => WordsFit(review'[i])
    <3>1. SUFFICES ASSUME i \notin mixed', review'[i].there
                   PROVE  WordsFit(review'[i])
      OBVIOUS
    <3>2. /\ i \notin mixed /\ WordsFit(p.rev)
          /\ review[i].there => /\ WordsFit(review[i])
                                /\ \A c \in ReviewColumns : c \in p.cols \/ review[i][c] = p.rev[c]
      BY <1>1, <2>1, <3>1 DEF FitReq, FitInv
    <3>3. CASE review'[i] \in {p.rev, review[i]}
      BY <3>1, <3>2, <3>3
    <3>4. CASE review'[i] \notin {p.rev, review[i]}
      <4>1. /\ review[i].there /\ review'[i] \in ReviewRow
            /\ \A c \in ReviewColumns : review'[i][c] = IF c \in p.cols THEN p.rev[c]
                                                        ELSE review[i][c]
        BY <1>1, <2>1, <3>4, SavedReview
      <4>2. \A c \in {"type", "content", "words"} : review'[i][c] = p.rev[c]
        BY <3>2, <4>1 DEF ReviewColumns
      <4>3. /\ review'[i].type = p.rev.type /\ review'[i].content = p.rev.content
            /\ review'[i].words = p.rev.words
        BY <1>1, <4>1, <4>2 DEF ReviewRow
      <4>4. QED
        BY <3>2, <4>3 DEF WordsFit
    <3>5. QED
      BY <3>3, <3>4
  <2>7. \A j \in Ids \ mixed' : review'[j].there => WordsFit(review'[j])
    BY <2>1, <2>6 DEF FitInv
  <2>8. \A g \in Handlers : FitReq(req[g])'
    <3>1. FitReq(req[h])'
      BY <2>1 DEF FitReq
    <3>2. ASSUME NEW g \in Handlers, g # h
          PROVE  FitReq(req[g])'
      <4>1. FitReq(req[g]) /\ req'[g] = req[g]
        BY <1>2, <3>2 DEF FitInv
      <4>2. req[g].at = "writeReview" => req[g].id \in Ids /\ (req[g].id # i \/ i \in mixed')
        BY <2>2, <3>2 DEF Staged, ReqStaged
      <4>3. QED
        BY <2>1, <4>1, <4>2 DEF FitReq, WordsFit
    <3>3. QED
      BY <3>1, <3>2
  <2>9. QED
    BY <2>5, <2>7, <2>8 DEF FitInv, WordsFit
<1>7. CASE SelectApp(h) \/ WriteApp(h) \/ Fail(h)
  <2>1. review' = review /\ mixed' = mixed /\ req'[h].at \in {"idle", "writeApp"}
    BY <1>1, <1>7, StageAfter DEF SelectApp, WriteApp, Fail, notes
  <2>2. FitReq(req[h])' /\ h \notin Writers'
    BY <2>1 DEF FitReq, Writers
  <2>3. QED
    BY <1>1, <2>1, <2>2, FitFrame
<1>8. QED
  BY <1>3, <1>4, <1>5, <1>6, <1>7 DEF Moved

LEMMA FitStep == Staged /\ Staged' /\ FitInv /\ [Next]_vars => FitInv'
<1>1. ASSUME UNCHANGED vars, FitInv
      PROVE  FitInv'
  BY <1>1 DEF vars, notes, FitInv, Fresh, FitReq, WordsFit, Writers
<1>2. ASSUME Staged, FitInv, NEW h \in Handlers, Arrive(h)
      PROVE  FitInv'
  BY <1>2, ArriveShape, FitBegun DEF Staged
<1>3. ASSUME Staged, Staged', FitInv, NEW h \in Handlers, Continue(h)
      PROVE  FitInv'
  BY <1>3, ContinueShape, FitMoved
<1>4. QED
  BY <1>1, <1>2, <1>3 DEF Next

\* The word count of a review is that of its type and content, though PATCH
\* requests change one without the other, save stale entities and bring removed
\* reviews back; only two saves that cross on a row mix their columns.
THEOREM WordCountsFit == Spec => []WordCountFits
<1>1. Init => FitInv
  <2> SUFFICES ASSUME Init
               PROVE  FitInv
    OBVIOUS
  <2>1. \A i \in Ids : ~review[i].there
    BY DEF Init, NoReview
  <2>2. \A h \in Handlers : req[h].at = "idle"
    BY DEF Init, Idle
  <2>3. QED
    BY <2>1, <2>2 DEF FitInv, Fresh, FitReq, Writers
<1>2. FitInv => WordCountFits
  BY DEF FitInv, WordCountFits, WordsFit, Present
<1>3. QED
  BY <1>1, <1>2, StagedInit, StagedStep, FitStep, PTL DEF Spec

-----------------------------------------------------------------------------
\* MarksStay: whoever comes later carries the mark

AllMarks == {"started", "completed", "submitted", "sent", "received"}

LEMMA BehindBegun ==
  ASSUME Staged, NEW mark \in AllMarks, app[mark], NEW h \in Handlers, Others(h), Begun(h)
  PROVE  app'[mark] /\ Behind(mark)' \subseteq Behind(mark)
<1>1. app' = app /\ req[h].at = "idle" /\ app \in AppRow
  BY DEF Begun, Staged, ReviewsTypeOK
<1>2. h \notin Behind(mark)'
  <2>1. CASE req'[h].at = "saveReview"
    BY <2>1 DEF Behind
  <2>2. CASE req'[h].app = app
    BY <1>1, <2>2 DEF Behind
  <2>3. CASE MarksKept(app, req'[h].app) /\ req'[h].app.submitted = app.submitted
    <3>1. req'[h].app \in AppRow
      BY DEF Begun, Request
    <3>2. mark = "submitted" => req'[h].app[mark] = app[mark]
      BY <1>1, <2>3, <3>1 DEF AppRow
    <3>3. req'[h].app[mark]
      BY <2>3, <3>2 DEF MarksKept, Marks, AllMarks
    <3>4. QED
      BY <3>3 DEF Behind
  <2>4. QED
    BY <2>1, <2>2, <2>3 DEF Begun
<1>3. QED
  BY <1>1, <1>2 DEF Behind, Others

LEMMA BehindMoved ==
  ASSUME Staged, NEW mark \in AllMarks, app[mark], NEW h \in Handlers, Others(h), Moved(h)
  PROVE  /\ \A g \in Behind(mark)' \ Behind(mark) : mark = "submitted" /\ req[g].at = "delete"
         /\ app'[mark] \/ Behind(mark) \ Behind(mark)' # {}
<1> DEFINE p == req[h]
<1>1. /\ app \in AppRow /\ p.app \in AppRow /\ req \in [Handlers -> Request]
  BY DEF Staged, ReviewsTypeOK, Moved, Request
<1>2. Behind(mark)' \ Behind(mark) \subseteq {h}
  BY DEF Behind, Others
<1>3. CASE Insert(h)
  <2>1. app' = app /\ p.at = "insert" /\ req'[h].app = Reviewed(p.app)
    BY <1>1, <1>3 DEF Insert, Idle
  <2>2. p.app[mark] => Reviewed(p.app)[mark]
    BY <1>1 DEF Reviewed, AppRow, AllMarks
  <2>3. QED
    BY <1>2, <2>1, <2>2 DEF Behind
<1>4. CASE Delete(h)
  <2>1. app' = app /\ p.at = "delete" /\ req'[h].app = Cleared(p.app)
    BY <1>1, <1>4 DEF Delete, Idle
  <2>2. mark # "submitted" /\ p.app[mark] => Cleared(p.app)[mark]
    BY <1>1 DEF Cleared, AppRow, AllMarks
  <2>3. QED
    BY <1>2, <2>1, <2>2 DEF Behind
<1>5. CASE SelectReview(h)
  <2>1. app' = app /\ req'[h].at = "writeReview"
    BY <1>1, <1>5, StageAfter DEF SelectReview
  <2>2. QED
    BY <1>2, <2>1 DEF Behind
<1>6. CASE SelectApp(h)
  <2>1. app' = app /\ p.at = "saveApp" /\ req'[h].at = "writeApp"
    BY <1>1, <1>6, StageAfter DEF SelectApp
  <2>2. req'[h].app = p.app
    BY <2>1 DEF Moved, Idle
  <2>3. QED
    BY <1>2, <2>1, <2>2 DEF Behind
<1>7. CASE WriteApp(h)
  <2>1. app' = Updated(p.app, p.cols, app) /\ p.at = "writeApp" /\ req'[h].at = "idle"
    BY <1>1, <1>7, StageAfter DEF WriteApp
  <2>2. app'[mark] = IF mark \in p.cols THEN p.app[mark] ELSE app[mark]
    <3>1. mark \in AppColumns
      BY DEF AppColumns, AllMarks
    <3>2. \A c \in AppColumns : app'[c] = IF c \in p.cols THEN p.app[c] ELSE app[c]
      BY <1>1, <2>1, UpdatedApp
    <3>3. QED
      BY <3>1, <3>2, Zenon
  <2>3. h \notin Behind(mark)'
    BY <2>1 DEF Behind
  <2>4. app'[mark] \/ h \in Behind(mark)
    BY <2>1, <2>2 DEF Behind
  <2>5. QED
    BY <1>2, <2>3, <2>4
<1>8. CASE WriteReview(h) \/ Fail(h)
  <2>1. app' = app /\ req'[h].at = "idle"
    BY <1>1, <1>8, StageAfter DEF WriteReview, Fail
  <2>2. QED
    BY <1>2, <2>1 DEF Behind
<1>9. QED
  BY <1>3, <1>4, <1>5, <1>6, <1>7, <1>8 DEF Moved

\* A mark on the application is taken back only by a request that had loaded
\* the application before it was marked, at most once by each, and that it was
\* submitted by the removal of the review too.
THEOREM MarksKeptBySaves == Spec => MarksStay
<1>1. ASSUME Staged, [Next]_vars, NEW mark \in AllMarks, app[mark]
      PROVE  \/ UNCHANGED vars
             \/ /\ \A g \in Behind(mark)' \ Behind(mark) : mark = "submitted" /\ req[g].at = "delete"
                /\ app'[mark] \/ Behind(mark) \ Behind(mark)' # {}
  <2>1. CASE UNCHANGED vars
    BY <2>1
  <2>2. ASSUME NEW h \in Handlers, Others(h), Begun(h)
        PROVE  /\ \A g \in Behind(mark)' \ Behind(mark) : mark = "submitted" /\ req[g].at = "delete"
               /\ app'[mark] \/ Behind(mark) \ Behind(mark)' # {}
    BY <1>1, <2>2, BehindBegun
  <2>3. QED
    BY <1>1, <2>1, <2>2, StepShape, BehindMoved
<1>2. Staged /\ [Next]_vars =>
        [\A mark \in {"started", "completed", "submitted", "sent", "received"} :
           app[mark] =>
             /\ \A h \in Behind(mark)' \ Behind(mark) : mark = "submitted" /\ req[h].at = "delete"
             /\ app'[mark] \/ Behind(mark) \ Behind(mark)' # {}]_vars
  BY <1>1 DEF AllMarks
<1>3. QED
  BY <1>2, StagedInit, StagedStep, PTL DEF Spec, MarksStay

-----------------------------------------------------------------------------
\* While nothing was disturbed: rows and entities agree

MarkKinds == {"progress", "received", "sent"}

\* Handlers at work save different rows
Alone ==
  \A g, h \in Handlers :
    g # h /\ req[g].at # "idle" /\ req[h].at # "idle"
      => Saves(req[g].kind) \cap Saves(req[h].kind) = {}

NonePresent == \A i \in Ids : ~review[i].there
SomePresent == \E i \in Ids : review[i].there

\* The application is about to learn that a review came or went
Recording(r) == r.at \in {"saveApp", "writeApp"} /\ r.kind \in {"create", "remove"}

\* An entity agrees with the row it is going to be saved over
CalmReq(r) ==
  /\ r.at = "insert" => NonePresent /\ ~app.submitted
  /\ r.at = "delete" => review[r.id].there
  /\ r.at \in {"saveApp", "writeApp"} =>
       /\ r.kind = "create" => r.app.submitted /\ SomePresent
       /\ r.kind = "remove" => ~r.app.submitted /\ NonePresent
       /\ r.kind \in MarkKinds => r.app.submitted = app.submitted
  /\ r.at = "writeApp" => "submitted" \in r.cols \/ app.submitted = r.app.submitted
  /\ r.at \in {"saveReview", "writeReview"} => review[r.id].there

Calm ==
  /\ Alone
  /\ \A i, j \in Ids : review[i].there /\ review[j].there => i = j
  /\ \A h \in Handlers : CalmReq(req[h])
  /\ (\A h \in Handlers : ~Recording(req[h])) => (app.submitted <=> SomePresent)

CalmInv == ~disturbed => Calm

\* Which kinds of request may be at work together.
LEMMA SavesApart ==
  ASSUME NEW a \in RequestKinds, NEW b \in RequestKinds, Saves(a) \cap Saves(b) = {}
  PROVE  (a = "update" /\ b \in MarkKinds) \/ (b = "update" /\ a \in MarkKinds)
<1>1. /\ a \in {"create", "remove"} => Saves(a) = {"app", "review"}
      /\ b \in {"create", "remove"} => Saves(b) = {"app", "review"}
      /\ a = "update" => Saves(a) = {"review"}
      /\ b = "update" => Saves(b) = {"review"}
      /\ a \in MarkKinds => Saves(a) = {"app"}
      /\ b \in MarkKinds => Saves(b) = {"app"}
  BY DEF Saves, MarkKinds
<1>2. a \in {"create", "remove", "update"} \cup MarkKinds
      /\ b \in {"create", "remove", "update"} \cup MarkKinds
  BY DEF RequestKinds, MarkKinds
<1>3. ASSUME NEW x \in {"app", "review"}
      PROVE  ~(x \in Saves(a) /\ x \in Saves(b))
  OBVIOUS
<1>4. ~("app" \in Saves(a) /\ "app" \in Saves(b)) /\ ~("review" \in Saves(a) /\ "review" \in Saves(b))
  BY <1>3
<1>5. QED
  BY <1>1, <1>2, <1>4

\* Who works beside a handler.
LEMMA Beside ==
  ASSUME Staged, Alone, NEW h \in Handlers, req[h].at # "idle",
         NEW g \in Handlers, g # h, req[g].at # "idle"
  PROVE  \/ req[h].kind = "update" /\ req[g].kind \in MarkKinds
         \/ req[h].kind \in MarkKinds /\ req[g].kind = "update"
<1>1. req[g].kind \in RequestKinds /\ req[h].kind \in RequestKinds
  BY DEF Staged, ReviewsTypeOK, Request
<1>2. Saves(req[h].kind) \cap Saves(req[g].kind) = {}
  BY DEF Alone
<1>3. QED
  BY <1>1, <1>2, SavesApart

\* A request that is disturbed by nobody begins.
LEMMA CalmBegun ==
  ASSUME Staged, Calm, NEW h \in Handlers, Others(h), Begun(h), ~disturbed'
  PROVE  Calm'
<1> DEFINE r == req'[h]
<1>1. app' = app /\ review' = review /\ req[h].at = "idle" /\ ~Disturbs(h, r.kind)
  BY DEF Begun
<1>2. \A g \in Handlers : g # h => req'[g] = req[g]
  BY DEF Others
<1>3. \A g \in Handlers : g # h /\ req[g].at # "idle" =>
         /\ Saves(req[g].kind) \cap Saves(r.kind) = {}
         /\ Saves(r.kind) \cap Saves(req[g].kind) = {}
  BY <1>1 DEF Disturbs
<1>4. Alone'
  BY <1>2, <1>3 DEF Calm, Alone
<1>5. r.kind = "create" => \A g \in Handlers : ~Recording(req[g])
  <2>1. SUFFICES ASSUME r.kind = "create", NEW g \in Handlers, Recording(req[g])
                 PROVE  FALSE
    OBVIOUS
  <2>2. g # h /\ req[g].at # "idle"
    BY <1>1, <2>1 DEF Recording
  <2>3. "app" \in Saves(req[g].kind) \cap Saves(r.kind)
    BY <2>1 DEF Recording, Saves
  <2>4. QED
    BY <1>3, <2>2, <2>3
<1>7. CalmReq(r)
  <2>1. CASE r.at = "insert"
    <3>1. /\ r.kind = "create" /\ NonePresent /\ r.app = app
      BY <2>1 DEF Begun, NonePresent
    <3>2. ~app.submitted
      BY <1>5, <3>1 DEF Calm, SomePresent, NonePresent, Staged, ReviewsTypeOK, AppRow
    <3>3. QED
      BY <2>1, <3>1, <3>2 DEF CalmReq
  <2>2. CASE r.at = "delete"
    BY <2>2 DEF Begun, CalmReq
  <2>3. CASE r.at = "saveReview"
    BY <2>3 DEF Begun, CalmReq, Calm
  <2>4. CASE r.at = "saveApp"
    <3>1. r.kind \in MarkKinds /\ r.app.submitted = app.submitted
      BY <2>4 DEF Begun, MarkKinds
    <3>2. QED
      BY <2>4, <3>1 DEF CalmReq, MarkKinds
  <2>5. QED
    BY <2>1, <2>2, <2>3, <2>4 DEF Begun
<1>8. CalmReq(req[h])'
  BY <1>1, <1>7 DEF CalmReq, NonePresent, SomePresent
<1>9. \A g \in Handlers : g # h => CalmReq(req[g])'
  BY <1>1, <1>2 DEF Calm, CalmReq, NonePresent, SomePresent
<1>10. ~Recording(req'[h]) /\ ~Recording(req[h])
  BY <1>1 DEF Begun, Recording
<1>11. (\A g \in Handlers : ~Recording(req'[g])) => (app'.submitted <=> SomePresent')
  BY <1>1, <1>2, <1>10 DEF Calm, SomePresent
<1>12. QED
  BY <1>1, <1>4, <1>8, <1>9, <1>11 DEF Calm, Recording

\* A handler keeps its kind until it is idle, so it stays as alone as it was.
LEMMA AloneMoved ==
  ASSUME Alone, NEW h \in Handlers, Others(h), Moved(h)
  PROVE  Alone'
<1>1. req'[h].at # "idle" => req'[h].kind = req[h].kind /\ req[h].at # "idle"
  BY DEF Moved, Idle
<1>2. QED
  BY <1>1 DEF Alone, Others

\* An idle handler, and one of a kind that does not read the row, stays calm.
LEMMA CalmReqFrame ==
  ASSUME Staged, NEW g \in Handlers, CalmReq(req[g]), req'[g] = req[g],
         \/ req[g].at = "idle"
         \/ req[g].kind = "update" /\ review' = review
         \/ req[g].kind \in MarkKinds /\ app' = app
  PROVE  CalmReq(req[g])'
<1>1. ReqStaged(req[g])
  BY DEF Staged
<1>2. CASE req[g].at = "idle"
  BY <1>2 DEF CalmReq
<1>3. CASE req[g].kind = "update" /\ review' = review
  <2>1. req[g].at \notin {"insert", "delete", "saveApp", "writeApp"}
    BY <1>1, <1>3 DEF ReqStaged
  <2>2. QED
    BY <1>3, <2>1 DEF CalmReq
<1>4. CASE req[g].kind \in MarkKinds /\ app' = app
  <2>1. req[g].at \notin {"insert", "delete", "saveReview", "writeReview"}
    BY <1>1, <1>4 DEF ReqStaged, MarkKinds
  <2>2. QED
    BY <1>4, <2>1 DEF CalmReq, MarkKinds
<1>5. QED
  BY <1>2, <1>3, <1>4

\* A review was inserted or deleted, and the application is to be saved next.
LEMMA CalmChange ==
  ASSUME Staged, Calm, NEW h \in Handlers, Others(h), Moved(h), Insert(h) \/ Delete(h)
  PROVE  Calm'
<1> DEFINE p == req[h]
           r == req'[h]
<1>1. /\ p \in Request /\ p.app \in AppRow /\ p.rev \in ReviewRow /\ p.at # "idle"
      /\ ReqStaged(p) /\ CalmReq(p) /\ app \in AppRow /\ review \in [Ids -> ReviewRow]
      /\ req \in [Handlers -> Request]
  BY DEF Moved, Staged, ReviewsTypeOK, Request, Calm
<1>2. app' = app /\ p.id \in Ids /\ p.kind \in {"create", "remove"}
  BY <1>1 DEF Insert, Delete, ReqStaged
<1>3. r.at = "saveApp"
  BY <1>1, StageAfter
<1>4. \A g \in Handlers : g # h => req'[g] = req[g] /\ req[g].at = "idle"
  BY <1>1, <1>2, Beside DEF Calm, Others, MarkKinds
<1>5. CASE Insert(h)
  <2>1. /\ p.at = "insert" /\ p.kind = "create" /\ p.rev.there
        /\ NonePresent
        /\ review' = [review EXCEPT ![p.id] = p.rev]
    BY <1>1, <1>5 DEF Insert, ReqStaged, CalmReq
  <2>2. r.kind = "create" /\ r.app = Reviewed(p.app)
    BY <1>1, <1>5 DEF Insert, Idle
  <2>3. r.app.submitted
    BY <1>1, <2>2 DEF Reviewed, AppRow
  <2>4. /\ review'[p.id] = p.rev /\ SomePresent'
        /\ \A i \in Ids : review'[i].there => i = p.id
    BY <1>1, <1>2, <2>1 DEF NonePresent, SomePresent
  <2>5. CalmReq(req[h])'
    BY <1>2, <1>3, <2>2, <2>3, <2>4 DEF CalmReq, MarkKinds
  <2>6. QED
    BY <1>3, <1>4, <2>1, <2>2, <2>4, <2>5, AloneMoved, CalmReqFrame DEF Calm, Recording
<1>6. CASE Delete(h)
  <2>1. /\ p.at = "delete" /\ p.kind = "remove" /\ review[p.id].there
        /\ review' = [review EXCEPT ![p.id] = NoReview]
    BY <1>1, <1>6 DEF Delete, ReqStaged, CalmReq
  <2>2. r.kind = "remove" /\ r.app = Cleared(p.app)
    BY <1>1, <1>6 DEF Delete, Idle
  <2>3. ~r.app.submitted
    BY <1>1, <2>2 DEF Cleared, AppRow
  <2>4. NonePresent'
    BY <1>1, <1>2, <2>1 DEF Calm, NonePresent, NoReview
  <2>5. CalmReq(req[h])'
    BY <1>2, <1>3, <2>2, <2>3, <2>4 DEF CalmReq, MarkKinds
  <2>6. QED
    BY <1>3, <1>4, <2>2, <2>4, <2>5, AloneMoved, CalmReqFrame DEF Calm, Recording, NonePresent
<1>7. QED
  BY <1>5, <1>6

\* The SELECT of a save.
LEMMA CalmSelect ==
  ASSUME Staged, Calm, NEW h \in Handlers, Others(h), Moved(h), SelectReview(h) \/ SelectApp(h)
  PROVE  Calm'
<1> DEFINE p == req[h]
           r == req'[h]
<1>1. /\ p \in Request /\ p.app \in AppRow /\ p.rev \in ReviewRow /\ p.at # "idle"
      /\ ReqStaged(p) /\ CalmReq(p) /\ app \in AppRow /\ review \in [Ids -> ReviewRow]
      /\ req \in [Handlers -> Request]
  BY DEF Moved, Staged, ReviewsTypeOK, Request, Calm
<1>2. app' = app /\ review' = review
  BY DEF SelectReview, SelectApp
<1>3. \A g \in Handlers : g # h => req'[g] = req[g]
  BY DEF Others
<1>4. \A g \in Handlers : g # h => CalmReq(req[g])'
  BY <1>2, <1>3 DEF Calm, CalmReq, NonePresent, SomePresent
<1>5. CASE SelectReview(h)
  <2>1. r.at = "writeReview" /\ p.at = "saveReview" /\ p.id \in Ids
    BY <1>1, <1>5, StageAfter DEF SelectReview, ReqStaged
  <2>2. r.id = p.id /\ r.rev = p.rev /\ r.kind = p.kind /\ r.cols = Differing(p.rev, review[p.id])
    BY <2>1 DEF Moved, Idle
  <2>5. CalmReq(req[h])'
    BY <1>1, <1>2, <2>1, <2>2 DEF CalmReq
  <2>6. ~Recording(r) /\ ~Recording(p)
    BY <2>1 DEF Recording
  <2>7. QED
    BY <1>2, <1>3, <1>4, <2>5, <2>6, AloneMoved DEF Calm, Recording, SomePresent
<1>6. CASE SelectApp(h)
  <2>1. r.at = "writeApp" /\ p.at = "saveApp"
    BY <1>1, <1>6, StageAfter DEF SelectApp
  <2>2. r.app = p.app /\ r.kind = p.kind /\ r.cols = Differing(p.app, app)
    BY <2>1 DEF Moved, Idle
  <2>3. "submitted" \in r.cols \/ app.submitted = p.app.submitted
    BY <1>1, <2>2, Columns DEF Differing, AppColumns
  <2>4. CalmReq(req[h])'
    BY <1>1, <1>2, <2>1, <2>2, <2>3
       DEF CalmReq, NonePresent, SomePresent
  <2>5. Recording(r) <=> Recording(p)
    BY <2>1, <2>2 DEF Recording
  <2>6. QED
    BY <1>2, <1>3, <1>4, <2>4, <2>5, AloneMoved DEF Calm, Recording, SomePresent
<1>7. QED
  BY <1>5, <1>6

\* The UPDATE of a review.
LEMMA CalmWriteReview ==
  ASSUME Staged, Calm, NEW h \in Handlers, Others(h), Moved(h), WriteReview(h)
  PROVE  Calm'
<1> DEFINE p == req[h]
<1>1. /\ p \in Request /\ p.rev \in ReviewRow /\ p.at = "writeReview" /\ p.kind = "update"
      /\ p.id \in Ids /\ CalmReq(p) /\ review \in [Ids -> ReviewRow]
      /\ req \in [Handlers -> Request]
  BY DEF Moved, Staged, ReviewsTypeOK, Request, Calm, WriteReview, ReqStaged
<1>2. app' = app /\ p.rev.there /\ review[p.id].there
  BY <1>1, WrittenReview DEF CalmReq
<1>3. \A i \in Ids : i # p.id => review'[i] = review[i]
  BY WrittenReview
<1>4. review'[p.id].there
  BY <1>1, <1>2, WrittenReview, SavedReview
<1>6. \A i \in Ids : review'[i].there <=> review[i].there
  BY <1>2, <1>3, <1>4
<1>7. req'[h] = Idle
  BY <1>1, StageAfter
<1>8. \A g \in Handlers : g # h => req'[g] = req[g] /\ (req[g].at = "idle" \/ req[g].kind \in MarkKinds)
  BY <1>1, Beside DEF Calm, Others, MarkKinds
<1>9. \A g \in Handlers : CalmReq(req[g])'
  <2>1. CalmReq(req[h])'
    BY <1>7 DEF CalmReq, Idle
  <2>2. QED
    BY <1>2, <1>8, <2>1, CalmReqFrame DEF Calm
<1>10. \A g \in Handlers : Recording(req'[g]) <=> Recording(req[g])
  BY <1>1, <1>7, <1>8 DEF Recording, Idle
<1>12. SomePresent' <=> SomePresent
  BY <1>6 DEF SomePresent
<1>13. QED
  BY <1>2, <1>6, <1>9, <1>10, <1>12, AloneMoved DEF Calm, Recording

\* The UPDATE of the application.
LEMMA CalmWriteApp ==
  ASSUME Staged, Calm, NEW h \in Handlers, Others(h), Moved(h), WriteApp(h)
  PROVE  Calm'
<1> DEFINE p == req[h]
<1>1. /\ p \in Request /\ p.app \in AppRow /\ p.at = "writeApp" /\ p.kind # "update"
      /\ CalmReq(p) /\ app \in AppRow /\ req \in [Handlers -> Request]
  BY DEF Moved, Staged, ReviewsTypeOK, Request, Calm, WriteApp, ReqStaged
<1>2. review' = review /\ app' = Updated(p.app, p.cols, app)
  BY DEF WriteApp
<1>3. app'.submitted = p.app.submitted
  <2>1. app'["submitted"] = IF "submitted" \in p.cols THEN p.app["submitted"] ELSE app["submitted"]
    BY <1>1, <1>2, UpdatedApp DEF AppColumns
  <2>2. "submitted" \in p.cols \/ app.submitted = p.app.submitted
    BY <1>1 DEF CalmReq
  <2>3. app' \in AppRow
    BY <1>1, <1>2, UpdatedApp
  <2>4. QED
    BY <1>1, <2>1, <2>2, <2>3 DEF AppRow
<1>4. req'[h] = Idle
  BY <1>1, StageAfter
<1>5. \A g \in Handlers : g # h => req'[g] = req[g] /\ (req[g].at = "idle" \/ req[g].kind = "update")
  BY <1>1, Beside DEF Calm, Others, MarkKinds
<1>6. \A g \in Handlers : CalmReq(req[g])'
  <2>1. CalmReq(req[h])'
    BY <1>4 DEF CalmReq, Idle
  <2>2. QED
    BY <1>2, <1>5, <2>1, CalmReqFrame DEF Calm
<1>7. \A g \in Handlers : g # h => ~Recording(req[g])
  BY <1>5 DEF Recording
<1>8. app'.submitted <=> SomePresent
  <2>1. CASE p.kind \in {"create", "remove"}
    BY <1>1, <1>3, <2>1 DEF CalmReq, NonePresent, SomePresent
  <2>2. CASE p.kind \in MarkKinds
    <3>1. ~Recording(p) /\ p.app.submitted = app.submitted
      BY <1>1, <2>2 DEF CalmReq, Recording, MarkKinds
    <3>2. QED
      BY <1>3, <1>7, <3>1 DEF Calm
  <2>3. QED
    BY <1>1, <2>1, <2>2 DEF Request, RequestKinds, MarkKinds
<1>9. QED
  BY <1>2, <1>6, <1>8, AloneMoved DEF Calm, SomePresent

LEMMA CalmStep == Staged /\ CalmInv /\ [Next]_vars => CalmInv'
<1> SUFFICES ASSUME Staged, CalmInv, [Next]_vars, ~disturbed'
             PROVE  Calm'
  BY DEF CalmInv
<1>1. CASE UNCHANGED vars
  BY <1>1 DEF vars, notes, CalmInv, Calm, Alone, CalmReq, Recording, SomePresent, NonePresent
<1>2. ASSUME NEW h \in Handlers, Others(h), Begun(h)
      PROVE  Calm'
  <2>1. ~disturbed
    BY <1>2 DEF Begun
  <2>2. QED
    BY <1>2, <2>1, CalmBegun DEF CalmInv
<1>3. ASSUME NEW h \in Handlers, Others(h), Moved(h)
      PROVE  Calm'
  <2>1. ~disturbed /\ ~Fail(h)
    BY <1>3 DEF Moved, notes, Insert, Delete, SelectReview, SelectApp, WriteReview, WriteApp, Fail
  <2>2. Insert(h) \/ Delete(h) \/ SelectReview(h) \/ SelectApp(h) \/ WriteReview(h) \/ WriteApp(h)
    BY <1>3, <2>1 DEF Moved
  <2>3. QED
    BY <1>3, <2>1, <2>2, CalmChange, CalmSelect, CalmWriteReview, CalmWriteApp DEF CalmInv
<1>4. QED
  BY <1>1, <1>2, <1>3, StepShape

LEMMA CalmInit == Init => CalmInv
<1> SUFFICES ASSUME Init
             PROVE  Calm
  BY DEF CalmInv
<1>1. \A h \in Handlers : req[h] = Idle /\ req[h].at = "idle"
  BY DEF Init, Idle
<1>2. \A i \in Ids : ~review[i].there
  BY DEF Init, NoReview
<1>3. ~app.submitted
  BY DEF Init, NewApp
<1>4. \A h \in Handlers : CalmReq(req[h]) /\ ~Recording(req[h])
  BY <1>1 DEF CalmReq, Recording
<1>5. Alone
  BY <1>1 DEF Alone
<1>6. QED
  BY <1>2, <1>3, <1>4, <1>5 DEF Calm, SomePresent

\* Requests that did not overlap leave review and application in agreement,
\* after any number of reviews were written and removed.
THEOREM ReviewsRecorded == Spec => []ReviewRecorded
<1>1. CalmInv => ReviewRecorded
  BY DEF CalmInv, Calm, ReviewRecorded, Quiet, Present, SomePresent, Recording
<1>2. QED
  BY <1>1, StagedInit, StagedStep, CalmInit, CalmStep, PTL DEF Spec

\* Every review that a list shows to a user can be opened by that user, and a
\* user who may open it as its reader finds it listed.
THEOREM ListsOpen == Spec => []ListedCanBeOpened
<1>1. ListedCanBeOpened
  BY DEF ListedCanBeOpened, Listed, ListedOfReader, isBookAuthor, MayOpen
<1>2. QED
  BY <1>1, PTL
=============================================================================
