------------------------------- MODULE Reviews -------------------------------
(***************************************************************************)
(* The review of one approved application and the reading columns of that  *)
(* application (src/src/reviews, and the marks in                          *)
(* src/src/applications/applications.service.ts).  Applications do not     *)
(* interact here, so one is modelled, of reader Reader for a book of       *)
(* author Author.                                                          *)
(*                                                                         *)
(* No handler uses a transaction: a review and its application are saved   *)
(* one after the other, and a handler that fails in between leaves it at   *)
(* that.  TypeORM's save(entity) is two steps, a SELECT and an UPDATE of   *)
(* the columns in which the entity differs from what was selected; a row   *)
(* that is not found is inserted again.                                    *)
(***************************************************************************)
EXTENDS Integers, FiniteSets

CONSTANTS
  Handlers,    \* request handlers that can run at the same time
  Requests,    \* the kinds of request that are issued, see RequestKinds
  Drafts,      \* the reviews readers write: type, content, public
  Edits,       \* the bodies of the PATCH requests on the review
  Statuses,    \* the reading statuses readers report
  Viewers,     \* the users, on top of the reader and the author
  Reader, Author,
  MaxReviews   \* bound on the reviews ever inserted

RequestKinds  == {"create", "update", "remove", "progress", "received", "sent"}
Stages        == {"idle", "insert", "delete", "saveApp", "writeApp", "saveReview",
                  "writeReview"}
ReadingStatus == {"not_started", "currently_reading", "for_review", "reviewed"}
ReviewType    == {"text", "link"}
Content       == {"none", "blank", "one word", "two words"}

Ids == 1..MaxReviews

\* The reading columns of the application; a date is the fact that it is set.
AppRow == [reading : ReadingStatus, started : BOOLEAN, completed : BOOLEAN,
           submitted : BOOLEAN, sent : BOOLEAN, received : BOOLEAN]
NewApp == [reading |-> "not_started", started |-> FALSE, completed |-> FALSE,
           submitted |-> FALSE, sent |-> FALSE, received |-> FALSE]

\* A row of "reviews"; there says whether it exists.  No column depends on the
\* rating and the links.
ReviewRow == [there : BOOLEAN, type : ReviewType, content : Content,
              public : BOOLEAN, words : 0..2]
NoReview  == [there |-> FALSE, type |-> "text", content |-> "none", public |-> TRUE,
              words |-> 0]

\* The body of a PATCH request holds any of the columns a reader may set.
EditBody(e) ==
  /\ DOMAIN e \subseteq {"type", "content", "public"}
  /\ "type" \in DOMAIN e => e["type"] \in ReviewType
  /\ "content" \in DOMAIN e => e["content"] \in Content \ {"none"}
  /\ "public" \in DOMAIN e => e["public"] \in BOOLEAN

ASSUME ReviewRequestsKnown == Requests \subseteq RequestKinds
ASSUME HandlersFinite      == IsFiniteSet(Handlers)
ASSUME ReviewEditsKnown    == \A e \in Edits : EditBody(e)
ASSUME ReviewInputsKnown   ==
  /\ Statuses \subseteq ReadingStatus
  /\ Drafts \subseteq [type : ReviewType, content : Content, public : BOOLEAN]
ASSUME ReaderIsNotAuthor   == Reader # Author /\ Viewers \cap {Reader, Author} = {}
ASSUME MaxReviewsNat       == MaxReviews \in Nat

VARIABLES
  app,       \* the reading columns of the application
  review,    \* the rows of "reviews" of the application
  req,       \* what each handler is doing
  inserted,  \* history: the ids that were given out
  disturbed, \* history: handlers that save the same row overlapped, or one failed
  crowd,     \* history: the most requests that were writing a review at a time
  mixed      \* history: the reviews written between the SELECT and the UPDATE
             \* of another request

notes == <<disturbed, crowd, mixed>>
vars  == <<app, review, req, inserted, notes>>

\* app, rev: the entities a handler loaded and changed; cols: the columns its
\* UPDATE is going to write
Idle    == [at |-> "idle", kind |-> "create", id |-> 0, app |-> NewApp,
            rev |-> NoReview, cols |-> {}]
Request == [at : Stages, kind : RequestKinds, id : Ids \cup {0}, app : AppRow,
            rev : ReviewRow, cols : SUBSET (DOMAIN NewApp \cup DOMAIN NoReview)]

\* What a handler saves: requests that save the same may disturb each other
Saves(kind) == CASE kind = "create"  -> {"app", "review"}
                 [] kind = "remove"  -> {"app", "review"}
                 [] kind = "update"  -> {"review"}
                 [] OTHER            -> {"app"}

Disturbs(h, kind) ==
  \E g \in Handlers \ {h} : req[g].at # "idle" /\ Saves(req[g].kind) \cap Saves(kind) # {}

\* The requests that are going to insert or save a review they have looked for
Writers == {h \in Handlers : req[h].at \in {"insert", "saveReview", "writeReview"}}

NoteCrowd(r) ==
  crowd' = IF r.at \in {"insert", "saveReview"} /\ Cardinality(Writers) >= crowd
           THEN Cardinality(Writers) + 1 ELSE crowd

Begin(h, kind, r) ==
  /\ kind \in Requests
  /\ req[h].at = "idle"
  /\ req' = [req EXCEPT ![h] = [r EXCEPT !.kind = kind]]
  /\ disturbed' = (disturbed \/ Disturbs(h, kind))
  /\ NoteCrowd(r)
  /\ UNCHANGED mixed

Finish(h) == req' = [req EXCEPT ![h] = Idle]

\* save(): the columns in which the entity differs from the selected row
Differing(ent, row)   == {c \in DOMAIN row : ent[c] # row[c]}
Updated(ent, cols, row) == [c \in DOMAIN row |-> IF c \in cols THEN ent[c] ELSE row[c]]

-----------------------------------------------------------------------------
\* What is written into the rows

WordsOf == [c \in Content |-> CASE c = "none" -> 0
                                [] c = "two words" -> 2
                                [] OTHER -> 1]

\* calculateWordCount: 0 stands for null; splitting blanks gives one word
calculateWordCount(type, content) == IF type = "text" THEN WordsOf[content] ELSE 0

NewReview(d) ==
  [there |-> TRUE, type |-> d.type, content |-> d.content, public |-> d.public,
   words |-> calculateWordCount(d.type, d.content)]

Given(e, c, old) == IF c \in DOMAIN e THEN e[c] ELSE old

\* Mutant: the count follows the content only
EditedContentOnly(row, e) ==
  [row EXCEPT !.type    = Given(e, "type", row.type),
              !.content = Given(e, "content", row.content),
              !.public  = Given(e, "public", row.public),
              !.words   = IF "content" \in DOMAIN e
                          THEN calculateWordCount(row.type, e["content"]) ELSE row.words]

\* update: the given columns, and the count of both together
Edited(row, e) ==
  LET type    == Given(e, "type", row.type)
      content == Given(e, "content", row.content)
  IN  [row EXCEPT !.type = type, !.content = content,
                  !.public = Given(e, "public", row.public),
                  !.words = IF DOMAIN e = {} THEN row.words
                            ELSE calculateWordCount(type, content)]

\* Mutant: a status the enumeration does not have
ReviewedSubmitted(row) ==
  [row EXCEPT !.submitted = TRUE, !.reading = "submitted", !.completed = TRUE]

\* markApplicationReviewed, which keeps the date the book was read
Reviewed(row) ==
  [row EXCEPT !.submitted = TRUE, !.reading = "reviewed", !.completed = TRUE]

\* Mutants: the date of submission stays; the book counts as unread again
ClearedStatus(row) == [row EXCEPT !.reading = "for_review"]
ClearedAll(row)    == [row EXCEPT !.submitted = FALSE, !.completed = FALSE,
                                  !.reading = "for_review"]

\* clearApplicationAfterReviewRemoved; the status is "approved" before and after
Cleared(row) == [row EXCEPT !.submitted = FALSE, !.reading = "for_review"]

\* updateReadingTimestamps
Progressed(row, s) ==
  [row EXCEPT !.reading   = s,
              !.started   = @ \/ s = "currently_reading",
              !.completed = @ \/ s = "for_review"]

-----------------------------------------------------------------------------
\* Reviews

\* Mutant: no look for a review that is there already
CreateUnchecked(h, d) ==
  /\ \E i \in Ids \ inserted :
       /\ \A j \in Ids \ inserted : i <= j
       /\ Begin(h, "create", [Idle EXCEPT !.at = "insert", !.id = i, !.app = app,
                                          !.rev = NewReview(d)])
       /\ inserted' = inserted \cup {i}
  /\ UNCHANGED <<app, review>>

\* create: the application is loaded, a review is looked for
Create(h, d) ==
  /\ \A i \in Ids : ~review[i].there
  /\ \E i \in Ids \ inserted :
       /\ \A j \in Ids \ inserted : i <= j
       /\ Begin(h, "create", [Idle EXCEPT !.at = "insert", !.id = i, !.app = app,
                                          !.rev = NewReview(d)])
       /\ inserted' = inserted \cup {i}
  /\ UNCHANGED <<app, review>>

\* No unique index stands in the way of a second review
Insert(h) ==
  /\ req[h].at = "insert"
  /\ review' = [review EXCEPT ![req[h].id] = req[h].rev]
  /\ req' = [req EXCEPT ![h] = [Idle EXCEPT !.at = "saveApp", !.kind = "create",
                                         !.app = Reviewed(req[h].app)]]
  /\ UNCHANGED <<app, inserted, notes>>

\* update: an empty body is saved as well, whoever sends it
Update(h, i, e) ==
  /\ review[i].there
  /\ Begin(h, "update", [Idle EXCEPT !.at = "saveReview", !.id = i,
                                     !.rev = Edited(review[i], e)])
  /\ UNCHANGED <<app, review, inserted>>

SelectReview(h) ==
  /\ req[h].at = "saveReview"
  /\ req' = [req EXCEPT ![h].at = "writeReview",
                        ![h].cols = Differing(req[h].rev, review[req[h].id])]
  /\ UNCHANGED <<app, review, inserted, notes>>

\* A review that was gone is inserted again, unless another request did that
\* meanwhile and its key is taken.  One that went meanwhile stays away.
Saved(ent, cols, row) ==
  IF row.there = ("there" \in cols) THEN row
  ELSE IF row.there THEN Updated(ent, cols, row) ELSE ent

NoteMixed(h) ==
  mixed' = IF \E g \in Handlers \ {h} : req[g].at = "writeReview" /\ req[g].id = req[h].id
           THEN mixed \cup {req[h].id} ELSE mixed

WriteReview(h) ==
  /\ req[h].at = "writeReview"
  /\ review' = [review EXCEPT ![req[h].id] = Saved(req[h].rev, req[h].cols, @)]
  /\ Finish(h)
  /\ NoteMixed(h)
  /\ UNCHANGED <<app, inserted, disturbed, crowd>>

\* remove: the review is loaded with its application, and deleted
Remove(h, i) ==
  /\ review[i].there
  /\ Begin(h, "remove", [Idle EXCEPT !.at = "delete", !.id = i, !.app = app])
  /\ UNCHANGED <<app, review, inserted>>

Delete(h) ==
  /\ req[h].at = "delete"
  /\ review' = [review EXCEPT ![req[h].id] = NoReview]
  /\ req' = [req EXCEPT ![h] = [Idle EXCEPT !.at = "saveApp", !.kind = "remove",
                                         !.app = Cleared(req[h].app)]]
  /\ UNCHANGED <<app, inserted, notes>>

-----------------------------------------------------------------------------
\* Reading columns

\* updateReadingStatus, markCopyReceived, markCopySent
Mark(h, kind, ent) ==
  /\ Begin(h, kind, [Idle EXCEPT !.at = "saveApp", !.app = ent])
  /\ UNCHANGED <<app, review, inserted>>

SelectApp(h) ==
  /\ req[h].at = "saveApp"
  /\ req' = [req EXCEPT ![h].at = "writeApp", ![h].cols = Differing(req[h].app, app)]
  /\ UNCHANGED <<app, review, inserted, notes>>

\* The activities logged afterwards are best effort
WriteApp(h) ==
  /\ req[h].at = "writeApp"
  /\ app' = Updated(req[h].app, req[h].cols, app)
  /\ Finish(h)
  /\ UNCHANGED <<review, inserted, notes>>

\* The process stops, or a statement fails and the request with it
Fail(h) ==
  /\ req[h].at # "idle"
  /\ Finish(h)
  /\ disturbed' = TRUE
  /\ UNCHANGED <<app, review, inserted, crowd, mixed>>

-----------------------------------------------------------------------------

Init ==
  /\ app = NewApp
  /\ review = [i \in Ids |-> NoReview]
  /\ req = [h \in Handlers |-> Idle]
  /\ inserted = {}
  /\ disturbed = FALSE
  /\ crowd = 0
  /\ mixed = {}

Arrive(h) ==
  \/ \E d \in Drafts : Create(h, d)
  \/ \E i \in Ids : Remove(h, i) \/ \E e \in Edits : Update(h, i, e)
  \/ \E s \in Statuses : Mark(h, "progress", Progressed(app, s))
  \/ \E mark \in {"received", "sent"} : Mark(h, mark, [app EXCEPT ![mark] = TRUE])

Continue(h) ==
  \/ Insert(h)
  \/ Delete(h)
  \/ SelectReview(h)
  \/ WriteReview(h)
  \/ SelectApp(h)
  \/ WriteApp(h)
  \/ Fail(h)

Next == \E h \in Handlers : Arrive(h) \/ Continue(h)

Spec == Init /\ [][Next]_vars

-----------------------------------------------------------------------------
\* Who sees a review

Users == Viewers \cup {Reader, Author}

\* findOne: the reader, the author, and everybody if it is public
MayOpen(user, row) == user = Reader \/ user = Author \/ row.public

\* Mutant: any author counts as the author of the book
isBookAuthorAny(user, userType) == userType = "author"

\* isBookAuthor looks at the account's type before the book
isBookAuthor(user, userType) == userType = "author" /\ user = Author

\* applyBookReviewsVisibilityFilter
Listed(user, userType) ==
  {i \in Ids : review[i].there /\ (\/ isBookAuthor(user, userType)
                                   \/ review[i].public
                                   \/ user = Reader)}

\* getUserReviews, as the reader's page asks for them
ListedOfReader(includePrivate) ==
  {i \in Ids : review[i].there /\ (includePrivate \/ review[i].public)}

-----------------------------------------------------------------------------
Present == {i \in Ids : review[i].there}
Quiet   == \A h \in Handlers : req[h].at = "idle"

\* Type invariant: rows and handlers have their types.
ReviewsTypeOK ==
  /\ app \in AppRow
  /\ review \in [Ids -> ReviewRow]
  /\ req \in [Handlers -> Request]
  /\ inserted \subseteq Ids
  /\ disturbed \in BOOLEAN
  /\ crowd \in Nat
  /\ mixed \subseteq Ids

\* An application never has more reviews than requests were writing a review
\* at a time: those that had looked for one and not inserted theirs, and those
\* that had loaded one and not saved it.  No index keeps a second review away,
\* and a PATCH request brings a removed review back; a reader whose requests
\* wait for one another has one review, whatever else overlaps, wherever
\* requests fail, and after any number of reviews were written and removed.
OneReview == Cardinality(Present) <= crowd

\* Requests that did not overlap leave review and application in agreement:
\* there is a review exactly if the application says it was submitted, also
\* after any number of reviews were written and removed.
ReviewRecorded == Quiet /\ ~disturbed => (app.submitted <=> Present # {})

\* The requests that hold the application without a mark
Behind(mark) ==
  {h \in Handlers : /\ req[h].at \in {"insert", "delete", "saveApp", "writeApp"}
                    /\ ~req[h].app[mark]}

\* A mark on the application is taken back only by a request that had loaded
\* the application before it was marked, at most once by each: a request that
\* comes later carries the mark, whatever it saves and in whatever order.
\* The removal of the review takes back that it was submitted, nothing else.
MarksStay ==
  [][\A mark \in {"started", "completed", "submitted", "sent", "received"} :
       app[mark] =>
         /\ \A h \in Behind(mark)' \ Behind(mark) : mark = "submitted" /\ req[h].at = "delete"
         /\ app'[mark] \/ Behind(mark) \ Behind(mark)' # {}]_vars

\* The word count of a review is that of its type and content, though PATCH
\* requests change one without the other, save what they loaded before others
\* saved, and bring removed reviews back.  Only a save that falls between the
\* SELECT and the UPDATE of another one mixes the columns of two.
WordCountFits ==
  \A i \in Present \ mixed :
    review[i].words = calculateWordCount(review[i].type, review[i].content)

\* Every review that a list of a book's reviews shows to a user can be opened
\* by that user, and a user who may open it as its reader finds it listed.
ListedCanBeOpened ==
  /\ \A u \in Users, t \in {"reader", "author"} :
       \A i \in Listed(u, t) : MayOpen(u, review[i])
  /\ Listed(Reader, "reader") = ListedOfReader(TRUE)
=============================================================================
