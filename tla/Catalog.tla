------------------------------- MODULE Catalog -------------------------------
(***************************************************************************)
(* The lists of books readers are shown (books-query.helper, author-follow,*)
(* findOnePublic, the reads of applications.service) and the primary       *)
(* address of a reader (user-address).                                     *)
(*                                                                         *)
(* A list is put together by several statements outside a transaction: a   *)
(* page of ids, a count, the rows, what the reader applied to.  Writes of  *)
(* the other services commit between them.  log is the database after each *)
(* of these writes and clock ticks: statements read its last entry, the    *)
(* rest is history that the properties compare an answer with.             *)
(***************************************************************************)
EXTENDS Integers, Sequences, FiniteSets, FiniteSetsExt

CONSTANTS
  Handlers,   \* requests for lists that can run at the same time
  Movers,     \* the same for requests that change an address
  Books, Readers, Authors, Genres, Countries,
  AuthorOf, GenresOf, \* of each book; data that no statement here changes
  Workloads,  \* the databases to begin with and what is asked, see Workload
  Limit,      \* items per page
  Start,      \* the week the clock begins with
  MaxLog,     \* bound on the writes and clock ticks
  MaxHomes,   \* bound on the addresses of a reader
  None        \* SQL null, and a row that is not there

AppStatus     == {"pending", "approved", "rejected", "withdrawn"}
ReadingStatus == {"not_started", "currently_reading", "for_review", "reviewed"}
BookStatus    == {"draft", "active", "in_progress", "completed"}
Shown         == {"active", "in_progress", "completed"}
Users         == Readers \cup Authors

\* Times are weeks, ratings tenths of a star.
BookRow   == [status : BookStatus, copies : Nat, total : Nat, deadline : Nat, published : Nat]
AppRow    == [status : AppStatus, reading : ReadingStatus, at : Nat, answered : Nat \cup {None},
              submitted : Nat \cup {None}]  \* reviewSubmittedAt
ReviewRow == [rating : 0..50, public : BOOLEAN, type : {"text", "link"}, at : Nat]
Home      == [country : Countries, primary : BOOLEAN]

\* prefs: the preferred genres, the latest first
Database == [books   : [Books -> BookRow \cup {None}],
             apps    : [Readers \X Books -> AppRow \cup {None}],
             reviews : [Readers \X Books -> ReviewRow \cup {None}],
             prefs   : [Readers -> Seq(Genres)],
             follows : [Readers -> SUBSET Authors],
             homes   : [Readers -> [1..MaxHomes -> Home \cup {None}]]]

\* search is the author whose name was typed in, rating the lower end of the
\* range of averages.
Filter == [genres : SUBSET Genres, open : BOOLEAN, rating : Nat, search : Authors \cup {None}]
NoFilter == [genres |-> {}, open |-> FALSE, rating |-> 0, search |-> None]
Query == [kind : {"browse", "featured", "trending", "recommended", "followed", "book", "mine"},
          user : Users \cup {None}, page : Nat \ {0}, filter : Filter, book : Books,
          sort : {"published", "deadline", "popular", "rating"}]

ASSUME CatalogAuthors == AuthorOf \in [Books -> Authors] /\ GenresOf \in [Books -> SUBSET Genres]
\* A workload: the handlers that take part, the lists and reports they are asked
\* for and the readers who change their addresses meanwhile.  Readers follow
\* authors and apply.
ASSUME CatalogWorkloads == \A w \in Workloads :
  /\ DOMAIN w = {"db", "handlers", "queries", "reports", "movers", "writes"}
  /\ w.db \in Database /\ w.handlers \subseteq Handlers
  /\ w.queries \subseteq Query
  /\ \A q \in w.queries : q.kind \in {"followed", "mine"} => q.user \in Readers
  /\ w.movers \subseteq Readers /\ w.writes \in BOOLEAN
ASSUME CatalogBounds  == Limit \in Nat \ {0} /\ MaxLog \in Nat \ {0} /\ Start \in Nat
                         /\ MaxHomes \in Nat
ASSUME CatalogFinite  == IsFiniteSet(Books) /\ IsFiniteSet(Readers) /\ IsFiniteSet(Movers)

VARIABLES
  load,    \* the workload, which stays
  log,     \* <<[db, now]>>, the current database and time last
  req,     \* what each handler is doing
  moves,   \* what each handler of address requests is doing
  clashed  \* history: readers two of whose address requests overlapped, or did
           \* so earlier and left them two primary addresses

catalogVars == <<load, log, req, moves, clashed>>

Db   == log[Len(log)].db
Now  == log[Len(log)].now
Idle == [op |-> "idle"]
Rest == {"idle", "done", "failed", "served"}

Write(d)      == log' = Append(log, [db |-> d, now |-> Now])
Becomes(h, r) == req' = [req EXCEPT ![h] = r]

\* A request for a list.  by: the genres or authors it is narrowed to; ids: the
\* page; log[from..to] is what the database was while it ran.
Item == [book : Books, files : BOOLEAN]
ListRequest ==
  [op : {"prefs", "follows", "page", "count", "load", "applied", "done", "failed"},
   q : Query, by : (SUBSET Genres) \cup (SUBSET Authors), ids : SUBSET Books,
   items : SUBSET Item, total : Nat, from : Nat, to : Nat]

Present(d)   == {b \in Books : d.books[b] # None}
Fewer(m, n)  == IF m < n THEN m ELSE n
Applied(d, b) == {r \in Readers : d.apps[<<r, b>>] # None}

-----------------------------------------------------------------------------
\* The WHERE and ORDER BY of the statements

\* Mutant: sold out is left to the reader
AcceptingSold(d, now, b) ==
  d.books[b] # None /\ d.books[b].status = "active" /\ d.books[b].deadline > now

\* The condition of featured, trending, recommended and followed
Accepting(d, now, b) ==
  /\ d.books[b] # None /\ d.books[b].status = "active"
  /\ d.books[b].copies > 0 /\ d.books[b].deadline > now

\* AVG(rating) over all reviews, public or not; null sorts last
Reviewers(d, b) == {r \in Readers : d.reviews[<<r, b>>] # None}
AverageOf(d, b) ==
  LET R == Reviewers(d, b)
  IN  IF R = {} THEN -1 ELSE MapThenSumSet(LAMBDA r : d.reviews[<<r, b>>].rating, R) \div Cardinality(R)

Popularity(d, b) == Cardinality({r \in Applied(d, b) : d.apps[<<r, b>>].status # "withdrawn"})
Recent(d, now, b) == Cardinality({r \in Applied(d, b) :
                       d.apps[<<r, b>>].at >= now - 1 /\ d.apps[<<r, b>>].status # "withdrawn"})

needsCustomSql(q) == q.sort \in {"popular", "rating"} \/ q.filter.rating > 0

\* The library's filters, and the search in the names of authors
StandardWhere(d, now, f, b) ==
  /\ d.books[b] # None /\ d.books[b].status \in Shown
  /\ f.genres = {} \/ f.genres \cap GenresOf[b] # {}
  /\ f.open => d.books[b].copies > 0 /\ d.books[b].deadline > now
  /\ f.search \in {None, AuthorOf[b]}

\* applyBrowseFiltersToQueryBuilder: it knows no search.
CustomWhere(d, now, f, b) ==
  /\ StandardWhere(d, now, [f EXCEPT !.search = None], b)
  /\ f.rating > 0 => AverageOf(d, b) >= f.rating

Where(d, now, r) == {b \in Books :
  CASE r.q.kind = "browse"      -> IF needsCustomSql(r.q) THEN CustomWhere(d, now, r.q.filter, b)
                                   ELSE StandardWhere(d, now, r.q.filter, b)
    [] r.q.kind = "featured"    -> Accepting(d, now, b)
    [] r.q.kind = "trending"    -> Accepting(d, now, b) /\ Recent(d, now, b) > 0
    [] r.q.kind = "recommended" -> Accepting(d, now, b) /\ (r.by = {} \/ r.by \cap GenresOf[b] # {})
    [] r.q.kind = "followed"    -> Accepting(d, now, b) /\ AuthorOf[b] \in r.by}

\* The sort column; the columns that stand for createdAt are left out.  Only
\* addSorting, on the custom path, lets publishedAt decide among equals.
SortColumn(d, now, q, b) ==
  CASE q.kind = "trending"                        -> Recent(d, now, b)
    [] q.kind = "browse" /\ q.sort = "popular"    -> Popularity(d, b)
    [] q.kind = "browse" /\ q.sort = "rating"     -> AverageOf(d, b)
    [] q.kind = "browse" /\ q.sort = "deadline"   -> -d.books[b].deadline
    [] q.kind = "followed"                        -> 0
    [] OTHER                                      -> d.books[b].published

Before(d, now, q, a, b) ==
  LET A == SortColumn(d, now, q, a)  B == SortColumn(d, now, q, b)
  IN  IF A # B THEN A > B
      ELSE needsCustomSql(q) /\ d.books[a].published > d.books[b].published

TakeOf(q) == CASE q.kind = "featured" -> 10
               [] q.kind = "followed" -> 2 * Limit
               [] OTHER               -> Limit

\* Mutant: the pages are counted from 0
SkipOfZeroBased(q) == IF q.kind \in {"browse", "recommended"} THEN q.page * Limit ELSE 0

SkipOf(q) == IF q.kind \in {"browse", "recommended"} THEN (q.page - 1) * Limit ELSE 0

\* The pages that OFFSET and LIMIT may return: equals come in any order.
PagesOf(S, d, now, q, skip, take) ==
  LET first == Fewer(skip, Cardinality(S))
      size  == Fewer(take, Cardinality(S) - first)
  IN  {P \in SUBSET S : Cardinality(P) = size /\ \E E \in SUBSET (S \ P) :
         /\ Cardinality(E) = first
         /\ \A a \in E, b \in S \ E : ~Before(d, now, q, b, a)
         /\ \A a \in P, b \in S \ (E \cup P) : ~Before(d, now, q, b, a)}

\* sanitizeBook: the file columns are left to the author
Sanitized(user, b) == [book |-> b, files |-> user = AuthorOf[b]]

\* Mutant: a reader whose application was answered keeps the file columns
shouldSanitizeBookAnswered(app) == app.status = "pending" /\ app.reading # "reviewed"

\* shouldSanitizeBook, for the reader of an application
shouldSanitizeBook(app) == app.status # "approved" /\ app.reading # "reviewed"

-----------------------------------------------------------------------------
\* The handlers, a step for each statement

FirstStep(kind) == CASE kind = "recommended" -> "prefs"
                     [] kind = "followed"    -> "follows"
                     [] kind \in {"book", "mine"} -> "load"
                     [] OTHER                -> "page"

ListStart(h, q) ==
  /\ req[h].op \in Rest
  /\ Becomes(h, [op |-> IF q.kind = "browse" /\ needsCustomSql(q) THEN "count" ELSE FirstStep(q.kind),
                 q |-> q, by |-> {}, ids |-> {}, items |-> {}, total |-> 0,
                 from |-> Len(log), to |-> Len(log)])
  /\ UNCHANGED <<log, moves, clashed, load>>

Answer(r, items)   == [r EXCEPT !.op = "done", !.items = items, !.to = Len(log)]
SanitizedAll(r, S) == {Sanitized(r.q.user, b) : b \in S}

\* The five latest preferences; authors have none
ReadPreferences(h) ==
  /\ req[h].op = "prefs"
  /\ Becomes(h, [req[h] EXCEPT !.op = "page", !.by =
       IF req[h].q.user \in Readers
       THEN {Db.prefs[req[h].q.user][i] : i \in 1..Fewer(5, Len(Db.prefs[req[h].q.user]))}
       ELSE {}])
  /\ UNCHANGED <<log, moves, clashed, load>>

\* getFollowedAuthorIds; without any the answer is empty
ReadFollows(h) ==
  /\ req[h].op = "follows"
  /\ LET A == Db.follows[req[h].q.user]
     IN  Becomes(h, IF A = {} THEN Answer(req[h], {})
                              ELSE [req[h] EXCEPT !.op = "page", !.by = A])
  /\ UNCHANGED <<log, moves, clashed, load>>

\* What follows the page.  The list of followed authors asks for applications
\* to no book at all when the page is empty, which is no SQL.
Paged(r, P) ==
  LET all == [r EXCEPT !.ids = P, !.items = SanitizedAll(r, P)]
  IN  CASE r.q.kind = "followed"                         ->
             IF P = {} THEN [r EXCEPT !.op = "failed"] ELSE [all EXCEPT !.op = "applied"]
        [] r.q.kind = "recommended"                      -> [all EXCEPT !.op = "count"]
        [] r.q.kind = "browse" /\ ~needsCustomSql(r.q)   -> [all EXCEPT !.op = "count"]
        [] r.q.kind = "featured"                         -> Answer(r, all.items)
        [] OTHER                                         ->
             IF P = {} THEN Answer(r, all.items) ELSE [r EXCEPT !.op = "load", !.ids = P]

SelectPage(h) ==
  /\ req[h].op = "page"
  /\ \E P \in PagesOf(Where(Db, Now, req[h]), Db, Now, req[h].q, SkipOf(req[h].q), TakeOf(req[h].q)) :
       Becomes(h, Paged(req[h], P))
  /\ UNCHANGED <<log, moves, clashed, load>>

\* An empty page of recommendations is asked for again without genres.
Counted(r, n) ==
  CASE r.q.kind = "browse" /\ needsCustomSql(r.q)                     ->
         [r EXCEPT !.op = "page", !.total = n]
    [] r.q.kind = "recommended" /\ r.items = {} /\ r.by # {}          ->
         [r EXCEPT !.op = "page", !.by = {}]
    [] OTHER                                                          ->
         [Answer(r, r.items) EXCEPT !.total = n]

CountAll(h) ==
  /\ req[h].op = "count"
  /\ Becomes(h, Counted(req[h], Cardinality(Where(Db, Now, req[h]))))
  /\ UNCHANGED <<log, moves, clashed, load>>

\* loadBooksByIds and the second statement of trending look at the ids only.
LoadBooks(h) ==
  /\ req[h].op = "load" /\ req[h].q.kind \in {"browse", "trending"}
  /\ Becomes(h, Answer(req[h], SanitizedAll(req[h], req[h].ids \cap Present(Db))))
  /\ UNCHANGED <<log, moves, clashed, load>>

\* findMyApplications, checkApplication and findOne: one statement
LoadApplications(h) ==
  /\ req[h].op = "load" /\ req[h].q.kind = "mine"
  /\ LET reader == req[h].q.user
     IN  Becomes(h, Answer(req[h],
           {[book |-> b, files |-> ~shouldSanitizeBook(Db.apps[<<reader, b>>])] :
              b \in {x \in Books : reader \in Applied(Db, x)}}))
  /\ UNCHANGED <<log, moves, clashed, load>>

\* findOnePublic
LoadBook(h) ==
  /\ req[h].op = "load" /\ req[h].q.kind = "book"
  /\ LET b == req[h].q.book
     IN  Becomes(h, IF b \notin Present(Db) THEN [req[h] EXCEPT !.op = "failed"]
                    ELSE [req[h] EXCEPT !.op = "applied", !.items = SanitizedAll(req[h], {b})])
  /\ UNCHANGED <<log, moves, clashed, load>>

checkUserApplicationStatus(d, user, b) ==
  user \in Readers /\ user \in Applied(d, b) /\ d.apps[<<user, b>>].status = "approved"

ShowFile(h) ==
  /\ req[h].op = "applied" /\ req[h].q.kind = "book"
  /\ Becomes(h, Answer(req[h], {[i EXCEPT !.files = @ \/
       checkUserApplicationStatus(Db, req[h].q.user, i.book)] : i \in req[h].items}))
  /\ UNCHANGED <<log, moves, clashed, load>>

\* getBooksFromFollowedAuthors means to drop what the reader applied to, but asks
\* the raw rows for application_bookId where the column is called
\* application_book_id: it only cuts.
CutFollowed(h) ==
  /\ req[h].op = "applied" /\ req[h].q.kind = "followed"
  /\ \E S \in kSubset(Fewer(Limit, Cardinality(req[h].items)), req[h].items) :
       Becomes(h, Answer(req[h], S))
  /\ UNCHANGED <<log, moves, clashed, load>>

-----------------------------------------------------------------------------
\* follow and unfollow, upsert and remove of a preference: one row

Followed(d, r, a)   == [d EXCEPT !.follows[r] = @ \cup {a}]
Unfollowed(d, r, a) == [d EXCEPT !.follows[r] = @ \ {a}]
Preferred(d, r, g) ==
  [d EXCEPT !.prefs[r] = IF \E i \in DOMAIN @ : @[i] = g THEN @ ELSE <<g>> \o @]
Without(s, i)       == SubSeq(s, 1, i - 1) \o SubSeq(s, i + 1, Len(s))
Dropped(d, r, g)    ==
  [d EXCEPT !.prefs[r] = IF \E i \in DOMAIN @ : @[i] = g
                         THEN Without(@, CHOOSE i \in DOMAIN @ : @[i] = g) ELSE @]

\* The other services, one row at a time (see Applications, Reviews and Files)
Published(d, b) == [d EXCEPT !.books[b].status = "active", !.books[b].published = Now]
Closed(d, b)    == [d EXCEPT !.books[b].status = "in_progress"]
SoldOut(d, b)   == [d EXCEPT !.books[b].copies = 0]
Requested(d, r, b) == [d EXCEPT !.apps[<<r, b>>] =
  [status |-> "pending", reading |-> "not_started", at |-> Now, answered |-> None,
   submitted |-> None]]
Approved(d, r, b) == [d EXCEPT !.apps[<<r, b>>].status = "approved", !.apps[<<r, b>>].answered = Now,
                               !.books[b].copies = @ - 1]
Rejected(d, r, b) == [d EXCEPT !.apps[<<r, b>>].status = "rejected", !.apps[<<r, b>>].answered = Now]
Withdrawn(d, r, b) == [d EXCEPT !.apps[<<r, b>>].status = "withdrawn"]
Reviewed(d, r, b) == [d EXCEPT !.reviews[<<r, b>>] =
  [rating |-> 45, public |-> TRUE, type |-> "text", at |-> Now]]
Submitted(d, r, b) == [d EXCEPT !.apps[<<r, b>>].reading = "reviewed", !.apps[<<r, b>>].submitted = Now]
Removed(d, b) == [d EXCEPT !.books[b] = None,
  !.apps    = [p \in DOMAIN @ |-> IF p[2] = b THEN None ELSE @[p]],
  !.reviews = [p \in DOMAIN @ |-> IF p[2] = b THEN None ELSE @[p]]]

BookWrites(d, b) ==
  {Removed(d, b)}
  \cup (IF d.books[b].status = "draft" THEN {Published(d, b)} ELSE {})
  \cup (IF d.books[b].status = "active" THEN {Closed(d, b), SoldOut(d, b)} ELSE {})

ApplicationWrites(d, r, b) ==
  IF d.apps[<<r, b>>] = None THEN IF Accepting(d, Now, b) THEN {Requested(d, r, b)} ELSE {}
  ELSE CASE d.apps[<<r, b>>].status = "pending" ->
              {Rejected(d, r, b), Withdrawn(d, r, b)}
              \cup (IF d.books[b].copies > 0 THEN {Approved(d, r, b)} ELSE {})
         [] d.apps[<<r, b>>].status = "approved" /\ d.reviews[<<r, b>>] = None -> {Reviewed(d, r, b)}
         [] d.apps[<<r, b>>].submitted = None /\ d.reviews[<<r, b>>] # None -> {Submitted(d, r, b)}
         [] OTHER -> {}

ReaderWrites(d, r) ==
  {Followed(d, r, a) : a \in Authors} \cup {Unfollowed(d, r, a) : a \in Authors}
  \cup {Preferred(d, r, g) : g \in Genres} \cup {Dropped(d, r, g) : g \in Genres}

OtherWrites(d) ==
  (UNION {BookWrites(d, b) : b \in Present(d)})
  \cup (UNION {ApplicationWrites(d, r, b) : r \in Readers, b \in Present(d)})
  \cup (UNION {ReaderWrites(d, r) : r \in Readers})

OtherWrite ==
  /\ load.writes /\ Len(log) < MaxLog
  /\ \E d \in OtherWrites(Db) : d # Db /\ Write(d)
  /\ UNCHANGED <<req, moves, clashed, load>>

Tick ==
  /\ Len(log) < MaxLog
  /\ log' = Append(log, [db |-> Db, now |-> Now + 1])
  /\ UNCHANGED <<req, moves, clashed, load>>

-----------------------------------------------------------------------------
\* The addresses of a reader: rows 1..MaxHomes.  create and update first clear
\* the mark of the others, in a statement of its own.

MoveIdle == [op |-> "idle"]
Moves == {MoveIdle} \cup
  [op : {"insert", "save"}, reader : Readers, row : 1..MaxHomes \cup {None}, home : Home]

\* The primary addresses of a reader
Marked(d, r) == {i \in 1..MaxHomes : d.homes[r][i] # None /\ d.homes[r][i].primary}

Cleared(d, r, keep) == [d EXCEPT !.homes[r] =
  [i \in DOMAIN @ |-> IF @[i] = None \/ i \in keep THEN @[i] ELSE [@[i] EXCEPT !.primary = FALSE]]]

MoveStart(m, r, move) ==
  /\ moves[m] = MoveIdle /\ moves' = [moves EXCEPT ![m] = move] /\ Len(log) < MaxLog
  /\ clashed' = IF \E n \in Movers : moves[n] # MoveIdle /\ moves[n].reader = r
                THEN clashed \cup {r} ELSE clashed
  /\ UNCHANGED <<req, load>>

FreeRows(r) == {i \in 1..MaxHomes : Db.homes[r][i] = None}

\* create: isPrimary defaults to true
AddressCreate(m, r, home) ==
  /\ FreeRows(r) # {}
  /\ MoveStart(m, r, [op |-> "insert", reader |-> r, row |-> None, home |-> home])
  /\ IF home.primary THEN Write(Cleared(Db, r, {})) ELSE UNCHANGED log

\* Mutant: the other addresses keep their mark
AddressUpdateOnly(m, r, i, home) ==
  /\ Db.homes[r][i] # None
  /\ MoveStart(m, r, [op |-> "save", reader |-> r, row |-> i, home |-> home])
  /\ UNCHANGED log

\* update: home is the loaded row with what the body changes.  The others are
\* cleared when the body says primary, not when the row already was.
AddressUpdate(m, r, i, home) ==
  /\ Db.homes[r][i] # None
  /\ MoveStart(m, r, [op |-> "save", reader |-> r, row |-> i, home |-> home])
  /\ \/ home.primary /\ Write(Cleared(Db, r, {i}))
     \/ (home.primary => Db.homes[r][i].primary) /\ UNCHANGED log

\* save() inserts a row that was removed meanwhile again.
AddressSave(m) ==
  /\ moves[m] # MoveIdle /\ moves' = [moves EXCEPT ![m] = MoveIdle]
  /\ LET r == moves[m].reader
     IN  \E i \in IF moves[m].op = "save" THEN {moves[m].row} ELSE FreeRows(r) :
           Write([Db EXCEPT !.homes[r][i] = moves[m].home])
  /\ UNCHANGED <<req, clashed, load>>

AddressRemove(r, i) ==
  /\ Db.homes[r][i] # None /\ Len(log) < MaxLog
  /\ Write([Db EXCEPT !.homes[r][i] = None])
  /\ UNCHANGED <<req, moves, clashed, load>>

-----------------------------------------------------------------------------
CatalogInit ==
  /\ load \in Workloads /\ log = <<[db |-> load.db, now |-> Start]>>
  /\ req = [h \in Handlers |-> Idle] /\ moves = [m \in Movers |-> MoveIdle]
  /\ clashed = {r \in Readers : \E i, j \in Marked(load.db, r) : i # j}

Lists(h) ==
  \/ \E q \in load.queries : ListStart(h, q)
  \/ ReadPreferences(h) \/ ReadFollows(h) \/ SelectPage(h) \/ CountAll(h)
  \/ LoadBooks(h) \/ LoadApplications(h) \/ LoadBook(h) \/ ShowFile(h) \/ CutFollowed(h)

Addresses ==
  \/ \E m \in Movers, r \in load.movers, home \in Home :
       \/ AddressCreate(m, r, home)
       \/ \E i \in 1..MaxHomes : AddressUpdate(m, r, i, home)
  \/ \E m \in Movers : AddressSave(m)
  \/ \E r \in load.movers, i \in 1..MaxHomes : AddressRemove(r, i)

CatalogNext ==
  \/ \E h \in load.handlers : Lists(h)
  \/ Addresses \/ OtherWrite \/ Tick
=============================================================================
