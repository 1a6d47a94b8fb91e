------------------------------ MODULE Analytics ------------------------------
(***************************************************************************)
(* The reports of authors and readers (books-analytics.service and its     *)
(* helpers, users-reader-stats, the author statistics of users.service)    *)
(* and the Redis cache in front of the author's reports, on the database   *)
(* of Catalog.                                                             *)
(*                                                                         *)
(* A report sends its statements with Promise.all: each reads the database *)
(* when it comes to it, in any order, between the writes of others.  A     *)
(* figure of a report comes from one statement or from two; a request here *)
(* is for one such part of a report, the other parts run beside it.        *)
(***************************************************************************)
EXTENDS Catalog

CONSTANTS
  Ages,      \* the age of each reader, None without a date of birth
  TTL,       \* ANALYTICS_CACHE_TTL
  TopBooks,  \* how many books getTopPerformingBooks lists, 5 in the code
  MaxCached  \* bound on the keys in Redis; a write beyond it fails

\* DateRange, the values the controller lets through
DateRanges == {"last_7_days", "last_30_days", "last_90_days", "year", "all_time"}
Kinds  == {"stats", "book", "author", "performance", "myAuthorStats", "myReaderStats"}
Report == [kind : Kinds, of : Books \cup Authors \cup Readers,
           range : DateRanges \cup {None}, part : SUBSET STRING]

ASSUME AnalyticsAges    == Ages \in [Readers -> 0..130 \cup {None}]
ASSUME AnalyticsBounds  == TTL \in Nat \ {0} /\ TopBooks \in Nat \ {0}
                           /\ MaxCached \in Nat

VARIABLE
  cache      \* the keys analytics:... of Redis

vars == <<catalogVars, cache>>

-----------------------------------------------------------------------------
\* Arithmetic of the helpers

\* percent, and Math.round of a quotient.  The sum of natural numbers is the size
\* of a union of disjoint sets of these sizes.
percent(part, whole) == IF whole > 0 THEN (200 * part + whole) \div (2 * whole) ELSE 0
SumOf(f) == Cardinality(UNION {{x} \X (1..f[x]) : x \in DOMAIN f})
Mean(f)  == LET n == Cardinality(DOMAIN f)
            IN  IF n = 0 THEN 0 ELSE (2 * SumOf(f) + n) \div (2 * n)

\* A statement counts rows; rows are named by reader and book.
AppsOf(d, B)      == {p \in Readers \X B : d.apps[p] # None}
ReviewsOf(d, B)   == {p \in Readers \X B : d.reviews[p] # None}
BooksBy(d, a)     == {b \in Present(d) : AuthorOf[b] = a}
WithStatus(d, P, s) == {p \in P : d.apps[p].status = s}
Since(d, P, t)    == {p \in P : d.apps[p].at >= t}
PublicOf(d, a, t) == {p \in ReviewsOf(d, BooksBy(d, a)) : d.reviews[p].public /\ d.reviews[p].at >= t}

Month(t)        == t \div 4
StartOfMonth(t) == 4 * Month(t)

\* getDateRange: what it compares a range with; null is the beginning of time
Spans == [x \in {"7d", "30d", "90d", "6m", "1y"} |->
            CASE x = "7d" -> 1 [] x = "30d" -> 4 [] x = "90d" -> 13 [] x = "6m" -> 26 [] x = "1y" -> 52]
getDateRange(range, now) ==
  CASE range \in {None, "all"}  -> 0
    [] range \in DOMAIN Spans   -> now - Spans[range]
    [] OTHER                    -> now - Spans["30d"]

\* The monthly rows go back half a year unless a range is given.
TrendStart(range, now) == IF range = None THEN now - 26 ELSE getDateRange(range, now)

-----------------------------------------------------------------------------
\* The statements of one book

getApplicationCounts(d, b, month) ==
  LET P == AppsOf(d, {b})  M == Since(d, P, month)
      Of(S, s) == Cardinality(WithStatus(d, S, s))
  IN  [total |-> Cardinality(P), pending |-> Of(P, "pending"), approved |-> Of(P, "approved"),
       rejected |-> Of(P, "rejected"), withdrawn |-> Of(P, "withdrawn"),
       month |-> [total |-> Cardinality(M), approved |-> Of(M, "approved"),
                  rejected |-> Of(M, "rejected")]]

ReviewSummary(d, b) ==
  LET P == ReviewsOf(d, {b})
      n == Cardinality(P)
      OfType(t) == Cardinality({p \in P : d.reviews[p].type = t})
  IN  [total |-> n, average |-> Mean([p \in P |-> d.reviews[p].rating]),
       positive |-> percent(Cardinality({p \in P : d.reviews[p].rating >= 40}), n),
       text |-> OfType("text"), link |-> OfType("link")]

Ratings(d, P) == {d.reviews[p].rating : p \in P}
Rated(d, P, x) == Cardinality({p \in P : d.reviews[p].rating = x})

\* buildRatingDistribution: a row for each rating, rounded to a star; a later
\* row replaces an earlier one of the same star, in whatever order they come.
RatingDistributions(d, b) ==
  LET P == ReviewsOf(d, {b})
      Rows(star) == {x \in Ratings(d, P) : (x + 5) \div 10 = star}
  IN  {f \in [1..5 -> 0..Cardinality(P)] : \A star \in 1..5 :
         IF Rows(star) = {} THEN f[star] = 0
         ELSE \E x \in Rows(star) : f[star] = Rated(d, P, x)}

\* getBookAverageResponseTime, getAuthorAverageResponseTime
ResponseTime(d, B) ==
  LET P == {p \in AppsOf(d, B) : d.apps[p].answered # None}
  IN  Mean([p \in P |-> d.apps[p].answered - d.apps[p].at])

\* The latest n reviews
getRecentReviews(d, b, n) ==
  LET P == ReviewsOf(d, {b})
  IN  {S \in SUBSET P : Cardinality(S) = Fewer(n, Cardinality(P))
         /\ \A p \in S, q \in P \ S : d.reviews[p].at >= d.reviews[q].at}

\* Demographics of a set of readers
AgeRanges == <<13..17, 18..24, 25..34, 35..44, 45..54, 55..64, 65..200>>
calculateAgeDemographics(R) ==
  LET A == {r \in R : Ages[r] # None /\ Ages[r] > 0 /\ Ages[r] < 120}
  IN  [average |-> Mean([r \in A |-> Ages[r]]), withAge |-> Cardinality(A),
       ranges |-> [i \in 1..7 |-> Cardinality({r \in A : Ages[r] \in AgeRanges[i]})]]

PrimaryHomes(d, R) == {p \in R \X (1..MaxHomes) : p[2] \in Marked(d, p[1])}
calculateCountryBreakdown(d, R) ==
  LET H == PrimaryHomes(d, R)
      In(c) == Cardinality({p \in H : d.homes[p[1]][p[2]].country = c})
  IN  [withCountry |-> Cardinality(H), readers |-> Cardinality(R),
       countries |-> [c \in Countries |-> [count |-> In(c), percentage |-> percent(In(c), Cardinality(R))]]]

Prefers(d, r, g) == \E i \in DOMAIN d.prefs[r] : d.prefs[r][i] = g
calculateGenreBreakdown(d, R) ==
  LET With(g) == Cardinality({r \in R : Prefers(d, r, g)})
  IN  [withPreferences |-> Cardinality({r \in R : d.prefs[r] # <<>>}),
       genres |-> [g \in Genres |-> [count |-> With(g), percentage |-> percent(With(g), Cardinality(R))]]]

-----------------------------------------------------------------------------
\* The statements of an author

getBookStatusCounts(d, a) ==
  LET Of(S) == Cardinality({b \in BooksBy(d, a) : d.books[b].status \in S})
  IN  [total |-> Cardinality(BooksBy(d, a)), published |-> Of({"active"}), draft |-> Of({"draft"}),
       inProgress |-> Of({"in_progress"}), completed |-> Of({"completed"})]

getApplicationOverview(d, a, start, month) ==
  LET P == Since(d, AppsOf(d, BooksBy(d, a)), start)
      Of(s) == Cardinality(WithStatus(d, P, s))
  IN  [total |-> Cardinality(P), approved |-> Of("approved"), pending |-> Of("pending"),
       rejected |-> Of("rejected"), month |-> Cardinality(Since(d, P, month))]

\* The first statement of getReaderAnalytics and what it computes from it
ReaderFigures(d, a) ==
  LET P == AppsOf(d, BooksBy(d, a))
      R == {p[1] : p \in P}
      Total(r)    == Cardinality({p \in P : p[1] = r})
      Approving   == {p[1] : p \in WithStatus(d, P, "approved")}
      Reviewing   == {p[1] : p \in {x \in P : d.apps[x].submitted # None}}
      Reading(s)  == Cardinality({p \in P : d.apps[p].reading = s})
  IN  [rows |-> P, readers |-> Cardinality(R),
       repeat |-> Cardinality({r \in R : Total(r) > 1}),
       perReader |-> IF R = {} THEN 0 ELSE percent(Cardinality(P), Cardinality(R)),
       engagement |-> percent(Cardinality(Reviewing), Cardinality(Approving)),
       withReviews |-> Cardinality(Reviewing),
       reading |-> [s \in ReadingStatus |-> Reading(s)],
       age |-> calculateAgeDemographics(R)]

newReadersThisMonth(d, a, month) ==
  LET P == AppsOf(d, BooksBy(d, a))
  IN  Cardinality({r \in {p[1] : p \in P} :
                     \A p \in P : p[1] = r => d.apps[p].at >= month})

\* calculateAppliedBookGenresBreakdown: the genres of the books of the first
\* statement, looked up in a third
AppliedGenres(d, rows) == [g \in Genres |-> Cardinality({p[1] : p \in
  {x \in rows : x[2] \in Present(d) /\ g \in GenresOf[x[2]]}})]

getBooksWithReviews(d, a) == Cardinality({p[2] : p \in PublicOf(d, a, 0)})

\* Rows of a GROUP BY month; trend is its WHERE
getMonthlyApplications(d, a, trend) ==
  LET P == Since(d, AppsOf(d, BooksBy(d, a)), trend)
  IN  [m \in {Month(d.apps[p].at) : p \in P} |->
         Cardinality({p \in P : Month(d.apps[p].at) = m})]

getApprovalRateOverTime(d, a, trend) ==
  LET P == Since(d, AppsOf(d, BooksBy(d, a)), trend)
      In(m) == {p \in P : Month(d.apps[p].at) = m}
      Ok(m) == Cardinality(WithStatus(d, In(m), "approved"))
  IN  [m \in {Month(d.apps[p].at) : p \in P} |->
         [total |-> Cardinality(In(m)), approved |-> Ok(m), rate |-> percent(Ok(m), Cardinality(In(m)))]]

getMonthlyReviews(d, a, trend) ==
  LET P == PublicOf(d, a, trend)
  IN  [m \in {Month(d.reviews[p].at) : p \in P} |->
         Cardinality({p \in P : Month(d.reviews[p].at) = m})]

\* All reviews, public or not: the best averages first, then the most reviews.
\* Averages are compared as fractions; equals come in any order.
Outranks(d, x, y) ==
  LET n(b)   == Cardinality(ReviewsOf(d, {b}))
      sum(b) == SumOf([p \in ReviewsOf(d, {b}) |-> d.reviews[p].rating])
  IN  \/ sum(x) * n(y) > sum(y) * n(x)
      \/ sum(x) * n(y) = sum(y) * n(x) /\ n(x) > n(y)

\* The lists that LIMIT may return
getTopPerformingBooks(d, a, limit) ==
  LET B == {p[2] : p \in ReviewsOf(d, BooksBy(d, a))}
  IN  {[b \in T |-> [average |-> AverageOf(d, b), reviews |-> Cardinality(ReviewsOf(d, {b}))]] :
         T \in {S \in SUBSET B : /\ Cardinality(S) = Fewer(limit, Cardinality(B))
                                 /\ \A x \in S, y \in B \ S : ~Outranks(d, y, x)}}

\* The raw rating is the key, "4.00" and not 4: the five stars stay at 0.
getAuthorRatingDistribution(d, a) ==
  LET P == PublicOf(d, a, 0)
  IN  [k \in ({"star"} \X (1..5)) \cup ({"raw"} \X Ratings(d, P)) |->
         IF k[1] = "star" THEN 0 ELSE Rated(d, P, k[2])]

-----------------------------------------------------------------------------
\* The two statements of the comparison of an author's books, over the ids of an
\* earlier one

PerformanceApps(d, B) == [b \in B |-> LET P == AppsOf(d, {b}) IN
  [total |-> Cardinality(P), approved |-> Cardinality(WithStatus(d, P, "approved"))]]
PerformanceReviews(d, B) == [b \in B |-> LET P == {p \in ReviewsOf(d, {b}) : d.reviews[p].public} IN
  [average |-> Mean([p \in P |-> d.reviews[p].rating]), reviews |-> Cardinality(P)]]

-----------------------------------------------------------------------------
\* The statements of a reader: one count each

OwnApps(d, r)    == {p \in AppsOf(d, Books) : p[1] = r}
OwnReviews(d, r) == {p \in ReviewsOf(d, Books) : p[1] = r}
ReadRows(d, r)   == {p \in OwnApps(d, r) : d.apps[p].reading = "reviewed"}
ReaderAverage(d, r) == Mean([p \in OwnReviews(d, r) |-> d.reviews[p].rating])
getGenresBreakdown(d, r) == [g \in Genres |->
  Cardinality({p \in ReadRows(d, r) : g \in GenresOf[p[2]]})]

-----------------------------------------------------------------------------
\* The parts of each report

\* Statements whose figures stand alone, and pairs that are combined: the copies
\* of the book with its approvals, reviews with approvals, the readers with
\* what is looked up about them, the rates of a reader.
Parts(kind) ==
  CASE kind = "stats"         -> {{"book", "counts"}, {"book", "summary"}}
    [] kind = "book"          -> {{"book"} \cup S : S \in {{"counts", "summary"}, {"summary", "ratings"}, {"recent"},
                                    {"response"}, {"insights", "countries"}, {"insights", "genres"}}}
    [] kind = "author"        -> {{"statuses"}, {"overview"}, {"publicReviews", "distribution"}, {"average"},
                                  {"booksWithReviews", "top"}, {"response"}, {"monthly", "rates"}, {"monthlyReviews"},
                                  {"readers", "newReaders"}, {"readers", "countries"},
                                  {"readers", "genres"}, {"readers", "bookGenres"}}
    [] kind = "performance"   -> {{"books", "bookApplications"}, {"books", "bookReviews"}}
    [] kind = "myAuthorStats" -> {{"statuses"}, {"overview"}, {"allReviews", "booksWithReviews"}, {"average"}, {"response"}}
    [] kind = "myReaderStats" -> {{"total", "approved"}, {"pending"}, {"read", "reviews"}, {"ownAverage"}, {"genresRead"}}

\* What the id in the path, or of the user, names
Subjects(kind) == CASE kind \in {"stats", "book"} -> Books
                    [] kind = "myReaderStats"     -> Readers
                    [] OTHER                      -> Authors

ASSUME AnalyticsReports == \A w \in Workloads : \A r \in w.reports :
  r \in Report /\ r.of \in Subjects(r.kind) /\ r.part \in Parts(r.kind)

\* What a statement waits for
After(s) == CASE s \in {"newReaders", "bookGenres"}         -> {"readers"}
              [] s \in {"countries", "genres"}             -> {"readers", "insights"}
              [] s \in {"bookApplications", "bookReviews"} -> {"books"}
              [] OTHER                                     -> {}

BookColumns(d, b) == IF d.books[b] = None THEN None
                     ELSE [total |-> d.books[b].total, copies |-> d.books[b].copies]

\* The readers an earlier statement of the report found
ReadersIn(got) == {p[1] : p \in IF "readers" \in DOMAIN got THEN got["readers"].rows ELSE got["insights"]}

\* What statement s of report q can return in database d; t is when the report
\* began, got what it knows.
Results(d, t, q, s, got) ==
  LET month == StartOfMonth(t)
      start == getDateRange(q.range, t)
  IN  CASE s = "book"     -> {BookColumns(d, q.of)}
        [] s = "counts"   -> {getApplicationCounts(d, q.of, IF q.kind = "stats" THEN 0 ELSE month)}
        [] s = "summary"  -> {ReviewSummary(d, q.of)}
        [] s = "ratings"  -> RatingDistributions(d, q.of)
        [] s = "recent"   -> getRecentReviews(d, q.of, 5)
        [] s = "response" -> {ResponseTime(d, IF q.kind = "book" THEN {q.of} ELSE BooksBy(d, q.of))}
        [] s = "insights" -> {AppsOf(d, {q.of})}
        [] s = "countries" -> {calculateCountryBreakdown(d, ReadersIn(got))}
        [] s = "genres"   -> {calculateGenreBreakdown(d, ReadersIn(got))}
        [] s = "statuses" -> {getBookStatusCounts(d, q.of)}
        [] s = "overview" -> {getApplicationOverview(d, q.of, start, month)}
        [] s = "publicReviews" -> {Cardinality(PublicOf(d, q.of, start))}
        [] s = "distribution"  -> {getAuthorRatingDistribution(d, q.of)}
        [] s = "average"  -> {Mean([p \in PublicOf(d, q.of, start) |-> d.reviews[p].rating])}
        [] s = "booksWithReviews" -> {getBooksWithReviews(d, q.of)}
        [] s = "top"      -> getTopPerformingBooks(d, q.of, TopBooks)
        [] s = "monthly"  -> {getMonthlyApplications(d, q.of, TrendStart(q.range, t))}
        [] s = "rates"    -> {getApprovalRateOverTime(d, q.of, TrendStart(q.range, t))}
        [] s = "monthlyReviews" -> {getMonthlyReviews(d, q.of, TrendStart(q.range, t))}
        [] s = "readers"  -> {ReaderFigures(d, q.of)}
        [] s = "newReaders" -> {newReadersThisMonth(d, q.of, month)}
        [] s = "bookGenres" -> {AppliedGenres(d, got["readers"].rows)}
        [] s = "books"    -> {BooksBy(d, q.of)}
        [] s = "bookApplications" -> {PerformanceApps(d, got["books"])}
        [] s = "bookReviews" -> {PerformanceReviews(d, got["books"])}
        [] s = "allReviews" -> {Cardinality(ReviewsOf(d, BooksBy(d, q.of)))}
        [] s = "total"    -> {Cardinality(OwnApps(d, q.of))}
        [] s = "approved" -> {Cardinality(WithStatus(d, OwnApps(d, q.of), "approved"))}
        [] s = "pending"  -> {Cardinality(WithStatus(d, OwnApps(d, q.of), "pending"))}
        [] s = "read"     -> {Cardinality(ReadRows(d, q.of))}
        [] s = "reviews"  -> {Cardinality(OwnReviews(d, q.of))}
        [] s = "ownAverage" -> {ReaderAverage(d, q.of)}
        [] s = "genresRead" -> {getGenresBreakdown(d, q.of)}

\* f with v under k
Entered(f, k, v) == [x \in (DOMAIN f) \cup {k} |-> IF x = k THEN v ELSE f[x]]

-----------------------------------------------------------------------------
\* getOrSet

Cached(kind) == kind \notin {"myAuthorStats", "myReaderStats"}

\* Mutant: the range is not part of the key
KeyOfAnyRange(q) == <<q.kind, q.of, None, q.part>>

\* The keys of the four reports, projected to the part
KeyOf(q) == <<q.kind, q.of, IF q.kind = "author" THEN q.range ELSE None, q.part>>

\* An entry is read until it expires.  A failing read counts as a miss.
Fresh(k) == k \in DOMAIN cache /\ Now < cache[k].until

\* left: the statements to come; got: their results; the report read
\* log[from..to], began at start and was stored, or made, at stored.
ReportRequest ==
  [op : {"get", "query", "set", "served"}, rq : Report, left : SUBSET STRING,
   from : Nat, to : Nat, start : Nat, stored : Nat, at : Nat]

ReportStart(h, q) ==
  /\ req[h].op \in Rest
  /\ Becomes(h, [op |-> IF Cached(q.kind) THEN "get" ELSE "query", rq |-> q, left |-> q.part,
                 got |-> <<>>, from |-> Len(log), to |-> Len(log), start |-> Now,
                 stored |-> Now, at |-> Now])
  /\ UNCHANGED <<log, moves, clashed, load, cache>>

Hit(h) ==
  /\ req[h].op = "get" /\ Fresh(KeyOf(req[h].rq))
  /\ LET entry == cache[KeyOf(req[h].rq)]
     IN  Becomes(h, [req[h] EXCEPT !.op = "served", !.left = {}, !.got = entry.got,
                       !.from = entry.from, !.to = entry.to, !.start = entry.start,
                       !.stored = entry.stored, !.at = Now])
  /\ UNCHANGED <<log, moves, clashed, load, cache>>

Miss(h) ==
  /\ req[h].op = "get"
  /\ Becomes(h, [req[h] EXCEPT !.op = "query", !.from = Len(log), !.to = Len(log), !.start = Now])
  /\ UNCHANGED <<log, moves, clashed, load, cache>>

\* A report on a book that is gone is answered with 404 and not stored.
Loaded(r, got) ==
  [r EXCEPT !.got = got, !.to = Len(log), !.stored = Now, !.at = Now,
            !.op = IF "book" \in DOMAIN got /\ got["book"] = None THEN "failed"
                   ELSE IF Cached(r.rq.kind) THEN "set" ELSE "served"]

Statement(h) ==
  /\ req[h].op = "query"
  /\ \E s \in req[h].left :
       /\ After(s) \cap req[h].left = {}
       /\ \E result \in Results(Db, req[h].start, req[h].rq, s, req[h].got) :
            LET got  == Entered(req[h].got, s, result)
                left == req[h].left \ {s}
            IN  Becomes(h, IF left = {} THEN [Loaded(req[h], got) EXCEPT !.left = {}]
                           ELSE [req[h] EXCEPT !.left = left, !.got = got])
  /\ UNCHANGED <<log, moves, clashed, load, cache>>

\* Mutant: milliseconds are taken for seconds
StoredLong(r) == [got |-> r.got, from |-> r.from, to |-> r.to, start |-> r.start,
                  stored |-> Now, until |-> Now + 1000 * TTL]

Stored(r) == [got |-> r.got, from |-> r.from, to |-> r.to, start |-> r.start,
              stored |-> Now, until |-> Now + TTL]

\* SET ... EX; a failing write is logged.
Store(h) ==
  /\ req[h].op = "set"
  /\ Becomes(h, [req[h] EXCEPT !.op = "served", !.stored = Now, !.at = Now])
  /\ \/ /\ Cardinality((DOMAIN cache) \cup {KeyOf(req[h].rq)}) <= MaxCached
        /\ cache' = Entered(cache, KeyOf(req[h].rq), Stored(req[h]))
     \/ UNCHANGED cache
  /\ UNCHANGED <<log, moves, clashed, load>>

-----------------------------------------------------------------------------
Init == CatalogInit /\ cache = <<>>

ReportSteps(h) ==
  \/ \E q \in load.reports : ReportStart(h, q)
  \/ Hit(h) \/ Miss(h) \/ Statement(h) \/ Store(h)

Next == (CatalogNext /\ UNCHANGED cache) \/ \E h \in load.handlers : ReportSteps(h)

Spec == Init /\ [][Next]_vars

-----------------------------------------------------------------------------
\* The log, the requests in flight, the addresses and the cache have their types;
\* no entry of the cache outlives its TTL.
CatalogTypeOK ==
  /\ load \in Workloads
  /\ Len(log) \in 1..(MaxLog + Cardinality(Movers))
  /\ Db \in Database /\ Now \in Nat /\ clashed \subseteq Readers
  /\ moves \in [Movers -> Moves]
  /\ \A h \in Handlers :
       \/ req[h] = Idle
       \/ "q" \in DOMAIN req[h] /\ req[h] \in ListRequest
       \/ "rq" \in DOMAIN req[h] /\ req[h].rq \in load.reports /\ req[h].left \subseteq req[h].rq.part
          /\ req[h].from <= req[h].to /\ req[h].to <= Len(log)
  /\ \A k \in DOMAIN cache : cache[k].until \in cache[k].stored..cache[k].stored + TTL

Listed(r)  == "q" \in DOMAIN r /\ r.op = "done"
Window(r)  == r.from..r.to
Ran(r)     == {log[i] : i \in Window(r)}

\* The check of an application; it accepts at the deadline itself.
validateBookForApplication(d, now, b) ==
  /\ d.books[b] # None /\ d.books[b].status = "active" /\ d.books[b].copies > 0
  /\ ~(d.books[b].deadline < now)

Offers == {"featured", "trending", "recommended", "followed"}

\* A book that is featured, trending, recommended or offered by a followed author
\* could be applied for at some moment while the list was put together, though
\* its rows are loaded by other statements than those that chose it.
ListedWereOpen == \A h \in Handlers :
  Listed(req[h]) /\ req[h].q.kind \in Offers => \A i \in req[h].items :
    \E m \in Ran(req[h]) : validateBookForApplication(m.db, m.now, i.book)

\* What a reader means by a query: an accepting book with a preferred genre, any
\* accepting book without one; the filters of browse, except that the search is
\* lost when the sort or the rating takes the custom path.
Wanted(r, m) == {b \in Books \cap Present(m.db) :
  IF r.q.kind = "recommended"
  THEN validateBookForApplication(m.db, m.now, b) /\ m.db.books[b].deadline # m.now
       /\ (r.by # {} => \E g \in r.by : g \in GenresOf[b])
  ELSE LET f == r.q.filter
       IN  /\ m.db.books[b].status # "draft"
           /\ f.genres # {} => \E g \in f.genres : g \in GenresOf[b]
           /\ f.open => m.db.books[b].copies # 0 /\ m.now < m.db.books[b].deadline
           /\ f.rating > 0 => ReviewsOf(m.db, {b}) # {} /\ AverageOf(m.db, b) >= f.rating
           /\ f.search = None \/ f.search = AuthorOf[b] \/ f.rating > 0 \/ r.q.sort \in {"popular", "rating"}}

\* A page holds books that matched while it was made, and when nothing was
\* written meanwhile the pages divide the matching books by their order: book b
\* is on the page its rank says, and the total counts them all.
PagesFaithful == \A h \in Handlers :
  Listed(req[h]) /\ req[h].q.kind \in {"browse", "recommended"} =>
    LET r == req[h]
        page == {i.book : i \in r.items}
    IN  /\ \A b \in page : \E m \in Ran(r) : b \in Wanted(r, m)
        /\ r.from = r.to =>
             LET m == log[r.to]
                 W == Wanted(r, m)
                 Above(b) == {a \in W : Before(m.db, m.now, r.q, a, b)}
                 Below(b) == {a \in W : Before(m.db, m.now, r.q, b, a)}
             IN  /\ r.total = Cardinality(W)
                 /\ \A b \in page : /\ Cardinality(Above(b)) < r.q.page * Limit
                                    /\ Cardinality(W \ Below(b)) > (r.q.page - 1) * Limit
                 /\ \A b \in W : Cardinality(Above(b)) >= (r.q.page - 1) * Limit
                                /\ Cardinality(W \ Below(b)) <= r.q.page * Limit => b \in page

\* Whoever sees the file columns of a book is its author, or had its application
\* approved or reviewed at some moment while the answer was made.
FilesHidden == \A h \in Handlers : Listed(req[h]) => \A i \in req[h].items : i.files =>
  \/ req[h].q.user = AuthorOf[i.book]
  \/ req[h].q.user \in Readers /\ \E m \in Ran(req[h]) :
       LET app == m.db.apps[<<req[h].q.user, i.book>>]
       IN  app # None /\ (app.status = "approved" \/ app.reading = "reviewed")

Served(r)   == "rq" \in DOMAIN r /\ r.op = "served"
Has(r, S)   == S \subseteq DOMAIN r.got
WholeStars(d, b) == \A p \in ReviewsOf(d, {b}) : d.reviews[p].rating \in {10, 20, 30, 40, 50}

\* Figures of one statement: the statuses add up to the totals, parts never
\* exceed them, no country or genre has more readers than there are.
CountsAddUp(c) ==
  /\ c.total = c.pending + c.approved + c.rejected + c.withdrawn
  /\ c.month.approved + c.month.rejected <= c.month.total /\ c.month.total <= c.total
SummaryAddsUp(s)  == s.text + s.link = s.total /\ s.positive <= 100 /\ s.average <= 50
StatusesAddUp(s)  == s.total = s.published + s.draft + s.inProgress + s.completed
OverviewAddsUp(o) == o.approved + o.pending + o.rejected <= o.total /\ o.month <= o.total
ReadersAddUp(x) ==
  /\ SumOf(x.reading) = Cardinality(x.rows)
  /\ x.repeat <= x.readers /\ x.withReviews <= x.readers
  /\ SumOf(x.age.ranges) <= x.age.withAge
CountriesAddUp(c) ==
  c.withCountry <= c.readers /\ SumOf([x \in Countries |-> c.countries[x].count]) = c.withCountry

\* They do whatever is written meanwhile, those on countries unless a reader's
\* address requests overlapped.
StatementsAddUp(r) ==
  /\ Has(r, {"counts"}) => CountsAddUp(r.got["counts"])
  /\ Has(r, {"summary"}) => SummaryAddsUp(r.got["summary"])
  /\ Has(r, {"statuses"}) => StatusesAddUp(r.got["statuses"])
  /\ Has(r, {"overview"}) => OverviewAddsUp(r.got["overview"])
  /\ Has(r, {"readers"}) => ReadersAddUp(r.got["readers"])
  /\ Has(r, {"rates"}) => \A m \in DOMAIN r.got["rates"] : r.got["rates"][m].rate <= 100
  /\ Has(r, {"countries"}) /\ clashed = {} => CountriesAddUp(r.got["countries"])
  /\ Has(r, {"genres"}) => \A g \in Genres : r.got["genres"].genres[g].percentage <= 100

\* Figures that combine statements, when nothing was written between them
CombinedAddUp(r) == r.from = r.to => LET d == log[r.to].db IN
  /\ Has(r, {"summary", "ratings"}) =>
       /\ SumOf(r.got["ratings"]) <= r.got["summary"].total
       /\ WholeStars(d, r.rq.of) => SumOf(r.got["ratings"]) = r.got["summary"].total
  /\ Has(r, {"publicReviews", "distribution"}) =>
       r.got["publicReviews"] <= SumOf(r.got["distribution"])
  /\ Has(r, {"booksWithReviews", "top"}) =>
       Fewer(TopBooks, r.got["booksWithReviews"]) <= Cardinality(DOMAIN r.got["top"])
  /\ Has(r, {"monthly", "rates"}) =>
       r.got["monthly"] = [m \in DOMAIN r.got["rates"] |-> r.got["rates"][m].total]
  /\ Has(r, {"allReviews", "booksWithReviews"}) =>
       r.got["booksWithReviews"] <= r.got["allReviews"]
  /\ Has(r, {"readers", "newReaders"}) => r.got["newReaders"] <= r.got["readers"].readers
  /\ Has(r, {"total", "approved"}) => r.got["approved"] <= r.got["total"]

\* The figures of a report that is served add up, however its statements
\* interleave with writes, and combined ones when there were none.
FiguresAddUp == \A h \in Handlers : Served(req[h]) =>
  StatementsAddUp(req[h]) /\ CombinedAddUp(req[h])

\* A report that is served answers the request it is served to: each of its
\* figures was right for that request at some moment while the report was made,
\* and when it comes from the cache it was put there less than the TTL ago.
ReportsFresh == \A h \in Handlers : Served(req[h]) =>
  LET r == req[h]
  IN  /\ r.at < r.stored + TTL
      /\ \A s \in DOMAIN r.got : \E m \in Ran(r) :
           r.got[s] \in Results(m.db, r.start, r.rq, s, r.got)

\* The promise of the DTO: a range goes back as far as its name says.
Promised(range, now) == CASE range = "last_7_days"  -> now - 1
                          [] range = "last_30_days" -> now - 4
                          [] range = "last_90_days" -> now - 13
                          [] range = "year"         -> now - 52
                          [] OTHER                  -> 0

\* An author's report for a range counts the applications of that range.
RangeHonoured == \A h \in Handlers :
  Served(req[h]) /\ Has(req[h], {"overview"}) /\ req[h].from = req[h].to =>
    LET d == log[req[h].to].db
        a == req[h].rq.of
    IN  req[h].got["overview"].total =
          Cardinality({p \in Readers \X Books : AuthorOf[p[2]] = a /\ d.apps[p] # None
                         /\ d.apps[p].at >= Promised(req[h].rq.range, req[h].start)})
=============================================================================
