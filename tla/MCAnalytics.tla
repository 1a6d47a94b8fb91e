----------------------------- MODULE MCAnalytics -----------------------------
(***************************************************************************)
(* Instances of Catalog and Analytics for TLC.                             *)
(***************************************************************************)
EXTENDS Analytics, TLC

CONSTANTS h1, h2, b1, b2, b3, a1, a2, r1, r2, g1, g2

ByBook(x, y, z) == (b1 :> x) @@ (b2 :> y) @@ (b3 :> z)
WrittenBy == ByBook(a1, a1, a2)
AllGenres == ByBook({g1}, {g1, g2}, {g2})

App(status, reading, at, answered) ==
  [status |-> status, reading |-> reading, at |-> at, answered |-> answered,
   submitted |-> IF reading = "reviewed" THEN at + 1 ELSE None]
Rated1(rating, public, at) == [rating |-> rating, public |-> public, type |-> "text", at |-> at]
Pairs(f) == [p \in Readers \X Books |-> IF p \in DOMAIN f THEN f[p] ELSE None]

\* b1 was reviewed by r1, months ago, and is asked for by r2; the deadline of b2
\* is near; b3, by the other author, was reviewed by both.
Busy ==
  [books   |-> ByBook([status |-> "active", copies |-> 1, total |-> 2, deadline |-> 62, published |-> 40],
                      [status |-> "active", copies |-> 1, total |-> 1, deadline |-> 61, published |-> 58],
                      [status |-> "active", copies |-> 1, total |-> 3, deadline |-> 70, published |-> 50]),
   apps    |-> Pairs((<<r1, b1>> :> App("approved", "reviewed", 40, 42))
                  @@ (<<r2, b1>> :> App("pending", "not_started", 59, None))
                  @@ (<<r1, b3>> :> App("approved", "reviewed", 50, 51))
                  @@ (<<r2, b3>> :> App("approved", "reviewed", 57, 60))),
   reviews |-> Pairs((<<r1, b1>> :> Rated1(40, FALSE, 50)) @@ (<<r1, b3>> :> Rated1(46, TRUE, 55))
                  @@ (<<r2, b3>> :> Rated1(50, TRUE, 60))),
   prefs   |-> (r1 :> <<g2>>) @@ (r2 :> <<>>),
   follows |-> (r1 :> {a1}) @@ (r2 :> {}),
   homes   |-> [r \in Readers |-> [i \in 1..MaxHomes |->
                 IF i = 3 THEN None ELSE [country |-> CHOOSE c \in Countries : TRUE, primary |-> i = 1]]]]

\* A draft, a book that is sold out and completed, and an application that was rejected
Early ==
  [Busy EXCEPT !.books[b1].status = "draft", !.books[b1].published = 0,
               !.books[b3].copies = 0, !.books[b3].status = "completed",
               !.apps = Pairs(<<r1, b3>> :> App("rejected", "not_started", 58, 59)),
               !.reviews = Pairs(<<>>), !.prefs[r1] = <<g2, g1>>, !.follows[r1] = {a1, a2}]

\* Both books of a1 have reviews of the same rating.
Ranked == [Busy EXCEPT !.apps[<<r1, b2>>] = App("approved", "reviewed", 50, 51),
                       !.apps[<<r2, b2>>] = App("approved", "for_review", 50, 51),
                       !.reviews[<<r1, b1>>].public = TRUE,
                       !.reviews[<<r1, b2>>] = Rated1(40, TRUE, 55)]

Plain(kind, user) == [kind |-> kind, user |-> user, page |-> 1, filter |-> NoFilter,
                      book |-> b1, sort |-> "published"]
Lists1 ==
  {Plain("featured", None), Plain("trending", a1), Plain("followed", r1), Plain("recommended", r1),
   Plain("book", r2), Plain("book", a1), Plain("mine", r1)}
  \cup {[Plain("recommended", r1) EXCEPT !.page = 2],
        [Plain("browse", a1) EXCEPT !.filter.genres = {g2}, !.filter.open = TRUE],
        [Plain("browse", r1) EXCEPT !.page = 2, !.sort = "deadline", !.filter.search = a1],
        [Plain("browse", r1) EXCEPT !.sort = "popular", !.page = 2],
        [Plain("browse", r1) EXCEPT !.filter.rating = 40, !.filter.search = a1]}

Of(kind, of, range) == {[kind |-> kind, of |-> of, range |-> range, part |-> part] : part \in Parts(kind)}
Only(S, parts) == {q \in S : q.part \in parts}
Author1 == Of("author", a1, None)
Rankings == {"booksWithReviews", "top"}
AboutReaders == {{"readers", "newReaders"}, {"readers", "countries"},
                 {"readers", "genres"}, {"readers", "bookGenres"}}

Load(db, handlers, queries, reports, movers, writes) ==
  [db |-> db, handlers |-> handlers, queries |-> queries, reports |-> reports,
   movers |-> movers, writes |-> writes]

\* The lists; reports while books, applications and reviews change; reports on
\* readers while they move; two handlers with one report at two ranges.
Loads ==
  {Load(db, {h1}, Lists1, {}, {}, TRUE) : db \in {Busy, Early}}
  \cup {Load(Busy, {h1}, {}, R, {}, TRUE) :
          R \in {Of("stats", b1, None), Of("book", b3, None), Author1 \ Only(Author1, AboutReaders \cup {Rankings}),
                 Only(Author1, AboutReaders), Of("performance", a1, None),
                 Only(Of("author", a2, None), {{"publicReviews", "distribution"}}),
                 Of("myReaderStats", r1, None)}}
  \cup {Load(Ranked, {h1}, {}, Only(Author1, {Rankings}), {}, TRUE)}
  \cup {Load(Early, {h1}, {}, Of("myAuthorStats", a2, None), {}, TRUE)}
  \cup {Load(db, {h1}, {}, Only(Of("book", b1, None), {{"book", "insights", "countries"}}), {r2}, FALSE) :
          db \in {Busy}}
  \cup {Load(Busy, {h1, h2}, {}, Only(Author1 \cup Of("author", a1, "last_30_days"), {{"overview"}, {"monthlyReviews"}}),
               {}, TRUE)}

\* An author asks for all there is.
RangeLoads == {Load(Busy, {h1}, {}, Only(Of("author", a1, "all_time"), {{"overview"}}), {}, FALSE)}

AgeOf == (r1 :> 12) @@ (r2 :> 30)
=============================================================================
