---------------------------- MODULE FiguresProofs ----------------------------
(***************************************************************************)
(* Proofs that the figures of a report add up (FiguresAddUp of Analytics), *)
(* for any number of rows, readers, handlers and writes in between.        *)
(***************************************************************************)
EXTENDS AnalyticsProofs

-----------------------------------------------------------------------------
\* Counts

LEMMA CountWithin ==
  ASSUME NEW S, IsFiniteSet(S), NEW T, T \subseteq S
  PROVE  /\ IsFiniteSet(T) /\ Cardinality(T) \in Nat /\ Cardinality(S) \in Nat
         /\ Cardinality(T) <= Cardinality(S)
BY FS_Subset, FS_CardinalityType

LEMMA CountApart ==
  ASSUME NEW S, IsFiniteSet(S), NEW T, IsFiniteSet(T), S \cap T = {}
  PROVE  IsFiniteSet(S \cup T) /\ Cardinality(S \cup T) = Cardinality(S) + Cardinality(T)
BY FS_Union, FS_EmptySet, FS_CardinalityType

\* There are no more values than rows that have them.
LEMMA CountValues ==
  ASSUME NEW S, IsFiniteSet(S), NEW f
  PROVE  /\ IsFiniteSet({f[x] : x \in S}) /\ Cardinality({f[x] : x \in S}) \in Nat
         /\ Cardinality({f[x] : x \in S}) <= Cardinality(S)
<1> DEFINE T == {f[x] : x \in S}
<1> DEFINE g == [x \in S |-> f[x]]
<1>1. g \in Surjection(S, T)
  BY DEF Surjection
<1>2. QED
  BY <1>1, FS_Surjection, FS_CardinalityType

\* What a sum counts
Cells(f) == UNION {{x} \X (1..f[x]) : x \in DOMAIN f}

LEMMA InCells ==
  ASSUME NEW f, NEW c
  PROVE  c \in Cells(f) <=> \E x \in DOMAIN f : \E i \in 1..f[x] : c = <<x, i>>
<1>1. ASSUME c \in Cells(f)
      PROVE  \E x \in DOMAIN f : \E i \in 1..f[x] : c = <<x, i>>
  <2>1. PICK x \in DOMAIN f : c \in {x} \X (1..f[x])
    BY <1>1 DEF Cells
  <2>2. QED
    BY <2>1
<1>2. ASSUME NEW x \in DOMAIN f, NEW i \in 1..f[x], c = <<x, i>>
      PROVE  c \in Cells(f)
  <2>1. c \in {x} \X (1..f[x])
    BY <1>2
  <2>2. QED
    BY <2>1 DEF Cells
<1>3. QED
  BY <1>1, <1>2

\* The rows of each class of a finite set add up to the set.
LEMMA SumOfClasses ==
  ASSUME NEW S, IsFiniteSet(S), NEW k, NEW T, \A x \in S : k[x] \in T
  PROVE  LET f == [t \in T |-> Cardinality({x \in S : k[x] = t})]
         IN  /\ f \in [T -> Nat] /\ IsFiniteSet(Cells(f)) /\ SumOf(f) = Cardinality(S)
<1> DEFINE C(t) == {x \in S : k[x] = t}
<1> DEFINE f == [t \in T |-> Cardinality(C(t))]
<1> DEFINE b == [t \in T |-> CHOOSE g : g \in Bijection(1..Cardinality(C(t)), C(t))]
<1> DEFINE G == [c \in Cells(f) |-> b[c[1]][c[2]]]
<1>1. ASSUME NEW t \in T
      PROVE  f[t] \in Nat /\ b[t] \in Bijection(1..f[t], C(t))
  <2>1. IsFiniteSet(C(t))
    BY FS_Subset, C(t) \subseteq S
  <2>2. Cardinality(C(t)) \in Nat /\ ExistsBijection(1..Cardinality(C(t)), C(t))
    BY <2>1, FS_CardinalityType
  <2>3. \E g : g \in Bijection(1..Cardinality(C(t)), C(t))
    BY <2>2 DEF ExistsBijection
  <2>4. f[t] = Cardinality(C(t)) /\ b[t] = (CHOOSE g : g \in Bijection(1..Cardinality(C(t)), C(t)))
    OBVIOUS
  <2> HIDE DEF C, f, b
  <2>5. QED
    BY <2>2, <2>3, <2>4
<1>2. DOMAIN f = T /\ \A t, x : x \in C(t) <=> x \in S /\ k[x] = t
  OBVIOUS
<1> HIDE DEF C, f, b
<1>3. ASSUME NEW t \in T, NEW i \in 1..f[t]
      PROVE  /\ b[t][i] \in S /\ k[b[t][i]] = t
             /\ \A j \in 1..f[t] : b[t][j] = b[t][i] => j = i
  <2>1. b[t] \in [1..f[t] -> C(t)] /\ IsInjective(b[t])
    BY <1>1 DEF Bijection, Injection
  <2>2. b[t][i] \in C(t)
    BY <2>1
  <2>3. QED
    BY <1>2, <2>1, <2>2 DEF IsInjective
<1>4. ASSUME NEW c \in Cells(f)
      PROVE  /\ c[1] \in T /\ c[2] \in 1..f[c[1]] /\ c = <<c[1], c[2]>>
             /\ G[c] = b[c[1]][c[2]]
  BY <1>2, InCells
<1>5. G \in [Cells(f) -> S]
  BY <1>3, <1>4
<1>6. IsInjective(G)
  <2> SUFFICES ASSUME NEW c \in Cells(f), NEW e \in Cells(f), G[c] = G[e]
               PROVE  c = e
    BY DEF IsInjective
  <2> HIDE DEF G
  <2>1. c[1] = e[1]
    BY <1>3, <1>4
  <2>2. c[2] = e[2]
    BY <1>3, <1>4, <2>1
  <2>3. QED
    BY <1>4, <2>1, <2>2
<1>7. ASSUME NEW s \in S
      PROVE  \E c \in Cells(f) : G[c] = s
  <2>1. k[s] \in T /\ s \in C(k[s])
    BY <1>2
  <2>2. PICK i \in 1..f[k[s]] : b[k[s]][i] = s
    BY <1>1, <2>1 DEF Bijection, Surjection
  <2>3. <<k[s], i>> \in Cells(f)
    BY <1>2, <2>1, InCells
  <2>4. QED
    BY <2>2, <2>3
<1> HIDE DEF G
<1>8. G \in Injection(Cells(f), S) /\ G \in Surjection(Cells(f), S)
  BY <1>5, <1>6, <1>7 DEF Injection, Surjection
<1>9. IsFiniteSet(Cells(f)) /\ Cardinality(Cells(f)) = Cardinality(S)
  BY <1>8, FS_Injection
<1>10. f \in [T -> Nat]
  BY <1>1, <1>2 DEF f
<1>11. QED
  BY <1>9, <1>10 DEF SumOf, Cells, f, C

LEMMA SumMonotone ==
  ASSUME NEW T, NEW f \in [T -> Nat], NEW g \in [T -> Nat], \A t \in T : f[t] <= g[t],
         IsFiniteSet(Cells(g))
  PROVE  SumOf(f) \in Nat /\ SumOf(f) <= SumOf(g)
<1>1. Cells(f) \subseteq Cells(g)
  <2> SUFFICES ASSUME NEW c \in Cells(f)
               PROVE  c \in Cells(g)
    OBVIOUS
  <2>1. PICK x \in T : \E i \in 1..f[x] : c = <<x, i>>
    BY InCells
  <2>2. PICK i \in 1..f[x] : c = <<x, i>>
    BY <2>1
  <2>3. i \in 1..g[x]
    BY f[x] \in Nat, g[x] \in Nat, f[x] <= g[x]
  <2>4. QED
    BY <2>2, <2>3, InCells
<1>2. QED
  BY <1>1, CountWithin DEF SumOf, Cells

\* A sum of values of at most n
LEMMA SumBounded ==
  ASSUME NEW P, IsFiniteSet(P), NEW n \in Nat, NEW f \in [P -> 0..n]
  PROVE  SumOf(f) \in Nat /\ SumOf(f) <= Cardinality(P) * n
<1>1. Cells(f) \subseteq P \X (1..n)
  <2> SUFFICES ASSUME NEW c \in Cells(f)
               PROVE  c \in P \X (1..n)
    OBVIOUS
  <2>1. PICK x \in P : \E i \in 1..f[x] : c = <<x, i>>
    BY InCells
  <2>2. PICK i \in 1..f[x] : c = <<x, i>>
    BY <2>1
  <2>3. i \in 1..n
    BY f[x] \in 0..n
  <2>4. QED
    BY <2>2, <2>3
<1>2. IsFiniteSet(1..n) /\ Cardinality(1..n) = n
  BY FS_Interval
<1>3. IsFiniteSet(P \X (1..n)) /\ Cardinality(P \X (1..n)) = Cardinality(P) * n
  BY <1>2, FS_Product
<1>4. QED
  BY <1>1, <1>3, CountWithin DEF SumOf, Cells

\* Rounding to the nearest does not leave the bounds.
LEMMA RoundedBound ==
  ASSUME NEW a \in Nat, NEW w \in Nat \ {0}, NEW n \in Nat, a <= n * w
  PROVE  (2 * a + w) \div (2 * w) <= n
<1> DEFINE q == (2 * a + w) \div (2 * w)
<1>1. 2 * w \in Nat \ {0} /\ 2 * a + w \in Nat
  OBVIOUS
<1>2. q \in Nat /\ q * (2 * w) <= 2 * a + w
  BY <1>1
<1>3. 2 * (q * w) <= 2 * (n * w) + w
  BY <1>2
<1> HIDE DEF q
<1>4. ASSUME q >= n + 1
      PROVE  FALSE
  <2>1. q * w >= (n + 1) * w
    BY <1>2, <1>4
  <2>2. (n + 1) * w = n * w + w
    OBVIOUS
  <2>3. QED
    BY <1>2, <1>3, <2>1, <2>2
<1>5. q <= n
  BY <1>2, <1>4
<1>6. QED
  BY <1>5 DEF q

LEMMA PercentBound ==
  ASSUME NEW part \in Nat, NEW whole \in Nat, part <= whole
  PROVE  percent(part, whole) <= 100
<1>1. CASE whole = 0
  BY <1>1 DEF percent
<1>2. CASE whole > 0
  <2>1. (2 * (100 * part) + whole) \div (2 * whole) <= 100
    BY <1>2, RoundedBound, 100 * part <= 100 * whole, 100 * part \in Nat
  <2>2. 2 * (100 * part) = 200 * part
    OBVIOUS
  <2>3. QED
    BY <1>2, <2>1, <2>2 DEF percent
<1>3. QED
  BY <1>1, <1>2

LEMMA MeanBound ==
  ASSUME NEW P, IsFiniteSet(P), NEW n \in Nat, NEW f \in [P -> 0..n]
  PROVE  Mean(f) <= n
<1>1. Cardinality(P) \in Nat /\ SumOf(f) \in Nat /\ SumOf(f) <= Cardinality(P) * n
  BY SumBounded, FS_CardinalityType
<1>2. CASE Cardinality(P) = 0
  BY <1>2 DEF Mean
<1>3. CASE Cardinality(P) # 0
  <2>1. (2 * SumOf(f) + Cardinality(P)) \div (2 * Cardinality(P)) <= n
    BY <1>1, <1>3, RoundedBound
  <2>2. QED
    BY <1>3, <2>1 DEF Mean
<1>4. QED
  BY <1>2, <1>3

\* Disjoint parts of a set
LEMMA PartsAdd ==
  ASSUME NEW S, IsFiniteSet(S), NEW A \in SUBSET S, NEW B \in SUBSET S, NEW C \in SUBSET S, NEW D \in SUBSET S,
         A \cap B = {}, A \cap C = {}, A \cap D = {}, B \cap C = {}, B \cap D = {}, C \cap D = {}
  PROVE  /\ Cardinality(A) + Cardinality(B) + Cardinality(C) + Cardinality(D) <= Cardinality(S)
         /\ S = A \cup B \cup C \cup D =>
              Cardinality(S) = Cardinality(A) + Cardinality(B) + Cardinality(C) + Cardinality(D)
         /\ Cardinality(A) \in Nat /\ Cardinality(B) \in Nat /\ Cardinality(C) \in Nat
         /\ Cardinality(D) \in Nat /\ Cardinality(S) \in Nat
<1>1. /\ IsFiniteSet(A) /\ IsFiniteSet(B) /\ IsFiniteSet(C) /\ IsFiniteSet(D)
      /\ Cardinality(A) \in Nat /\ Cardinality(B) \in Nat /\ Cardinality(C) \in Nat
      /\ Cardinality(D) \in Nat /\ Cardinality(S) \in Nat
  BY CountWithin
<1>2. IsFiniteSet(A \cup B) /\ Cardinality(A \cup B) = Cardinality(A) + Cardinality(B)
  BY <1>1, CountApart
<1>3. IsFiniteSet(C \cup D) /\ Cardinality(C \cup D) = Cardinality(C) + Cardinality(D)
  BY <1>1, CountApart
<1>4. (A \cup B) \cap (C \cup D) = {}
  OBVIOUS
<1>5. Cardinality((A \cup B) \cup (C \cup D)) = Cardinality(A \cup B) + Cardinality(C \cup D)
  BY <1>2, <1>3, <1>4, CountApart
<1>6. Cardinality((A \cup B) \cup (C \cup D)) <= Cardinality(S)
  BY CountWithin, (A \cup B) \cup (C \cup D) \subseteq S
<1>7. (A \cup B) \cup (C \cup D) = A \cup B \cup C \cup D
  OBVIOUS
<1>8. Cardinality((A \cup B) \cup (C \cup D))
        = Cardinality(A) + Cardinality(B) + Cardinality(C) + Cardinality(D)
  BY <1>1, <1>2, <1>3, <1>5
<1>9. S = A \cup B \cup C \cup D => S = (A \cup B) \cup (C \cup D)
  BY <1>7
<1>10. QED
  BY <1>1, <1>6, <1>8, <1>9

-----------------------------------------------------------------------------
\* The rows a statement counts

LEMMA AppRows ==
  ASSUME NEW d \in Database, NEW B, B \subseteq Books
  PROVE  /\ IsFiniteSet(AppsOf(d, B)) /\ AppsOf(d, B) \subseteq Readers \X Books
         /\ \A p \in AppsOf(d, B) : /\ p[1] \in Readers /\ p[2] \in B /\ p = <<p[1], p[2]>>
                                   /\ d.apps[p] \in AppRow
<1>1. IsFiniteSet(Readers \X Books)
  BY CatalogFinite, FS_Product
<1>2. AppsOf(d, B) \subseteq Readers \X Books
  BY DEF AppsOf
<1>3. d.apps \in [Readers \X Books -> AppRow \cup {None}]
  BY DEF Database
<1>4. ASSUME NEW p \in AppsOf(d, B)
      PROVE  p[1] \in Readers /\ p[2] \in B /\ p = <<p[1], p[2]>> /\ d.apps[p] \in AppRow
  BY <1>2, <1>3 DEF AppsOf
<1>5. QED
  BY <1>1, <1>2, <1>4, FS_Subset

LEMMA ReviewRows ==
  ASSUME NEW d \in Database, NEW B, B \subseteq Books
  PROVE  /\ IsFiniteSet(ReviewsOf(d, B)) /\ ReviewsOf(d, B) \subseteq Readers \X Books
         /\ \A p \in ReviewsOf(d, B) : /\ p[1] \in Readers /\ p[2] \in B /\ p = <<p[1], p[2]>>
                                      /\ d.reviews[p] \in ReviewRow
<1>1. IsFiniteSet(Readers \X Books)
  BY CatalogFinite, FS_Product
<1>2. ReviewsOf(d, B) \subseteq Readers \X Books
  BY DEF ReviewsOf
<1>3. d.reviews \in [Readers \X Books -> ReviewRow \cup {None}]
  BY DEF Database
<1>4. ASSUME NEW p \in ReviewsOf(d, B)
      PROVE  p[1] \in Readers /\ p[2] \in B /\ p = <<p[1], p[2]>> /\ d.reviews[p] \in ReviewRow
  BY <1>2, <1>3 DEF ReviewsOf
<1>5. QED
  BY <1>1, <1>2, <1>4, FS_Subset

LEMMA BooksOfAuthor == \A d, a : BooksBy(d, a) \subseteq Books
BY DEF BooksBy, Present

-----------------------------------------------------------------------------
\* The figures of one statement

\* Every application has one of the four statuses.
LEMMA StatusesSplit ==
  ASSUME NEW d \in Database, NEW P, IsFiniteSet(P), \A p \in P : d.apps[p] \in AppRow
  PROVE  /\ Cardinality(P) = Cardinality(WithStatus(d, P, "pending")) + Cardinality(WithStatus(d, P, "approved"))
              + Cardinality(WithStatus(d, P, "rejected")) + Cardinality(WithStatus(d, P, "withdrawn"))
         /\ \A s \in AppStatus : Cardinality(WithStatus(d, P, s)) \in Nat
<1>1. \A s : WithStatus(d, P, s) \subseteq P
  BY DEF WithStatus
<1>2. /\ \A s, u : s # u => WithStatus(d, P, s) \cap WithStatus(d, P, u) = {}
      /\ P = WithStatus(d, P, "pending") \cup WithStatus(d, P, "approved") \cup WithStatus(d, P, "rejected")
               \cup WithStatus(d, P, "withdrawn")
  BY DEF WithStatus, AppRow, AppStatus
<1>3. QED
  BY <1>1, <1>2, PartsAdd, CountWithin

\* getApplicationCounts
LEMMA CountsRight ==
  ASSUME NEW d \in Database, NEW b \in Books, NEW month
  PROVE  CountsAddUp(getApplicationCounts(d, b, month))
<1> DEFINE P == AppsOf(d, {b})
<1> DEFINE M == Since(d, P, month)
<1>1. IsFiniteSet(P) /\ \A p \in P : d.apps[p] \in AppRow
  BY AppRows, {b} \subseteq Books
<1>2. M \subseteq P
  BY DEF Since
<1>3. IsFiniteSet(M) /\ Cardinality(M) \in Nat /\ Cardinality(M) <= Cardinality(P) /\ \A p \in M : d.apps[p] \in AppRow
  BY <1>1, <1>2, CountWithin
<1> DEFINE c == getApplicationCounts(d, b, month)
<1>4. /\ c.total = Cardinality(P) /\ c.pending = Cardinality(WithStatus(d, P, "pending"))
      /\ c.approved = Cardinality(WithStatus(d, P, "approved"))
      /\ c.rejected = Cardinality(WithStatus(d, P, "rejected"))
      /\ c.withdrawn = Cardinality(WithStatus(d, P, "withdrawn"))
      /\ c.month.total = Cardinality(M) /\ c.month.approved = Cardinality(WithStatus(d, M, "approved"))
      /\ c.month.rejected = Cardinality(WithStatus(d, M, "rejected"))
  BY DEF getApplicationCounts
<1> HIDE DEF P, M, c
<1>5. /\ Cardinality(P) = Cardinality(WithStatus(d, P, "pending")) + Cardinality(WithStatus(d, P, "approved"))
              + Cardinality(WithStatus(d, P, "rejected")) + Cardinality(WithStatus(d, P, "withdrawn"))
      /\ Cardinality(M) = Cardinality(WithStatus(d, M, "pending")) + Cardinality(WithStatus(d, M, "approved"))
              + Cardinality(WithStatus(d, M, "rejected")) + Cardinality(WithStatus(d, M, "withdrawn"))
      /\ \A s \in AppStatus : Cardinality(WithStatus(d, M, s)) \in Nat
  BY <1>1, <1>3, StatusesSplit
<1>6. /\ Cardinality(WithStatus(d, M, "pending")) \in Nat /\ Cardinality(WithStatus(d, M, "withdrawn")) \in Nat
      /\ Cardinality(WithStatus(d, M, "approved")) \in Nat /\ Cardinality(WithStatus(d, M, "rejected")) \in Nat
  BY <1>5 DEF AppStatus
<1>7. CountsAddUp(c)
  BY <1>3, <1>4, <1>5, <1>6 DEF CountsAddUp
<1>8. QED
  BY <1>7 DEF c

\* getBookReviewStats
LEMMA SummaryRight ==
  ASSUME NEW d \in Database, NEW b \in Books
  PROVE  SummaryAddsUp(ReviewSummary(d, b))
<1> DEFINE P == ReviewsOf(d, {b})
<1> DEFINE OfType(t) == {p \in P : d.reviews[p].type = t}
<1> DEFINE Good == {p \in P : d.reviews[p].rating >= 40}
<1>1. IsFiniteSet(P) /\ \A p \in P : d.reviews[p] \in ReviewRow
  BY ReviewRows, {b} \subseteq Books
<1>2. ReviewSummary(d, b) = [total |-> Cardinality(P), average |-> Mean([p \in P |-> d.reviews[p].rating]),
                            positive |-> percent(Cardinality(Good), Cardinality(P)),
                            text |-> Cardinality(OfType("text")), link |-> Cardinality(OfType("link"))]
  BY DEF ReviewSummary
<1> HIDE DEF P
<1>3. Cardinality(P) = Cardinality(OfType("text")) + Cardinality(OfType("link"))
  <2>1. P = OfType("text") \cup OfType("link") /\ OfType("text") \cap OfType("link") = {}
    BY <1>1 DEF ReviewRow
  <2>2. IsFiniteSet(OfType("text")) /\ IsFiniteSet(OfType("link"))
    BY <1>1, FS_Subset, OfType("text") \subseteq P, OfType("link") \subseteq P
  <2> HIDE DEF OfType
  <2>3. QED
    BY <2>1, <2>2, CountApart
<1>4. percent(Cardinality(Good), Cardinality(P)) <= 100
  <2>1. Good \subseteq P
    OBVIOUS
  <2> HIDE DEF Good
  <2>2. QED
    BY <1>1, <2>1, CountWithin, PercentBound
<1>5. Mean([p \in P |-> d.reviews[p].rating]) <= 50
  <2>1. [p \in P |-> d.reviews[p].rating] \in [P -> 0..50]
    BY <1>1 DEF ReviewRow
  <2>2. QED
    BY <1>1, <2>1, MeanBound
<1>6. Cardinality(OfType("text")) \in Nat /\ Cardinality(OfType("link")) \in Nat
  BY <1>1, CountWithin, OfType("text") \subseteq P, OfType("link") \subseteq P
<1> HIDE DEF OfType, Good
<1>7. QED
  BY <1>2, <1>3, <1>4, <1>5, <1>6 DEF SummaryAddsUp

\* getBookStatusCounts
LEMMA StatusesRight ==
  ASSUME NEW d \in Database, NEW a
  PROVE  StatusesAddUp(getBookStatusCounts(d, a))
<1> DEFINE S == BooksBy(d, a)
<1> DEFINE Of(x) == {b \in S : d.books[b].status \in {x}}
<1>1. S \subseteq Books /\ \A b \in S : d.books[b] \in BookRow
  BY BookTyped DEF BooksBy, Present
<1>2. IsFiniteSet(S)
  BY <1>1, CatalogFinite, FS_Subset
<1>3. getBookStatusCounts(d, a)
        = [total |-> Cardinality(S), published |-> Cardinality(Of("active")), draft |-> Cardinality(Of("draft")),
           inProgress |-> Cardinality(Of("in_progress")), completed |-> Cardinality(Of("completed"))]
  BY DEF getBookStatusCounts
<1> HIDE DEF S
<1>4. S = Of("active") \cup Of("draft") \cup Of("in_progress") \cup Of("completed")
  BY <1>1 DEF BookRow, BookStatus
<1>5. (\A x : Of(x) \subseteq S) /\ \A x, y : x # y => Of(x) \cap Of(y) = {}
  OBVIOUS
<1> HIDE DEF Of
<1>6. Cardinality(S) = Cardinality(Of("active")) + Cardinality(Of("draft")) + Cardinality(Of("in_progress"))
                         + Cardinality(Of("completed"))
  BY <1>2, <1>4, <1>5, PartsAdd
<1>7. QED
  BY <1>3, <1>6 DEF StatusesAddUp

\* getApplicationOverview
LEMMA OverviewRight ==
  ASSUME NEW d \in Database, NEW a, NEW start, NEW month
  PROVE  OverviewAddsUp(getApplicationOverview(d, a, start, month))
<1> DEFINE Q == AppsOf(d, BooksBy(d, a))
<1> DEFINE P == Since(d, Q, start)
<1> DEFINE M == Since(d, P, month)
<1>1. IsFiniteSet(Q) /\ \A p \in Q : d.apps[p] \in AppRow
  BY AppRows, BooksOfAuthor
<1>2. P \subseteq Q /\ M \subseteq P
  BY DEF Since
<1>3. getApplicationOverview(d, a, start, month)
        = [total |-> Cardinality(P), approved |-> Cardinality(WithStatus(d, P, "approved")),
           pending |-> Cardinality(WithStatus(d, P, "pending")),
           rejected |-> Cardinality(WithStatus(d, P, "rejected")), month |-> Cardinality(M)]
  BY DEF getApplicationOverview
<1> HIDE DEF Q, P, M
<1>4. IsFiniteSet(P) /\ \A p \in P : d.apps[p] \in AppRow
  BY <1>1, <1>2, FS_Subset
<1>5. Cardinality(M) <= Cardinality(P)
  BY <1>2, <1>4, CountWithin
<1>6. /\ Cardinality(P) = Cardinality(WithStatus(d, P, "pending")) + Cardinality(WithStatus(d, P, "approved"))
              + Cardinality(WithStatus(d, P, "rejected")) + Cardinality(WithStatus(d, P, "withdrawn"))
      /\ Cardinality(WithStatus(d, P, "pending")) \in Nat /\ Cardinality(WithStatus(d, P, "withdrawn")) \in Nat
      /\ Cardinality(WithStatus(d, P, "approved")) \in Nat /\ Cardinality(WithStatus(d, P, "rejected")) \in Nat
  BY <1>4, StatusesSplit DEF AppStatus
<1>7. QED
  BY <1>3, <1>5, <1>6 DEF OverviewAddsUp

\* calculateAgeDemographics: the ranges are apart, and not everyone is in one.
LEMMA AgesRight ==
  ASSUME NEW R, IsFiniteSet(R), R \subseteq Readers
  PROVE  SumOf(calculateAgeDemographics(R).ranges) <= calculateAgeDemographics(R).withAge
<1> DEFINE A == {r \in R : Ages[r] # None /\ Ages[r] > 0 /\ Ages[r] < 120}
<1> DEFINE B == {r \in A : \E i \in 1..7 : Ages[r] \in AgeRanges[i]}
<1> DEFINE k == [r \in B |-> CHOOSE i \in 1..7 : Ages[r] \in AgeRanges[i]]
<1> DEFINE f == [i \in 1..7 |-> Cardinality({r \in A : Ages[r] \in AgeRanges[i]})]
<1>1. calculateAgeDemographics(R).ranges = f /\ calculateAgeDemographics(R).withAge = Cardinality(A)
  BY DEF calculateAgeDemographics
<1>2. IsFiniteSet(A) /\ IsFiniteSet(B) /\ Cardinality(B) <= Cardinality(A)
  <2>1. IsFiniteSet(A)
    BY FS_Subset, A \subseteq R
  <2>2. QED
    BY <2>1, CountWithin, B \subseteq A
<1>3. ASSUME NEW i \in 1..7, NEW j \in 1..7, NEW n, n \in AgeRanges[i], n \in AgeRanges[j]
      PROVE  i = j
  BY <1>3 DEF AgeRanges
<1>4. ASSUME NEW r \in B
      PROVE  k[r] \in 1..7 /\ Ages[r] \in AgeRanges[k[r]]
  OBVIOUS
<1> HIDE DEF k
<1>5. ASSUME NEW i \in 1..7
      PROVE  {r \in A : Ages[r] \in AgeRanges[i]} = {r \in B : k[r] = i}
  BY <1>3, <1>4
<1>6. f = [i \in 1..7 |-> Cardinality({r \in B : k[r] = i})]
  BY <1>5
<1> HIDE DEF f, A, B
<1>7. SumOf(f) = Cardinality(B)
  BY <1>2, <1>4, <1>6, SumOfClasses
<1>8. QED
  BY <1>1, <1>2, <1>7

LEMMA ReadersOf ==
  ASSUME NEW P, IsFiniteSet(P), P \subseteq Readers \X Books
  PROVE  /\ IsFiniteSet({p[1] : p \in P}) /\ {p[1] : p \in P} \subseteq Readers
         /\ Cardinality({p[1] : p \in P}) \in Nat
<1> DEFINE f == [p \in P |-> p[1]]
<1>1. {p[1] : p \in P} = {f[p] : p \in P}
  OBVIOUS
<1> HIDE DEF f
<1>2. IsFiniteSet({f[p] : p \in P}) /\ Cardinality({f[p] : p \in P}) \in Nat
  BY CountValues
<1>3. {p[1] : p \in P} \subseteq Readers
  OBVIOUS
<1>4. QED
  BY <1>1, <1>2, <1>3

\* getReaderAnalytics
LEMMA ReadersRight ==
  ASSUME NEW d \in Database, NEW a
  PROVE  ReadersAddUp(ReaderFigures(d, a))
<1> DEFINE P == AppsOf(d, BooksBy(d, a))
<1> DEFINE R == {p[1] : p \in P}
<1> DEFINE Often == {r \in R : Cardinality({p \in P : p[1] = r}) > 1}
<1> DEFINE Reviewers1 == {p[1] : p \in {x \in P : d.apps[x].submitted # None}}
<1> DEFINE f == [s \in ReadingStatus |-> Cardinality({p \in P : d.apps[p].reading = s})]
<1> DEFINE x == ReaderFigures(d, a)
<1>1. IsFiniteSet(P) /\ P \subseteq Readers \X Books /\ \A p \in P : d.apps[p] \in AppRow
  BY AppRows, BooksOfAuthor
<1>2. /\ x.rows = P /\ x.readers = Cardinality(R) /\ x.repeat = Cardinality(Often)
      /\ x.withReviews = Cardinality(Reviewers1) /\ x.reading = f /\ x.age = calculateAgeDemographics(R)
  BY DEF ReaderFigures
<1> HIDE DEF P, x
<1>3. IsFiniteSet(R) /\ R \subseteq Readers
  BY <1>1, ReadersOf
<1>4. SumOf(f) = Cardinality(P)
  <2> DEFINE k == [p \in P |-> d.apps[p].reading]
  <2>1. \A p \in P : k[p] \in ReadingStatus
    BY <1>1 DEF AppRow
  <2>2. \A s : {p \in P : d.apps[p].reading = s} = {p \in P : k[p] = s}
    OBVIOUS
  <2>3. f = [s \in ReadingStatus |-> Cardinality({p \in P : k[p] = s})]
    BY <2>2
  <2> HIDE DEF k, f
  <2>4. QED
    BY <1>1, <2>1, <2>3, SumOfClasses
<1>5. Often \subseteq R /\ Reviewers1 \subseteq R
  OBVIOUS
<1> HIDE DEF f, R, Often, Reviewers1
<1>6. Cardinality(Often) <= Cardinality(R) /\ Cardinality(Reviewers1) <= Cardinality(R)
  BY <1>3, <1>5, CountWithin
<1>7. SumOf(calculateAgeDemographics(R).ranges) <= calculateAgeDemographics(R).withAge
  BY <1>3, AgesRight
<1>8. ReadersAddUp(x)
  BY <1>2, <1>4, <1>6, <1>7 DEF ReadersAddUp
<1>9. QED
  BY <1>8 DEF x

\* getApprovalRateOverTime
LEMMA RatesRight ==
  ASSUME NEW d \in Database, NEW a, NEW trend
  PROVE  LET f == getApprovalRateOverTime(d, a, trend)
         IN  \A m \in DOMAIN f : f[m].rate <= 100
<1> DEFINE Q == AppsOf(d, BooksBy(d, a))
<1> DEFINE P == Since(d, Q, trend)
<1> DEFINE In(m) == {p \in P : Month(d.apps[p].at) = m}
<1> DEFINE f == getApprovalRateOverTime(d, a, trend)
<1> SUFFICES ASSUME NEW m \in DOMAIN f
             PROVE  f[m].rate <= 100
  OBVIOUS
<1>1. IsFiniteSet(Q) /\ P \subseteq Q
  BY AppRows, BooksOfAuthor DEF Since
<1>2. f[m].rate = percent(Cardinality(WithStatus(d, In(m), "approved")), Cardinality(In(m)))
  BY DEF getApprovalRateOverTime
<1>3. In(m) \subseteq P /\ WithStatus(d, In(m), "approved") \subseteq In(m)
  BY DEF WithStatus
<1> HIDE DEF Q, P, In, f
<1>4. IsFiniteSet(In(m))
  BY <1>1, <1>3, FS_Subset, In(m) \subseteq Q
<1>5. QED
  BY <1>2, <1>3, <1>4, CountWithin, PercentBound

\* calculateGenreBreakdown: a reader counts once for a genre.
LEMMA GenresRight ==
  ASSUME NEW d, NEW R, IsFiniteSet(R), NEW g \in Genres
  PROVE  calculateGenreBreakdown(d, R).genres[g].percentage <= 100
<1> DEFINE W == {r \in R : Prefers(d, r, g)}
<1>1. calculateGenreBreakdown(d, R).genres[g].percentage = percent(Cardinality(W), Cardinality(R))
  BY DEF calculateGenreBreakdown
<1>2. W \subseteq R
  OBVIOUS
<1> HIDE DEF W
<1>3. QED
  BY <1>1, <1>2, CountWithin, PercentBound

OnePrimary(d, r) == \A i, j \in Marked(d, r) : i = j

\* calculateCountryBreakdown, for readers with one primary address at most
LEMMA CountriesRight ==
  ASSUME NEW d \in Database, NEW R, IsFiniteSet(R), R \subseteq Readers, \A r \in R : OnePrimary(d, r)
  PROVE  CountriesAddUp(calculateCountryBreakdown(d, R))
<1> DEFINE H == PrimaryHomes(d, R)
<1> DEFINE c == calculateCountryBreakdown(d, R)
<1> DEFINE In(x) == {p \in H : d.homes[p[1]][p[2]].country = x}
<1>1. /\ c.withCountry = Cardinality(H) /\ c.readers = Cardinality(R)
      /\ \A x \in Countries : c.countries[x].count = Cardinality(In(x))
  BY DEF calculateCountryBreakdown
<1>2. ASSUME NEW p \in H
      PROVE  /\ p[1] \in R /\ p[2] \in Marked(d, p[1]) /\ p = <<p[1], p[2]>>
             /\ d.homes[p[1]][p[2]].country \in Countries
  <2>1. p[1] \in R /\ p[2] \in Marked(d, p[1]) /\ p = <<p[1], p[2]>>
    BY DEF PrimaryHomes
  <2>2. d.homes[p[1]] \in [1..MaxHomes -> Home \cup {None}]
    BY <2>1 DEF Database
  <2>3. d.homes[p[1]][p[2]] \in Home
    BY <2>1, <2>2 DEF Marked
  <2>4. QED
    BY <2>1, <2>3 DEF Home
<1> DEFINE f == [p \in H |-> p[1]]
<1>3. f \in Injection(H, R)
  <2>1. f \in [H -> R]
    BY <1>2
  <2>2. ASSUME NEW p \in H, NEW q \in H, p[1] = q[1]
        PROVE  p = q
    <3>1. p[2] = q[2]
      BY <1>2, <2>2 DEF OnePrimary
    <3>2. QED
      BY <1>2, <2>2, <3>1
  <2>3. IsInjective(f)
    BY <2>2 DEF IsInjective
  <2>4. QED
    BY <2>1, <2>3 DEF Injection
<1>4. IsFiniteSet(H) /\ Cardinality(H) <= Cardinality(R)
  BY <1>3, FS_Injection
<1> HIDE DEF H, c, f
<1> DEFINE k == [p \in H |-> d.homes[p[1]][p[2]].country]
<1>5. [x \in Countries |-> c.countries[x].count] = [x \in Countries |-> Cardinality({p \in H : k[p] = x})]
  <2>1. \A x : In(x) = {p \in H : k[p] = x}
    OBVIOUS
  <2> HIDE DEF In, k
  <2>2. QED
    BY <1>1, <2>1
<1>6. \A p \in H : k[p] \in Countries
  BY <1>2
<1> HIDE DEF k
<1>7. SumOf([x \in Countries |-> c.countries[x].count]) = Cardinality(H)
  BY <1>4, <1>5, <1>6, SumOfClasses
<1>8. CountriesAddUp(c)
  BY <1>1, <1>4, <1>7 DEF CountriesAddUp
<1>9. QED
  BY <1>8 DEF c

-----------------------------------------------------------------------------
\* Figures of two statements on one database

\* Each star of buildRatingDistribution counts some of the ratings that round to it.
RatingsAddUp(d, b, f) ==
  LET n == Cardinality(ReviewsOf(d, {b}))
  IN  SumOf(f) <= n /\ (WholeStars(d, b) => SumOf(f) = n)

LEMMA RatingsRight ==
  ASSUME NEW d \in Database, NEW b \in Books, NEW f \in RatingDistributions(d, b)
  PROVE  RatingsAddUp(d, b, f)
<1> DEFINE P == ReviewsOf(d, {b})
<1> DEFINE Rows(star) == {x \in Ratings(d, P) : (x + 5) \div 10 = star}
<1> DEFINE S == {p \in P : (d.reviews[p].rating + 5) \div 10 \in 1..5}
<1> DEFINE k == [p \in S |-> (d.reviews[p].rating + 5) \div 10]
<1> DEFINE g == [star \in 1..5 |-> Cardinality({p \in S : k[p] = star})]
<1>1. IsFiniteSet(P) /\ \A p \in P : d.reviews[p] \in ReviewRow
  BY ReviewRows, {b} \subseteq Books
<1>2. /\ f \in [1..5 -> 0..Cardinality(P)]
      /\ \A star \in 1..5 : IF Rows(star) = {} THEN f[star] = 0
                            ELSE \E x \in Rows(star) : f[star] = Rated(d, P, x)
  BY DEF RatingDistributions
<1>3. WholeStars(d, b) <=> \A p \in P : d.reviews[p].rating \in {10, 20, 30, 40, 50}
  BY DEF WholeStars
<1> HIDE DEF P
<1>4. IsFiniteSet(S) /\ Cardinality(S) <= Cardinality(P) /\ S \subseteq P
  BY <1>1, CountWithin, S \subseteq P
<1>5. g \in [1..5 -> Nat] /\ IsFiniteSet(Cells(g)) /\ SumOf(g) = Cardinality(S)
  <2>1. \A p \in S : k[p] \in 1..5
    OBVIOUS
  <2> HIDE DEF k, S
  <2>2. QED
    BY <1>4, <2>1, SumOfClasses
<1>6. ASSUME NEW star \in 1..5
      PROVE  g[star] = Cardinality({p \in P : (d.reviews[p].rating + 5) \div 10 = star})
  <2>1. {p \in S : k[p] = star} = {p \in P : (d.reviews[p].rating + 5) \div 10 = star}
    OBVIOUS
  <2>2. g[star] = Cardinality({p \in S : k[p] = star})
    OBVIOUS
  <2>3. QED
    BY <2>1, <2>2
<1> HIDE DEF g, k
<1>7. f \in [1..5 -> Nat]
  BY <1>1, <1>2, FS_CardinalityType
<1>8. ASSUME NEW star \in 1..5
      PROVE  f[star] <= g[star]
  <2>1. CASE Rows(star) = {}
    BY <1>2, <1>5, <2>1
  <2>2. CASE Rows(star) # {}
    <3>1. PICK x \in Rows(star) : f[star] = Rated(d, P, x)
      BY <1>2, <2>2
    <3>2. {p \in P : d.reviews[p].rating = x} \subseteq {p \in P : (d.reviews[p].rating + 5) \div 10 = star}
      BY <3>1
    <3>3. IsFiniteSet({p \in P : (d.reviews[p].rating + 5) \div 10 = star})
      BY <1>1, FS_Subset, {p \in P : (d.reviews[p].rating + 5) \div 10 = star} \subseteq P
    <3>4. Cardinality({p \in P : d.reviews[p].rating = x})
            <= Cardinality({p \in P : (d.reviews[p].rating + 5) \div 10 = star})
      BY <3>2, <3>3, CountWithin
    <3>5. QED
      BY <1>6, <3>1, <3>4 DEF Rated
  <2>3. QED
    BY <2>1, <2>2
<1>9. SumOf(f) <= Cardinality(P)
  <2>1. SumOf(f) \in Nat /\ SumOf(f) <= SumOf(g)
    BY <1>5, <1>7, <1>8, SumMonotone
  <2>2. Cardinality(P) \in Nat /\ Cardinality(S) \in Nat
    BY <1>1, <1>4, FS_CardinalityType
  <2>3. QED
    BY <1>4, <1>5, <2>1, <2>2
<1>10. ASSUME WholeStars(d, b)
       PROVE  SumOf(f) = Cardinality(P)
  <2>1. \A p \in P : d.reviews[p].rating \in {10, 20, 30, 40, 50}
    BY <1>3, <1>10
  <2>2. ASSUME NEW p \in P
        PROVE  /\ (d.reviews[p].rating + 5) \div 10 \in 1..5
               /\ d.reviews[p].rating = 10 * ((d.reviews[p].rating + 5) \div 10)
    <3> DEFINE n == d.reviews[p].rating
    <3>1. n \in {10, 20, 30, 40, 50}
      BY <2>1
    <3> HIDE DEF n
    <3>2. (n + 5) \div 10 \in 1..5 /\ n = 10 * ((n + 5) \div 10)
      BY <3>1
    <3>3. QED
      BY <3>2 DEF n
  <2>3. S = P
    BY <2>2
  <2>4. ASSUME NEW star \in 1..5
        PROVE  f[star] = g[star]
    <3>1. CASE Rows(star) = {}
      <4>1. {p \in P : (d.reviews[p].rating + 5) \div 10 = star} = {}
        BY <3>1 DEF Ratings
      <4>2. QED
        BY <1>2, <1>6, <3>1, <4>1, FS_EmptySet
    <3>2. CASE Rows(star) # {}
      <4>1. PICK x \in Rows(star) : f[star] = Rated(d, P, x)
        BY <1>2, <3>2
      <4>2. PICK p \in P : x = d.reviews[p].rating
        BY <4>1 DEF Ratings
      <4>3. x = 10 * star
        BY <2>2, <4>1, <4>2
      <4>4. {q \in P : d.reviews[q].rating = x} = {q \in P : (d.reviews[q].rating + 5) \div 10 = star}
        BY <2>2, <4>1, <4>3
      <4>5. QED
        BY <1>6, <4>1, <4>4 DEF Rated
    <3>3. QED
      BY <3>1, <3>2
  <2>5. f = g
    BY <1>5, <1>7, <2>4
  <2>6. QED
    BY <1>5, <2>3, <2>5
<1>11. QED
  BY <1>9, <1>10 DEF RatingsAddUp, P

\* The public reviews of a range are among those of the distribution of all time.
LEMMA DistributionRight ==
  ASSUME NEW d \in Database, NEW a, NEW start
  PROVE  Cardinality(PublicOf(d, a, start)) <= SumOf(getAuthorRatingDistribution(d, a))
<1> DEFINE Q == ReviewsOf(d, BooksBy(d, a))
<1> DEFINE P == PublicOf(d, a, 0)
<1> DEFINE T == ({"star"} \X (1..5)) \cup ({"raw"} \X Ratings(d, P))
<1> DEFINE k == [p \in P |-> <<"raw", d.reviews[p].rating>>]
<1> DEFINE f == getAuthorRatingDistribution(d, a)
<1>1. IsFiniteSet(Q) /\ \A p \in Q : d.reviews[p] \in ReviewRow
  BY ReviewRows, BooksOfAuthor
<1>2. P \subseteq Q /\ PublicOf(d, a, start) \subseteq P
  BY <1>1 DEF PublicOf, ReviewRow
<1>3. f = [t \in T |-> IF t[1] = "star" THEN 0 ELSE Rated(d, P, t[2])]
  BY DEF getAuthorRatingDistribution
<1> HIDE DEF Q, P, f
<1>4. IsFiniteSet(P)
  BY <1>1, <1>2, FS_Subset
<1>5. ASSUME NEW t \in T
      PROVE  (IF t[1] = "star" THEN 0 ELSE Rated(d, P, t[2])) = Cardinality({p \in P : k[p] = t})
  <2>1. CASE t[1] = "star"
    <3>1. {p \in P : k[p] = t} = {}
      BY <2>1
    <3>2. QED
      BY <2>1, <3>1, FS_EmptySet
  <2>2. CASE t[1] # "star"
    <3>1. t = <<"raw", t[2]>>
      BY <2>2
    <3>2. \A p \in P : k[p] = t <=> d.reviews[p].rating = t[2]
      BY <3>1
    <3>3. {p \in P : k[p] = t} = {p \in P : d.reviews[p].rating = t[2]}
      BY <3>2
    <3>4. QED
      BY <2>2, <3>3 DEF Rated
  <2>3. QED
    BY <2>1, <2>2
<1>6. \A p \in P : k[p] \in T
  BY DEF Ratings
<1> HIDE DEF k, T
<1>7. f = [t \in T |-> Cardinality({p \in P : k[p] = t})]
  BY <1>3, <1>5
<1>8. SumOf(f) = Cardinality(P)
  BY <1>4, <1>6, <1>7, SumOfClasses
<1>9. Cardinality(PublicOf(d, a, start)) <= Cardinality(P)
  BY <1>2, <1>4, CountWithin
<1>10. Cardinality(PublicOf(d, a, start)) <= SumOf(f)
  BY <1>8, <1>9
<1>11. QED
  BY <1>10 DEF f

\* Books with public reviews are among those with reviews, and no more than
\* the reviews.
LEMMA ReviewedBooksRight ==
  ASSUME NEW d \in Database, NEW a
  PROVE  /\ \A top \in getTopPerformingBooks(d, a, TopBooks) :
              Fewer(TopBooks, getBooksWithReviews(d, a)) <= Cardinality(DOMAIN top)
         /\ getBooksWithReviews(d, a) <= Cardinality(ReviewsOf(d, BooksBy(d, a)))
<1> DEFINE Q == ReviewsOf(d, BooksBy(d, a))
<1> DEFINE P == PublicOf(d, a, 0)
<1> DEFINE f == [p \in Q |-> p[2]]
<1> DEFINE V == {f[p] : p \in Q}
<1> DEFINE W == {p[2] : p \in P}
<1>1. IsFiniteSet(Q)
  BY ReviewRows, BooksOfAuthor
<1>2. P \subseteq Q
  BY DEF PublicOf
<1>3. getBooksWithReviews(d, a) = Cardinality(W)
  BY DEF getBooksWithReviews
<1>4. \A top \in getTopPerformingBooks(d, a, TopBooks) :
        Cardinality(DOMAIN top) = Fewer(TopBooks, Cardinality({p[2] : p \in Q}))
  BY DEF getTopPerformingBooks
<1> HIDE DEF Q, P
<1>5. {p[2] : p \in Q} = V /\ W \subseteq V
  BY <1>2
<1> HIDE DEF f
<1>6. IsFiniteSet(V) /\ Cardinality(V) \in Nat /\ Cardinality(V) <= Cardinality(Q)
  BY <1>1, CountValues
<1> HIDE DEF V, W
<1>7. Cardinality(W) \in Nat /\ Cardinality(W) <= Cardinality(V) /\ Cardinality(Q) \in Nat
  BY <1>1, <1>5, <1>6, CountWithin, FS_CardinalityType
<1>8. Cardinality(W) <= Cardinality(Q)
  BY <1>6, <1>7
<1>9. /\ \A top \in getTopPerformingBooks(d, a, TopBooks) :
             Cardinality(DOMAIN top) = Fewer(TopBooks, Cardinality(V))
      /\ Fewer(TopBooks, Cardinality(W)) <= Fewer(TopBooks, Cardinality(V))
  BY <1>4, <1>5, <1>6, <1>7, AnalyticsBounds DEF Fewer
<1>10. QED
  BY <1>3, <1>7, <1>8, <1>9 DEF Q

LEMMA MonthlyRight ==
  ASSUME NEW d, NEW a, NEW trend
  PROVE  getMonthlyApplications(d, a, trend)
           = [m \in DOMAIN getApprovalRateOverTime(d, a, trend) |-> getApprovalRateOverTime(d, a, trend)[m].total]
BY DEF getMonthlyApplications, getApprovalRateOverTime

LEMMA NewReadersRight ==
  ASSUME NEW d \in Database, NEW a, NEW month
  PROVE  newReadersThisMonth(d, a, month) <= ReaderFigures(d, a).readers
<1> DEFINE P == AppsOf(d, BooksBy(d, a))
<1> DEFINE R == {p[1] : p \in P}
<1> DEFINE N == {r \in R : \A p \in P : p[1] = r => d.apps[p].at >= month}
<1>1. IsFiniteSet(P) /\ P \subseteq Readers \X Books
  BY AppRows, BooksOfAuthor
<1>2. newReadersThisMonth(d, a, month) = Cardinality(N) /\ ReaderFigures(d, a).readers = Cardinality(R)
  BY DEF newReadersThisMonth, ReaderFigures
<1> HIDE DEF P
<1>3. IsFiniteSet(R) /\ N \subseteq R
  BY <1>1, ReadersOf
<1> HIDE DEF R, N
<1>4. QED
  BY <1>2, <1>3, CountWithin

LEMMA ApprovedRight ==
  ASSUME NEW d \in Database, NEW r
  PROVE  Cardinality(WithStatus(d, OwnApps(d, r), "approved")) <= Cardinality(OwnApps(d, r))
<1>1. IsFiniteSet(AppsOf(d, Books))
  BY AppRows
<1>2. OwnApps(d, r) \subseteq AppsOf(d, Books) /\ WithStatus(d, OwnApps(d, r), "approved") \subseteq OwnApps(d, r)
  BY DEF OwnApps, WithStatus
<1>3. IsFiniteSet(OwnApps(d, r))
  BY <1>1, <1>2, FS_Subset
<1>4. QED
  BY <1>2, <1>3, CountWithin

-----------------------------------------------------------------------------
\* Primary addresses

\* As long as the address requests of a reader do not overlap, the reader has at
\* most one primary address, in every database so far; a request that will save
\* a primary one is the only one under way and has cleared the mark of the others.
HomesInv == \A r \in Readers \ clashed :
  /\ \A j \in 1..Len(log) : OnePrimary(log[j].db, r)
  /\ \A m \in Moving : moves[m].reader = r =>
       /\ \A n \in Moving : moves[n].reader = r => n = m
       /\ moves[m].home.primary => \A i \in Marked(Db, r) : moves[m].op = "save" /\ i = moves[m].row

LEMMA NoneMarked ==
  ASSUME NEW d, NEW r \in Readers, NEW e, OnePrimary(d, r), Marked(e, r) \subseteq Marked(d, r)
  PROVE  OnePrimary(e, r)
BY DEF OnePrimary

LEMMA OneNow ==
  ASSUME LogTyped, HomesInv, NEW r \in Readers \ clashed
  PROVE  OnePrimary(Db, r)
<1>1. Len(log) \in 1..Len(log)
  BY DbTyped
<1>2. QED
  BY <1>1 DEF HomesInv, Db

LEMMA HomesAppended ==
  ASSUME LogTyped, HomesInv, NEW d \in Database, NEW n \in Nat, log' = Append(log, [db |-> d, now |-> n]),
         NEW r \in Readers \ clashed, OnePrimary(d, r)
  PROVE  Db' = d /\ \A j \in 1..Len(log') : OnePrimary(log'[j].db, r)
<1>1. /\ Len(log') = Len(log) + 1 /\ log'[Len(log')] = [db |-> d, now |-> n]
      /\ \A j \in 1..Len(log) : log'[j] = log[j]
  BY Appended DEF Grown
<1>2. Db' = d
  BY <1>1 DEF Db
<1>3. ASSUME NEW j \in 1..Len(log')
      PROVE  OnePrimary(log'[j].db, r)
  <2>1. CASE j = Len(log')
    BY <1>1, <2>1
  <2>2. CASE j # Len(log')
    <3>1. j \in 1..Len(log)
      BY <1>1, <2>2, DbTyped
    <3>2. QED
      BY <1>1, <3>1 DEF HomesInv
  <2>3. QED
    BY <2>1, <2>2
<1>4. QED
  BY <1>2, <1>3

\* A write that marks nothing, while nobody begins or ends a request
LEMMA HomesFewer ==
  ASSUME LogTyped, HomesInv, NEW d \in Database, NEW n \in Nat, log' = Append(log, [db |-> d, now |-> n]),
         UNCHANGED <<moves, clashed>>, \A r \in Readers : Marked(d, r) \subseteq Marked(Db, r)
  PROVE  HomesInv'
<1> SUFFICES ASSUME NEW r \in Readers \ clashed
             PROVE  /\ \A j \in 1..Len(log') : OnePrimary(log'[j].db, r)
                    /\ \A m \in Moving' : moves'[m].reader = r =>
                         /\ \A k \in Moving' : moves'[k].reader = r => k = m
                         /\ moves'[m].home.primary =>
                              \A i \in Marked(Db', r) : moves'[m].op = "save" /\ i = moves'[m].row
  BY DEF HomesInv, OnePrimary, Marked
<1>1. OnePrimary(d, r)
  BY OneNow, NoneMarked
<1>2. Db' = d /\ \A j \in 1..Len(log') : OnePrimary(log'[j].db, r)
  BY <1>1, HomesAppended
<1>3. Moving' = Moving /\ moves' = moves
  BY DEF Moving
<1>4. QED
  BY <1>2, <1>3 DEF HomesInv

LEMMA OtherHomes ==
  ASSUME LogTyped, NEW d \in OtherWrites(Db)
  PROVE  d.homes = Db.homes
<1>0. Db \in Database
  BY DbTyped
<1>1. ASSUME NEW b \in Present(Db), d \in BookWrites(Db, b)
      PROVE  d.homes = Db.homes
  BY <1>0, <1>1 DEF BookWrites, Published, Closed, SoldOut, Removed, Database
<1>2. ASSUME NEW r \in Readers, NEW b \in Present(Db), d \in ApplicationWrites(Db, r, b)
      PROVE  d.homes = Db.homes
  BY <1>0, <1>2 DEF ApplicationWrites, Requested, Approved, Rejected, Withdrawn,
                     Reviewed, Submitted, Database
<1>3. ASSUME NEW r \in Readers, d \in ReaderWrites(Db, r)
      PROVE  d.homes = Db.homes
  BY <1>0, <1>3 DEF ReaderWrites, Followed, Unfollowed, Preferred, Dropped, Database
<1>4. QED
  BY <1>1, <1>2, <1>3 DEF OtherWrites

\* What the writes of addresses mark
LEMMA ClearedMarks ==
  ASSUME LogTyped, NEW r \in Readers, NEW keep, NEW q \in Readers
  PROVE  /\ Marked(Cleared(Db, r, keep), q) \subseteq Marked(Db, q)
         /\ Marked(Cleared(Db, r, keep), r) \subseteq keep
<1>1. Db \in Database /\ Db.homes \in [Readers -> [1..MaxHomes -> Home \cup {None}]]
  BY DbTyped DEF Database
<1> DEFINE homes == [i \in 1..MaxHomes |->
                       IF Db.homes[r][i] = None \/ i \in keep THEN Db.homes[r][i]
                       ELSE [Db.homes[r][i] EXCEPT !.primary = FALSE]]
<1>2. Cleared(Db, r, keep).homes = [Db.homes EXCEPT ![r] = homes]
  BY <1>1 DEF Cleared, Database
<1>3. ASSUME NEW i \in 1..MaxHomes, homes[i] # None, homes[i].primary
      PROVE  i \in keep /\ i \in Marked(Db, r)
  <2>1. Db.homes[r][i] \in Home \cup {None}
    BY <1>1
  <2>2. QED
    BY <1>3, <2>1 DEF Marked, Home
<1> HIDE DEF homes
<1>4. \A x \in Readers : Cleared(Db, r, keep).homes[x] = IF x = r THEN homes ELSE Db.homes[x]
  BY <1>1, <1>2
<1>5. QED
  BY <1>3, <1>4 DEF Marked

LEMMA WrittenMarks ==
  ASSUME LogTyped, NEW r \in Readers, NEW i \in 1..MaxHomes, NEW home \in Home \cup {None}, NEW q \in Readers,
         NEW d, d = [Db EXCEPT !.homes[r][i] = home]
  PROVE  /\ q # r => Marked(d, q) = Marked(Db, q)
         /\ Marked(d, r) \subseteq Marked(Db, r) \cup {i}
         /\ home = None \/ ~home.primary => Marked(d, r) \subseteq Marked(Db, r)
<1>1. Db \in Database /\ Db.homes \in [Readers -> [1..MaxHomes -> Home \cup {None}]]
  BY DbTyped DEF Database
<1>2. \A x \in Readers, j \in 1..MaxHomes :
        d.homes[x][j] = IF x = r /\ j = i THEN home ELSE Db.homes[x][j]
  BY <1>1 DEF Database
<1>3. QED
  BY <1>2 DEF Marked

\* A request begins: it has cleared what it must.
LEMMA HomesMoveStarted ==
  ASSUME TypeInv, HomesInv, NEW m \in Movers, NEW r \in Readers, NEW move \in Moves,
         move # MoveIdle, move.reader = r, MoveStart(m, r, move),
         NEW d \in Database, (log' = log /\ d = Db) \/ Write(d),
         \A q \in Readers : Marked(d, q) \subseteq Marked(Db, q),
         r \notin clashed /\ move.home.primary => \A i \in Marked(d, r) : move.op = "save" /\ i = move.row
  PROVE  HomesInv'
<1>0. LogTyped /\ Now \in Nat
  BY DbTyped DEF TypeInv
<1> SUFFICES ASSUME NEW q \in Readers \ clashed'
             PROVE  /\ \A j \in 1..Len(log') : OnePrimary(log'[j].db, q)
                    /\ \A n \in Moving' : moves'[n].reader = q =>
                         /\ \A k \in Moving' : moves'[k].reader = q => k = n
                         /\ moves'[n].home.primary =>
                              \A i \in Marked(Db', q) : moves'[n].op = "save" /\ i = moves'[n].row
  BY DEF HomesInv, OnePrimary, Marked
<1>1. q \in Readers \ clashed /\ (q = r => ~\E n \in Movers : moves[n] # MoveIdle /\ moves[n].reader = r)
  BY DEF MoveStart
<1>2. Db' = d /\ \A j \in 1..Len(log') : OnePrimary(log'[j].db, q)
  <2>1. CASE log' = log /\ d = Db
    BY <1>1, <2>1 DEF HomesInv, Db
  <2>2. CASE Write(d)
    <3>1. OnePrimary(d, q)
      BY <1>0, <1>1, OneNow, NoneMarked
    <3>2. QED
      BY <1>0, <1>1, <2>2, <3>1, HomesAppended DEF Write
  <2>3. QED
    BY <2>1, <2>2
<1>3. moves' = [moves EXCEPT ![m] = move] /\ moves[m] = MoveIdle /\ moves \in [Movers -> Moves]
  BY DEF MoveStart, TypeInv
<1>4. ASSUME NEW n \in Moving', moves'[n].reader = q
      PROVE  \/ n = m /\ q = r /\ moves'[n] = move
             \/ n # m /\ q # r /\ n \in Moving /\ moves'[n] = moves[n]
  <2>1. n \in Movers /\ moves'[n] # MoveIdle
    BY DEF Moving
  <2>2. CASE n = m
    BY <1>3, <1>4, <2>1, <2>2
  <2>3. CASE n # m
    <3>1. moves'[n] = moves[n] /\ n \in Moving
      BY <1>3, <2>1, <2>3 DEF Moving
    <3>2. q # r
      BY <1>1, <1>4, <2>1, <3>1
    <3>3. QED
      BY <2>3, <3>1, <3>2
  <2>4. QED
    BY <2>2, <2>3
<1>5. ASSUME NEW n \in Moving', moves'[n].reader = q
      PROVE  /\ \A k \in Moving' : moves'[k].reader = q => k = n
             /\ moves'[n].home.primary =>
                  \A i \in Marked(Db', q) : moves'[n].op = "save" /\ i = moves'[n].row
  <2>1. CASE n = m /\ q = r /\ moves'[n] = move
    <3>1. \A k \in Moving' : moves'[k].reader = q => k = n
      BY <1>4, <2>1
    <3>2. QED
      BY <1>1, <1>2, <2>1, <3>1
  <2>2. CASE n # m /\ q # r /\ n \in Moving /\ moves'[n] = moves[n]
    <3>1. \A k \in Moving' : moves'[k].reader = q => k \in Moving /\ moves'[k] = moves[k]
      BY <1>4, <2>2
    <3>2. Marked(Db', q) \subseteq Marked(Db, q)
      BY <1>1, <1>2
    <3>3. QED
      BY <1>1, <1>5, <2>2, <3>1, <3>2 DEF HomesInv
  <2>3. QED
    BY <1>4, <1>5, <2>1, <2>2
<1>6. QED
  BY <1>2, <1>5

\* A request ends: what it saves is the only primary address, or no primary one.
LEMMA HomesSaved ==
  ASSUME TypeInv, HomesInv, NEW m \in Movers, AddressSave(m)
  PROVE  HomesInv'
<1> DEFINE r == moves[m].reader
<1> DEFINE home == moves[m].home
<1>0. LogTyped /\ Now \in Nat /\ moves \in [Movers -> Moves]
  BY DbTyped DEF TypeInv
<1>1. /\ m \in Moving /\ moves' = [moves EXCEPT ![m] = MoveIdle] /\ clashed' = clashed
      /\ moves[m].op \in {"insert", "save"} /\ r \in Readers /\ home \in Home
      /\ moves[m].op = "save" => moves[m].row \in 1..MaxHomes \cup {None}
  BY <1>0 DEF AddressSave, Moving, Moves
<1>2. PICK i \in IF moves[m].op = "save" THEN {moves[m].row} ELSE FreeRows(r) :
        Write([Db EXCEPT !.homes[r][i] = home])
  BY DEF AddressSave
<1> DEFINE d == [Db EXCEPT !.homes[r][i] = home]
<1>3. d \in Database
  BY <1>0, <1>1, HomeWritten
<1>4. Db.homes \in [Readers -> [1..MaxHomes -> Home \cup {None}]] /\ Db \in Database
  BY <1>0, DbTyped DEF Database
<1>5. ASSUME NEW q \in Readers
      PROVE  /\ q # r => Marked(d, q) = Marked(Db, q)
             /\ Marked(d, r) \subseteq Marked(Db, r) \cup {i}
             /\ ~home.primary => Marked(d, r) \subseteq Marked(Db, r)
  <2>1. CASE i \in 1..MaxHomes
    <3>1. r \in Readers /\ home \in Home \cup {None}
      BY <1>1
    <3>2. d = [Db EXCEPT !.homes[r][i] = home]
      OBVIOUS
    <3> HIDE DEF r, home, d
    <3>3. QED
      BY <1>0, <2>1, <3>1, <3>2, WrittenMarks
  <2>2. CASE i \notin 1..MaxHomes
    <3>1. \A x \in Readers, j \in 1..MaxHomes : d.homes[x][j] = Db.homes[x][j]
      BY <1>1, <1>4, <2>2 DEF Database
    <3> HIDE DEF d
    <3>2. QED
      BY <1>1, <3>1 DEF Marked
  <2>3. QED
    BY <2>1, <2>2
<1> HIDE DEF d
<1> SUFFICES ASSUME NEW q \in Readers \ clashed
             PROVE  /\ \A j \in 1..Len(log') : OnePrimary(log'[j].db, q)
                    /\ \A n \in Moving' : moves'[n].reader = q =>
                         /\ \A k \in Moving' : moves'[k].reader = q => k = n
                         /\ moves'[n].home.primary =>
                              \A j \in Marked(Db', q) : moves'[n].op = "save" /\ j = moves'[n].row
  BY <1>1 DEF HomesInv, OnePrimary, Marked
<1>6. OnePrimary(Db, q)
  BY <1>0, OneNow
<1>7. OnePrimary(d, q)
  <2>1. CASE q # r
    BY <1>5, <1>6, <2>1, NoneMarked
  <2>2. CASE q = r /\ ~home.primary
    BY <1>5, <1>6, <2>2, NoneMarked
  <2>3. CASE q = r /\ home.primary
    <3>1. \A j \in Marked(Db, r) : moves[m].op = "save" /\ j = moves[m].row
      BY <1>1, <2>3 DEF HomesInv
    <3>2. Marked(Db, r) \subseteq {i}
      BY <1>2, <3>1
    <3>3. Marked(d, q) \subseteq {i}
      BY <1>1, <1>5, <2>3, <3>2
    <3>4. QED
      BY <3>3 DEF OnePrimary
  <2>4. QED
    BY <2>1, <2>2, <2>3
<1>8. Db' = d /\ \A j \in 1..Len(log') : OnePrimary(log'[j].db, q)
  BY <1>0, <1>2, <1>3, <1>7, HomesAppended DEF Write, d
<1>9. ASSUME NEW n \in Moving', moves'[n].reader = q
      PROVE  n \in Moving /\ n # m /\ moves'[n] = moves[n] /\ q # r
  <2>1. n \in Movers /\ moves'[n] # MoveIdle
    BY DEF Moving
  <2>2. n # m /\ moves'[n] = moves[n] /\ n \in Moving
    BY <1>0, <1>1, <2>1 DEF Moving
  <2>3. q # r
    BY <1>1, <1>9, <2>2 DEF HomesInv
  <2>4. QED
    BY <2>2, <2>3
<1>10. ASSUME NEW n \in Moving', moves'[n].reader = q
       PROVE  /\ \A k \in Moving' : moves'[k].reader = q => k = n
              /\ moves'[n].home.primary =>
                   \A j \in Marked(Db', q) : moves'[n].op = "save" /\ j = moves'[n].row
  <2>1. n \in Moving /\ moves'[n] = moves[n] /\ q # r
    BY <1>9, <1>10
  <2>2. \A k \in Moving' : moves'[k].reader = q => k \in Moving /\ moves'[k] = moves[k]
    BY <1>9
  <2>3. Marked(Db', q) = Marked(Db, q)
    BY <1>5, <1>8, <2>1
  <2>4. QED
    BY <1>10, <2>1, <2>2, <2>3 DEF HomesInv
<1>11. QED
  BY <1>8, <1>10

LEMMA AddressesHomes ==
  ASSUME TypeInv, HomesInv, Addresses
  PROVE  HomesInv'
<1>0. load.movers \subseteq Readers /\ LogTyped /\ Db \in Database /\ Now \in Nat
  BY LoadTyped, DbTyped DEF TypeInv
<1>1. ASSUME NEW m \in Movers, NEW r \in load.movers, NEW home \in Home, AddressCreate(m, r, home)
      PROVE  HomesInv'
  <2> DEFINE move == [op |-> "insert", reader |-> r, row |-> None, home |-> home]
  <2>1. move \in Moves /\ move # MoveIdle /\ move.reader = r /\ move.home = home /\ MoveStart(m, r, move)
    BY <1>0, <1>1 DEF Moves, MoveIdle, AddressCreate
  <2>2. CASE home.primary
    <3>1. /\ Cleared(Db, r, {}) \in Database /\ Write(Cleared(Db, r, {}))
          /\ \A q \in Readers : Marked(Cleared(Db, r, {}), q) \subseteq Marked(Db, q)
          /\ Marked(Cleared(Db, r, {}), r) \subseteq {}
      BY <1>0, <1>1, <2>2, ClearedTyped, ClearedMarks DEF AddressCreate
    <3> HIDE DEF move
    <3>2. QED
      BY <1>0, <2>1, <3>1, HomesMoveStarted
  <2>3. CASE ~home.primary
    <3>1. log' = log
      BY <1>1, <2>3 DEF AddressCreate
    <3> HIDE DEF move
    <3>2. QED
      BY <1>0, <2>1, <2>3, <3>1, HomesMoveStarted
  <2>4. QED
    BY <2>2, <2>3
<1>2. ASSUME NEW m \in Movers, NEW r \in load.movers, NEW home \in Home, NEW i \in 1..MaxHomes,
             AddressUpdate(m, r, i, home)
      PROVE  HomesInv'
  <2> DEFINE move == [op |-> "save", reader |-> r, row |-> i, home |-> home]
  <2>1. /\ move \in Moves /\ move # MoveIdle /\ move.reader = r /\ move.home = home /\ move.op = "save"
        /\ move.row = i /\ MoveStart(m, r, move)
    BY <1>0, <1>2 DEF Moves, MoveIdle, AddressUpdate
  <2> HIDE DEF move
  <2>2. CASE home.primary /\ Write(Cleared(Db, r, {i}))
    <3>1. /\ Cleared(Db, r, {i}) \in Database
          /\ \A q \in Readers : Marked(Cleared(Db, r, {i}), q) \subseteq Marked(Db, q)
          /\ Marked(Cleared(Db, r, {i}), r) \subseteq {i}
      BY <1>0, ClearedTyped, ClearedMarks
    <3>2. QED
      BY <1>0, <2>1, <2>2, <3>1, HomesMoveStarted
  <2>3. CASE (home.primary => Db.homes[r][i].primary) /\ log' = log
    <3>1. ASSUME r \notin clashed, home.primary
          PROVE  \A j \in Marked(Db, r) : j = i
      <4>1. i \in Marked(Db, r)
        BY <1>2, <2>3, <3>1 DEF AddressUpdate, Marked
      <4>2. OnePrimary(Db, r)
        BY <1>0, <3>1, OneNow
      <4>3. QED
        BY <4>1, <4>2 DEF OnePrimary
    <3>2. QED
      BY <1>0, <2>1, <2>3, <3>1, HomesMoveStarted
  <2>4. QED
    BY <1>2, <2>2, <2>3 DEF AddressUpdate
<1>3. ASSUME NEW r \in load.movers, NEW i \in 1..MaxHomes, AddressRemove(r, i)
      PROVE  HomesInv'
  <2> DEFINE d == [Db EXCEPT !.homes[r][i] = None]
  <2>1. d \in Database
    BY <1>0, HomeWritten
  <2>2. \A q \in Readers : Marked(d, q) \subseteq Marked(Db, q)
    BY <1>0, WrittenMarks
  <2>3. log' = Append(log, [db |-> d, now |-> Now]) /\ UNCHANGED <<moves, clashed>>
    BY <1>3 DEF AddressRemove, Write
  <2> HIDE DEF d
  <2>4. QED
    BY <1>0, <2>1, <2>2, <2>3, HomesFewer
<1>4. QED
  BY <1>1, <1>2, <1>3, HomesSaved DEF Addresses

LEMMA HomesStep == TypeInv /\ TypeInv' /\ HomesInv /\ [Next]_vars => HomesInv'
<1> SUFFICES ASSUME TypeInv, TypeInv', HomesInv, [Next]_vars
             PROVE  HomesInv'
  OBVIOUS
<1>1. load.handlers \subseteq Handlers /\ LogTyped /\ Db \in Database /\ Now \in Nat
  BY LoadTyped, DbTyped DEF TypeInv
<1>2. ASSUME UNCHANGED <<log, moves, clashed>>
      PROVE  HomesInv'
  BY <1>2 DEF HomesInv, OnePrimary, Marked, Moving, Db
<1>3. ASSUME NEW h \in Handlers, Lists(h)
      PROVE  HomesInv'
  BY <1>2, <1>3, ListsTyped
<1>4. ASSUME NEW h \in Handlers, ReportSteps(h)
      PROVE  HomesInv'
  BY <1>2, <1>4, ReportsTyped
<1>5. CASE OtherWrite
  <2>1. PICK d \in OtherWrites(Db) : Write(d)
    BY <1>5 DEF OtherWrite
  <2>2. d \in Database
    BY <1>1, <2>1, BookWritesTyped, ApplicationWritesTyped, ReaderWritesTyped DEF OtherWrites
  <2>3. \A r \in Readers : Marked(d, r) \subseteq Marked(Db, r)
    BY <1>1, OtherHomes DEF Marked
  <2>4. QED
    BY <1>1, <1>5, <2>1, <2>2, <2>3, HomesFewer DEF OtherWrite, Write
<1>6. CASE Tick
  <2>1. log' = Append(log, [db |-> Db, now |-> Now + 1]) /\ UNCHANGED <<moves, clashed>> /\ Now + 1 \in Nat
    BY <1>1, <1>6 DEF Tick
  <2>2. QED
    BY <1>1, <2>1, HomesFewer
<1>7. CASE UNCHANGED vars
  BY <1>2, <1>7 DEF vars, catalogVars
<1>8. QED
  BY <1>1, <1>3, <1>4, <1>5, <1>6, <1>7, AddressesHomes DEF Next, CatalogNext

LEMMA HomesInit == Init => HomesInv
<1> SUFFICES ASSUME Init, NEW r \in Readers \ clashed
             PROVE  /\ \A j \in 1..Len(log) : OnePrimary(log[j].db, r)
                    /\ \A m \in Moving : FALSE
  BY DEF HomesInv
<1>1. Len(log) = 1 /\ log[1].db = load.db
  BY DEF Init, CatalogInit
<1>2. OnePrimary(load.db, r)
  BY DEF Init, CatalogInit, OnePrimary
<1>3. QED
  BY <1>1, <1>2 DEF Init, CatalogInit, Moving

-----------------------------------------------------------------------------
\* The figures of a report that is served

\* What each statement can return, one by one
LEMMA ResultOfCounts ==
  ASSUME NEW d, NEW t, NEW q, NEW got
  PROVE  \E month : Results(d, t, q, "counts", got) = {getApplicationCounts(d, q.of, month)}
BY DEF Results

LEMMA ResultOfSummary ==
  ASSUME NEW d, NEW t, NEW q, NEW got
  PROVE  Results(d, t, q, "summary", got) = {ReviewSummary(d, q.of)}
BY DEF Results

LEMMA ResultOfRatings ==
  ASSUME NEW d, NEW t, NEW q, NEW got
  PROVE  Results(d, t, q, "ratings", got) = RatingDistributions(d, q.of)
BY DEF Results

LEMMA ResultOfInsights ==
  ASSUME NEW d, NEW t, NEW q, NEW got
  PROVE  Results(d, t, q, "insights", got) = {AppsOf(d, {q.of})}
BY DEF Results

LEMMA ResultOfAuthor ==
  ASSUME NEW d, NEW t, NEW q, NEW got
  PROVE  /\ Results(d, t, q, "statuses", got) = {getBookStatusCounts(d, q.of)}
         /\ Results(d, t, q, "overview", got)
              = {getApplicationOverview(d, q.of, getDateRange(q.range, t), StartOfMonth(t))}
         /\ Results(d, t, q, "publicReviews", got) = {Cardinality(PublicOf(d, q.of, getDateRange(q.range, t)))}
         /\ Results(d, t, q, "distribution", got) = {getAuthorRatingDistribution(d, q.of)}
BY DEF Results

LEMMA ResultOfTrend ==
  ASSUME NEW d, NEW t, NEW q, NEW got
  PROVE  /\ Results(d, t, q, "booksWithReviews", got) = {getBooksWithReviews(d, q.of)}
         /\ Results(d, t, q, "top", got) = getTopPerformingBooks(d, q.of, TopBooks)
         /\ Results(d, t, q, "monthly", got) = {getMonthlyApplications(d, q.of, TrendStart(q.range, t))}
         /\ Results(d, t, q, "rates", got) = {getApprovalRateOverTime(d, q.of, TrendStart(q.range, t))}
         /\ Results(d, t, q, "allReviews", got) = {Cardinality(ReviewsOf(d, BooksBy(d, q.of)))}
BY DEF Results

LEMMA ResultOfReaders ==
  ASSUME NEW d, NEW t, NEW q, NEW got
  PROVE  /\ Results(d, t, q, "readers", got) = {ReaderFigures(d, q.of)}
         /\ Results(d, t, q, "newReaders", got) = {newReadersThisMonth(d, q.of, StartOfMonth(t))}
         /\ Results(d, t, q, "countries", got) = {calculateCountryBreakdown(d, ReadersIn(got))}
         /\ Results(d, t, q, "genres", got) = {calculateGenreBreakdown(d, ReadersIn(got))}
         /\ Results(d, t, q, "total", got) = {Cardinality(OwnApps(d, q.of))}
         /\ Results(d, t, q, "approved", got) = {Cardinality(WithStatus(d, OwnApps(d, q.of), "approved"))}
BY DEF Results

\* The reports of a book are the ones with these statements.
LEMMA BookParts ==
  ASSUME NEW kind \in Kinds, NEW part \in Parts(kind),
         NEW s \in part, s \in {"counts", "summary", "ratings", "insights"}
  PROVE  kind \in {"stats", "book"}
<1>1. CASE kind = "author"
  BY <1>1 DEF Parts
<1>2. CASE kind = "performance"
  BY <1>2 DEF Parts
<1>3. CASE kind \in {"myAuthorStats", "myReaderStats"}
  BY <1>3 DEF Parts
<1>4. QED
  BY <1>1, <1>2, <1>3 DEF Kinds

\* What a figure of a served report was computed from
LEMMA ServedFigure ==
  ASSUME TypeInv, ReportInv, NEW h \in Handlers, Served(req[h]), NEW s \in DOMAIN req[h].got
  PROVE  LET r == req[h]
         IN  /\ \E j \in Window(r) : /\ j \in 1..Len(log) /\ log[j].db \in Database
                                     /\ r.got[s] \in Results(log[j].db, r.start, r.rq, s, r.got)
             /\ r.to \in Window(r) /\ (r.from = r.to => Window(r) = {r.to})
             /\ s \in {"counts", "summary", "ratings", "insights"} => r.rq.of \in Books
             /\ Awaited(s, r.got)
<1> DEFINE r == req[h]
<1>1. IsReport(r) /\ r.op = "served" /\ ReqTyped(r)
  BY DEF Served, IsReport, TypeInv
<1>2. ReportTyped(r) /\ ReportRight(r)
  BY <1>1 DEF ReqTyped, ReportInv, IsReport, ListTyped, ListRequest, Idle
<1>3. /\ r.rq \in load.reports /\ r.from \in Nat /\ r.to \in Nat /\ 1 <= r.from /\ r.from <= r.to /\ r.to <= Len(log)
  BY <1>2 DEF ReportTyped, ReportShape
<1>4. GotRight(r.got, r.rq, r.start, r.from, r.to) /\ s \in r.rq.part
  BY <1>1, <1>2 DEF ReportRight
<1>5. LogTyped /\ load \in Workloads /\ Len(log) \in Nat
  BY DbTyped DEF TypeInv
<1>6. r.rq.kind \in Kinds /\ r.rq.part \in Parts(r.rq.kind) /\ r.rq.of \in Subjects(r.rq.kind)
  BY <1>3, <1>5, AnalyticsReports DEF Report
<1>7. s \in {"counts", "summary", "ratings", "insights"} => r.rq.of \in Books
  BY <1>4, <1>6, BookParts DEF Subjects
<1>8. PICK j \in r.from..r.to : r.got[s] \in Results(log[j].db, r.start, r.rq, s, r.got)
  BY <1>4 DEF GotRight
<1>9. j \in 1..Len(log) /\ log[j].db \in Database
  BY <1>3, <1>5, LogAt
<1>10. Window(r) = r.from..r.to /\ r.to \in Window(r) /\ (r.from = r.to => Window(r) = {r.to})
  BY <1>3 DEF Window
<1>11. Awaited(s, r.got)
  BY <1>4 DEF GotRight
<1>12. QED
  BY <1>7, <1>8, <1>9, <1>10, <1>11

\* The readers that countries and genres are looked up for
LEMMA ReadersFound ==
  ASSUME TypeInv, ReportInv, NEW h \in Handlers, Served(req[h]),
         NEW s \in DOMAIN req[h].got, s \in {"countries", "genres"}
  PROVE  IsFiniteSet(ReadersIn(req[h].got)) /\ ReadersIn(req[h].got) \subseteq Readers
<1> DEFINE r == req[h]
<1>1. "readers" \in DOMAIN r.got \/ "insights" \in DOMAIN r.got
  BY ServedFigure DEF Awaited
<1>2. CASE "readers" \in DOMAIN r.got
  <2>1. PICK j \in Window(r) : /\ log[j].db \in Database
                               /\ r.got["readers"] \in Results(log[j].db, r.start, r.rq, "readers", r.got)
    BY <1>2, ServedFigure
  <2>2. r.got["readers"] = ReaderFigures(log[j].db, r.rq.of)
    BY <2>1, ResultOfReaders
  <2>3. r.got["readers"].rows = AppsOf(log[j].db, BooksBy(log[j].db, r.rq.of))
    BY <2>2 DEF ReaderFigures
  <2>4. ReadersIn(r.got) = {p[1] : p \in AppsOf(log[j].db, BooksBy(log[j].db, r.rq.of))}
    BY <1>2, <2>3 DEF ReadersIn
  <2>5. /\ IsFiniteSet(AppsOf(log[j].db, BooksBy(log[j].db, r.rq.of)))
        /\ AppsOf(log[j].db, BooksBy(log[j].db, r.rq.of)) \subseteq Readers \X Books
    BY <2>1, AppRows, BooksOfAuthor
  <2>6. QED
    BY <2>4, <2>5, ReadersOf
<1>3. CASE "readers" \notin DOMAIN r.got
  <2>0. "insights" \in DOMAIN r.got
    BY <1>1, <1>3
  <2>1. PICK j \in Window(r) : /\ log[j].db \in Database
                               /\ r.got["insights"] \in Results(log[j].db, r.start, r.rq, "insights", r.got)
    BY <2>0, ServedFigure
  <2>2. r.rq.of \in Books
    BY <2>0, ServedFigure
  <2>3. r.got["insights"] = AppsOf(log[j].db, {r.rq.of})
    BY <2>1, ResultOfInsights
  <2>4. ReadersIn(r.got) = {p[1] : p \in AppsOf(log[j].db, {r.rq.of})}
    BY <1>3, <2>3 DEF ReadersIn
  <2>5. /\ IsFiniteSet(AppsOf(log[j].db, {r.rq.of}))
        /\ AppsOf(log[j].db, {r.rq.of}) \subseteq Readers \X Books
    BY <2>1, <2>2, AppRows, {r.rq.of} \subseteq Books
  <2>6. QED
    BY <2>4, <2>5, ReadersOf
<1>4. QED
  BY <1>2, <1>3

\* The figures of one statement add up, whatever was written meanwhile.
LEMMA StatementsHold ==
  ASSUME TypeInv, ReportInv, HomesInv, NEW h \in Handlers, Served(req[h])
  PROVE  StatementsAddUp(req[h])
<1> DEFINE r == req[h]
<1>1. ASSUME NEW s \in DOMAIN r.got
      PROVE  \E j \in Window(r) : /\ j \in 1..Len(log) /\ log[j].db \in Database
                                  /\ r.got[s] \in Results(log[j].db, r.start, r.rq, s, r.got)
  BY ServedFigure
<1>2. ASSUME "counts" \in DOMAIN r.got
      PROVE  CountsAddUp(r.got["counts"])
  <2>1. r.rq.of \in Books
    BY <1>2, ServedFigure
  <2>2. QED
    BY <1>1, <1>2, <2>1, ResultOfCounts, CountsRight
<1>3. ASSUME "summary" \in DOMAIN r.got
      PROVE  SummaryAddsUp(r.got["summary"])
  <2>1. r.rq.of \in Books
    BY <1>3, ServedFigure
  <2>2. PICK j \in 1..Len(log) :
          /\ log[j].db \in Database
          /\ r.got["summary"] \in Results(log[j].db, r.start, r.rq, "summary", r.got)
    BY <1>1, <1>3
  <2>3. r.got["summary"] = ReviewSummary(log[j].db, r.rq.of)
    BY <2>2, ResultOfSummary
  <2>4. SummaryAddsUp(ReviewSummary(log[j].db, r.rq.of))
    BY <2>1, <2>2, SummaryRight
  <2>5. QED
    BY <2>3, <2>4
<1>4. ASSUME "statuses" \in DOMAIN r.got
      PROVE  StatusesAddUp(r.got["statuses"])
  BY <1>1, <1>4, ResultOfAuthor, StatusesRight
<1>5. ASSUME "overview" \in DOMAIN r.got
      PROVE  OverviewAddsUp(r.got["overview"])
  BY <1>1, <1>5, ResultOfAuthor, OverviewRight
<1>6. ASSUME "readers" \in DOMAIN r.got
      PROVE  ReadersAddUp(r.got["readers"])
  BY <1>1, <1>6, ResultOfReaders, ReadersRight
<1>7. ASSUME "rates" \in DOMAIN r.got
      PROVE  \A m \in DOMAIN r.got["rates"] : r.got["rates"][m].rate <= 100
  BY <1>1, <1>7, ResultOfTrend, RatesRight
<1>8. ASSUME "countries" \in DOMAIN r.got, clashed = {}
      PROVE  CountriesAddUp(r.got["countries"])
  <2>1. PICK j \in 1..Len(log) :
          /\ log[j].db \in Database
          /\ r.got["countries"] \in Results(log[j].db, r.start, r.rq, "countries", r.got)
    BY <1>1, <1>8
  <2>2. r.got["countries"] = calculateCountryBreakdown(log[j].db, ReadersIn(r.got))
    BY <2>1, ResultOfReaders
  <2>3. IsFiniteSet(ReadersIn(r.got)) /\ ReadersIn(r.got) \subseteq Readers
    BY <1>8, ReadersFound
  <2>4. \A x \in ReadersIn(r.got) : OnePrimary(log[j].db, x)
    BY <1>8, <2>3 DEF HomesInv
  <2>5. QED
    BY <2>1, <2>2, <2>3, <2>4, CountriesRight
<1>9. ASSUME "genres" \in DOMAIN r.got, NEW g \in Genres
      PROVE  r.got["genres"].genres[g].percentage <= 100
  <2>1. PICK j \in 1..Len(log) :
          r.got["genres"] \in Results(log[j].db, r.start, r.rq, "genres", r.got)
    BY <1>1, <1>9
  <2>2. r.got["genres"] = calculateGenreBreakdown(log[j].db, ReadersIn(r.got))
    BY <2>1, ResultOfReaders
  <2>3. IsFiniteSet(ReadersIn(r.got))
    BY <1>9, ReadersFound
  <2>4. QED
    BY <2>2, <2>3, GenresRight
<1>10. QED
  BY <1>2, <1>3, <1>4, <1>5, <1>6, <1>7, <1>8, <1>9 DEF StatementsAddUp, Has

\* Combined figures add up when nothing was written between their statements:
\* these then read the same database.
LEMMA CombinedHold ==
  ASSUME TypeInv, ReportInv, NEW h \in Handlers, Served(req[h])
  PROVE  CombinedAddUp(req[h])
<1> DEFINE r == req[h]
<1> DEFINE d == log[r.to].db
<1> SUFFICES ASSUME r.from = r.to
             PROVE  /\ Has(r, {"summary", "ratings"}) =>
                         /\ SumOf(r.got["ratings"]) <= r.got["summary"].total
                         /\ WholeStars(d, r.rq.of) => SumOf(r.got["ratings"]) = r.got["summary"].total
                    /\ Has(r, {"publicReviews", "distribution"}) =>
                         r.got["publicReviews"] <= SumOf(r.got["distribution"])
                    /\ Has(r, {"booksWithReviews", "top"}) =>
                         Fewer(TopBooks, r.got["booksWithReviews"]) <= Cardinality(DOMAIN r.got["top"])
                    /\ Has(r, {"monthly", "rates"}) =>
                         r.got["monthly"] = [m \in DOMAIN r.got["rates"] |-> r.got["rates"][m].total]
                    /\ Has(r, {"allReviews", "booksWithReviews"}) =>
                         r.got["booksWithReviews"] <= r.got["allReviews"]
                    /\ Has(r, {"readers", "newReaders"}) => r.got["newReaders"] <= r.got["readers"].readers
                    /\ Has(r, {"total", "approved"}) => r.got["approved"] <= r.got["total"]
  BY DEF CombinedAddUp
<1>1. ASSUME NEW s \in DOMAIN r.got
      PROVE  d \in Database /\ r.got[s] \in Results(d, r.start, r.rq, s, r.got)
  BY ServedFigure
<1> HIDE DEF d
<1>2. ASSUME "summary" \in DOMAIN r.got, "ratings" \in DOMAIN r.got
      PROVE  /\ SumOf(r.got["ratings"]) <= r.got["summary"].total
             /\ WholeStars(d, r.rq.of) => SumOf(r.got["ratings"]) = r.got["summary"].total
  <2>1. r.rq.of \in Books /\ d \in Database
    BY <1>1, <1>2, ServedFigure
  <2>2. r.got["summary"] = ReviewSummary(d, r.rq.of)
    BY <1>1, <1>2, ResultOfSummary
  <2>3. r.got["summary"].total = Cardinality(ReviewsOf(d, {r.rq.of}))
    BY <2>2 DEF ReviewSummary
  <2>4. r.got["ratings"] \in RatingDistributions(d, r.rq.of)
    BY <1>1, <1>2, ResultOfRatings
  <2>5. RatingsAddUp(d, r.rq.of, r.got["ratings"])
    BY <2>1, <2>4, RatingsRight
  <2>6. QED
    BY <2>3, <2>5 DEF RatingsAddUp
<1>3. ASSUME "publicReviews" \in DOMAIN r.got, "distribution" \in DOMAIN r.got
      PROVE  r.got["publicReviews"] <= SumOf(r.got["distribution"])
  BY <1>1, <1>3, ResultOfAuthor, DistributionRight
<1>4. ASSUME "booksWithReviews" \in DOMAIN r.got, "top" \in DOMAIN r.got
      PROVE  Fewer(TopBooks, r.got["booksWithReviews"]) <= Cardinality(DOMAIN r.got["top"])
  BY <1>1, <1>4, ResultOfTrend, ReviewedBooksRight
<1>5. ASSUME "monthly" \in DOMAIN r.got, "rates" \in DOMAIN r.got
      PROVE  r.got["monthly"] = [m \in DOMAIN r.got["rates"] |-> r.got["rates"][m].total]
  <2>1. /\ r.got["monthly"] = getMonthlyApplications(d, r.rq.of, TrendStart(r.rq.range, r.start))
        /\ r.got["rates"] = getApprovalRateOverTime(d, r.rq.of, TrendStart(r.rq.range, r.start))
    BY <1>1, <1>5, ResultOfTrend
  <2>2. QED
    BY <2>1, MonthlyRight
<1>6. ASSUME "allReviews" \in DOMAIN r.got, "booksWithReviews" \in DOMAIN r.got
      PROVE  r.got["booksWithReviews"] <= r.got["allReviews"]
  BY <1>1, <1>6, ResultOfTrend, ReviewedBooksRight
<1>7. ASSUME "readers" \in DOMAIN r.got, "newReaders" \in DOMAIN r.got
      PROVE  r.got["newReaders"] <= r.got["readers"].readers
  BY <1>1, <1>7, ResultOfReaders, NewReadersRight
<1>8. ASSUME "total" \in DOMAIN r.got, "approved" \in DOMAIN r.got
      PROVE  r.got["approved"] <= r.got["total"]
  BY <1>1, <1>8, ResultOfReaders, ApprovedRight
<1>9. QED
  BY <1>2, <1>3, <1>4, <1>5, <1>6, <1>7, <1>8 DEF Has

\* As long as the address requests of a reader do not overlap, the reader has at
\* most one primary address (create and update clear the mark of the others in a
\* statement of its own, before they save).
THEOREM PrimaryAddressUnique ==
  Spec => [](\A r \in Readers \ clashed : OnePrimary(Db, r))
<1>1. TypeInv /\ HomesInv => \A r \in Readers \ clashed : OnePrimary(Db, r)
  BY OneNow DEF TypeInv
<1>2. QED
  BY <1>1, TypeInit, TypeStep, HomesInit, HomesStep, PTL DEF Spec

\* The figures of a report that is served add up, however its statements
\* interleave with writes, and combined ones when there were none: the counts,
\* averages, distributions and breakdowns of the analytics helpers.
THEOREM ReportsAddUp == Spec => []FiguresAddUp
<1>1. TypeInv /\ ReportInv /\ HomesInv => FiguresAddUp
  BY StatementsHold, CombinedHold DEF FiguresAddUp
<1>2. Init => ReportInv
  BY DEF Init, CatalogInit, ReportInv, IsReport, Idle
<1>3. QED
  BY <1>1, <1>2, TypeInit, TypeStep, ReportStep, HomesInit, HomesStep, PTL DEF Spec
=============================================================================
