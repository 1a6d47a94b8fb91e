--------------------------- MODULE AnalyticsProofs ---------------------------
(***************************************************************************)
(* Proofs about the lists of Catalog and the reports of Analytics, for any *)
(* number of books, readers, handlers and writes in between.               *)
(***************************************************************************)
EXTENDS Analytics, FiniteSetTheorems, SequenceTheorems, TLAPS

-----------------------------------------------------------------------------
\* Types

Entry == [db : Database, now : Nat]

Moving == {m \in Movers : moves[m] # MoveIdle}

\* The log is never empty.  A move that has begun may write once more.
LogTyped ==
  /\ log \in Seq(Entry) /\ Len(log) >= 1
  /\ Len(log) + Cardinality(Moving) <= MaxLog + Cardinality(Movers)

\* What is asked for at each stage
ListStaged(r) ==
  /\ r.op = "prefs"   => r.q.kind = "recommended"
  /\ r.op = "follows" => r.q.kind = "followed"
  /\ r.op = "page"    => r.q.kind \in {"browse", "featured", "trending", "recommended", "followed"}
  /\ r.op = "count"   => r.q.kind \in {"browse", "recommended"}
  /\ r.op = "load"    => r.q.kind \in {"browse", "trending", "book", "mine"}
  /\ r.op = "applied" => r.q.kind \in {"book", "followed"}

ListTyped(r) ==
  /\ r \in ListRequest /\ r.q \in load.queries /\ ListStaged(r)
  /\ 1 <= r.from /\ r.from <= Len(log)
  /\ r.op = "done" => r.from <= r.to /\ r.to <= Len(log)

ReportShape(g) ==
  [op : {"get", "query", "set", "served", "failed"}, rq : Report, left : SUBSET STRING, got : {g},
   from : Nat, to : Nat, start : Nat, stored : Nat, at : Nat]

ReportTyped(r) ==
  /\ r \in ReportShape(r.got) /\ r.rq \in load.reports /\ r.left \subseteq r.rq.part
  /\ 1 <= r.from /\ r.from <= r.to /\ r.to <= Len(log)

ReqTyped(r) == r = Idle \/ ListTyped(r) \/ ReportTyped(r)

EntryShape(g) == [got : {g}, from : Nat, to : Nat, start : Nat, stored : Nat, until : Nat]

EntryTyped(e) ==
  /\ e \in EntryShape(e.got) /\ e.until = e.stored + TTL
  /\ 1 <= e.from /\ e.from <= e.to /\ e.to <= Len(log)

TypeInv ==
  /\ load \in Workloads /\ LogTyped
  /\ moves \in [Movers -> Moves] /\ clashed \subseteq Readers
  /\ req = [h \in Handlers |-> req[h]] /\ \A h \in Handlers : ReqTyped(req[h])
  /\ \A k \in DOMAIN cache : EntryTyped(cache[k])

\* The log is only appended to.
Grown == Len(log') >= Len(log) /\ \A i \in 1..Len(log) : log'[i] = log[i]

LEMMA LoadTyped ==
  ASSUME load \in Workloads
  PROVE  /\ load.db \in Database /\ load.queries \subseteq Query /\ load.handlers \subseteq Handlers
         /\ load.movers \subseteq Readers
         /\ \A q \in load.queries : q.kind \in {"followed", "mine"} => q.user \in Readers
         /\ \A q \in load.reports : q \in Report /\ q.part \in Parts(q.kind)
BY CatalogWorkloads, AnalyticsReports

LEMMA DbTyped ==
  ASSUME LogTyped
  PROVE  /\ Db \in Database /\ Now \in Nat /\ Len(log) \in Nat \ {0}
         /\ log[Len(log)] = [db |-> Db, now |-> Now]
<1>1. Len(log) \in Nat \ {0} /\ log[Len(log)] \in Entry
  BY DEF LogTyped
<1>2. QED
  BY <1>1 DEF Entry, Db, Now

\* What one more entry does to the log
LEMMA Appended ==
  ASSUME LogTyped, NEW d \in Database, NEW n \in Nat, log' = Append(log, [db |-> d, now |-> n])
  PROVE  /\ log' \in Seq(Entry) /\ Len(log') = Len(log) + 1 /\ Grown
         /\ log'[Len(log')] = [db |-> d, now |-> n]
<1>1. [db |-> d, now |-> n] \in Entry
  BY DEF Entry
<1>2. log \in Seq(Entry)
  BY DEF LogTyped
<1>3. /\ log' \in Seq(Entry) /\ Len(log') = Len(log) + 1
      /\ \A i \in 1..Len(log) : log'[i] = log[i]
      /\ log'[Len(log) + 1] = [db |-> d, now |-> n]
  BY <1>1, <1>2, AppendProperties
<1>4. QED
  BY <1>2, <1>3, LenProperties DEF Grown

LEMMA NotGrown ==
  ASSUME LogTyped, log' = log
  PROVE  Grown
BY DbTyped DEF Grown

-----------------------------------------------------------------------------
\* Writes keep the types of the rows

LEMMA BookTyped ==
  ASSUME NEW d \in Database, NEW b \in Books, d.books[b] # None
  PROVE  d.books[b] \in BookRow
BY DEF Database

LEMMA AppTyped ==
  ASSUME NEW d \in Database, NEW r \in Readers, NEW b \in Books, d.apps[<<r, b>>] # None
  PROVE  d.apps[<<r, b>>] \in AppRow
BY DEF Database

LEMMA BookWritten ==
  ASSUME NEW d \in Database, NEW b \in Books, NEW row \in BookRow \cup {None}
  PROVE  [d EXCEPT !.books[b] = row] \in Database
BY DEF Database

LEMMA AppWritten ==
  ASSUME NEW d \in Database, NEW r \in Readers, NEW b \in Books, NEW row \in AppRow \cup {None}
  PROVE  [d EXCEPT !.apps[<<r, b>>] = row] \in Database
BY DEF Database

LEMMA BookWritesTyped ==
  ASSUME LogTyped, NEW b \in Present(Db), NEW d \in BookWrites(Db, b)
  PROVE  d \in Database
<1> USE DbTyped
<1>0. b \in Books /\ Db.books[b] \in BookRow
  BY BookTyped DEF Present
<1>1. Published(Db, b) \in Database
  <2>1. [Db.books[b] EXCEPT !.status = "active", !.published = Now] \in BookRow
    BY <1>0 DEF BookRow, BookStatus
  <2>2. Published(Db, b) = [Db EXCEPT !.books[b] = [Db.books[b] EXCEPT !.status = "active", !.published = Now]]
    BY <1>0 DEF Published, Database
  <2>3. QED
    BY <1>0, <2>1, <2>2, BookWritten
<1>2. Closed(Db, b) \in Database
  <2>1. [Db.books[b] EXCEPT !.status = "in_progress"] \in BookRow
    BY <1>0 DEF BookRow, BookStatus
  <2>2. QED
    BY <1>0, <2>1, BookWritten DEF Closed
<1>3. SoldOut(Db, b) \in Database
  <2>1. [Db.books[b] EXCEPT !.copies = 0] \in BookRow
    BY <1>0 DEF BookRow
  <2>2. QED
    BY <1>0, <2>1, BookWritten DEF SoldOut
<1>4. Removed(Db, b) \in Database
  <2>1. [p \in DOMAIN Db.apps |-> IF p[2] = b THEN None ELSE Db.apps[p]]
          \in [Readers \X Books -> AppRow \cup {None}]
    BY DEF Database
  <2>2. [p \in DOMAIN Db.reviews |-> IF p[2] = b THEN None ELSE Db.reviews[p]]
          \in [Readers \X Books -> ReviewRow \cup {None}]
    BY DEF Database
  <2>3. [Db.books EXCEPT ![b] = None] \in [Books -> BookRow \cup {None}]
    BY DEF Database
  <2>4. QED
    BY <2>1, <2>2, <2>3 DEF Removed, Database
<1>5. QED
  BY <1>1, <1>2, <1>3, <1>4 DEF BookWrites

LEMMA ApplicationWritesTyped ==
  ASSUME LogTyped, NEW r \in Readers, NEW b \in Present(Db), NEW d \in ApplicationWrites(Db, r, b)
  PROVE  d \in Database
<1> USE DbTyped
<1>0. b \in Books /\ Db.books[b] \in BookRow
  BY BookTyped DEF Present
<1> DEFINE row == Db.apps[<<r, b>>]
<1>1. CASE row = None
  <2>1. [status |-> "pending", reading |-> "not_started", at |-> Now, answered |-> None,
         submitted |-> None] \in AppRow
    BY DEF AppRow, AppStatus, ReadingStatus
  <2>2. Requested(Db, r, b) \in Database
    BY <1>0, <2>1, AppWritten DEF Requested
  <2>3. QED
    BY <1>1, <2>2 DEF ApplicationWrites
<1>2. CASE row # None
  <2>1. row \in AppRow /\ Db.apps \in [Readers \X Books -> AppRow \cup {None}]
    BY <1>0, <1>2, AppTyped DEF Database
  <2>2. [row EXCEPT !.status = "withdrawn"] \in AppRow
    BY <2>1 DEF AppRow, AppStatus
  <2>3. /\ [row EXCEPT !.status = "approved", !.answered = Now] \in AppRow
        /\ [row EXCEPT !.status = "rejected", !.answered = Now] \in AppRow
    BY <2>1 DEF AppRow, AppStatus
  <2>4. [row EXCEPT !.reading = "reviewed", !.submitted = Now] \in AppRow
    BY <2>1 DEF AppRow, ReadingStatus
  <2>5. Withdrawn(Db, r, b) \in Database
    BY <1>0, <2>2, AppWritten DEF Withdrawn
  <2>6. Rejected(Db, r, b) \in Database
    <3>1. Rejected(Db, r, b)
            = [Db EXCEPT !.apps[<<r, b>>] = [row EXCEPT !.status = "rejected", !.answered = Now]]
      BY <1>0, <2>1 DEF Rejected, Database
    <3>2. QED
      BY <1>0, <2>3, <3>1, AppWritten
  <2>7. Db.books[b].copies > 0 => Approved(Db, r, b) \in Database
    <3> SUFFICES ASSUME Db.books[b].copies > 0
                 PROVE  Approved(Db, r, b) \in Database
      OBVIOUS
    <3> DEFINE e == [Db EXCEPT !.apps[<<r, b>>] = [row EXCEPT !.status = "approved", !.answered = Now]]
    <3>1. e \in Database /\ e.books = Db.books
      BY <1>0, <2>3, AppWritten DEF Database
    <3>2. [Db.books[b] EXCEPT !.copies = @ - 1] \in BookRow
      BY <1>0 DEF BookRow
    <3>3. Approved(Db, r, b) = [e EXCEPT !.books[b] = [Db.books[b] EXCEPT !.copies = @ - 1]]
      BY <1>0, <2>1, <3>1 DEF Approved, Database
    <3> HIDE DEF e
    <3>4. [e EXCEPT !.books[b] = [Db.books[b] EXCEPT !.copies = @ - 1]] \in Database
      BY <1>0, <3>1, <3>2, BookWritten
    <3>5. QED
      BY <3>3, <3>4
  <2>8. Reviewed(Db, r, b) \in Database
    <3> DEFINE review == [rating |-> 45, public |-> TRUE, type |-> "text", at |-> Now]
    <3>1. review \in ReviewRow
      BY DEF ReviewRow
    <3>2. [Db.reviews EXCEPT ![<<r, b>>] = review] \in [Readers \X Books -> ReviewRow \cup {None}]
      BY <1>0, <3>1 DEF Database
    <3> HIDE DEF review
    <3>3. [Db EXCEPT !.reviews = [Db.reviews EXCEPT ![<<r, b>>] = review]] \in Database
      BY <3>2 DEF Database
    <3>4. QED
      BY <3>3 DEF Reviewed, review
  <2>9. Submitted(Db, r, b) \in Database
    <3>1. Submitted(Db, r, b)
            = [Db EXCEPT !.apps[<<r, b>>] = [row EXCEPT !.reading = "reviewed", !.submitted = Now]]
      BY <1>0, <2>1 DEF Submitted, Database
    <3>2. QED
      BY <1>0, <2>4, <3>1, AppWritten
  <2>10. QED
    BY <1>2, <2>5, <2>6, <2>7, <2>8, <2>9 DEF ApplicationWrites
<1>3. QED
  BY <1>1, <1>2

LEMMA WithoutTyped ==
  ASSUME NEW s \in Seq(Genres), NEW i \in 1..Len(s)
  PROVE  Without(s, i) \in Seq(Genres)
<1>1. /\ SubSeq(s, 1, i - 1) \in Seq(Genres)
      /\ SubSeq(s, i + 1, Len(s)) \in Seq(Genres)
  OBVIOUS
<1>2. QED
  BY <1>1, ConcatProperties DEF Without

LEMMA ReaderWritesTyped ==
  ASSUME LogTyped, NEW r \in Readers, NEW d \in ReaderWrites(Db, r)
  PROVE  d \in Database
<1> USE DbTyped
<1>1. Db.prefs[r] \in Seq(Genres) /\ Db.follows[r] \in SUBSET Authors
  BY DEF Database
<1>2. ASSUME NEW p \in Seq(Genres)
      PROVE  [Db EXCEPT !.prefs[r] = p] \in Database
  BY <1>2 DEF Database
<1>3. ASSUME NEW A \in SUBSET Authors
      PROVE  [Db EXCEPT !.follows[r] = A] \in Database
  BY <1>3 DEF Database
<1>4. ASSUME NEW a \in Authors
      PROVE  Followed(Db, r, a) \in Database /\ Unfollowed(Db, r, a) \in Database
  <2>1. Db.follows[r] \cup {a} \in SUBSET Authors /\ Db.follows[r] \ {a} \in SUBSET Authors
    BY <1>1
  <2>2. QED
    BY <1>3, <2>1 DEF Followed, Unfollowed
<1>5. ASSUME NEW g \in Genres
      PROVE  Preferred(Db, r, g) \in Database /\ Dropped(Db, r, g) \in Database
  <2>1. <<g>> \o Db.prefs[r] \in Seq(Genres)
    BY <1>1, ConcatProperties, <<g>> \in Seq(Genres)
  <2>2. ASSUME \E i \in DOMAIN Db.prefs[r] : Db.prefs[r][i] = g
        PROVE  Without(Db.prefs[r], CHOOSE i \in DOMAIN Db.prefs[r] : Db.prefs[r][i] = g) \in Seq(Genres)
    <3>1. (CHOOSE i \in DOMAIN Db.prefs[r] : Db.prefs[r][i] = g) \in DOMAIN Db.prefs[r]
      BY <2>2
    <3>2. DOMAIN Db.prefs[r] = 1..Len(Db.prefs[r])
      BY <1>1
    <3>3. QED
      BY <1>1, <3>1, <3>2, WithoutTyped
  <2>3. Preferred(Db, r, g) \in Database
    BY <1>1, <1>2, <2>1 DEF Preferred
  <2>4. Dropped(Db, r, g) \in Database
    BY <1>1, <1>2, <2>2 DEF Dropped
  <2>5. QED
    BY <2>3, <2>4
<1>6. QED
  BY <1>4, <1>5 DEF ReaderWrites

LEMMA HomeWritten ==
  ASSUME LogTyped, NEW r \in Readers, NEW i, NEW home \in Home \cup {None}
  PROVE  [Db EXCEPT !.homes[r][i] = home] \in Database
<1>1. Db \in Database /\ Db.homes[r] \in [1..MaxHomes -> Home \cup {None}]
  BY DbTyped DEF Database
<1>2. [Db.homes[r] EXCEPT ![i] = home] \in [1..MaxHomes -> Home \cup {None}]
  BY <1>1
<1>3. QED
  BY <1>1, <1>2 DEF Database

LEMMA ClearedTyped ==
  ASSUME LogTyped, NEW r \in Readers, NEW keep
  PROVE  Cleared(Db, r, keep) \in Database
<1>1. Db \in Database /\ Db.homes[r] \in [1..MaxHomes -> Home \cup {None}]
  BY DbTyped DEF Database
<1> DEFINE homes == [i \in DOMAIN Db.homes[r] |->
                       IF Db.homes[r][i] = None \/ i \in keep THEN Db.homes[r][i]
                       ELSE [Db.homes[r][i] EXCEPT !.primary = FALSE]]
<1>2. homes \in [1..MaxHomes -> Home \cup {None}]
  <2>1. ASSUME NEW i \in 1..MaxHomes, Db.homes[r][i] # None
        PROVE  [Db.homes[r][i] EXCEPT !.primary = FALSE] \in Home
    BY <1>1, <2>1 DEF Home
  <2>2. QED
    BY <1>1, <2>1
<1> HIDE DEF homes
<1>3. [Db EXCEPT !.homes[r] = homes] \in Database
  BY <1>1, <1>2 DEF Database
<1>4. QED
  BY <1>3 DEF Cleared, homes

-----------------------------------------------------------------------------
\* The log after each step

LEMMA MovingFinite == IsFiniteSet(Moving) /\ Cardinality(Moving) \in Nat
                      /\ Cardinality(Movers) \in Nat /\ Cardinality(Moving) <= Cardinality(Movers)
BY CatalogFinite, Moving \subseteq Movers, FS_Subset, FS_CardinalityType DEF Moving

\* A write with nothing under way that is new
LEMMA OneWrite ==
  ASSUME LogTyped, Len(log) < MaxLog, NEW d \in Database, NEW n \in Nat, Moving' \subseteq Movers,
         log' = Append(log, [db |-> d, now |-> n])
  PROVE  LogTyped' /\ Grown
<1>1. /\ log' \in Seq(Entry) /\ Len(log') = Len(log) + 1 /\ Grown
  BY Appended
<1>2. Cardinality(Moving') \in Nat /\ Cardinality(Movers) \in Nat
      /\ Cardinality(Moving') <= Cardinality(Movers)
  BY CatalogFinite, FS_Subset, FS_CardinalityType
<1>3. MaxLog \in Nat /\ Len(log) \in Nat
  BY CatalogBounds, DbTyped
<1>4. QED
  BY <1>1, <1>2, <1>3 DEF LogTyped

LEMMA MoveStarted ==
  ASSUME TypeInv, NEW m \in Movers, NEW r \in Readers, NEW move \in Moves, MoveStart(m, r, move),
         log' = log \/ \E d \in Database : Write(d)
  PROVE  LogTyped' /\ Grown /\ moves' \in [Movers -> Moves] /\ clashed' \subseteq Readers
<1>1. moves' \in [Movers -> Moves] /\ clashed' \subseteq Readers
  BY DEF TypeInv, MoveStart
<1>2. LogTyped /\ Len(log) < MaxLog /\ Moving' \subseteq Movers
  BY DEF TypeInv, MoveStart, Moving
<1>3. CASE \E d \in Database : Write(d)
  BY <1>1, <1>2, <1>3, OneWrite, DbTyped DEF Write
<1>4. CASE log' = log
  <2>1. /\ Cardinality(Moving') \in Nat /\ Cardinality(Movers) \in Nat
        /\ Cardinality(Moving') <= Cardinality(Movers)
    BY <1>2, CatalogFinite, FS_Subset, FS_CardinalityType
  <2>2. Len(log) \in Nat /\ MaxLog \in Nat
    BY <1>2, DbTyped, CatalogBounds
  <2>3. QED
    BY <1>1, <1>2, <1>4, <2>1, <2>2, NotGrown DEF LogTyped
<1>5. QED
  BY <1>3, <1>4

LEMMA AddressSaved ==
  ASSUME TypeInv, NEW m \in Movers, AddressSave(m)
  PROVE  LogTyped' /\ Grown /\ moves' \in [Movers -> Moves]
<1>1. moves[m] \in Moves /\ moves[m] # MoveIdle /\ moves' = [moves EXCEPT ![m] = MoveIdle]
  BY DEF TypeInv, AddressSave
<1>2. moves[m].reader \in Readers /\ moves[m].home \in Home
  BY <1>1 DEF Moves
<1>3. PICK d \in Database : log' = Append(log, [db |-> d, now |-> Now])
  BY <1>2, HomeWritten DEF TypeInv, AddressSave, Write
<1>4. LogTyped /\ Now \in Nat /\ Len(log) \in Nat
  BY DbTyped DEF TypeInv
<1>5. log' \in Seq(Entry) /\ Len(log') = Len(log) + 1 /\ Grown
  BY <1>3, <1>4, Appended
<1>6. moves' \in [Movers -> Moves] /\ Moving' = Moving \ {m} /\ m \in Moving
  BY <1>1 DEF TypeInv, Moving, Moves
<1>7. Cardinality(Moving') = Cardinality(Moving) - 1
  BY <1>6, MovingFinite, FS_RemoveElement
<1>8. QED
  BY <1>4, <1>5, <1>6, <1>7, MovingFinite, CatalogBounds DEF LogTyped

LEMMA AddressesTyped ==
  ASSUME TypeInv, Addresses
  PROVE  /\ LogTyped' /\ Grown /\ moves' \in [Movers -> Moves] /\ clashed' \subseteq Readers
         /\ req' = req /\ load' = load
<1> USE DEF TypeInv
<1>0. load.movers \subseteq Readers
  BY LoadTyped
<1>1. ASSUME NEW m \in Movers, NEW r \in load.movers, NEW home \in Home, AddressCreate(m, r, home)
      PROVE  /\ LogTyped' /\ Grown /\ moves' \in [Movers -> Moves] /\ clashed' \subseteq Readers
             /\ req' = req /\ load' = load
  <2>1. [op |-> "insert", reader |-> r, row |-> None, home |-> home] \in Moves
    BY <1>0, <1>1 DEF Moves
  <2>2. log' = log \/ \E d \in Database : Write(d)
    BY <1>0, <1>1, ClearedTyped DEF AddressCreate
  <2>3. QED
    BY <1>0, <1>1, <2>1, <2>2, MoveStarted DEF AddressCreate, MoveStart
<1>2. ASSUME NEW m \in Movers, NEW r \in load.movers, NEW home \in Home, NEW i \in 1..MaxHomes,
             AddressUpdate(m, r, i, home)
      PROVE  /\ LogTyped' /\ Grown /\ moves' \in [Movers -> Moves] /\ clashed' \subseteq Readers
             /\ req' = req /\ load' = load
  <2>1. [op |-> "save", reader |-> r, row |-> i, home |-> home] \in Moves
    BY <1>0, <1>2 DEF Moves
  <2>2. log' = log \/ \E d \in Database : Write(d)
    BY <1>0, <1>2, ClearedTyped DEF AddressUpdate
  <2>3. QED
    BY <1>0, <1>2, <2>1, <2>2, MoveStarted DEF AddressUpdate, MoveStart
<1>3. ASSUME NEW r \in load.movers, NEW i \in 1..MaxHomes, AddressRemove(r, i)
      PROVE  /\ LogTyped' /\ Grown /\ moves' \in [Movers -> Moves] /\ clashed' \subseteq Readers
             /\ req' = req /\ load' = load
  <2>1. /\ [Db EXCEPT !.homes[r][i] = None] \in Database /\ Now \in Nat
        /\ Moving' \subseteq Movers
    BY <1>0, HomeWritten, DbTyped DEF Moving
  <2>2. QED
    BY <1>3, <2>1, OneWrite DEF AddressRemove, Write
<1>4. QED
  BY <1>1, <1>2, <1>3, AddressSaved DEF Addresses, AddressSave

LEMMA OtherWriteTyped ==
  ASSUME TypeInv, OtherWrite \/ Tick
  PROVE  LogTyped' /\ Grown /\ UNCHANGED <<req, moves, clashed, load>>
<1>1. LogTyped /\ Db \in Database /\ Now \in Nat /\ Now + 1 \in Nat /\ Moving' \subseteq Movers
  BY DbTyped DEF TypeInv, Moving
<1>2. CASE OtherWrite
  <2>1. PICK d \in OtherWrites(Db) : Write(d)
    BY <1>2 DEF OtherWrite
  <2>2. d \in Database
    BY <1>1, <2>1, BookWritesTyped, ApplicationWritesTyped, ReaderWritesTyped DEF OtherWrites
  <2>3. QED
    BY <1>1, <1>2, <2>1, <2>2, OneWrite DEF OtherWrite, Write
<1>3. CASE Tick
  BY <1>1, <1>3, OneWrite DEF Tick
<1>4. QED
  BY <1>2, <1>3

-----------------------------------------------------------------------------
\* Requests in flight

LEMMA GrownTyped ==
  ASSUME LogTyped, LogTyped', Grown, load' = load
  PROVE  /\ \A r : ReqTyped(r) => ReqTyped(r)'
         /\ \A e : EntryTyped(e) => EntryTyped(e)'
<1>1. Len(log') >= Len(log) /\ Len(log) \in Nat /\ Len(log') \in Nat
  BY DEF Grown, LogTyped
<1>2. ASSUME NEW r, ListTyped(r)
      PROVE  ListTyped(r)'
  <2>1. r.from \in Nat /\ r.to \in Nat
    BY <1>2 DEF ListTyped, ListRequest
  <2>2. QED
    BY <1>1, <1>2, <2>1 DEF ListTyped, ListStaged
<1>3. ASSUME NEW r, ReportTyped(r)
      PROVE  ReportTyped(r)'
  <2>1. r.from \in Nat /\ r.to \in Nat
    BY <1>3 DEF ReportTyped, ReportShape
  <2>2. QED
    BY <1>1, <1>3, <2>1 DEF ReportTyped
<1>4. ASSUME NEW e, EntryTyped(e)
      PROVE  EntryTyped(e)'
  <2>1. e.from \in Nat /\ e.to \in Nat
    BY <1>4 DEF EntryTyped, EntryShape
  <2>2. QED
    BY <1>1, <1>4, <2>1 DEF EntryTyped
<1>5. QED
  BY <1>2, <1>3, <1>4 DEF ReqTyped

LEMMA ReqAt ==
  ASSUME TypeInv, NEW h \in Handlers
  PROVE  /\ req[h].op \in {"prefs", "follows", "page", "count", "load", "applied", "done"} => ListTyped(req[h])
         /\ req[h].op \in {"get", "query", "set", "served"} => ReportTyped(req[h])
<1>1. ReqTyped(req[h])
  BY DEF TypeInv
<1>2. Idle.op = "idle"
  BY DEF Idle
<1>3. ListTyped(req[h]) => req[h].op \notin {"get", "query", "set", "served"}
  BY DEF ListTyped, ListRequest
<1>4. ReportTyped(req[h]) => req[h].op \in {"get", "query", "set", "served", "failed"}
  BY DEF ReportTyped, ReportShape
<1>5. QED
  BY <1>1, <1>2, <1>3, <1>4 DEF ReqTyped

\* A list request without the fields that its handler changes
LEMMA ListMoved ==
  ASSUME TypeInv, NEW r, ListTyped(r), NEW x \in ListRequest, x.q = r.q, x.from = r.from, ListStaged(x),
         x.op # "done" \/ x.to = Len(log)
  PROVE  ListTyped(x)
BY DbTyped DEF ListTyped, TypeInv, ListRequest

LEMMA WhereTyped ==
  ASSUME NEW d, NEW n, NEW r
  PROVE  Where(d, n, r) \subseteq Books /\ IsFiniteSet(Where(d, n, r)) /\ Cardinality(Where(d, n, r)) \in Nat
<1>1. Where(d, n, r) \subseteq Books
  BY DEF Where
<1>2. QED
  BY <1>1, CatalogFinite, FS_Subset, FS_CardinalityType

LEMMA SanitizedTyped ==
  ASSUME NEW r, NEW S \in SUBSET Books
  PROVE  SanitizedAll(r, S) \in SUBSET Item
<1>1. ASSUME NEW b \in S
      PROVE  Sanitized(r.q.user, b) \in Item
  <2>1. (r.q.user = AuthorOf[b]) \in BOOLEAN
    OBVIOUS
  <2>2. QED
    BY <2>1 DEF Sanitized, Item
<1>2. QED
  BY <1>1 DEF SanitizedAll

LEMMA AnswerTyped ==
  ASSUME TypeInv, NEW r, ListTyped(r), NEW items \in SUBSET Item
  PROVE  ListTyped(Answer(r, items))
<1>1. /\ Answer(r, items) \in ListRequest
      /\ Answer(r, items).q = r.q /\ Answer(r, items).from = r.from
      /\ Answer(r, items).op = "done" /\ Answer(r, items).to = Len(log)
  BY DbTyped DEF Answer, ListTyped, ListRequest, TypeInv
<1>2. QED
  BY <1>1, ListMoved DEF ListStaged

LEMMA PagedTyped ==
  ASSUME TypeInv, NEW r, ListTyped(r), r.op = "page", NEW P \in SUBSET Books
  PROVE  ListTyped(Paged(r, P))
<1>1. r \in ListRequest /\ r.q.kind \in {"browse", "featured", "trending", "recommended", "followed"}
  BY DEF ListTyped, ListStaged
<1> DEFINE items == SanitizedAll(r, P)
<1> DEFINE all == [r EXCEPT !.ids = P, !.items = items]
<1>2. items \in SUBSET Item
  BY SanitizedTyped
<1> HIDE DEF items
<1>3. /\ all \in ListRequest /\ all.q = r.q /\ all.from = r.from /\ all.items = items
  BY <1>1, <1>2 DEF ListRequest
<1>4. ASSUME NEW op \in {"applied", "count"}
      PROVE  /\ [all EXCEPT !.op = op] \in ListRequest /\ [all EXCEPT !.op = op].op = op
             /\ [all EXCEPT !.op = op].q = r.q /\ [all EXCEPT !.op = op].from = r.from
  BY <1>3 DEF ListRequest
<1>5. /\ [r EXCEPT !.op = "failed"] \in ListRequest /\ [r EXCEPT !.op = "failed"].op = "failed"
      /\ [r EXCEPT !.op = "failed"].q = r.q /\ [r EXCEPT !.op = "failed"].from = r.from
  BY <1>1 DEF ListRequest
<1>6. /\ [r EXCEPT !.op = "load", !.ids = P] \in ListRequest
      /\ [r EXCEPT !.op = "load", !.ids = P].op = "load"
      /\ [r EXCEPT !.op = "load", !.ids = P].q = r.q
      /\ [r EXCEPT !.op = "load", !.ids = P].from = r.from
  BY <1>1 DEF ListRequest
<1>7. ListTyped(Answer(r, items))
  BY <1>2, AnswerTyped
<1>8. CASE r.q.kind = "followed" /\ P = {}
  <2>1. Paged(r, P) = [r EXCEPT !.op = "failed"]
    BY <1>8 DEF Paged
  <2>2. QED
    BY <1>5, <2>1, ListMoved DEF ListStaged
<1>9. CASE r.q.kind = "followed" /\ P # {}
  <2>1. Paged(r, P) = [all EXCEPT !.op = "applied"]
    BY <1>9 DEF Paged, items
  <2>2. QED
    BY <1>4, <1>9, <2>1, ListMoved DEF ListStaged
<1>10. CASE r.q.kind = "recommended" \/ (r.q.kind = "browse" /\ ~needsCustomSql(r.q))
  <2>1. Paged(r, P) = [all EXCEPT !.op = "count"]
    BY <1>10 DEF Paged, items
  <2>2. QED
    BY <1>4, <1>10, <2>1, ListMoved DEF ListStaged
<1>11. CASE r.q.kind \in {"featured", "trending"} \/ (r.q.kind = "browse" /\ needsCustomSql(r.q))
  <2>1. CASE r.q.kind = "featured" \/ P = {}
    <3>1. Paged(r, P) = Answer(r, all.items)
      BY <1>11, <2>1 DEF Paged, items
    <3>2. QED
      BY <1>3, <1>7, <3>1
  <2>2. CASE ~(r.q.kind = "featured" \/ P = {})
    <3>1. Paged(r, P) = [r EXCEPT !.op = "load", !.ids = P]
      BY <1>11, <2>2 DEF Paged, items
    <3>2. QED
      BY <1>6, <1>11, <2>2, <3>1, ListMoved DEF ListStaged
  <2>3. QED
    BY <2>1, <2>2
<1>12. QED
  BY <1>1, <1>8, <1>9, <1>10, <1>11

LEMMA CountedTyped ==
  ASSUME TypeInv, NEW r, ListTyped(r), r.op = "count", NEW n \in Nat
  PROVE  ListTyped(Counted(r, n))
<1>1. r \in ListRequest /\ r.q.kind \in {"browse", "recommended"} /\ r.items \in SUBSET Item
  BY DEF ListTyped, ListStaged, ListRequest
<1>2. CASE r.q.kind = "browse" /\ needsCustomSql(r.q)
  <2>1. Counted(r, n) = [r EXCEPT !.op = "page", !.total = n]
    BY <1>2 DEF Counted
  <2>2. /\ Counted(r, n) \in ListRequest /\ Counted(r, n).op = "page"
        /\ Counted(r, n).q = r.q /\ Counted(r, n).from = r.from
    BY <1>1, <2>1 DEF ListRequest
  <2>3. QED
    BY <1>2, <2>2, ListMoved DEF ListStaged
<1>3. CASE r.q.kind = "recommended" /\ r.items = {} /\ r.by # {}
  <2>1. Counted(r, n) = [r EXCEPT !.op = "page", !.by = {}]
    BY <1>3 DEF Counted
  <2>2. /\ Counted(r, n) \in ListRequest /\ Counted(r, n).op = "page"
        /\ Counted(r, n).q = r.q /\ Counted(r, n).from = r.from
    BY <1>1, <2>1 DEF ListRequest
  <2>3. QED
    BY <1>3, <2>2, ListMoved DEF ListStaged
<1>4. CASE /\ ~(r.q.kind = "browse" /\ needsCustomSql(r.q))
           /\ ~(r.q.kind = "recommended" /\ r.items = {} /\ r.by # {})
  <2>1. Counted(r, n) = [Answer(r, r.items) EXCEPT !.total = n]
    BY <1>4 DEF Counted
  <2>2. ListTyped(Answer(r, r.items)) /\ Answer(r, r.items).op = "done"
        /\ Answer(r, r.items).to = Len(log) /\ Answer(r, r.items).q = r.q
        /\ Answer(r, r.items).from = r.from
    BY <1>1, AnswerTyped DEF Answer, ListRequest
  <2>3. /\ Counted(r, n) \in ListRequest /\ Counted(r, n).op = "done" /\ Counted(r, n).to = Len(log)
        /\ Counted(r, n).q = r.q /\ Counted(r, n).from = r.from
    BY <2>1, <2>2 DEF ListTyped, ListRequest
  <2>4. QED
    BY <2>3, ListMoved DEF ListStaged
<1>5. QED
  BY <1>2, <1>3, <1>4

LEMMA BecomesTyped ==
  ASSUME TypeInv, NEW h \in Handlers, NEW x, ReqTyped(x), Becomes(h, x),
         UNCHANGED <<log, moves, clashed, load>>, \A k \in DOMAIN cache' : EntryTyped(cache'[k])
  PROVE  TypeInv'
<1>1. req' = [g \in Handlers |-> req'[g]] /\ \A g \in Handlers : req'[g] = (IF g = h THEN x ELSE req[g])
  BY DEF Becomes, TypeInv
<1>2. \A r : ReqTyped(r) => ReqTyped(r)'
  BY DEF ReqTyped, ListTyped, ReportTyped
<1>3. /\ \A k \in DOMAIN cache' : EntryTyped(cache[k])'
      /\ LogTyped => LogTyped'
  BY DEF EntryTyped, LogTyped, Moving
<1>4. \A g \in Handlers : ReqTyped(req[g])'
  BY <1>1, <1>2 DEF TypeInv, ReqTyped, ListTyped, ReportTyped
<1>5. QED
  BY <1>1, <1>3, <1>4 DEF TypeInv

LEMMA ListStartTyped ==
  ASSUME TypeInv, NEW h \in Handlers, NEW q \in load.queries, ListStart(h, q)
  PROVE  \E x : ListTyped(x) /\ Becomes(h, x)
<1> DEFINE x == [op |-> IF q.kind = "browse" /\ needsCustomSql(q) THEN "count" ELSE FirstStep(q.kind),
                 q |-> q, by |-> {}, ids |-> {}, items |-> {}, total |-> 0,
                 from |-> Len(log), to |-> Len(log)]
<1>1. q \in Query
  BY LoadTyped DEF TypeInv
<1>2. /\ q.kind \in {"browse", "featured", "trending", "recommended", "followed", "book", "mine"}
  BY <1>1 DEF Query
<1>3. FirstStep(q.kind) \in {"prefs", "follows", "load", "page"}
      /\ (FirstStep(q.kind) = "prefs" => q.kind = "recommended")
      /\ (FirstStep(q.kind) = "follows" => q.kind = "followed")
      /\ (FirstStep(q.kind) = "load" => q.kind \in {"book", "mine"})
      /\ (FirstStep(q.kind) = "page" => q.kind \in {"browse", "featured", "trending"})
  BY <1>2 DEF FirstStep
<1>4. x \in ListRequest /\ ListStaged(x)
  BY <1>1, <1>3, DbTyped DEF TypeInv, ListRequest, ListStaged
<1>5. ListTyped(x)
  BY <1>4, DbTyped DEF ListTyped, TypeInv, ListRequest
<1>6. QED
  BY <1>5 DEF ListStart

LEMMA ListsTyped ==
  ASSUME TypeInv, NEW h \in Handlers, Lists(h)
  PROVE  (\E x : ListTyped(x) /\ Becomes(h, x)) /\ UNCHANGED <<log, moves, clashed, load>>
<1> DEFINE r == req[h]
<1>0. Db \in Database
  BY DbTyped DEF TypeInv
<1>1. CASE \E q \in load.queries : ListStart(h, q)
  BY <1>1, ListStartTyped DEF ListStart
<1>2. CASE ReadPreferences(h)
  <2>1. ListTyped(r) /\ r \in ListRequest
    BY <1>2, ReqAt DEF ReadPreferences, ListTyped
  <2>2. PICK by : /\ by \in SUBSET Genres
                  /\ Becomes(h, [r EXCEPT !.op = "page", !.by = by])
    <3>1. ASSUME NEW u \in Readers
          PROVE  {Db.prefs[u][i] : i \in 1..Fewer(5, Len(Db.prefs[u]))} \in SUBSET Genres
      <4>1. Db.prefs[u] \in Seq(Genres)
        BY <1>0 DEF Database
      <4>2. 1..Fewer(5, Len(Db.prefs[u])) \subseteq 1..Len(Db.prefs[u])
        BY <4>1 DEF Fewer
      <4>3. QED
        BY <4>1, <4>2
    <3>2. QED
      BY <1>2, <3>1 DEF ReadPreferences
  <2>3. /\ [r EXCEPT !.op = "page", !.by = by] \in ListRequest
        /\ [r EXCEPT !.op = "page", !.by = by].op = "page"
        /\ [r EXCEPT !.op = "page", !.by = by].q = r.q
        /\ [r EXCEPT !.op = "page", !.by = by].from = r.from
    BY <2>1, <2>2 DEF ListRequest
  <2>4. r.q.kind = "recommended"
    BY <1>2, <2>1 DEF ReadPreferences, ListTyped, ListStaged
  <2>5. ListTyped([r EXCEPT !.op = "page", !.by = by])
    BY <2>1, <2>3, <2>4, ListMoved DEF ListStaged
  <2>6. QED
    BY <1>2, <2>2, <2>5 DEF ReadPreferences
<1>3. CASE ReadFollows(h)
  <2>1. ListTyped(r) /\ r \in ListRequest /\ r.q.kind = "followed" /\ r.q.user \in Readers
    BY <1>3, ReqAt, LoadTyped DEF ReadFollows, ListTyped, ListStaged, TypeInv
  <2> DEFINE A == Db.follows[r.q.user]
  <2> DEFINE x == [r EXCEPT !.op = "page", !.by = A]
  <2>2. A \in SUBSET Authors
    BY <1>0, <2>1 DEF Database
  <2>3. ListTyped(Answer(r, {}))
    BY <2>1, AnswerTyped
  <2>4. /\ x \in ListRequest /\ x.op = "page" /\ x.q = r.q /\ x.from = r.from
    <3> HIDE DEF A
    <3>1. QED
      BY <2>1, <2>2 DEF ListRequest
  <2>5. ListTyped(x)
    BY <2>1, <2>4, ListMoved DEF ListStaged
  <2>6. Becomes(h, IF A = {} THEN Answer(r, {}) ELSE x)
    BY <1>3 DEF ReadFollows
  <2>7. QED
    BY <1>3, <2>3, <2>5, <2>6 DEF ReadFollows
<1>4. CASE SelectPage(h)
  <2>1. ListTyped(r) /\ r.op = "page"
    BY <1>4, ReqAt DEF SelectPage
  <2>2. PICK P \in PagesOf(Where(Db, Now, r), Db, Now, r.q, SkipOf(r.q), TakeOf(r.q)) :
          Becomes(h, Paged(r, P))
    BY <1>4 DEF SelectPage
  <2>3. P \in SUBSET Books
    BY <2>2, WhereTyped DEF PagesOf
  <2>4. QED
    BY <1>4, <2>1, <2>2, <2>3, PagedTyped DEF SelectPage
<1>5. CASE CountAll(h)
  <2>1. ListTyped(r) /\ r.op = "count"
    BY <1>5, ReqAt DEF CountAll
  <2>2. QED
    BY <1>5, <2>1, WhereTyped, CountedTyped DEF CountAll
<1>6. CASE LoadBooks(h)
  <2>1. ListTyped(r) /\ r.ids \cap Present(Db) \in SUBSET Books
    BY <1>6, ReqAt DEF LoadBooks, Present
  <2>2. QED
    BY <1>6, <2>1, SanitizedTyped, AnswerTyped DEF LoadBooks
<1>7. CASE LoadApplications(h)
  <2>1. ListTyped(r)
    BY <1>7, ReqAt DEF LoadApplications
  <2> DEFINE items == {[book |-> b, files |-> ~shouldSanitizeBook(Db.apps[<<r.q.user, b>>])] :
                         b \in {x \in Books : r.q.user \in Applied(Db, x)}}
  <2>2. items \in SUBSET Item
    <3>1. ASSUME NEW b \in Books
          PROVE  [book |-> b, files |-> ~shouldSanitizeBook(Db.apps[<<r.q.user, b>>])] \in Item
      BY DEF Item
    <3>2. QED
      BY <3>1
  <2>3. Becomes(h, Answer(r, items))
    BY <1>7 DEF LoadApplications
  <2> HIDE DEF items
  <2>4. QED
    BY <1>7, <2>1, <2>2, <2>3, AnswerTyped DEF LoadApplications
<1>8. CASE LoadBook(h)
  <2>1. ListTyped(r) /\ r \in ListRequest /\ r.q.kind = "book" /\ r.q.book \in Books
    BY <1>8, ReqAt DEF LoadBook, ListTyped, ListRequest, Query
  <2> DEFINE items == SanitizedAll(r, {r.q.book})
  <2>2. items \in SUBSET Item
    BY <2>1, SanitizedTyped
  <2> HIDE DEF items
  <2>3. /\ [r EXCEPT !.op = "failed"] \in ListRequest /\ [r EXCEPT !.op = "failed"].op = "failed"
        /\ [r EXCEPT !.op = "failed"].q = r.q /\ [r EXCEPT !.op = "failed"].from = r.from
    BY <2>1 DEF ListRequest
  <2>4. /\ [r EXCEPT !.op = "applied", !.items = items] \in ListRequest
        /\ [r EXCEPT !.op = "applied", !.items = items].op = "applied"
        /\ [r EXCEPT !.op = "applied", !.items = items].q = r.q
        /\ [r EXCEPT !.op = "applied", !.items = items].from = r.from
    BY <2>1, <2>2 DEF ListRequest
  <2>5. /\ ListTyped([r EXCEPT !.op = "failed"])
        /\ ListTyped([r EXCEPT !.op = "applied", !.items = items])
    BY <2>1, <2>3, <2>4, ListMoved DEF ListStaged
  <2>6. Becomes(h, IF r.q.book \notin Present(Db) THEN [r EXCEPT !.op = "failed"]
                   ELSE [r EXCEPT !.op = "applied", !.items = items])
    BY <1>8 DEF LoadBook, items
  <2>7. QED
    BY <1>8, <2>5, <2>6 DEF LoadBook
<1>9. CASE ShowFile(h)
  <2>1. ListTyped(r) /\ r.items \in SUBSET Item
    BY <1>9, ReqAt DEF ShowFile, ListTyped, ListRequest
  <2> DEFINE shown == {[i EXCEPT !.files = @ \/ checkUserApplicationStatus(Db, r.q.user, i.book)] :
                         i \in r.items}
  <2>2. shown \in SUBSET Item
    <3>1. ASSUME NEW i \in Item
          PROVE  [i EXCEPT !.files = @ \/ checkUserApplicationStatus(Db, r.q.user, i.book)] \in Item
      BY DEF Item
    <3>2. QED
      BY <2>1, <3>1
  <2>3. Becomes(h, Answer(r, shown))
    BY <1>9 DEF ShowFile
  <2> HIDE DEF shown
  <2>4. QED
    BY <1>9, <2>1, <2>2, <2>3, AnswerTyped DEF ShowFile
<1>10. CASE CutFollowed(h)
  <2>1. ListTyped(r) /\ r.items \in SUBSET Item
    BY <1>10, ReqAt DEF CutFollowed, ListTyped, ListRequest
  <2>2. QED
    BY <1>10, <2>1, AnswerTyped DEF CutFollowed, kSubset
<1>11. QED
  BY <1>1, <1>2, <1>3, <1>4, <1>5, <1>6, <1>7, <1>8, <1>9, <1>10 DEF Lists

LEMMA HitTyped ==
  ASSUME TypeInv, NEW h \in Handlers, Hit(h)
  PROVE  \E x : ReportTyped(x) /\ Becomes(h, x)
<1> DEFINE r == req[h]
<1>1. ReportTyped(r) /\ r \in ReportShape(r.got) /\ Now \in Nat
  BY ReqAt, DbTyped DEF Hit, ReportTyped, TypeInv
<1> DEFINE entry == cache[KeyOf(r.rq)]
<1>2. EntryTyped(entry) /\ entry \in EntryShape(entry.got)
  BY DEF Hit, Fresh, TypeInv, EntryTyped
<1> DEFINE x == [r EXCEPT !.op = "served", !.left = {}, !.got = entry.got, !.from = entry.from,
                          !.to = entry.to, !.start = entry.start, !.stored = entry.stored, !.at = Now]
<1>3. Becomes(h, x)
  BY DEF Hit
<1> HIDE DEF entry
<1>4. /\ x \in ReportShape(x.got) /\ x.rq = r.rq /\ x.left = {}
      /\ x.from = entry.from /\ x.to = entry.to
  BY <1>1, <1>2 DEF ReportShape, EntryShape
<1>5. ReportTyped(x)
  BY <1>1, <1>2, <1>4 DEF ReportTyped, EntryTyped
<1>6. QED
  BY <1>3, <1>5

\* A report after statement s
Returned(r, s, result) ==
  LET got  == Entered(r.got, s, result)
      left == r.left \ {s}
  IN  IF left = {} THEN [Loaded(r, got) EXCEPT !.left = {}]
      ELSE [r EXCEPT !.left = left, !.got = got]

LEMMA StatementTyped ==
  ASSUME TypeInv, NEW h \in Handlers, Statement(h)
  PROVE  \E x : ReportTyped(x) /\ Becomes(h, x)
<1> DEFINE r == req[h]
<1>1. ReportTyped(r) /\ r \in ReportShape(r.got) /\ Now \in Nat /\ Len(log) \in Nat /\ r.left \in SUBSET STRING
  BY ReqAt, DbTyped DEF Statement, ReportTyped, TypeInv, ReportShape
<1>2. PICK s \in r.left : \E result : Becomes(h, Returned(r, s, result))
  BY DEF Statement, Returned
<1>3. PICK result : Becomes(h, Returned(r, s, result))
  BY <1>2
<1> DEFINE got  == Entered(r.got, s, result)
<1> DEFINE left == r.left \ {s}
<1>4. left \in SUBSET STRING /\ left \subseteq r.rq.part
  BY <1>1 DEF ReportTyped
<1>5. Becomes(h, IF left = {} THEN [Loaded(r, got) EXCEPT !.left = {}]
                 ELSE [r EXCEPT !.left = left, !.got = got])
  BY <1>3 DEF Returned
<1> HIDE DEF got, left
<1>6. ReportTyped([r EXCEPT !.left = left, !.got = got])
  <2> DEFINE x == [r EXCEPT !.left = left, !.got = got]
  <2>1. x \in ReportShape(x.got) /\ x.rq = r.rq /\ x.left = left /\ x.from = r.from /\ x.to = r.to
    BY <1>1, <1>4 DEF ReportShape
  <2>2. QED
    BY <1>1, <1>4, <2>1 DEF ReportTyped
<1>7. ReportTyped([Loaded(r, got) EXCEPT !.left = {}])
  <2> DEFINE op == IF "book" \in DOMAIN got /\ got["book"] = None THEN "failed"
                   ELSE IF Cached(r.rq.kind) THEN "set" ELSE "served"
  <2> DEFINE x == [r EXCEPT !.got = got, !.to = Len(log), !.stored = Now, !.at = Now, !.op = op]
  <2>1. op \in {"get", "query", "set", "served", "failed"}
    OBVIOUS
  <2> DEFINE y == [x EXCEPT !.left = {}]
  <2>2. [Loaded(r, got) EXCEPT !.left = {}] = y
    BY DEF Loaded
  <2> HIDE DEF op
  <2>3. y \in ReportShape(y.got) /\ y.rq = r.rq /\ y.left = {} /\ y.from = r.from /\ y.to = Len(log)
    BY <1>1, <2>1 DEF ReportShape
  <2> HIDE DEF y
  <2>4. r.from <= Len(log) /\ 1 <= r.from
    BY <1>1 DEF ReportTyped, ReportShape
  <2>5. ReportTyped(y)
    BY <1>1, <2>3, <2>4 DEF ReportTyped
  <2>6. QED
    BY <2>2, <2>5
<1>8. QED
  BY <1>5, <1>6, <1>7

LEMMA StoreTyped ==
  ASSUME TypeInv, NEW h \in Handlers, Store(h)
  PROVE  (\E x : ReportTyped(x) /\ Becomes(h, x)) /\ \A k \in DOMAIN cache' : EntryTyped(cache'[k])
<1> DEFINE r == req[h]
<1>1. ReportTyped(r) /\ r \in ReportShape(r.got) /\ Now \in Nat /\ TTL \in Nat
  BY ReqAt, DbTyped, AnalyticsBounds DEF Store, ReportTyped, TypeInv
<1> DEFINE x == [r EXCEPT !.op = "served", !.stored = Now, !.at = Now]
<1>2. /\ x \in ReportShape(x.got) /\ x.rq = r.rq /\ x.left = r.left /\ x.from = r.from /\ x.to = r.to
  BY <1>1 DEF ReportShape
<1>3. ReportTyped(x) /\ Becomes(h, x)
  BY <1>1, <1>2 DEF ReportTyped, Store
<1>4. /\ Stored(r) \in EntryShape(Stored(r).got) /\ Stored(r).until = Stored(r).stored + TTL
      /\ Stored(r).from = r.from /\ Stored(r).to = r.to
  BY <1>1 DEF Stored, EntryShape, ReportShape
<1>5. EntryTyped(Stored(r))
  BY <1>1, <1>4 DEF EntryTyped, ReportTyped
<1>6. \A k \in DOMAIN cache' : EntryTyped(cache'[k])
  <2>1. CASE UNCHANGED cache
    BY <2>1 DEF TypeInv
  <2>2. CASE cache' = Entered(cache, KeyOf(r.rq), Stored(r))
    BY <1>5, <2>2 DEF TypeInv, Entered
  <2>3. QED
    BY <2>1, <2>2 DEF Store
<1>7. QED
  BY <1>3, <1>6

LEMMA ReportsTyped ==
  ASSUME TypeInv, NEW h \in Handlers, ReportSteps(h)
  PROVE  /\ \E x : ReportTyped(x) /\ Becomes(h, x)
         /\ UNCHANGED <<log, moves, clashed, load>>
         /\ \A k \in DOMAIN cache' : EntryTyped(cache'[k])
<1> DEFINE r == req[h]
<1>0. Now \in Nat /\ Len(log) \in Nat \ {0} /\ \A k \in DOMAIN cache : EntryTyped(cache[k])
  BY DbTyped DEF TypeInv
<1>1. ASSUME NEW q \in load.reports, ReportStart(h, q)
      PROVE  \E x : ReportTyped(x) /\ Becomes(h, x)
  <2> DEFINE x == [op |-> IF Cached(q.kind) THEN "get" ELSE "query", rq |-> q, left |-> q.part,
                   got |-> <<>>, from |-> Len(log), to |-> Len(log), start |-> Now,
                   stored |-> Now, at |-> Now]
  <2>1. q \in Report /\ q.part \in SUBSET STRING
    BY LoadTyped DEF TypeInv, Report
  <2>2. ReportTyped(x)
    BY <1>0, <2>1 DEF ReportTyped, ReportShape
  <2>3. QED
    BY <1>1, <2>2 DEF ReportStart
<1>2. CASE Miss(h)
  <2>1. ReportTyped(r) /\ r \in ReportShape(r.got)
    BY <1>2, ReqAt DEF Miss, ReportTyped
  <2> DEFINE x == [r EXCEPT !.op = "query", !.from = Len(log), !.to = Len(log), !.start = Now]
  <2>2. /\ x \in ReportShape(x.got) /\ x.rq = r.rq /\ x.left = r.left
        /\ x.from = Len(log) /\ x.to = Len(log)
    BY <1>0, <2>1 DEF ReportShape
  <2>3. ReportTyped(x)
    BY <1>0, <2>1, <2>2 DEF ReportTyped
  <2>4. QED
    BY <1>0, <1>2, <2>3 DEF Miss
<1>3. QED
  BY <1>0, <1>1, <1>2, HitTyped, StatementTyped, StoreTyped
     DEF ReportSteps, ReportStart, Hit, Statement, Store

\* The shape of every step: one handler moves, or the log grows.
HandlerStep(h) ==
  /\ (Lists(h) /\ UNCHANGED cache) \/ ReportSteps(h)
  /\ UNCHANGED <<log, moves, clashed, load>>
  /\ \E x : Becomes(h, x)

LogStep == LogTyped' /\ Grown /\ UNCHANGED <<req, load, cache>>

LEMMA StepShape ==
  ASSUME TypeInv, [Next]_vars
  PROVE  (\E h \in Handlers : HandlerStep(h)) \/ LogStep
<1>1. load.handlers \subseteq Handlers /\ LogTyped
  BY LoadTyped DEF TypeInv
<1>2. ASSUME NEW h \in Handlers, Lists(h), UNCHANGED cache
      PROVE  HandlerStep(h)
  BY <1>2, ListsTyped DEF HandlerStep
<1>3. ASSUME NEW h \in Handlers, ReportSteps(h)
      PROVE  HandlerStep(h)
  BY <1>3, ReportsTyped DEF HandlerStep
<1>4. CASE Addresses /\ UNCHANGED cache
  BY <1>4, AddressesTyped DEF LogStep
<1>5. CASE (OtherWrite \/ Tick) /\ UNCHANGED cache
  BY <1>5, OtherWriteTyped DEF LogStep
<1>6. CASE UNCHANGED vars
  BY <1>1, <1>6, NotGrown DEF LogStep, vars, catalogVars, LogTyped, Moving
<1>7. QED
  BY <1>1, <1>2, <1>3, <1>4, <1>5, <1>6 DEF Next, CatalogNext

LEMMA TypeStep == TypeInv /\ [Next]_vars => TypeInv'
<1> SUFFICES ASSUME TypeInv, [Next]_vars
             PROVE  TypeInv'
  OBVIOUS
<1>1. load.handlers \subseteq Handlers /\ LogTyped
  BY LoadTyped DEF TypeInv
<1>2. ASSUME NEW h \in Handlers, Lists(h), UNCHANGED cache
      PROVE  TypeInv'
  BY <1>2, ListsTyped, BecomesTyped DEF ReqTyped, TypeInv
<1>3. ASSUME NEW h \in Handlers, ReportSteps(h)
      PROVE  TypeInv'
  BY <1>3, ReportsTyped, BecomesTyped DEF ReqTyped
<1>4. ASSUME LogTyped', Grown, UNCHANGED <<req, load, cache>>,
             moves' \in [Movers -> Moves], clashed' \subseteq Readers
      PROVE  TypeInv'
  <2>1. \A h \in Handlers : ReqTyped(req[h])'
    BY <1>1, <1>4, GrownTyped DEF TypeInv
  <2>2. \A k \in DOMAIN cache : EntryTyped(cache[k])'
    BY <1>1, <1>4, GrownTyped DEF TypeInv
  <2>3. QED
    BY <1>4, <2>1, <2>2 DEF TypeInv
<1>5. CASE Addresses /\ UNCHANGED cache
  BY <1>4, <1>5, AddressesTyped
<1>6. CASE (OtherWrite \/ Tick) /\ UNCHANGED cache
  BY <1>4, <1>6, OtherWriteTyped DEF TypeInv
<1>7. CASE UNCHANGED vars
  BY <1>1, <1>4, <1>7, NotGrown DEF vars, catalogVars, LogTyped, Moving, TypeInv
<1>8. QED
  BY <1>1, <1>2, <1>3, <1>5, <1>6, <1>7 DEF Next, CatalogNext

LEMMA TypeInit == Init => TypeInv
<1> SUFFICES ASSUME Init
             PROVE  TypeInv
  OBVIOUS
<1>1. load.db \in Database /\ Start \in Nat
  BY LoadTyped, CatalogBounds DEF Init, CatalogInit
<1>2. [db |-> load.db, now |-> Start] \in Entry
  BY <1>1 DEF Entry
<1>3. log \in Seq(Entry) /\ Len(log) = 1
  BY <1>2 DEF Init, CatalogInit
<1>4. Moving = {}
  BY DEF Init, CatalogInit, Moving
<1>5. Cardinality(Moving) = 0 /\ Cardinality(Movers) \in Nat /\ MaxLog \in Nat \ {0}
  BY <1>4, FS_EmptySet, CatalogFinite, FS_CardinalityType, CatalogBounds
<1>6. LogTyped
  BY <1>3, <1>5 DEF LogTyped
<1>7. QED
  BY <1>6 DEF Init, CatalogInit, TypeInv, ReqTyped, Moves

\* The log, the requests in flight, the addresses and the cache keep their
\* types: every write of every service leaves rows of the right type, and no
\* entry of the cache outlives its TTL.
THEOREM CatalogTypeCorrect == Spec => []CatalogTypeOK
<1>1. TypeInv => CatalogTypeOK
  <2> SUFFICES ASSUME TypeInv
               PROVE  CatalogTypeOK
    OBVIOUS
  <2>1. Len(log) \in 1..(MaxLog + Cardinality(Movers))
    BY MovingFinite, DbTyped, CatalogBounds DEF TypeInv, LogTyped
  <2>2. ASSUME NEW h \in Handlers
        PROVE  \/ req[h] = Idle
               \/ "q" \in DOMAIN req[h] /\ req[h] \in ListRequest
               \/ "rq" \in DOMAIN req[h] /\ req[h].rq \in load.reports /\ req[h].left \subseteq req[h].rq.part
                  /\ req[h].from <= req[h].to /\ req[h].to <= Len(log)
    <3>1. ListTyped(req[h]) => "q" \in DOMAIN req[h] /\ req[h] \in ListRequest
      BY DEF ListTyped, ListRequest
    <3>2. ReportTyped(req[h]) => "rq" \in DOMAIN req[h]
      BY DEF ReportTyped, ReportShape
    <3>3. QED
      BY <3>1, <3>2 DEF TypeInv, ReqTyped, ReportTyped
  <2>3. ASSUME NEW k \in DOMAIN cache
        PROVE  cache[k].until \in cache[k].stored..cache[k].stored + TTL
    BY AnalyticsBounds DEF TypeInv, EntryTyped, EntryShape
  <2>4. QED
    BY <2>1, <2>2, <2>3, DbTyped DEF TypeInv, CatalogTypeOK
<1>2. QED
  BY <1>1, TypeInit, TypeStep, PTL DEF Spec
-----------------------------------------------------------------------------
\* What a list in the making holds

PageKinds == {"browse", "featured", "trending", "recommended", "followed"}

IsList(r)   == "q" \in DOMAIN r
IsReport(r) == "rq" \in DOMAIN r
BooksIn(S)  == {i.book : i \in S}
LastOf(r)   == IF r.op = "done" THEN r.to ELSE Len(log)
Custom(r)   == r.q.kind = "browse" /\ needsCustomSql(r.q)

\* The books of a request were chosen by its conditions at some moment of it.
ChosenRight(r) == r.q.kind \in PageKinds =>
  /\ \A b \in r.ids \cup BooksIn(r.items) : \E j \in r.from..LastOf(r) :
       b \in Where(log[j].db, log[j].now, r)
  /\ r.op \in {"prefs", "follows"} => r.ids = {} /\ r.items = {}
  /\ r.q.kind = "recommended" => BooksIn(r.items) = r.ids

FileSeen(d, user, b) ==
  LET app == d.apps[<<user, b>>]
  IN  app # None /\ (app.status = "approved" \/ app.reading = "reviewed")

FilesRight(r) == \A i \in r.items : i.files =>
  \/ r.q.user = AuthorOf[i.book]
  \/ r.q.user \in Readers /\ \E j \in r.from..LastOf(r) : FileSeen(log[j].db, r.q.user, i.book)

\* While nothing is written, what was selected and counted still is what a
\* statement would select and count.
PageRight(r) == r.q.kind \in {"browse", "recommended"} /\ r.from = LastOf(r) =>
  LET m == log[r.from]
      W == Where(m.db, m.now, r)
      Pages == PagesOf(W, m.db, m.now, r.q, SkipOf(r.q), TakeOf(r.q))
  IN  /\ r.op = "load" => r.ids \in Pages
      /\ r.op = "done" \/ (r.op = "count" /\ ~Custom(r)) => BooksIn(r.items) \in Pages
      /\ r.op \in {"done", "load"} \/ (r.op = "page" /\ Custom(r)) => r.total = Cardinality(W)

ListRight(r) == ChosenRight(r) /\ FilesRight(r) /\ PageRight(r)

ListInv == \A h \in Handlers : IsList(req[h]) => ListRight(req[h])

LEMMA Listed1 ==
  ASSUME TypeInv, NEW h \in Handlers
  PROVE  /\ IsList(req[h]) <=> ListTyped(req[h])
         /\ IsReport(req[h]) <=> ReportTyped(req[h])
<1>1. ReqTyped(req[h])
  BY DEF TypeInv
<1>2. ~IsList(Idle) /\ ~IsReport(Idle)
  BY DEF IsList, IsReport, Idle
<1>3. ListTyped(req[h]) => IsList(req[h]) /\ ~IsReport(req[h])
  BY DEF ListTyped, ListRequest, IsList, IsReport
<1>4. ReportTyped(req[h]) => ~IsList(req[h]) /\ IsReport(req[h])
  BY DEF ReportTyped, ReportShape, IsList, IsReport
<1>5. QED
  BY <1>1, <1>2, <1>3, <1>4 DEF ReqTyped

LEMMA WhereSame ==
  ASSUME NEW r, NEW x, x.q = r.q, x.by = r.by
  PROVE  \A d, n : Where(d, n, x) = Where(d, n, r)
BY DEF Where

\* The log grows behind a request.
LEMMA GrownRight ==
  ASSUME LogTyped, LogTyped', Grown, NEW r, ListTyped(r), ListRight(r)
  PROVE  ListRight(r)'
<1>1. /\ Len(log) \in Nat /\ Len(log') \in Nat /\ Len(log) <= Len(log')
      /\ \A j \in 1..Len(log) : log'[j] = log[j]
  BY DEF Grown, LogTyped
<1>2. /\ r.from \in Nat /\ r.to \in Nat /\ 1 <= r.from /\ r.from <= Len(log)
      /\ r.op = "done" => r.to <= Len(log)
  BY DEF ListTyped, ListRequest
<1>3. \A j \in r.from..LastOf(r) : j \in r.from..(LastOf(r)') /\ log'[j] = log[j]
  BY <1>1, <1>2 DEF LastOf
<1>4. ChosenRight(r)'
  BY <1>3 DEF ListRight, ChosenRight
<1>5. FilesRight(r)'
  BY <1>3 DEF ListRight, FilesRight
<1>6. r.from = LastOf(r)' => r.from = LastOf(r) /\ log'[r.from] = log[r.from]
  BY <1>1, <1>2 DEF LastOf
<1>7. PageRight(r)'
  BY <1>6 DEF ListRight, PageRight
<1>8. QED
  BY <1>4, <1>5, <1>7 DEF ListRight

LEMMA BooksOfAll ==
  ASSUME NEW r, NEW P
  PROVE  BooksIn(SanitizedAll(r, P)) = P /\ BooksIn({}) = {}
<1>1. ASSUME NEW b \in P
      PROVE  b \in BooksIn(SanitizedAll(r, P))
  <2>1. Sanitized(r.q.user, b) \in SanitizedAll(r, P) /\ Sanitized(r.q.user, b).book = b
    BY DEF SanitizedAll, Sanitized
  <2>2. QED
    BY <2>1 DEF BooksIn
<1>2. ASSUME NEW i \in SanitizedAll(r, P)
      PROVE  i.book \in P
  BY DEF SanitizedAll, Sanitized
<1>3. QED
  BY <1>1, <1>2 DEF BooksIn

LEMMA FilesOfAll ==
  ASSUME NEW r, NEW P, NEW i \in SanitizedAll(r, P), i.files
  PROVE  r.q.user = AuthorOf[i.book]
<1>1. PICK b \in P : i = Sanitized(r.q.user, b)
  BY DEF SanitizedAll
<1>2. i.book = b /\ i.files = (r.q.user = AuthorOf[b])
  BY <1>1 DEF Sanitized
<1>3. QED
  BY <1>2

LEMMA StartRight ==
  ASSUME TypeInv, NEW h \in Handlers, NEW q \in load.queries, ListStart(h, q)
  PROVE  \E x : IsList(x) /\ ListRight(x) /\ Becomes(h, x)
<1> DEFINE x == [op |-> IF q.kind = "browse" /\ needsCustomSql(q) THEN "count" ELSE FirstStep(q.kind),
                 q |-> q, by |-> {}, ids |-> {}, items |-> {}, total |-> 0,
                 from |-> Len(log), to |-> Len(log)]
<1>1. q.kind \in {"browse", "featured", "trending", "recommended", "followed", "book", "mine"}
  BY LoadTyped DEF TypeInv, Query
<1>2. /\ x.op = "count" => Custom(x)
      /\ x.op = "page"  => ~Custom(x)
      /\ x.op = "load"  => q.kind \in {"book", "mine"}
      /\ x.op # "done"
  BY <1>1 DEF FirstStep, Custom
<1>3. x.q = q /\ x.ids = {} /\ x.items = {} /\ BooksIn({}) = {} /\ IsList(x)
  BY DEF BooksIn, IsList
<1> HIDE DEF x
<1>4. ChosenRight(x) /\ FilesRight(x)
  BY <1>3 DEF ChosenRight, FilesRight
<1>5. PageRight(x)
  BY <1>2, <1>3 DEF PageRight
<1>6. QED
  BY <1>3, <1>4, <1>5 DEF ListStart, ListRight, x

\* What every later step of a list may use
LEMMA Current ==
  ASSUME TypeInv, ListInv, NEW h \in Handlers,
         req[h].op \in {"prefs", "follows", "page", "count", "load", "applied"}
  PROVE  /\ ListTyped(req[h]) /\ req[h] \in ListRequest /\ ListRight(req[h]) /\ LastOf(req[h]) = Len(log)
         /\ req[h].from \in Nat /\ req[h].from <= Len(log) /\ Len(log) \in Nat
         /\ log[Len(log)].db = Db /\ log[Len(log)].now = Now
<1>1. ListTyped(req[h]) /\ req[h] \in ListRequest
  BY ReqAt DEF ListTyped
<1>2. req[h].from \in Nat /\ req[h].from <= Len(log)
  BY <1>1 DEF ListTyped, ListRequest
<1>3. QED
  BY <1>1, <1>2, Listed1, DbTyped DEF ListInv, LastOf, Db, Now, TypeInv

LEMMA PreferencesRight ==
  ASSUME TypeInv, ListInv, NEW h \in Handlers, ReadPreferences(h) \/ ReadFollows(h)
  PROVE  \E x : IsList(x) /\ ListRight(x) /\ Becomes(h, x)
<1> DEFINE r == req[h]
<1>1. /\ r \in ListRequest /\ r.ids = {} /\ r.items = {} /\ r.q.kind \in {"recommended", "followed"}
  <2>1. r.op \in {"prefs", "follows"}
    BY DEF ReadPreferences, ReadFollows
  <2>2. ListTyped(r) /\ r \in ListRequest /\ ChosenRight(r)
    BY <2>1, Current DEF ListRight
  <2>3. QED
    BY <2>1, <2>2 DEF ListTyped, ListStaged, ChosenRight, PageKinds
<1>2. ASSUME NEW by
      PROVE  IsList([r EXCEPT !.op = "page", !.by = by]) /\ ListRight([r EXCEPT !.op = "page", !.by = by])
  <2> DEFINE x == [r EXCEPT !.op = "page", !.by = by]
  <2>1. x.op = "page" /\ x.q = r.q /\ x.ids = {} /\ x.items = {} /\ BooksIn({}) = {} /\ IsList(x)
    BY <1>1 DEF ListRequest, BooksIn, IsList
  <2> HIDE DEF x
  <2>2. ~Custom(x)
    BY <1>1, <2>1 DEF Custom
  <2>3. ChosenRight(x) /\ FilesRight(x) /\ PageRight(x)
    BY <2>1, <2>2 DEF ChosenRight, FilesRight, PageRight
  <2>4. QED
    BY <2>1, <2>3 DEF ListRight, x
<1>3. CASE ReadPreferences(h)
  BY <1>2, <1>3 DEF ReadPreferences
<1>4. CASE ReadFollows(h)
  <2>1. r.q.kind = "followed"
    BY <1>4, ReqAt DEF ReadFollows, ListTyped, ListStaged
  <2>2. IsList(Answer(r, {})) /\ ListRight(Answer(r, {}))
    <3> DEFINE x == Answer(r, {})
    <3>1. x.op = "done" /\ x.q = r.q /\ x.ids = {} /\ x.items = {} /\ BooksIn({}) = {} /\ IsList(x)
      BY <1>1 DEF ListRequest, BooksIn, IsList, Answer
    <3> HIDE DEF x
    <3>2. ChosenRight(x) /\ FilesRight(x) /\ PageRight(x)
      BY <2>1, <3>1 DEF ChosenRight, FilesRight, PageRight
    <3>3. QED
      BY <3>1, <3>2 DEF ListRight, x
  <2>3. QED
    BY <1>2, <1>4, <2>2 DEF ReadFollows
<1>5. QED
  BY <1>3, <1>4

\* A step adds books that match now, without files that the user may not see.
LEMMA KeepRight ==
  ASSUME TypeInv, ListInv, NEW h \in Handlers,
         req[h].op \in {"prefs", "follows", "page", "count", "load", "applied"},
         NEW P, P \subseteq Where(Db, Now, req[h]), NEW x, x.q = req[h].q, x.from = req[h].from,
         x.by = req[h].by, LastOf(x) = Len(log), x.op \notin {"prefs", "follows"},
         x.ids \subseteq req[h].ids \cup P, x.items \subseteq req[h].items \cup SanitizedAll(req[h], P),
         x.q.kind = "recommended" => BooksIn(x.items) = x.ids
  PROVE  ChosenRight(x) /\ FilesRight(x)
<1> DEFINE r == req[h]
<1>1. /\ ChosenRight(r) /\ FilesRight(r) /\ LastOf(r) = Len(log)
      /\ Len(log) \in r.from..Len(log) /\ log[Len(log)].db = Db /\ log[Len(log)].now = Now
  BY Current DEF ListRight
<1>2. BooksIn(x.items) \subseteq BooksIn(r.items) \cup P
  BY BooksOfAll DEF BooksIn
<1>3. ASSUME x.q.kind \in PageKinds, NEW b \in x.ids \cup BooksIn(x.items)
      PROVE  \E j \in x.from..LastOf(x) : b \in Where(log[j].db, log[j].now, x)
  <2>1. \E j \in r.from..Len(log) : b \in Where(log[j].db, log[j].now, r)
    <3>1. CASE b \in P
      BY <1>1, <3>1
    <3>2. CASE b \in r.ids \cup BooksIn(r.items)
      BY <1>1, <1>3, <3>2 DEF ChosenRight
    <3>3. QED
      BY <1>2, <1>3, <3>1, <3>2
  <2>2. QED
    BY <2>1, WhereSame
<1>4. ChosenRight(x)
  BY <1>3 DEF ChosenRight
<1>5. ASSUME NEW i \in x.items, i.files
      PROVE  \/ x.q.user = AuthorOf[i.book]
             \/ x.q.user \in Readers /\ \E j \in x.from..LastOf(x) : FileSeen(log[j].db, x.q.user, i.book)
  <2>1. CASE i \in r.items
    BY <1>1, <1>5, <2>1 DEF FilesRight
  <2>2. CASE i \in SanitizedAll(r, P)
    BY <1>5, <2>2, FilesOfAll
  <2>3. QED
    BY <1>5, <2>1, <2>2
<1>6. QED
  BY <1>4, <1>5 DEF FilesRight

LEMMA SelectRight ==
  ASSUME TypeInv, ListInv, NEW h \in Handlers, SelectPage(h)
  PROVE  \E x : IsList(x) /\ ListRight(x) /\ Becomes(h, x)
<1> DEFINE r == req[h]
<1> DEFINE W == Where(Db, Now, r)
<1> DEFINE Pages == PagesOf(W, Db, Now, r.q, SkipOf(r.q), TakeOf(r.q))
<1>1. /\ r.op = "page" /\ r \in ListRequest /\ ListRight(r) /\ LastOf(r) = Len(log)
      /\ log[Len(log)].db = Db /\ log[Len(log)].now = Now
  BY Current DEF SelectPage
<1>2. r.q.kind \in PageKinds
  BY <1>1, ReqAt DEF ListTyped, ListStaged, PageKinds
<1>3. PICK P \in Pages : Becomes(h, Paged(r, P))
  BY DEF SelectPage
<1>4. P \subseteq W
  BY <1>3 DEF PagesOf
<1> DEFINE items == SanitizedAll(r, P)
<1>5. BooksIn(items) = P
  BY BooksOfAll
<1>6. r.from = Len(log) /\ Custom(r) /\ r.q.kind \in {"browse", "recommended"} => r.total = Cardinality(W)
  BY <1>1 DEF ListRight, PageRight
\* Whatever follows the page
<1>7. ASSUME NEW x, IsList(x), x.q = r.q, x.by = r.by, x.from = r.from, x.total = r.total,
             LastOf(x) = Len(log), x.op \notin {"prefs", "follows", "page"},
             x.ids \subseteq r.ids \cup P, x.items \subseteq r.items \cup items,
             r.q.kind = "recommended" => x.op = "count" /\ x.ids = P /\ x.items = items,
             r.q.kind = "browse" => \/ x.op = "count" /\ ~Custom(r) /\ x.items = items
                                    \/ x.op = "load" /\ Custom(r) /\ x.ids = P
                                    \/ x.op = "done" /\ Custom(r) /\ x.items = items
      PROVE  IsList(x) /\ ListRight(x)
  <2>1. ChosenRight(x) /\ FilesRight(x)
    <3> HIDE DEF items
    <3>1. x.q.kind = "recommended" => BooksIn(x.items) = x.ids
      BY <1>5, <1>7
    <3>2. QED
      BY <1>1, <1>4, <1>7, <3>1, KeepRight DEF items
  <2>2. Custom(x) <=> Custom(r)
    BY <1>7 DEF Custom
  <2>3. Where(Db, Now, x) = W
    BY <1>7, WhereSame
  <2>4. PageRight(x)
    <3> SUFFICES ASSUME x.q.kind \in {"browse", "recommended"}, x.from = Len(log)
                 PROVE  PageRight(x)
      BY <1>7 DEF PageRight
    <3>1. /\ x.op = "load" => x.ids \in Pages
          /\ x.op = "done" \/ (x.op = "count" /\ ~Custom(x)) => BooksIn(x.items) \in Pages
          /\ x.op \in {"done", "load"} \/ (x.op = "page" /\ Custom(x)) => x.total = Cardinality(W)
      <4> HIDE DEF Pages, W, items
      <4>1. QED
        BY <1>3, <1>5, <1>6, <1>7, <2>2 DEF Custom
    <3>2. Pages = PagesOf(Where(log[x.from].db, log[x.from].now, x), log[x.from].db, log[x.from].now, x.q,
                          SkipOf(x.q), TakeOf(x.q))
          /\ W = Where(log[x.from].db, log[x.from].now, x)
      BY <1>1, <1>7, <2>3
    <3> HIDE DEF Pages, W, items
    <3>3. QED
      BY <3>1, <3>2 DEF PageRight
  <2>5. QED
    BY <1>7, <2>1, <2>4 DEF ListRight
<1> DEFINE all == [r EXCEPT !.ids = P, !.items = items]
<1> HIDE DEF items, W, Pages
<1>8. ASSUME NEW op \in {"applied", "count"}
      PROVE  LET x == [all EXCEPT !.op = op]
             IN  /\ IsList(x) /\ x.q = r.q /\ x.by = r.by /\ x.from = r.from /\ x.total = r.total
                 /\ x.op = op /\ x.ids = P /\ x.items = items /\ LastOf(x) = Len(log)
  BY <1>1, <1>8 DEF ListRequest, IsList, LastOf
<1>9. CASE r.q.kind = "followed" /\ P = {}
  <2> DEFINE x == [r EXCEPT !.op = "failed"]
  <2>1. Paged(r, P) = x
    BY <1>9 DEF Paged
  <2>2. /\ IsList(x) /\ x.q = r.q /\ x.by = r.by /\ x.from = r.from /\ x.total = r.total
        /\ x.op = "failed" /\ x.ids = r.ids /\ x.items = r.items /\ LastOf(x) = Len(log)
    BY <1>1 DEF ListRequest, IsList, LastOf
  <2> HIDE DEF x
  <2>3. IsList(x) /\ ListRight(x)
    BY <1>7, <1>9, <2>2
  <2>4. QED
    BY <1>3, <2>1, <2>3
<1>10. CASE r.q.kind = "followed" /\ P # {}
  <2> DEFINE x == [all EXCEPT !.op = "applied"]
  <2>1. Paged(r, P) = x
    BY <1>10 DEF Paged, items
  <2>2. /\ IsList(x) /\ x.q = r.q /\ x.by = r.by /\ x.from = r.from /\ x.total = r.total
        /\ x.op = "applied" /\ x.ids = P /\ x.items = items /\ LastOf(x) = Len(log)
    BY <1>8
  <2> HIDE DEF x
  <2>3. IsList(x) /\ ListRight(x)
    BY <1>7, <1>10, <2>2
  <2>4. QED
    BY <1>3, <2>1, <2>3
<1>11. CASE r.q.kind = "recommended" \/ (r.q.kind = "browse" /\ ~needsCustomSql(r.q))
  <2> DEFINE x == [all EXCEPT !.op = "count"]
  <2>1. Paged(r, P) = x
    BY <1>11 DEF Paged, items
  <2>2. /\ IsList(x) /\ x.q = r.q /\ x.by = r.by /\ x.from = r.from /\ x.total = r.total
        /\ x.op = "count" /\ x.ids = P /\ x.items = items /\ LastOf(x) = Len(log)
    BY <1>8
  <2> HIDE DEF x
  <2>3. IsList(x) /\ ListRight(x)
    BY <1>7, <1>11, <2>2 DEF Custom
  <2>4. QED
    BY <1>3, <2>1, <2>3
<1>12. CASE r.q.kind \in {"featured", "trending"} \/ (r.q.kind = "browse" /\ needsCustomSql(r.q))
  <2>1. CASE r.q.kind = "featured" \/ P = {}
    <3> DEFINE x == Answer(r, items)
    <3>1. all.items = items
      BY <1>1 DEF ListRequest
    <3>2. Paged(r, P) = x
      BY <1>12, <2>1, <3>1 DEF Paged, items
    <3>3. /\ IsList(x) /\ x.q = r.q /\ x.by = r.by /\ x.from = r.from /\ x.total = r.total
          /\ x.op = "done" /\ x.ids = r.ids /\ x.items = items /\ LastOf(x) = Len(log)
      BY <1>1 DEF ListRequest, IsList, LastOf, Answer
    <3> HIDE DEF x
    <3>4. IsList(x) /\ ListRight(x)
      BY <1>7, <1>12, <3>3 DEF Custom
    <3>5. QED
      BY <1>3, <3>2, <3>4
  <2>2. CASE ~(r.q.kind = "featured" \/ P = {})
    <3> DEFINE x == [r EXCEPT !.op = "load", !.ids = P]
    <3>1. Paged(r, P) = x
      BY <1>12, <2>2 DEF Paged, items
    <3>2. /\ IsList(x) /\ x.q = r.q /\ x.by = r.by /\ x.from = r.from /\ x.total = r.total
          /\ x.op = "load" /\ x.ids = P /\ x.items = r.items /\ LastOf(x) = Len(log)
      BY <1>1 DEF ListRequest, IsList, LastOf
    <3> HIDE DEF x
    <3>3. IsList(x) /\ ListRight(x)
      BY <1>7, <1>12, <3>2 DEF Custom
    <3>4. QED
      BY <1>3, <3>1, <3>3
  <2>3. QED
    BY <2>1, <2>2
<1>13. QED
  BY <1>2, <1>9, <1>10, <1>11, <1>12 DEF PageKinds

LEMMA CountRight ==
  ASSUME TypeInv, ListInv, NEW h \in Handlers, CountAll(h)
  PROVE  \E x : IsList(x) /\ ListRight(x) /\ Becomes(h, x)
<1> DEFINE r == req[h]
<1> DEFINE W == Where(Db, Now, r)
<1> DEFINE n == Cardinality(W)
<1> DEFINE Pages == PagesOf(W, Db, Now, r.q, SkipOf(r.q), TakeOf(r.q))
<1>1. /\ r.op = "count" /\ r \in ListRequest /\ ListRight(r) /\ LastOf(r) = Len(log)
      /\ log[Len(log)].db = Db /\ log[Len(log)].now = Now
  BY Current DEF CountAll
<1>2. r.q.kind \in {"browse", "recommended"}
  BY <1>1, ReqAt DEF ListTyped, ListStaged
<1>3. Becomes(h, Counted(r, n))
  BY DEF CountAll
<1>4. r.q.kind = "recommended" => BooksIn(r.items) = r.ids
  BY <1>1, <1>2 DEF ListRight, ChosenRight, PageKinds
<1>5. r.from = Len(log) /\ ~Custom(r) => BooksIn(r.items) \in Pages
  BY <1>1, <1>2 DEF ListRight, PageRight
<1> HIDE DEF n
<1>6. CASE r.q.kind = "browse" /\ needsCustomSql(r.q)
  <2> DEFINE x == [r EXCEPT !.op = "page", !.total = n]
  <2>1. Counted(r, n) = x
    BY <1>6 DEF Counted
  <2>2. /\ IsList(x) /\ x.q = r.q /\ x.by = r.by /\ x.from = r.from /\ x.total = n
        /\ x.op = "page" /\ x.ids = r.ids /\ x.items = r.items /\ LastOf(x) = Len(log)
    BY <1>1 DEF ListRequest, IsList, LastOf
  <2> HIDE DEF x
  <2>3. ChosenRight(x) /\ FilesRight(x)
    BY <1>1, <1>6, <2>2, KeepRight, {} \subseteq Where(Db, Now, r)
  <2>4. Where(Db, Now, x) = W
    BY <2>2, WhereSame
  <2>5. PageRight(x)
    BY <1>1, <2>2, <2>4 DEF PageRight, n
  <2>6. QED
    BY <1>3, <2>1, <2>2, <2>3, <2>5 DEF ListRight
<1>7. CASE r.q.kind = "recommended" /\ r.items = {} /\ r.by # {}
  <2> DEFINE x == [r EXCEPT !.op = "page", !.by = {}]
  <2>1. Counted(r, n) = x
    BY <1>7 DEF Counted
  <2>2. /\ IsList(x) /\ x.q = r.q /\ x.from = r.from
        /\ x.op = "page" /\ x.ids = r.ids /\ x.items = r.items /\ LastOf(x) = Len(log)
    BY <1>1 DEF ListRequest, IsList, LastOf
  <2> HIDE DEF x
  <2>3. x.items = {} /\ BooksIn({}) = {} /\ x.ids = {}
    BY <1>4, <1>7, <2>2, BooksOfAll
  <2>4. ChosenRight(x) /\ FilesRight(x)
    BY <2>2, <2>3 DEF ChosenRight, FilesRight
  <2>5. ~Custom(x)
    BY <1>7, <2>2 DEF Custom
  <2>6. PageRight(x)
    BY <2>2, <2>5 DEF PageRight
  <2>7. QED
    BY <1>3, <2>1, <2>2, <2>4, <2>6 DEF ListRight
<1>8. CASE /\ ~(r.q.kind = "browse" /\ needsCustomSql(r.q))
           /\ ~(r.q.kind = "recommended" /\ r.items = {} /\ r.by # {})
  <2> DEFINE x == [Answer(r, r.items) EXCEPT !.total = n]
  <2>1. Counted(r, n) = x
    BY <1>8 DEF Counted
  <2>2. /\ IsList(x) /\ x.q = r.q /\ x.by = r.by /\ x.from = r.from /\ x.total = n
        /\ x.op = "done" /\ x.ids = r.ids /\ x.items = r.items /\ LastOf(x) = Len(log)
    BY <1>1 DEF ListRequest, IsList, LastOf, Answer
  <2> HIDE DEF x
  <2>3. ChosenRight(x) /\ FilesRight(x)
    BY <1>1, <1>4, <2>2, KeepRight, {} \subseteq Where(Db, Now, r)
  <2>4. Where(Db, Now, x) = W /\ ~Custom(r)
    BY <1>8, <2>2, WhereSame DEF Custom
  <2>5. PageRight(x)
    BY <1>1, <1>5, <2>2, <2>4 DEF PageRight, n
  <2>6. QED
    BY <1>3, <2>1, <2>2, <2>3, <2>5 DEF ListRight
<1>9. QED
  BY <1>6, <1>7, <1>8

LEMMA LoadRight ==
  ASSUME TypeInv, ListInv, NEW h \in Handlers, LoadBooks(h)
  PROVE  \E x : IsList(x) /\ ListRight(x) /\ Becomes(h, x)
<1> DEFINE r == req[h]
<1> DEFINE W == Where(Db, Now, r)
<1> DEFINE Pages == PagesOf(W, Db, Now, r.q, SkipOf(r.q), TakeOf(r.q))
<1> DEFINE S == r.ids \cap Present(Db)
<1> DEFINE items == SanitizedAll(r, S)
<1>1. /\ r.op = "load" /\ r \in ListRequest /\ ListRight(r) /\ LastOf(r) = Len(log)
      /\ r.q.kind \in {"browse", "trending"}
      /\ log[Len(log)].db = Db /\ log[Len(log)].now = Now
  BY Current DEF LoadBooks
<1>2. Becomes(h, Answer(r, items))
  BY DEF LoadBooks
<1>3. BooksIn(items) = S
  BY BooksOfAll
<1>4. r.from = Len(log) /\ r.q.kind = "browse" =>
        r.ids \in Pages /\ S = r.ids /\ r.total = Cardinality(W)
  <2> SUFFICES ASSUME r.from = Len(log), r.q.kind = "browse"
               PROVE  r.ids \in Pages /\ S = r.ids /\ r.total = Cardinality(W)
    OBVIOUS
  <2>1. r.ids \in Pages /\ r.total = Cardinality(W)
    BY <1>1 DEF ListRight, PageRight
  <2>2. r.ids \subseteq W
    BY <2>1 DEF PagesOf
  <2>3. \A b \in W : b \in Present(Db)
    BY DEF Where, CustomWhere, StandardWhere, Present
  <2>4. QED
    BY <2>1, <2>2, <2>3
<1> DEFINE x == Answer(r, items)
<1>5. /\ IsList(x) /\ x.q = r.q /\ x.by = r.by /\ x.from = r.from /\ x.total = r.total
      /\ x.op = "done" /\ x.ids = r.ids /\ x.items = items /\ LastOf(x) = Len(log)
  BY <1>1 DEF ListRequest, IsList, LastOf, Answer
<1> HIDE DEF x, items
<1>6. ChosenRight(x)
  <2>1. BooksIn(x.items) \subseteq r.ids
    BY <1>3, <1>5
  <2>2. ChosenRight(r) /\ x.q.kind # "recommended"
    BY <1>1, <1>5 DEF ListRight
  <2>3. ASSUME x.q.kind \in PageKinds, NEW b \in x.ids \cup BooksIn(x.items)
        PROVE  \E j \in x.from..LastOf(x) : b \in Where(log[j].db, log[j].now, x)
    <3>1. \E j \in r.from..Len(log) : b \in Where(log[j].db, log[j].now, r)
      BY <1>1, <1>5, <2>1, <2>2, <2>3 DEF ChosenRight
    <3>2. QED
      BY <1>5, <3>1, WhereSame
  <2>4. QED
    BY <1>5, <2>2, <2>3 DEF ChosenRight
<1>7. FilesRight(x)
  BY <1>5, FilesOfAll DEF FilesRight, items
<1>8. Where(Db, Now, x) = W
  BY <1>5, WhereSame
<1>9. PageRight(x)
  BY <1>1, <1>3, <1>4, <1>5, <1>8 DEF PageRight
<1>10. QED
  BY <1>2, <1>5, <1>6, <1>7, <1>9 DEF ListRight, x

\* An answer of another kind: only its files matter.
LEMMA OtherRight ==
  ASSUME NEW x, IsList(x), x.q.kind \in {"book", "mine"}, FilesRight(x)
  PROVE  IsList(x) /\ ListRight(x)
BY DEF ListRight, ChosenRight, PageRight, PageKinds

LEMMA OthersRight ==
  ASSUME TypeInv, ListInv, NEW h \in Handlers,
         LoadApplications(h) \/ LoadBook(h) \/ ShowFile(h) \/ CutFollowed(h)
  PROVE  \E x : IsList(x) /\ ListRight(x) /\ Becomes(h, x)
<1> DEFINE r == req[h]
<1>1. /\ r.op \in {"load", "applied"} /\ r \in ListRequest /\ ListRight(r) /\ LastOf(r) = Len(log)
      /\ log[Len(log)].db = Db /\ log[Len(log)].now = Now
      /\ Len(log) \in r.from..Len(log) /\ r.q \in load.queries
  BY Current DEF LoadApplications, LoadBook, ShowFile, CutFollowed, ListTyped
<1>2. ASSUME NEW items
      PROVE  LET x == Answer(r, items)
             IN  /\ IsList(x) /\ x.q = r.q /\ x.by = r.by /\ x.from = r.from /\ x.total = r.total
                 /\ x.op = "done" /\ x.ids = r.ids /\ x.items = items /\ LastOf(x) = Len(log)
  BY <1>1 DEF ListRequest, IsList, LastOf, Answer
<1>3. CASE LoadApplications(h)
  <2>1. r.q.kind = "mine" /\ r.q.user \in Readers
    BY <1>1, <1>3, LoadTyped DEF LoadApplications, TypeInv
  <2> DEFINE items == {[book |-> b, files |-> ~shouldSanitizeBook(Db.apps[<<r.q.user, b>>])] :
                         b \in {x \in Books : r.q.user \in Applied(Db, x)}}
  <2>2. Becomes(h, Answer(r, items))
    BY <1>3 DEF LoadApplications
  <2>3. ASSUME NEW i \in items, i.files
        PROVE  FileSeen(Db, r.q.user, i.book)
    <3> DEFINE f(b) == ~shouldSanitizeBook(Db.apps[<<r.q.user, b>>])
    <3>0. PICK b \in Books : r.q.user \in Applied(Db, b) /\ i = [book |-> b, files |-> f(b)]
      BY <2>3
    <3> HIDE DEF f
    <3>1. i.book = b /\ i.files = f(b)
      BY <3>0
    <3>2. ~shouldSanitizeBook(Db.apps[<<r.q.user, b>>])
      BY <2>3, <3>1 DEF f
    <3>3. QED
      BY <3>0, <3>1, <3>2 DEF FileSeen, shouldSanitizeBook, Applied
  <2> DEFINE x == Answer(r, items)
  <2> HIDE DEF items
  <2>4. IsList(x) /\ x.q = r.q /\ x.from = r.from /\ x.items = items /\ LastOf(x) = Len(log)
    BY <1>2
  <2> HIDE DEF x
  <2>5. FilesRight(x)
    BY <1>1, <2>1, <2>3, <2>4 DEF FilesRight
  <2>6. QED
    BY <2>1, <2>2, <2>4, <2>5, OtherRight DEF x
<1>4. CASE LoadBook(h)
  <2>1. r.q.kind = "book"
    BY <1>4 DEF LoadBook
  <2> DEFINE items == SanitizedAll(r, {r.q.book})
  <2> DEFINE x == [r EXCEPT !.op = "applied", !.items = items]
  <2> DEFINE y == [r EXCEPT !.op = "failed"]
  <2>2. Becomes(h, IF r.q.book \notin Present(Db) THEN y ELSE x)
    BY <1>4 DEF LoadBook
  <2> HIDE DEF items
  <2>3. IsList(x) /\ x.q = r.q /\ x.items = items
    BY <1>1 DEF ListRequest, IsList
  <2>4. IsList(y) /\ y.q = r.q /\ y.items = r.items /\ y.from = r.from /\ LastOf(y) = LastOf(r)
    BY <1>1, <1>4 DEF ListRequest, IsList, LastOf, LoadBook
  <2> HIDE DEF x, y
  <2>5. FilesRight(x)
    BY <2>3, FilesOfAll DEF FilesRight, items
  <2>6. FilesRight(y)
    BY <1>1, <2>4 DEF FilesRight, ListRight
  <2>7. QED
    BY <2>1, <2>2, <2>3, <2>4, <2>5, <2>6, OtherRight
<1>5. CASE ShowFile(h)
  <2>1. r.q.kind = "book" /\ r.items \in SUBSET Item
    BY <1>1, <1>5 DEF ShowFile, ListRequest
  <2> DEFINE items == {[i EXCEPT !.files = @ \/ checkUserApplicationStatus(Db, r.q.user, i.book)] :
                         i \in r.items}
  <2>2. Becomes(h, Answer(r, items))
    BY <1>5 DEF ShowFile
  <2>3. ASSUME NEW i \in items, i.files
        PROVE  \/ i.book \in Books /\ r.q.user \in Readers /\ FileSeen(Db, r.q.user, i.book)
               \/ \E k \in r.items : k.files /\ k.book = i.book
    <3>1. PICK k \in r.items : i = [k EXCEPT !.files = @ \/ checkUserApplicationStatus(Db, r.q.user, k.book)]
      BY <2>3
    <3>2. k \in Item
      BY <2>1
    <3> DEFINE f == k.files \/ checkUserApplicationStatus(Db, r.q.user, k.book)
    <3>0. i = [k EXCEPT !.files = f]
      BY <3>1
    <3> HIDE DEF f
    <3>3. i.book = k.book /\ i.files = f
      BY <3>0, <3>2 DEF Item
    <3>4. k.files \/ checkUserApplicationStatus(Db, r.q.user, k.book)
      BY <2>3, <3>3 DEF f
    <3>5. k.book \in Books
      BY <3>2 DEF Item
    <3>6. QED
      BY <3>3, <3>4, <3>5 DEF checkUserApplicationStatus, FileSeen, Applied
  <2> DEFINE x == Answer(r, items)
  <2> HIDE DEF items
  <2>4. IsList(x) /\ x.q = r.q /\ x.from = r.from /\ x.items = items /\ LastOf(x) = Len(log)
    BY <1>2
  <2> HIDE DEF x
  <2>5. FilesRight(r)
    BY <1>1 DEF ListRight
  <2>6. FilesRight(x)
    BY <1>1, <2>3, <2>4, <2>5 DEF FilesRight
  <2>7. QED
    BY <2>1, <2>2, <2>4, <2>6, OtherRight DEF x
<1>6. CASE CutFollowed(h)
  <2>1. r.q.kind = "followed"
    BY <1>6 DEF CutFollowed
  <2>2. PICK S \in SUBSET r.items : Becomes(h, Answer(r, S))
    BY <1>6 DEF CutFollowed, kSubset
  <2> DEFINE x == Answer(r, S)
  <2>3. /\ IsList(x) /\ x.q = r.q /\ x.by = r.by /\ x.from = r.from
        /\ x.op = "done" /\ x.ids = r.ids /\ x.items = S /\ LastOf(x) = Len(log)
    BY <1>2
  <2> HIDE DEF x
  <2>4. ChosenRight(x) /\ FilesRight(x)
    BY <1>1, <2>1, <2>3, KeepRight, {} \subseteq Where(Db, Now, r)
  <2>5. PageRight(x)
    BY <2>1, <2>3 DEF PageRight
  <2>6. QED
    BY <2>2, <2>3, <2>4, <2>5 DEF ListRight, x
<1>7. QED
  BY <1>3, <1>4, <1>5, <1>6

LEMMA RequestRight ==
  ASSUME TypeInv, ListInv, NEW h \in Handlers, NEW x, Becomes(h, x), IsList(x) => ListRight(x), log' = log
  PROVE  ListInv'
<1>1. \A g \in Handlers : req'[g] = (IF g = h THEN x ELSE req[g])
  BY DEF Becomes, TypeInv
<1>2. ASSUME NEW g \in Handlers, IsList(req'[g])
      PROVE  ListRight(req'[g])
  BY <1>1, <1>2 DEF ListInv
<1>3. ASSUME NEW g \in Handlers, IsList(req'[g])
      PROVE  ListRight(req[g])'
  BY <1>2, <1>3 DEF ListRight, ChosenRight, FilesRight, PageRight, LastOf
<1>4. QED
  BY <1>3 DEF ListInv, IsList

LEMMA ListStep == TypeInv /\ TypeInv' /\ ListInv /\ [Next]_vars => ListInv'
<1> SUFFICES ASSUME TypeInv, TypeInv', ListInv, [Next]_vars
             PROVE  ListInv'
  OBVIOUS
<1>1. load.handlers \subseteq Handlers
  BY LoadTyped DEF TypeInv
<1>2. ASSUME NEW h \in Handlers, Lists(h)
      PROVE  ListInv'
  <2>1. log' = log
    BY <1>2, ListsTyped
  <2>2. \E x : IsList(x) /\ ListRight(x) /\ Becomes(h, x)
    BY <1>2, StartRight, PreferencesRight, SelectRight, CountRight, LoadRight, OthersRight DEF Lists
  <2>3. QED
    BY <2>1, <2>2, RequestRight
<1>3. ASSUME NEW h \in Handlers, ReportSteps(h)
      PROVE  ListInv'
  <2>1. log' = log /\ \E x : ReportTyped(x) /\ Becomes(h, x)
    BY <1>3, ReportsTyped
  <2>2. \A x : ReportTyped(x) => ~IsList(x)
    BY DEF ReportTyped, ReportShape, IsList
  <2>3. QED
    BY <2>1, <2>2, RequestRight
<1>4. ASSUME Grown, UNCHANGED req
      PROVE  ListInv'
  <2>1. ASSUME NEW h \in Handlers, IsList(req[h])
        PROVE  ListRight(req[h])'
    <3>1. ListTyped(req[h]) /\ ListRight(req[h])
      BY <2>1, Listed1 DEF ListInv
    <3>2. \A r : ListTyped(r) /\ ListRight(r) => ListRight(r)'
      BY <1>4, GrownRight DEF TypeInv
    <3>3. QED
      BY <1>4, <3>1, <3>2
  <2>2. QED
    BY <1>4, <2>1 DEF ListInv, IsList
<1>5. CASE Addresses
  BY <1>4, <1>5, AddressesTyped
<1>6. CASE OtherWrite \/ Tick
  BY <1>4, <1>6, OtherWriteTyped
<1>7. CASE UNCHANGED vars
  BY <1>4, <1>7, NotGrown DEF TypeInv, vars, catalogVars
<1>8. QED
  BY <1>1, <1>2, <1>3, <1>5, <1>6, <1>7 DEF Next, CatalogNext

LEMMA ListInvariant == Spec => [](TypeInv /\ ListInv)
<1>1. Init => ListInv
  BY DEF Init, CatalogInit, ListInv, IsList, Idle
<1>2. QED
  BY <1>1, TypeInit, TypeStep, ListStep, PTL DEF Spec

LEMMA LogAt ==
  ASSUME LogTyped, NEW j \in 1..Len(log)
  PROVE  log[j].db \in Database /\ log[j].now \in Nat
<1>1. log[j] \in Entry
  BY DEF LogTyped
<1>2. QED
  BY <1>1 DEF Entry

\* What a finished list holds, and when
LEMMA Finished ==
  ASSUME TypeInv, ListInv, NEW h \in Handlers, Listed(req[h])
  PROVE  /\ req[h] \in ListRequest /\ ListRight(req[h]) /\ LastOf(req[h]) = req[h].to
         /\ Window(req[h]) \subseteq 1..Len(log) /\ req[h].to \in 1..Len(log)
         /\ \A j \in Window(req[h]) : log[j] \in Ran(req[h])
<1>1. ListTyped(req[h]) /\ req[h].op = "done" /\ ListRight(req[h])
  BY Listed1 DEF Listed, IsList, ListInv
<1>2. Len(log) \in Nat
  BY DbTyped DEF TypeInv
<1>3. req[h] \in ListRequest /\ LastOf(req[h]) = req[h].to
  BY <1>1 DEF ListTyped, LastOf
<1>4. /\ req[h].from \in Nat /\ req[h].to \in Nat
      /\ 1 <= req[h].from /\ req[h].from <= req[h].to /\ req[h].to <= Len(log)
  BY <1>1, <1>3 DEF ListTyped, ListRequest
<1>5. QED
  BY <1>1, <1>2, <1>3, <1>4 DEF Window, Ran

\* A book that is featured, trending, recommended or offered by a followed
\* author could be applied for at some moment while the list was put together
\* (getFeaturedBooks and its like, against validateBookForApplication).
THEOREM OffersWereOpen == Spec => []ListedWereOpen
<1>1. TypeInv /\ ListInv => ListedWereOpen
  <2> SUFFICES ASSUME TypeInv, ListInv, NEW h \in Handlers, Listed(req[h]), req[h].q.kind \in Offers,
                      NEW i \in req[h].items
               PROVE  \E m \in Ran(req[h]) : validateBookForApplication(m.db, m.now, i.book)
    BY DEF ListedWereOpen
  <2> DEFINE r == req[h]
  <2>1. /\ r \in ListRequest /\ ChosenRight(r) /\ LastOf(r) = r.to
        /\ Window(r) \subseteq 1..Len(log) /\ \A j \in Window(r) : log[j] \in Ran(r)
    BY Finished DEF ListRight
  <2>2. PICK j \in Window(r) : i.book \in Where(log[j].db, log[j].now, r)
    BY <2>1 DEF ChosenRight, PageKinds, Offers, Window, BooksIn
  <2>3. Accepting(log[j].db, log[j].now, i.book) /\ i.book \in Books
    BY <2>2 DEF Where, Offers
  <2>4. /\ log[j].db \in Database /\ log[j].now \in Nat
        /\ log[j].db.books[i.book] # None /\ log[j].db.books[i.book] \in BookRow
    BY <2>1, <2>2, <2>3, LogAt, BookTyped DEF TypeInv, Accepting
  <2>5. validateBookForApplication(log[j].db, log[j].now, i.book)
    BY <2>3, <2>4 DEF Accepting, validateBookForApplication, BookRow
  <2>6. QED
    BY <2>1, <2>2, <2>5
<1>2. QED
  BY <1>1, ListInvariant, PTL

\* Whoever sees the file columns of a book is its author, or had its application
\* approved or reviewed at some moment while the answer was made (sanitizeBook,
\* shouldSanitizeBook and checkUserApplicationStatus in every list).
THEOREM FilesStayHidden == Spec => []FilesHidden
<1>1. TypeInv /\ ListInv => FilesHidden
  <2> SUFFICES ASSUME TypeInv, ListInv, NEW h \in Handlers, Listed(req[h]), NEW i \in req[h].items, i.files
               PROVE  \/ req[h].q.user = AuthorOf[i.book]
                      \/ req[h].q.user \in Readers /\ \E m \in Ran(req[h]) : FileSeen(m.db, req[h].q.user, i.book)
    BY DEF FilesHidden, FileSeen
  <2>1. /\ FilesRight(req[h]) /\ LastOf(req[h]) = req[h].to
        /\ \A j \in Window(req[h]) : log[j] \in Ran(req[h])
    BY Finished DEF ListRight
  <2>2. QED
    BY <2>1 DEF FilesRight, Window
<1>2. QED
  BY <1>1, ListInvariant, PTL

-----------------------------------------------------------------------------
\* Pages divide what matches

LEMMA NotBeforeItself ==
  ASSUME NEW d \in Database, NEW now, NEW q, NEW b \in Present(d)
  PROVE  ~Before(d, now, q, b, b)
<1>1. d.books[b].published \in Nat
  BY BookTyped DEF Present, BookRow
<1>2. QED
  BY <1>1 DEF Before

LEMMA FewerIs ==
  ASSUME NEW m \in Nat, NEW n \in Nat
  PROVE  Fewer(m, n) \in Nat /\ Fewer(m, n) <= m /\ Fewer(m, n) <= n /\ (Fewer(m, n) = m \/ Fewer(m, n) = n)
BY DEF Fewer

\* Page P holds the books whose rank in W is from low to high.
Ranked(d, now, q, W, P, low, high) ==
  LET Above(b) == {a \in W : Before(d, now, q, a, b)}
      Below(b) == {a \in W : Before(d, now, q, b, a)}
  IN  /\ \A b \in P : /\ Cardinality(Above(b)) < high
                      /\ Cardinality(W \ Below(b)) > low
      /\ \A b \in W : Cardinality(Above(b)) >= low
                      /\ Cardinality(W \ Below(b)) <= high => b \in P

\* E are the books of the pages before P.
LEMMA PagesByRank ==
  ASSUME NEW d \in Database, NEW now, NEW q, NEW W \in SUBSET Present(d), NEW skip \in Nat,
         NEW P \in PagesOf(W, d, now, q, skip, Limit)
  PROVE  Ranked(d, now, q, W, P, skip, skip + Limit)
<1> DEFINE Above(b) == {a \in W : Before(d, now, q, a, b)}
<1> DEFINE Below(b) == {a \in W : Before(d, now, q, b, a)}
<1> DEFINE first == Fewer(skip, Cardinality(W))
<1> DEFINE size  == Fewer(Limit, Cardinality(W) - first)
<1>1. IsFiniteSet(W) /\ Cardinality(W) \in Nat /\ Limit \in Nat \ {0}
  BY CatalogFinite, CatalogBounds, FS_Subset, FS_CardinalityType DEF Present
<1>2. PICK E \in SUBSET (W \ P) :
        /\ Cardinality(E) = first
        /\ \A a \in E, b \in W \ E : ~Before(d, now, q, b, a)
        /\ \A a \in P, b \in W \ (E \cup P) : ~Before(d, now, q, b, a)
  BY DEF PagesOf
<1>3. P \in SUBSET W /\ Cardinality(P) = size
  BY DEF PagesOf
<1>4. first \in Nat /\ first <= skip /\ first <= Cardinality(W) /\ (first = skip \/ first = Cardinality(W))
  BY <1>1, FewerIs
<1>5. size \in Nat /\ size <= Limit /\ (size = Limit \/ size = Cardinality(W) - first)
  <2>1. Cardinality(W) - first \in Nat
    BY <1>1, <1>4
  <2>2. QED
    BY <1>1, <2>1, FewerIs
<1>6. \A S \in SUBSET W : IsFiniteSet(S) /\ Cardinality(S) \in Nat
  BY <1>1, FS_Subset, FS_CardinalityType
<1>7. \A S, T \in SUBSET W : S \subseteq T => Cardinality(S) <= Cardinality(T)
  BY <1>6, FS_Subset
<1>8. Cardinality(E \cup P) = first + size
  <2>1. E \cap P = {} /\ IsFiniteSet(E) /\ IsFiniteSet(P)
    BY <1>2, <1>3, <1>6
  <2>2. Cardinality(E \cup P) = Cardinality(E) + Cardinality(P) - Cardinality(E \cap P)
    BY <2>1, FS_Union
  <2>3. Cardinality(E) = first /\ Cardinality(P) = size /\ Cardinality(E \cap P) = 0
    BY <1>2, <1>3, <2>1, FS_EmptySet
  <2> HIDE DEF first, size
  <2>4. QED
    BY <1>4, <1>5, <2>2, <2>3
<1>9. \A S \in SUBSET W : \A b \in W \ S : Cardinality(S \cup {b}) = Cardinality(S) + 1
  BY <1>6, FS_AddElement
<1>10. \A b \in W : b \notin Above(b) /\ b \notin Below(b)
  BY NotBeforeItself
<1>11. \A b \in W : Above(b) \in SUBSET W /\ (W \ Below(b)) \in SUBSET W
  OBVIOUS
<1> HIDE DEF Above, Below, first, size
<1>12. ASSUME NEW b \in P
       PROVE  Cardinality(Above(b)) < skip + Limit /\ Cardinality(W \ Below(b)) > skip
  <2>1. Above(b) \cup {b} \subseteq E \cup P
    BY <1>2, <1>3 DEF Above
  <2>2. Cardinality(Above(b)) + 1 <= first + size
    <3>1. Cardinality(Above(b) \cup {b}) = Cardinality(Above(b)) + 1
      BY <1>3, <1>9, <1>10, <1>11
    <3>2. Cardinality(Above(b) \cup {b}) <= Cardinality(E \cup P)
      BY <1>2, <1>3, <1>7, <1>11, <2>1
    <3>3. QED
      BY <1>8, <3>1, <3>2
  <2>3. E \cup {b} \subseteq W \ Below(b)
    BY <1>2, <1>3, <1>10 DEF Below
  <2>4. first + 1 <= Cardinality(W \ Below(b))
    <3>1. Cardinality(E \cup {b}) = first + 1
      BY <1>2, <1>3, <1>9
    <3>2. Cardinality(E \cup {b}) <= Cardinality(W \ Below(b))
      BY <1>2, <1>3, <1>7, <1>11, <2>3
    <3>3. QED
      BY <3>1, <3>2
  <2>5. first = skip
    <3>1. Cardinality(W \ Below(b)) <= Cardinality(W)
      BY <1>3, <1>7, <1>11
    <3>2. Cardinality(W \ Below(b)) \in Nat
      BY <1>3, <1>6, <1>11
    <3>3. QED
      BY <1>1, <1>4, <2>4, <3>1, <3>2
  <2>6. Cardinality(Above(b)) \in Nat /\ Cardinality(W \ Below(b)) \in Nat
    BY <1>3, <1>6, <1>11
  <2>7. QED
    BY <1>1, <1>4, <1>5, <2>2, <2>4, <2>5, <2>6
<1>13. ASSUME NEW b \in W, Cardinality(Above(b)) >= skip, Cardinality(W \ Below(b)) <= skip + Limit,
              b \notin P
       PROVE  FALSE
  <2>1. Cardinality(Above(b)) \in Nat /\ Cardinality(W \ Below(b)) \in Nat
    BY <1>6, <1>11
  <2>2. CASE b \in E
    <3>1. Above(b) \cup {b} \subseteq E
      BY <1>2, <2>2 DEF Above
    <3>2. Cardinality(Above(b) \cup {b}) = Cardinality(Above(b)) + 1
      BY <1>9, <1>10, <1>11
    <3>3. Cardinality(Above(b) \cup {b}) <= first
      BY <1>2, <1>7, <1>11, <3>1
    <3>4. QED
      BY <1>4, <1>13, <2>1, <3>2, <3>3
  <2>3. CASE b \notin E
    <3>1. (E \cup P) \cup {b} \subseteq W \ Below(b)
      BY <1>2, <1>3, <1>10, <1>13, <2>3 DEF Below
    <3>2. Cardinality((E \cup P) \cup {b}) = first + size + 1
      BY <1>2, <1>3, <1>8, <1>9, <1>13, <2>3
    <3>3. Cardinality((E \cup P) \cup {b}) <= Cardinality(W \ Below(b))
      BY <1>2, <1>3, <1>7, <1>11, <3>1
    <3>4. Cardinality(W \ Below(b)) <= Cardinality(W)
      BY <1>7, <1>11
    <3>5. first = skip /\ size = Limit
      BY <1>1, <1>4, <1>5, <2>1, <3>2, <3>3, <3>4
    <3>6. QED
      BY <1>1, <1>4, <1>5, <1>13, <2>1, <3>2, <3>3, <3>5
  <2>4. QED
    BY <2>2, <2>3
<1>14. QED
  BY <1>12, <1>13 DEF Above, Below, Ranked

LEMMA Reviewing ==
  ASSUME NEW d, NEW b \in Books
  PROVE  ReviewsOf(d, {b}) # {} <=> Reviewers(d, b) # {}
<1>1. ASSUME NEW p \in ReviewsOf(d, {b})
      PROVE  p[1] \in Reviewers(d, b)
  BY DEF ReviewsOf, Reviewers
<1>2. ASSUME NEW r \in Reviewers(d, b)
      PROVE  <<r, b>> \in ReviewsOf(d, {b})
  BY DEF ReviewsOf, Reviewers
<1>3. QED
  BY <1>1, <1>2

\* The conditions of the statements say what the reader means.
LEMMA WantedIsWhere ==
  ASSUME NEW m, m.db \in Database, m.now \in Nat, NEW r \in ListRequest, r.q.kind \in {"browse", "recommended"}
  PROVE  Wanted(r, m) = Where(m.db, m.now, r)
<1> DEFINE d == m.db
<1> DEFINE f == r.q.filter
<1>1. ASSUME NEW b \in Books
      PROVE  b \in Wanted(r, m) <=> b \in Where(d, m.now, r)
  <2>1. CASE d.books[b] = None
    BY <1>1, <2>1 DEF Wanted, Where, Present, CustomWhere, StandardWhere, Accepting
  <2>2. CASE d.books[b] # None
    <3>1. d.books[b] \in BookRow /\ b \in Present(d)
      BY <2>2, BookTyped DEF Present
    <3>2. /\ d.books[b].status \in BookStatus /\ d.books[b].copies \in Nat
          /\ d.books[b].deadline \in Nat
      BY <3>1 DEF BookRow
    <3>3. CASE r.q.kind = "recommended"
      <4>1. (r.by # {} => \E g \in r.by : g \in GenresOf[b]) <=> (r.by = {} \/ r.by \cap GenresOf[b] # {})
        OBVIOUS
      <4>2. /\ validateBookForApplication(d, m.now, b) /\ d.books[b].deadline # m.now
            <=> Accepting(d, m.now, b)
        BY <2>2, <3>2 DEF validateBookForApplication, Accepting
      <4>3. b \in Where(d, m.now, r) <=> Accepting(d, m.now, b) /\ (r.by = {} \/ r.by \cap GenresOf[b] # {})
        BY <1>1, <3>3 DEF Where
      <4>4. b \in Wanted(r, m) <=> /\ validateBookForApplication(d, m.now, b) /\ d.books[b].deadline # m.now
                                   /\ r.by # {} => \E g \in r.by : g \in GenresOf[b]
        BY <1>1, <3>1, <3>3 DEF Wanted
      <4>5. QED
        BY <4>1, <4>2, <4>3, <4>4
    <3>4. CASE r.q.kind = "browse"
      <4>1. f \in Filter /\ f.rating \in Nat
        BY DEF ListRequest, Query, Filter
      <4>2. /\ [f EXCEPT !.search = None].genres = f.genres /\ [f EXCEPT !.search = None].open = f.open
            /\ [f EXCEPT !.search = None].search = None
        BY <4>1 DEF Filter
      <4>3. f.rating > 0 /\ AverageOf(d, b) >= f.rating => ReviewsOf(d, {b}) # {}
        <5>1. Reviewers(d, b) = {} => AverageOf(d, b) = -1
          BY DEF AverageOf
        <5>2. QED
          BY <1>1, <4>1, <5>1, Reviewing
      <4>4. b \in Wanted(r, m) <=>
              /\ d.books[b].status # "draft"
              /\ f.genres # {} => \E g \in f.genres : g \in GenresOf[b]
              /\ f.open => d.books[b].copies # 0 /\ m.now < d.books[b].deadline
              /\ f.rating > 0 => ReviewsOf(d, {b}) # {} /\ AverageOf(d, b) >= f.rating
              /\ f.search = None \/ f.search = AuthorOf[b] \/ f.rating > 0 \/ r.q.sort \in {"popular", "rating"}
        BY <1>1, <3>1, <3>4 DEF Wanted
      <4>5. b \in Where(d, m.now, r) <=> IF needsCustomSql(r.q) THEN CustomWhere(d, m.now, f, b)
                                         ELSE StandardWhere(d, m.now, f, b)
        BY <1>1, <3>4 DEF Where
      <4>6. /\ d.books[b].status # "draft" <=> d.books[b].status \in Shown
            /\ d.books[b].copies # 0 <=> d.books[b].copies > 0
            /\ m.now < d.books[b].deadline <=> d.books[b].deadline > m.now
        BY <3>2 DEF BookStatus, Shown
      <4>7. (f.genres # {} => \E g \in f.genres : g \in GenresOf[b])
            <=> (f.genres = {} \/ f.genres \cap GenresOf[b] # {})
        OBVIOUS
      <4>8. CASE needsCustomSql(r.q)
        <5>1. b \in Where(d, m.now, r) <=>
                /\ d.books[b].status \in Shown
                /\ f.genres = {} \/ f.genres \cap GenresOf[b] # {}
                /\ f.open => d.books[b].copies > 0 /\ d.books[b].deadline > m.now
                /\ f.rating > 0 => AverageOf(d, b) >= f.rating
          BY <2>2, <4>2, <4>5, <4>8 DEF CustomWhere, StandardWhere
        <5>2. r.q.sort \in {"popular", "rating"} \/ f.rating > 0
          BY <4>8 DEF needsCustomSql
        <5>3. QED
          BY <4>3, <4>4, <4>6, <4>7, <5>1, <5>2
      <4>9. CASE ~needsCustomSql(r.q)
        <5>1. b \in Where(d, m.now, r) <=>
                /\ d.books[b].status \in Shown
                /\ f.genres = {} \/ f.genres \cap GenresOf[b] # {}
                /\ f.open => d.books[b].copies > 0 /\ d.books[b].deadline > m.now
                /\ f.search = None \/ f.search = AuthorOf[b]
          BY <2>2, <4>5, <4>9 DEF StandardWhere
        <5>2. ~(r.q.sort \in {"popular", "rating"} \/ f.rating > 0)
          BY <4>9 DEF needsCustomSql
        <5>3. QED
          BY <4>4, <4>6, <4>7, <5>1, <5>2
      <4>10. QED
        BY <4>8, <4>9
    <3>5. QED
      BY <3>3, <3>4
  <2>3. QED
    BY <2>1, <2>2
<1>2. QED
  BY <1>1 DEF Wanted, Where

\* A page holds books that matched while it was made, and when nothing was
\* written meanwhile the pages divide the matching books by their order, and the
\* total counts them all (findAllPublic, browse and getRecommendedBooks).
THEOREM PagesDivide == Spec => []PagesFaithful
<1>1. TypeInv /\ ListInv => PagesFaithful
  <2> SUFFICES ASSUME TypeInv, ListInv, NEW h \in Handlers, Listed(req[h]),
                      req[h].q.kind \in {"browse", "recommended"}
               PROVE  LET r == req[h]
                          page == BooksIn(r.items)
                      IN  /\ \A b \in page : \E m \in Ran(r) : b \in Wanted(r, m)
                          /\ r.from = r.to =>
                               LET m == log[r.to]
                                   W == Wanted(r, m)
                               IN  /\ r.total = Cardinality(W)
                                   /\ Ranked(m.db, m.now, r.q, W, page,
                                             (r.q.page - 1) * Limit, r.q.page * Limit)
    BY DEF PagesFaithful, BooksIn, Ranked
  <2> DEFINE r == req[h]
  <2> DEFINE page == BooksIn(r.items)
  <2>1. /\ r \in ListRequest /\ ChosenRight(r) /\ PageRight(r) /\ LastOf(r) = r.to /\ r.op = "done"
        /\ Window(r) \subseteq 1..Len(log) /\ r.to \in 1..Len(log)
        /\ \A j \in Window(r) : log[j] \in Ran(r)
    BY Finished DEF ListRight, Listed
  <2>2. \A j \in 1..Len(log) : Wanted(r, log[j]) = Where(log[j].db, log[j].now, r)
    BY <2>1, LogAt, WantedIsWhere DEF TypeInv
  <2>3. ASSUME NEW b \in page
        PROVE  \E m \in Ran(r) : b \in Wanted(r, m)
    <3>1. PICK j \in Window(r) : b \in Where(log[j].db, log[j].now, r)
      BY <2>1, <2>3 DEF ChosenRight, PageKinds, Window
    <3>2. QED
      BY <2>1, <2>2, <3>1
  <2>4. ASSUME r.from = r.to
        PROVE  LET m == log[r.to]
                   W == Wanted(r, m)
               IN  /\ r.total = Cardinality(W)
                   /\ Ranked(m.db, m.now, r.q, W, page, (r.q.page - 1) * Limit, r.q.page * Limit)
    <3> DEFINE m == log[r.to]
    <3> DEFINE W == Wanted(r, m)
    <3> DEFINE skip == (r.q.page - 1) * Limit
    <3>1. W = Where(m.db, m.now, r) /\ m.db \in Database
      BY <2>1, <2>2, LogAt DEF TypeInv
    <3>2. /\ page \in PagesOf(W, m.db, m.now, r.q, SkipOf(r.q), TakeOf(r.q))
          /\ r.total = Cardinality(W)
      BY <2>1, <2>4, <3>1 DEF PageRight
    <3>3. SkipOf(r.q) = skip /\ TakeOf(r.q) = Limit
      BY DEF SkipOf, TakeOf
    <3>4. r.q.page \in Nat \ {0} /\ Limit \in Nat \ {0}
      BY <2>1, CatalogBounds DEF ListRequest, Query
    <3>5. skip \in Nat /\ skip + Limit = r.q.page * Limit
      BY <3>4
    <3>6. W \in SUBSET Present(m.db)
      BY DEF Wanted
    <3> HIDE DEF W, m, page
    <3>7. page \in PagesOf(W, m.db, m.now, r.q, skip, Limit)
      BY <3>2, <3>3
    <3> HIDE DEF skip
    <3>8. Ranked(m.db, m.now, r.q, W, page, skip, r.q.page * Limit)
      BY <3>1, <3>5, <3>6, <3>7, PagesByRank
    <3>9. QED
      BY <3>2, <3>8 DEF W, m, skip, page
  <2>5. QED
    BY <2>3, <2>4
<1>2. QED
  BY <1>1, ListInvariant, PTL

-----------------------------------------------------------------------------
\* Reports

\* The statements that s takes its ids from have returned.
Awaited(s, got) ==
  /\ s \in {"countries", "genres"} => "readers" \in DOMAIN got \/ "insights" \in DOMAIN got
  /\ s = "bookGenres" => "readers" \in DOMAIN got
  /\ s \in {"bookApplications", "bookReviews"} => "books" \in DOMAIN got

\* Each figure was right in some database that the report ran on, and so is what
\* it was computed from.
GotRight(got, q, t, from, to) == \A s \in DOMAIN got :
  /\ Awaited(s, got)
  /\ \E j \in from..to : got[s] \in Results(log[j].db, t, q, s, got)

ReportRight(r) ==
  /\ r.op \in {"get", "set"} => Cached(r.rq.kind)
  /\ r.op \in {"get", "query"} => /\ r.rq.part \ r.left \subseteq DOMAIN r.got
                                 /\ \A s \in DOMAIN r.got : After(s) \cap r.left = {}
  /\ DOMAIN r.got \subseteq r.rq.part
  /\ GotRight(r.got, r.rq, r.start, r.from, IF r.op \in {"get", "query"} THEN Len(log) ELSE r.to)
  /\ r.op = "get" => DOMAIN r.got = {}
  /\ r.op = "served" => r.at < r.stored + TTL

\* An entry answers whatever has its key.
EntryRight(k, e) == \E q \in load.reports :
  /\ KeyOf(q) = k /\ Cached(q.kind) /\ DOMAIN e.got \subseteq q.part
  /\ GotRight(e.got, q, e.start, e.from, e.to)

ReportInv ==
  /\ \A h \in Handlers : IsReport(req[h]) => ReportRight(req[h])
  /\ \A k \in DOMAIN cache : EntryRight(k, cache[k])

\* What a statement can return depends on those it waited for only.
LEMMA ResultsKept ==
  ASSUME NEW d, NEW t, NEW q, NEW s, NEW got, Awaited(s, got), NEW s2, s2 \notin After(s), NEW v
  PROVE  Results(d, t, q, s, Entered(got, s2, v)) = Results(d, t, q, s, got)
<1> DEFINE new == Entered(got, s2, v)
<1>1. \A x : x # s2 => (x \in DOMAIN new <=> x \in DOMAIN got) /\ (x \in DOMAIN got => new[x] = got[x])
  BY DEF Entered
<1> HIDE DEF new
<1>2. CASE s \in {"countries", "genres"}
  <2>1. s2 # "readers" /\ s2 # "insights"
    BY <1>2 DEF After
  <2>2. ReadersIn(new) = ReadersIn(got)
    BY <1>1, <1>2, <2>1 DEF ReadersIn, Awaited
  <2>3. Results(d, t, q, s, new) = Results(d, t, q, s, got)
    BY <1>2, <2>2 DEF Results
  <2>4. QED
    BY <2>3 DEF new
<1>3. CASE s = "bookGenres"
  <2>1. new["readers"] = got["readers"]
    BY <1>1, <1>3 DEF After, Awaited
  <2>2. Results(d, t, q, s, new) = Results(d, t, q, s, got)
    BY <1>3, <2>1 DEF Results
  <2>3. QED
    BY <2>2 DEF new
<1>4. CASE s \in {"bookApplications", "bookReviews"}
  <2>1. new["books"] = got["books"]
    BY <1>1, <1>4 DEF After, Awaited
  <2>2. Results(d, t, q, s, new) = Results(d, t, q, s, got)
    BY <1>4, <2>1 DEF Results
  <2>3. QED
    BY <2>2 DEF new
<1>5. CASE s \notin {"countries", "genres", "bookGenres", "bookApplications", "bookReviews"}
  <2>1. Results(d, t, q, s, new) = Results(d, t, q, s, got)
    BY <1>5 DEF Results
  <2>2. QED
    BY <2>1 DEF new
<1>6. QED
  BY <1>2, <1>3, <1>4, <1>5

\* A part of a report has the statements that its statements wait for.
LEMMA PartsClosed ==
  ASSUME NEW kind \in Kinds, NEW part \in Parts(kind), NEW s \in part
  PROVE  /\ s \in {"countries", "genres"} => "readers" \in part \/ "insights" \in part
         /\ s = "bookGenres" => "readers" \in part
         /\ s \in {"bookApplications", "bookReviews"} => "books" \in part
         /\ kind \in {"stats", "book", "performance"} =>
              s \in {"book", "counts", "summary", "ratings", "recent", "response", "insights", "countries",
                     "genres", "books", "bookApplications", "bookReviews"}
<1>1. CASE kind = "author"
  BY <1>1 DEF Parts
<1>2. CASE kind = "book"
  BY <1>2 DEF Parts
<1>3. CASE kind = "stats"
  BY <1>3 DEF Parts
<1>4. CASE kind = "performance"
  BY <1>4 DEF Parts
<1>5. CASE kind \in {"myAuthorStats", "myReaderStats"}
  BY <1>5 DEF Parts
<1>6. QED
  BY <1>1, <1>2, <1>3, <1>4, <1>5 DEF Kinds

LEMMA AwaitedAll ==
  ASSUME NEW kind \in Kinds, NEW part \in Parts(kind), NEW s \in part, NEW left, NEW got,
         part \ left \subseteq DOMAIN got, After(s) \cap left = {}
  PROVE  Awaited(s, got)
<1>1. /\ s \in {"countries", "genres"} => "readers" \in part \/ "insights" \in part
      /\ s = "bookGenres" => "readers" \in part
      /\ s \in {"bookApplications", "bookReviews"} => "books" \in part
  BY PartsClosed
<1>2. CASE s \in {"countries", "genres"}
  <2>1. After(s) = {"readers", "insights"}
    BY <1>2 DEF After
  <2>2. QED
    BY <1>1, <1>2, <2>1 DEF Awaited
<1>3. CASE s = "bookGenres"
  <2>1. After(s) = {"readers"}
    BY <1>3 DEF After
  <2>2. QED
    BY <1>1, <1>3, <2>1 DEF Awaited
<1>4. CASE s \in {"bookApplications", "bookReviews"}
  <2>1. After(s) = {"books"}
    BY <1>4 DEF After
  <2>2. QED
    BY <1>1, <1>4, <2>1 DEF Awaited
<1>5. QED
  BY <1>2, <1>3, <1>4 DEF Awaited

LEMMA NotAfterItself == \A s : s \notin After(s)
BY DEF After

\* Reports that share a key share their figures: only an author's report looks
\* at the range, which is part of its key.
LEMMA SameKey ==
  ASSUME NEW q1 \in Report, NEW q2 \in Report, KeyOf(q1) = KeyOf(q2), Cached(q1.kind),
         q1.part \in Parts(q1.kind), NEW s \in q1.part, NEW d, NEW t, NEW got
  PROVE  Results(d, t, q1, s, got) = Results(d, t, q2, s, got)
<1>1. /\ q1.kind = q2.kind /\ q1.of = q2.of /\ q1.part = q2.part
      /\ q1.kind = "author" => q1.range = q2.range
  BY DEF KeyOf
<1>2. CASE q1.kind = "author"
  <2>1. \A q \in Report : q = [kind |-> q.kind, of |-> q.of, range |-> q.range, part |-> q.part]
    BY DEF Report
  <2>2. q1 = q2
    BY <1>1, <1>2, <2>1
  <2>3. QED
    BY <2>2
<1>3. CASE q1.kind # "author"
  <2>1. q1.kind \in {"stats", "book", "performance"} /\ q1.kind \in Kinds
    BY <1>3 DEF Report, Kinds, Cached
  <2>2. s \in {"book", "counts", "summary", "ratings", "recent", "response", "insights", "countries",
               "genres", "books", "bookApplications", "bookReviews"}
    BY <2>1, PartsClosed
  <2>3. CASE s \in {"book", "counts", "summary", "ratings", "recent", "response"}
    BY <1>1, <2>3 DEF Results
  <2>4. CASE s \in {"insights", "countries", "genres", "books", "bookApplications", "bookReviews"}
    BY <1>1, <2>4 DEF Results
  <2>5. QED
    BY <2>2, <2>3, <2>4
<1>4. QED
  BY <1>2, <1>3

\* One more statement returns: what the others returned stays right.
LEMMA GotEntered ==
  ASSUME TypeInv, NEW h \in Handlers, ReportTyped(req[h]), ReportRight(req[h]), req[h].op = "query",
         NEW s \in req[h].left, After(s) \cap req[h].left = {},
         NEW result \in Results(Db, req[h].start, req[h].rq, s, req[h].got)
  PROVE  LET r == req[h]
             got == Entered(r.got, s, result)
         IN  /\ GotRight(got, r.rq, r.start, r.from, Len(log))
             /\ DOMAIN got \subseteq r.rq.part /\ r.rq.part \ (r.left \ {s}) \subseteq DOMAIN got
             /\ \A x \in DOMAIN got : After(x) \cap (r.left \ {s}) = {}
<1> DEFINE r == req[h]
<1> DEFINE got == Entered(r.got, s, result)
<1>1. /\ r.rq \in load.reports /\ r.left \subseteq r.rq.part /\ r.from \in Nat /\ r.from <= Len(log)
      /\ Len(log) \in Nat
  BY DbTyped DEF ReportTyped, ReportShape, TypeInv
<1>2. r.rq.part \in Parts(r.rq.kind) /\ r.rq.kind \in Kinds
  BY <1>1, LoadTyped DEF TypeInv, Report
<1>3. /\ r.rq.part \ r.left \subseteq DOMAIN r.got /\ DOMAIN r.got \subseteq r.rq.part
      /\ \A x \in DOMAIN r.got : After(x) \cap r.left = {}
      /\ GotRight(r.got, r.rq, r.start, r.from, Len(log))
  BY DEF ReportRight
<1>4. DOMAIN got = DOMAIN r.got \cup {s} /\ got[s] = result /\ \A x \in DOMAIN r.got \ {s} : got[x] = r.got[x]
  BY DEF Entered
<1>5. ASSUME NEW x \in DOMAIN got
      PROVE  /\ After(x) \cap r.left = {} /\ Awaited(x, got)
             /\ \A d : Results(d, r.start, r.rq, x, got) = Results(d, r.start, r.rq, x, r.got)
  <2>1. After(x) \cap r.left = {} /\ x \in r.rq.part
    BY <1>1, <1>3, <1>4
  <2>2. s \notin After(x)
    BY <2>1
  <2>3. Awaited(x, r.got)
    BY <1>2, <1>3, <2>1, AwaitedAll
  <2>4. Awaited(x, got)
    BY <1>4, <2>3 DEF Awaited
  <2>5. QED
    BY <2>1, <2>2, <2>3, <2>4, ResultsKept
<1> HIDE DEF got
<1>6. ASSUME NEW x \in DOMAIN got
      PROVE  \E j \in r.from..Len(log) : got[x] \in Results(log[j].db, r.start, r.rq, x, got)
  <2>1. CASE x = s
    <3>1. Len(log) \in r.from..Len(log) /\ log[Len(log)].db = Db
      BY <1>1 DEF Db
    <3>2. got[x] \in Results(Db, r.start, r.rq, x, got)
      BY <1>4, <1>5, <2>1
    <3>3. QED
      BY <3>1, <3>2
  <2>2. CASE x # s
    <3>1. x \in DOMAIN r.got /\ got[x] = r.got[x]
      BY <1>4, <2>2
    <3>2. PICK j \in r.from..Len(log) : r.got[x] \in Results(log[j].db, r.start, r.rq, x, r.got)
      BY <1>3, <3>1 DEF GotRight
    <3>3. QED
      BY <1>5, <3>1, <3>2
  <2>3. QED
    BY <2>1, <2>2
<1>7. GotRight(got, r.rq, r.start, r.from, Len(log))
  BY <1>5, <1>6 DEF GotRight
<1>8. DOMAIN got \subseteq r.rq.part /\ r.rq.part \ (r.left \ {s}) \subseteq DOMAIN got
  BY <1>1, <1>3, <1>4
<1>9. \A x \in DOMAIN got : After(x) \cap (r.left \ {s}) = {}
  BY <1>5
<1>10. QED
  BY <1>7, <1>8, <1>9 DEF got

LEMMA StatementRight ==
  ASSUME TypeInv, ReportInv, NEW h \in Handlers, Statement(h)
  PROVE  \E x : IsReport(x) /\ ReportRight(x) /\ Becomes(h, x)
<1> DEFINE r == req[h]
<1>1. ReportTyped(r) /\ ReportRight(r) /\ r.op = "query" /\ r \in ReportShape(r.got)
  BY ReqAt, Listed1 DEF Statement, ReportInv, ReportTyped
<1>2. Now \in Nat /\ Len(log) \in Nat /\ TTL \in Nat \ {0}
  BY DbTyped, AnalyticsBounds DEF TypeInv
<1>3. PICK s \in r.left : /\ After(s) \cap r.left = {}
                          /\ \E result \in Results(Db, r.start, r.rq, s, r.got) : Becomes(h, Returned(r, s, result))
  BY DEF Statement, Returned
<1>4. PICK result \in Results(Db, r.start, r.rq, s, r.got) : Becomes(h, Returned(r, s, result))
  BY <1>3
<1> DEFINE got  == Entered(r.got, s, result)
<1> DEFINE left == r.left \ {s}
<1>5. /\ GotRight(got, r.rq, r.start, r.from, Len(log))
      /\ DOMAIN got \subseteq r.rq.part /\ r.rq.part \ left \subseteq DOMAIN got
      /\ \A x \in DOMAIN got : After(x) \cap left = {}
  BY <1>1, <1>3, GotEntered
<1>6. Becomes(h, IF left = {} THEN [Loaded(r, got) EXCEPT !.left = {}]
                 ELSE [r EXCEPT !.left = left, !.got = got])
  BY <1>4 DEF Returned
<1> HIDE DEF got, left
<1>7. IsReport([r EXCEPT !.left = left, !.got = got]) /\ ReportRight([r EXCEPT !.left = left, !.got = got])
  <2> DEFINE x == [r EXCEPT !.left = left, !.got = got]
  <2>1. /\ IsReport(x) /\ x.op = "query" /\ x.got = got /\ x.left = left /\ x.rq = r.rq
        /\ x.start = r.start /\ x.from = r.from
    BY <1>1 DEF ReportShape, IsReport
  <2> HIDE DEF x
  <2>2. ReportRight(x)
    BY <1>5, <2>1 DEF ReportRight
  <2>3. QED
    BY <2>1, <2>2 DEF x
<1>8. IsReport([Loaded(r, got) EXCEPT !.left = {}]) /\ ReportRight([Loaded(r, got) EXCEPT !.left = {}])
  <2> DEFINE op == IF "book" \in DOMAIN got /\ got["book"] = None THEN "failed"
                   ELSE IF Cached(r.rq.kind) THEN "set" ELSE "served"
  <2> DEFINE x == [[r EXCEPT !.got = got, !.to = Len(log), !.stored = Now, !.at = Now, !.op = op]
                     EXCEPT !.left = {}]
  <2>1. op \in {"failed", "served"} \/ (op = "set" /\ Cached(r.rq.kind))
    OBVIOUS
  <2>2. [Loaded(r, got) EXCEPT !.left = {}] = x
    BY DEF Loaded
  <2> HIDE DEF op
  <2>3. /\ IsReport(x) /\ x.op = op /\ x.got = got /\ x.left = {} /\ x.rq = r.rq /\ x.to = Len(log)
        /\ x.start = r.start /\ x.from = r.from /\ x.at = Now /\ x.stored = Now
    BY <1>1 DEF ReportShape, IsReport
  <2> HIDE DEF x
  <2>4. ReportRight(x)
    BY <1>2, <1>5, <2>1, <2>3 DEF ReportRight
  <2>5. QED
    BY <2>2, <2>3, <2>4
<1>9. QED
  BY <1>6, <1>7, <1>8

LEMMA HitRight ==
  ASSUME TypeInv, ReportInv, NEW h \in Handlers, Hit(h)
  PROVE  \E x : IsReport(x) /\ ReportRight(x) /\ Becomes(h, x)
<1> DEFINE r == req[h]
<1>1. ReportTyped(r) /\ r \in ReportShape(r.got) /\ r.rq \in load.reports
  BY ReqAt DEF Hit, ReportTyped
<1> DEFINE entry == cache[KeyOf(r.rq)]
<1>2. /\ EntryTyped(entry) /\ EntryRight(KeyOf(r.rq), entry) /\ Now < entry.until
  BY DEF Hit, Fresh, TypeInv, ReportInv
<1> DEFINE x == [r EXCEPT !.op = "served", !.left = {}, !.got = entry.got, !.from = entry.from,
                          !.to = entry.to, !.start = entry.start, !.stored = entry.stored, !.at = Now]
<1>3. Becomes(h, x)
  BY DEF Hit
<1> HIDE DEF entry
<1>4. /\ IsReport(x) /\ x.op = "served" /\ x.rq = r.rq /\ x.got = entry.got /\ x.from = entry.from
      /\ x.to = entry.to /\ x.start = entry.start /\ x.stored = entry.stored /\ x.at = Now
  BY <1>1 DEF ReportShape, IsReport
<1> HIDE DEF x
<1>5. PICK q \in load.reports : /\ KeyOf(q) = KeyOf(r.rq) /\ Cached(q.kind) /\ DOMAIN entry.got \subseteq q.part
                                /\ GotRight(entry.got, q, entry.start, entry.from, entry.to)
  BY <1>2 DEF EntryRight
<1>6. q \in Report /\ q.part \in Parts(q.kind) /\ r.rq \in Report /\ q.part = r.rq.part
  BY <1>1, <1>5, LoadTyped DEF TypeInv, KeyOf
<1>7. GotRight(entry.got, r.rq, entry.start, entry.from, entry.to)
  <2>1. ASSUME NEW s \in DOMAIN entry.got
        PROVE  \A d : Results(d, entry.start, q, s, entry.got) = Results(d, entry.start, r.rq, s, entry.got)
    BY <1>5, <1>6, SameKey
  <2>2. QED
    BY <1>5, <2>1 DEF GotRight
<1>8. x.at < x.stored + TTL
  BY <1>2, <1>4 DEF EntryTyped
<1>9. ReportRight(x)
  BY <1>4, <1>5, <1>6, <1>7, <1>8 DEF ReportRight
<1>10. QED
  BY <1>3, <1>4, <1>9

LEMMA MissRight ==
  ASSUME TypeInv, ReportInv, NEW h \in Handlers, Miss(h)
  PROVE  \E x : IsReport(x) /\ ReportRight(x) /\ Becomes(h, x)
<1> DEFINE r == req[h]
<1>1. r.op = "get" /\ ReportRight(r) /\ r \in ReportShape(r.got)
  BY ReqAt, Listed1 DEF Miss, ReportInv, ReportTyped
<1> DEFINE x == [r EXCEPT !.op = "query", !.from = Len(log), !.to = Len(log), !.start = Now]
<1>2. IsReport(x) /\ x.op = "query" /\ x.rq = r.rq /\ x.got = r.got /\ x.left = r.left
  BY <1>1 DEF ReportShape, IsReport
<1> HIDE DEF x
<1>3. ReportRight(x)
  BY <1>1, <1>2 DEF ReportRight, GotRight
<1>4. QED
  BY <1>2, <1>3 DEF Miss, x

LEMMA ReportStartRight ==
  ASSUME TypeInv, NEW h \in Handlers, NEW q \in load.reports, ReportStart(h, q)
  PROVE  \E x : IsReport(x) /\ ReportRight(x) /\ Becomes(h, x)
<1> DEFINE x == [op |-> IF Cached(q.kind) THEN "get" ELSE "query", rq |-> q, left |-> q.part,
                 got |-> <<>>, from |-> Len(log), to |-> Len(log), start |-> Now,
                 stored |-> Now, at |-> Now]
<1>1. /\ IsReport(x) /\ x.rq = q /\ x.left = q.part /\ DOMAIN x.got = {}
      /\ x.op = "query" \/ (x.op = "get" /\ Cached(q.kind))
  BY DEF IsReport
<1>2. Becomes(h, x)
  BY DEF ReportStart
<1> HIDE DEF x
<1>3. ReportRight(x)
  BY <1>1 DEF ReportRight, GotRight
<1>4. QED
  BY <1>1, <1>2, <1>3

LEMMA StoreRight ==
  ASSUME TypeInv, ReportInv, NEW h \in Handlers, Store(h)
  PROVE  /\ \E x : IsReport(x) /\ ReportRight(x) /\ Becomes(h, x)
         /\ \A k \in DOMAIN cache' : EntryRight(k, cache'[k])
<1> DEFINE r == req[h]
<1>1. r.op = "set" /\ ReportRight(r) /\ r \in ReportShape(r.got) /\ r.rq \in load.reports
  BY ReqAt, Listed1 DEF Store, ReportInv, ReportTyped
<1>2. Now \in Nat /\ TTL \in Nat \ {0}
  BY DbTyped, AnalyticsBounds DEF TypeInv
<1> DEFINE x == [r EXCEPT !.op = "served", !.stored = Now, !.at = Now]
<1>3. /\ IsReport(x) /\ x.op = "served" /\ x.rq = r.rq /\ x.got = r.got /\ x.from = r.from
      /\ x.to = r.to /\ x.start = r.start /\ x.stored = Now /\ x.at = Now
  BY <1>1 DEF ReportShape, IsReport
<1>4. Becomes(h, x)
  BY DEF Store
<1> HIDE DEF x
<1>5. ReportRight(x)
  BY <1>1, <1>2, <1>3 DEF ReportRight
<1>6. EntryRight(KeyOf(r.rq), Stored(r))
  BY <1>1 DEF EntryRight, Stored, ReportRight
<1>7. \A k \in DOMAIN cache' : EntryRight(k, cache'[k])
  <2>1. CASE UNCHANGED cache
    BY <2>1 DEF ReportInv
  <2>2. CASE cache' = Entered(cache, KeyOf(r.rq), Stored(r))
    BY <1>6, <2>2 DEF ReportInv, Entered
  <2>3. QED
    BY <2>1, <2>2 DEF Store
<1>8. QED
  BY <1>3, <1>4, <1>5, <1>7

LEMMA ReportMoved ==
  ASSUME TypeInv, ReportInv, NEW h \in Handlers, NEW x, Becomes(h, x), IsReport(x) => ReportRight(x),
         log' = log, load' = load, \A k \in DOMAIN cache' : EntryRight(k, cache'[k])
  PROVE  ReportInv'
<1>1. \A g \in Handlers : req'[g] = (IF g = h THEN x ELSE req[g])
  BY DEF Becomes, TypeInv
<1>2. ASSUME NEW g \in Handlers, IsReport(req'[g])
      PROVE  ReportRight(req'[g])
  BY <1>1, <1>2 DEF ReportInv
<1>3. ASSUME NEW g \in Handlers, IsReport(req'[g])
      PROVE  ReportRight(req[g])'
  BY <1>2, <1>3 DEF ReportRight, GotRight
<1>4. \A k \in DOMAIN cache' : EntryRight(k, cache[k])'
  BY DEF EntryRight, GotRight
<1>5. QED
  BY <1>3, <1>4 DEF ReportInv, IsReport

\* The log grows behind reports and entries.
LEMMA ReportsGrown ==
  ASSUME TypeInv, ReportInv, Grown, LogTyped', UNCHANGED <<req, load, cache>>
  PROVE  ReportInv'
<1>1. /\ Len(log) \in Nat /\ Len(log') \in Nat /\ Len(log) <= Len(log')
      /\ \A j \in 1..Len(log) : log'[j] = log[j]
  BY DEF Grown, LogTyped, TypeInv
<1>2. ASSUME NEW got, NEW q, NEW t, NEW from \in Nat, NEW to \in Nat, 1 <= from, to <= Len(log),
             GotRight(got, q, t, from, to)
      PROVE  GotRight(got, q, t, from, to)'
  <2>1. \A j \in from..to : log'[j] = log[j]
    BY <1>1, <1>2
  <2>2. QED
    BY <1>2, <2>1 DEF GotRight
<1>3. ASSUME NEW h \in Handlers, IsReport(req[h])
      PROVE  ReportRight(req[h])'
  <2> DEFINE r == req[h]
  <2>1. ReportTyped(r) /\ ReportRight(r)
    BY <1>3, Listed1 DEF ReportInv
  <2>2. r.from \in Nat /\ r.to \in Nat /\ 1 <= r.from /\ r.to <= Len(log)
    BY <2>1 DEF ReportTyped, ReportShape
  <2>3. CASE r.op \in {"get", "query"}
    <3>1. GotRight(r.got, r.rq, r.start, r.from, Len(log))
      BY <2>1, <2>3 DEF ReportRight
    <3>2. \A s \in DOMAIN r.got : \E j \in r.from..Len(log') :
            r.got[s] \in Results(log'[j].db, r.start, r.rq, s, r.got)
      <4>1. \A j \in r.from..Len(log) : j \in r.from..Len(log') /\ log'[j] = log[j]
        BY <1>1, <2>2
      <4>2. QED
        BY <3>1, <4>1 DEF GotRight
    <3>3. QED
      BY <1>3, <2>1, <2>3, <3>2 DEF ReportRight, GotRight
  <2>4. CASE r.op \notin {"get", "query"}
    <3>1. GotRight(r.got, r.rq, r.start, r.from, r.to)'
      BY <1>2, <2>1, <2>2, <2>4 DEF ReportRight
    <3>2. QED
      BY <2>1, <2>4, <3>1 DEF ReportRight
  <2>5. QED
    BY <2>3, <2>4
<1>4. ASSUME NEW k \in DOMAIN cache
      PROVE  EntryRight(k, cache[k])'
  <2> DEFINE e == cache[k]
  <2>1. e.from \in Nat /\ e.to \in Nat /\ 1 <= e.from /\ e.to <= Len(log)
    BY DEF TypeInv, EntryTyped, EntryShape
  <2>2. PICK q \in load.reports : /\ KeyOf(q) = k /\ Cached(q.kind) /\ DOMAIN e.got \subseteq q.part
                                  /\ GotRight(e.got, q, e.start, e.from, e.to)
    BY DEF ReportInv, EntryRight
  <2>3. GotRight(e.got, q, e.start, e.from, e.to)'
    BY <1>2, <2>1, <2>2
  <2>4. QED
    BY <2>2, <2>3 DEF EntryRight
<1>5. QED
  BY <1>3, <1>4 DEF ReportInv, IsReport

LEMMA ReportStep == TypeInv /\ TypeInv' /\ ReportInv /\ [Next]_vars => ReportInv'
<1> SUFFICES ASSUME TypeInv, TypeInv', ReportInv, [Next]_vars
             PROVE  ReportInv'
  OBVIOUS
<1>1. load.handlers \subseteq Handlers
  BY LoadTyped DEF TypeInv
<1>2. ASSUME NEW h \in Handlers, Lists(h), UNCHANGED cache
      PROVE  ReportInv'
  <2>1. UNCHANGED <<log, load>> /\ \E x : ListTyped(x) /\ Becomes(h, x)
    BY <1>2, ListsTyped
  <2>2. \A x : ListTyped(x) => ~IsReport(x)
    BY DEF ListTyped, ListRequest, IsReport
  <2>3. QED
    BY <1>2, <2>1, <2>2, ReportMoved DEF ReportInv
<1>3. ASSUME NEW h \in Handlers, ReportSteps(h)
      PROVE  ReportInv'
  <2>1. UNCHANGED <<log, load>>
    BY <1>3, ReportsTyped
  <2>2. \E x : IsReport(x) /\ ReportRight(x) /\ Becomes(h, x)
    BY <1>3, ReportStartRight, HitRight, MissRight, StatementRight, StoreRight DEF ReportSteps
  <2>3. \A k \in DOMAIN cache' : EntryRight(k, cache'[k])
    BY <1>3, StoreRight DEF ReportSteps, ReportStart, Hit, Miss, Statement, ReportInv
  <2>4. QED
    BY <2>1, <2>2, <2>3, ReportMoved
<1>4. CASE Addresses /\ UNCHANGED cache
  BY <1>4, AddressesTyped, ReportsGrown
<1>5. CASE (OtherWrite \/ Tick) /\ UNCHANGED cache
  BY <1>5, OtherWriteTyped, ReportsGrown
<1>6. CASE UNCHANGED vars
  BY <1>6, NotGrown, ReportsGrown DEF TypeInv, vars, catalogVars
<1>7. QED
  BY <1>1, <1>2, <1>3, <1>4, <1>5, <1>6 DEF Next, CatalogNext

\* A report that is served answers the request it is served to: each of its
\* figures was right for that request at some moment while the report was made,
\* and when it comes from the cache it was put there less than the TTL ago
\* (getOrSet with the keys of the analytics, and the statements of each report).
THEOREM ServedReportsFresh == Spec => []ReportsFresh
<1>1. TypeInv /\ ReportInv => ReportsFresh
  <2> SUFFICES ASSUME TypeInv, ReportInv, NEW h \in Handlers, Served(req[h])
               PROVE  LET r == req[h]
                      IN  /\ r.at < r.stored + TTL
                          /\ \A s \in DOMAIN r.got : \E m \in Ran(r) :
                               r.got[s] \in Results(m.db, r.start, r.rq, s, r.got)
    BY DEF ReportsFresh
  <2> DEFINE r == req[h]
  <2>1. ReportRight(r) /\ r.op = "served"
    BY DEF ReportInv, Served, IsReport
  <2>2. r.at < r.stored + TTL /\ GotRight(r.got, r.rq, r.start, r.from, r.to)
    BY <2>1 DEF ReportRight
  <2>3. ASSUME NEW s \in DOMAIN r.got
        PROVE  \E m \in Ran(r) : r.got[s] \in Results(m.db, r.start, r.rq, s, r.got)
    <3>1. PICK j \in r.from..r.to : r.got[s] \in Results(log[j].db, r.start, r.rq, s, r.got)
      BY <2>2 DEF GotRight
    <3>2. log[j] \in Ran(r)
      BY DEF Ran, Window
    <3>3. QED
      BY <3>1, <3>2
  <2>4. QED
    BY <2>2, <2>3
<1>2. Init => ReportInv
  BY DEF Init, CatalogInit, ReportInv, IsReport, Idle
<1>3. QED
  BY <1>1, <1>2, TypeInit, TypeStep, ReportStep, PTL DEF Spec
=============================================================================
