----------------------------- MODULE FilesProofs -----------------------------
(***************************************************************************)
(* Theorems about Files, for any books, users, readers, uploads and bounds.*)
(***************************************************************************)
EXTENDS Files, FiniteSetTheorems, TLAPS

ImageOps == {"drop", "put", "load", "save"}
EditOps  == {"write", "clear", "insert"}

ImageReq == [op : ImageOps, owner : Owners, kind : Kinds, upload : Upload \cup {None},
             url : Urls, row : BookRow \cup {None}]
EraseReq == [op : {"erase"}, owner : Books, left : SUBSET Urls]
EditReq  == [op : EditOps, owner : Books, row : BookRow, body : EditBody]
FindReq  == [op : {"find"}, reader : Readers, book : Books, row : {None}]
SendReq  == [op : {"send"}, reader : Readers, book : Books,
             row : {row \in BookRow : row.file # None}]

-----------------------------------------------------------------------------
\* Values

LEMMA Numbers == MaxKeys \in Nat /\ MaxCopies \in Nat /\ MaxDisturbed \in Nat
BY FilesBounds

LEMMA AllRequests == Requests = {Idle} \cup ImageReq \cup EraseReq \cup EditReq \cup FindReq \cup SendReq
BY DEF Requests, ImageReq, EraseReq, EditReq, FindReq, SendReq, ImageOps, EditOps

\* A request is known by its operation.
LEMMA RequestByOp ==
  ASSUME NEW r \in Requests
  PROVE  /\ r.op \in {"idle", "erase", "find", "send"} \cup ImageOps \cup EditOps
         /\ r.op = "idle" => r = Idle
         /\ r.op \in ImageOps => r \in ImageReq
         /\ r.op \in EditOps => r \in EditReq
         /\ r.op = "erase" => r \in EraseReq
         /\ r.op = "find" => r \in FindReq
         /\ r.op = "send" => r \in SendReq
<1>1. Idle.op = "idle"
  BY DEF Idle
<1>2. \A x \in ImageReq : x.op \in ImageOps
  BY DEF ImageReq
<1>3. \A x \in EditReq : x.op \in EditOps
  BY DEF EditReq
<1>4. \A x \in EraseReq : x.op = "erase"
  BY DEF EraseReq
<1>5. (\A x \in FindReq : x.op = "find") /\ (\A x \in SendReq : x.op = "send")
  BY DEF FindReq, SendReq
<1>6. QED
  BY <1>1, <1>2, <1>3, <1>4, <1>5, AllRequests DEF ImageOps, EditOps

-----------------------------------------------------------------------------
\* Types and stages

\* What an image request knows at each of its stages
ReqStaged(r) ==
  r.op \in ImageOps =>
    /\ Owns(r.owner, r.kind)
    /\ r.op = "drop" => r.url # None
    /\ r.op = "put" => r.upload # None
    /\ r.op = "load" => r.upload # None /\ r.kind # "avatar"
    /\ r.op = "drop" /\ r.upload = None => r.kind # "file" /\ (r.kind # "avatar" => r.row # None)
    /\ r.op = "save" => (r.kind # "avatar" => r.row # None) /\ (r.kind = "file" => r.upload # None)
    /\ r.op \in {"load", "save"} => r.url \in Keys \cup {None}

RowsTyped ==
  /\ books \in [Books -> BookRow \cup {None}]
  /\ genres \in [Books -> SUBSET GenreIds]
  /\ series \in [SeriesIds -> Authors \cup {None, "gone"}]
  /\ avatar \in [Users -> Urls]
  /\ objects \in [Keys -> Object \cup {None}]
  /\ approved \in [Books -> SUBSET Readers]
  /\ copies \subseteq Copy /\ drawn \in 0..MaxKeys /\ disturbed \subseteq Owners
  /\ asked \in [Books -> (SUBSET GenreIds) \cup {Unasked}]

Staged ==
  /\ RowsTyped
  /\ req \in [Handlers -> Requests]
  /\ \A h \in Handlers : ReqStaged(req[h])

LEMMA StagedTypes == Staged => FilesTypeOK
BY DEF Staged, RowsTyped, FilesTypeOK

LEMMA IdleStaged == Idle \in Requests /\ ReqStaged(Idle) /\ Idle.op = "idle"
BY AllRequests DEF Idle, ReqStaged, ImageOps

\* A step that replaces one request
Others(h) == \A g \in Handlers : g # h => req'[g] = req[g]

LEMMA FrameReq ==
  ASSUME NEW h \in Handlers, NEW r \in Requests, req \in [Handlers -> Requests], Becomes(h, r)
  PROVE  req'[h] = r /\ Others(h) /\ req' \in [Handlers -> Requests]
BY DEF Becomes, Others

LEMMA StagedFrame ==
  ASSUME Staged, NEW h \in Handlers, NEW r \in Requests, ReqStaged(r), Becomes(h, r), RowsTyped'
  PROVE  Staged'
<1>1. req'[h] = r /\ Others(h) /\ req' \in [Handlers -> Requests]
  BY FrameReq DEF Staged
<1>2. \A g \in Handlers : ReqStaged(req[g])'
  BY <1>1 DEF Others, Staged, ReqStaged
<1>3. QED
  BY <1>1, <1>2 DEF Staged

LEMMA ReqTyped ==
  ASSUME Staged, NEW h \in Handlers
  PROVE  /\ req[h] \in Requests /\ ReqStaged(req[h]) /\ req \in [Handlers -> Requests]
         /\ req[h].op \in ImageOps => req[h] \in ImageReq
         /\ req[h].op \in EditOps => req[h] \in EditReq
         /\ req[h].op = "erase" => req[h] \in EraseReq
         /\ req[h].op = "find" => req[h] \in FindReq
         /\ req[h].op = "send" => req[h] \in SendReq
         /\ req[h].op = "idle" <=> req[h] = Idle
BY RequestByOp, IdleStaged DEF Staged

\* A url column of a row is a url.
LEMMA UrlsTyped ==
  ASSUME RowsTyped, NEW o \in Owners, NEW kind \in Kinds, Owns(o, kind), Present(o)
  PROVE  UrlOf(o, kind) \in Urls
<1>1. CASE kind = "avatar"
  BY <1>1 DEF RowsTyped, Owns, UrlOf
<1>2. CASE kind \in {"file", "cover"}
  <2>1. o \in Books /\ books[o] \in BookRow
    BY <1>2 DEF RowsTyped, Owns, Owners, Present
  <2>2. QED
    BY <1>2, <2>1 DEF UrlOf, BookRow
<1>3. QED
  BY <1>1, <1>2 DEF Kinds

LEMMA DeletedTyped ==
  ASSUME RowsTyped, NEW urls
  PROVE  Deleted(urls) \in [Keys -> Object \cup {None}]
BY DEF RowsTyped, Deleted

LEMMA DisturbTyped ==
  ASSUME RowsTyped, NEW o \in Owners, Disturb(o)
  PROVE  disturbed' \subseteq Owners
BY DEF RowsTyped, Disturb

LEMMA BeginTyped ==
  ASSUME RowsTyped, NEW h, NEW o \in Owners, NEW r, Begin(h, o, r)
  PROVE  disturbed' \subseteq Owners
BY DEF RowsTyped, Begin

\* Requests for images that begin
LEMMA TypedUploadFind ==
  ASSUME Staged, NEW h \in Handlers, NEW o \in Owners, NEW kind \in Kinds, NEW f \in Uploads,
         UploadFind(h, o, kind, f)
  PROVE  Staged'
<1> DEFINE op == IF UrlOf(o, kind) = None THEN "put" ELSE "drop"
           url == UrlOf(o, kind)
           r == [op |-> op, owner |-> o, kind |-> kind, upload |-> f, url |-> url, row |-> None]
<1>1. url \in Urls /\ f \in Upload /\ f # None /\ Owns(o, kind)
  BY UrlsTyped, FilesUploads, FilesNulls DEF UploadFind, Staged
<1>2. op \in {"put", "drop"} /\ (op = "drop" => url # None)
  OBVIOUS
<1>3. Becomes(h, r)
  BY DEF UploadFind, Begin
<1> HIDE DEF op, url
<1>4. r \in ImageReq
  BY <1>1, <1>2 DEF ImageReq, ImageOps
<1>5. r \in Requests /\ ReqStaged(r)
  BY <1>1, <1>2, <1>4, AllRequests DEF ReqStaged
<1>6. RowsTyped'
  BY BeginTyped DEF UploadFind, rows, Staged, RowsTyped
<1>7. QED
  BY <1>3, <1>5, <1>6, StagedFrame

LEMMA TypedRemoveFind ==
  ASSUME Staged, NEW h \in Handlers, NEW o \in Owners, NEW kind \in Kinds, RemoveFind(h, o, kind)
  PROVE  Staged'
<1> DEFINE op == IF UrlOf(o, kind) = None THEN "save" ELSE "drop"
           url == UrlOf(o, kind)
           row == IF o \in Books THEN books[o] ELSE None
           r == [op |-> op, owner |-> o, kind |-> kind, upload |-> None, url |-> url, row |-> row]
<1>1. url \in Urls /\ Owns(o, kind) /\ kind # "file"
  BY UrlsTyped DEF RemoveFind, Staged
<1>2. op \in {"save", "drop"} /\ (op = "drop" => url # None) /\ (op = "save" => url = None)
  OBVIOUS
<1>3. row \in BookRow \cup {None} /\ (kind # "avatar" => row # None)
  BY FilesOwners DEF RemoveFind, Staged, RowsTyped, Present, Owns, Owners
<1>4. Becomes(h, r)
  BY DEF RemoveFind, Begin
<1> HIDE DEF op, url, row
<1>5. r \in ImageReq
  BY <1>1, <1>2, <1>3 DEF ImageReq, ImageOps
<1>6. r \in Requests /\ ReqStaged(r)
  BY <1>1, <1>2, <1>3, <1>5, AllRequests DEF ReqStaged
<1>7. RowsTyped'
  BY BeginTyped DEF RemoveFind, rows, Staged, RowsTyped
<1>8. QED
  BY <1>4, <1>6, <1>7, StagedFrame

\* Requests for images that go on
LEMMA ImageFields ==
  ASSUME NEW r \in ImageReq
  PROVE  /\ r.op \in ImageOps /\ r.owner \in Owners /\ r.kind \in Kinds
         /\ r.upload \in Upload \cup {None} /\ r.url \in Urls /\ r.row \in BookRow \cup {None}
BY DEF ImageReq

LEMMA TypedDrop ==
  ASSUME Staged, NEW h \in Handlers, Drop(h)
  PROVE  Staged'
<1> DEFINE q == req[h]
           r == IF q.upload = None THEN [q EXCEPT !.op = "save", !.url = None]
                                   ELSE [q EXCEPT !.op = "put"]
<1>1. q \in ImageReq /\ q.op = "drop" /\ ReqStaged(q)
  BY ReqTyped DEF Drop, ImageOps
<1>2. Becomes(h, r)
  BY DEF Drop
<1>3. RowsTyped'
  <2>1. objects' \in [Keys -> Object \cup {None}]
    BY DeletedTyped DEF Drop, Staged, RowsTyped
  <2>2. disturbed' \subseteq Owners
    BY <1>1, ImageFields, DisturbTyped DEF Drop, Staged, RowsTyped
  <2>3. QED
    BY <2>1, <2>2 DEF Drop, rows, Staged, RowsTyped
<1> HIDE DEF q
<1>4. r \in ImageReq
  BY <1>1 DEF ImageReq, ImageOps, Urls
<1>5. r \in Requests
  BY <1>4, AllRequests
<1>6. ReqStaged(r)
  BY <1>1, ImageFields DEF ReqStaged, ImageReq, ImageOps
<1>7. QED
  BY <1>2, <1>3, <1>5, <1>6, StagedFrame

LEMMA TypedPut ==
  ASSUME Staged, NEW h \in Handlers, Put(h)
  PROVE  Staged'
<1> DEFINE q == req[h]
           op == IF q.kind = "avatar" THEN "save" ELSE "load"
           r == [q EXCEPT !.op = op, !.url = drawn']
           obj == [ext |-> q.upload.ext, body |-> q.upload.body,
                   mark |-> q.upload.mark, owner |-> q.owner]
<1>1. q \in ImageReq /\ q.op = "put" /\ ReqStaged(q)
  BY ReqTyped DEF Put, ImageOps
<1>2. /\ q.owner \in Owners /\ q.kind \in Kinds /\ q.upload \in Upload
  BY <1>1, ImageFields DEF ReqStaged, ImageOps
<1>3. drawn' \in Keys /\ drawn' \in 0..MaxKeys
  BY Numbers DEF Put, Staged, RowsTyped, Keys
<1>4. Becomes(h, r) /\ objects' = [objects EXCEPT ![drawn'] = obj]
  BY DEF Put
<1>5. obj \in Object
  BY <1>2 DEF Put, Accepted, Upload, Object
<1>6. RowsTyped'
  BY <1>3, <1>4, <1>5 DEF Put, rows, Staged, RowsTyped
<1>7. op \in {"save", "load"} /\ (op = "load" => q.kind # "avatar") /\ (op = "save" => q.kind = "avatar")
  OBVIOUS
<1> HIDE DEF q, op
<1>8. r \in ImageReq
  BY <1>1, <1>3, <1>7 DEF ImageReq, ImageOps, Urls
<1>9. r \in Requests
  BY <1>8, AllRequests
<1>10. ReqStaged(r)
  <2>1. /\ r.op = op /\ r.url = drawn' /\ r.owner = q.owner /\ r.kind = q.kind
        /\ r.upload = q.upload
    BY <1>1 DEF ImageReq
  <2>2. q.upload # None /\ Owns(q.owner, q.kind)
    BY <1>1, <1>2 DEF ReqStaged, ImageOps
  <2>3. QED
    BY <1>3, <1>7, <2>1, <2>2 DEF ReqStaged
<1>11. QED
  BY <1>4, <1>6, <1>9, <1>10, StagedFrame

LEMMA TypedLoad ==
  ASSUME Staged, NEW h \in Handlers, Load(h)
  PROVE  Staged'
<1> DEFINE q == req[h]
           row == books[q.owner]
           r == [q EXCEPT !.op = "save", !.row = row]
<1>1. q \in ImageReq /\ q.op = "load" /\ ReqStaged(q)
  BY ReqTyped DEF Load, ImageOps
<1>2. q.owner \in Books
  BY <1>1, ImageFields DEF ReqStaged, ImageOps, Owns, Owners
<1>3. row \in BookRow \cup {None}
  BY <1>2 DEF Staged, RowsTyped
<1>4. Becomes(h, IF row = None THEN Idle ELSE r)
  BY DEF Load
<1>5. RowsTyped'
  BY DEF Load, rows, Staged, RowsTyped
<1> HIDE DEF q, row
<1>6. r \in ImageReq
  BY <1>1, <1>3 DEF ImageReq, ImageOps
<1>7. r \in Requests
  BY <1>6, AllRequests
<1>8. row # None => ReqStaged(r)
  BY <1>1 DEF ReqStaged, ImageReq, ImageOps
<1>9. QED
  BY <1>4, <1>5, <1>7, <1>8, IdleStaged, StagedFrame

\* What a save makes of the loaded book.
LEMMA SavedRow ==
  ASSUME NEW r \in ImageReq, ReqStaged(r), r.op = "save", r.kind # "avatar"
  PROVE  /\ r.owner \in Books /\ r.row \in BookRow
         /\ Saved(r) \in BookRow /\ Saved(r).series = r.row.series
         /\ r.kind = "file" => Saved(r).file = r.url /\ Saved(r).cover = r.row.cover
         /\ r.kind = "cover" => Saved(r).cover = r.url /\ Saved(r).file = r.row.file
<1>1. /\ r.row \in BookRow /\ r.url \in Urls /\ r.kind \in {"file", "cover"}
      /\ r.kind = "file" => r.upload \in Upload
  BY ImageFields DEF ReqStaged, ImageOps, Kinds
<1>2. r.owner \in Books
  BY ImageFields DEF ReqStaged, ImageOps, Owns, Owners
<1>3. r.kind = "file" => r.upload.mime \in Formats
  BY <1>1 DEF Upload
<1>4. QED
  BY <1>1, <1>2, <1>3 DEF Saved, BookRow

LEMMA TypedSave ==
  ASSUME Staged, NEW h \in Handlers, Save(h)
  PROVE  Staged'
<1>1. req[h] \in ImageReq /\ req[h].op = "save" /\ ReqStaged(req[h]) /\ Becomes(h, Idle)
  BY ReqTyped DEF Save, ImageOps, Finish
<1>2. RowsTyped'
  <2>1. CASE req[h].kind = "avatar"
    <3>1. req[h].url \in Urls
      BY <1>1, ImageFields
    <3>2. QED
      BY <2>1, <3>1 DEF Save, Staged, RowsTyped
  <2>2. CASE req[h].kind # "avatar"
    <3>1. Saved(req[h]) \in BookRow
      BY <1>1, <2>2, SavedRow
    <3>2. QED
      BY <2>2, <3>1 DEF Save, Staged, RowsTyped
  <2>3. QED
    BY <2>1, <2>2
<1>3. QED
  BY <1>1, <1>2, IdleStaged, StagedFrame

LEMMA TypedPatch ==
  ASSUME Staged, NEW h \in Handlers, NEW u \in Users, NEW url \in Urls, PatchAvatar(h, u, url)
  PROVE  Staged'
<1>1. RowsTyped'
  BY DisturbTyped DEF PatchAvatar, Staged, RowsTyped, Owners
<1>2. QED
  BY <1>1 DEF PatchAvatar, Staged, ReqStaged

\* Requests for books
LEMMA EditFields ==
  ASSUME NEW r \in EditReq
  PROVE  /\ r.op \in EditOps /\ r.owner \in Books /\ r.row \in BookRow
         /\ r.body.series \in SeriesIds \cup {None, Unasked}
         /\ r.body.genres \in (SUBSET GenreIds) \cup {Unasked, {"unknown"}}
         /\ r.body \in EditBody
BY DEF EditReq, EditBody

LEMMA EditStaged ==
  ASSUME NEW r \in EditReq
  PROVE  r \in Requests /\ ReqStaged(r)
BY AllRequests, EditFields DEF ReqStaged, ImageOps, EditOps

LEMMA EditMoves ==
  ASSUME NEW r \in EditReq, NEW op \in EditOps
  PROVE  [r EXCEPT !.op = op] \in EditReq
BY DEF EditReq

LEMMA BodyFields ==
  ASSUME NEW body \in Edits
  PROVE  body \in EditBody /\ body.series \in SeriesIds \cup {None, Unasked}
BY FilesEdits DEF EditBody

LEMMA NewBookRow ==
  ASSUME NEW s \in SeriesIds \cup {None, Unasked}
  PROVE  NewBook(s) \in BookRow /\ NewBook(s).file = None /\ NewBook(s).cover = None
         /\ NewBook(s).series = IF s = Unasked THEN None ELSE s
BY DEF NewBook, BookRow, Urls

LEMMA TypedCreate ==
  ASSUME Staged, NEW h \in Handlers, NEW b \in Books, NEW body \in Edits, Create(h, b, body)
  PROVE  Staged'
<1> DEFINE row == NewBook(body.series)
           r == [op |-> "clear", owner |-> b, row |-> row, body |-> body]
<1>1. row \in BookRow /\ body \in EditBody
  BY BodyFields, NewBookRow
<1>2. Becomes(h, Idle) \/ Becomes(h, r)
  BY DEF Create, Begin
<1>3. RowsTyped'
  <2>1. disturbed' \subseteq Owners
    BY BeginTyped DEF Create, Staged, Owners
  <2>2. QED
    BY <1>1, <2>1 DEF Create, Staged, RowsTyped
<1> HIDE DEF row
<1>4. r \in EditReq
  BY <1>1 DEF EditReq, EditOps
<1>5. QED
  BY <1>2, <1>3, <1>4, EditStaged, IdleStaged, StagedFrame

LEMMA TypedEditFind ==
  ASSUME Staged, NEW h \in Handlers, NEW b \in Books, NEW body \in Edits, EditFind(h, b, body)
  PROVE  Staged'
<1> DEFINE s == IF body.series = Unasked THEN books[b].series ELSE body.series
           row == [books[b] EXCEPT !.series = s]
           r == [op |-> "write", owner |-> b, body |-> body, row |-> row]
<1>1. books[b] \in BookRow /\ body \in EditBody /\ body.series \in SeriesIds \cup {None, Unasked}
  BY BodyFields DEF EditFind, Staged, RowsTyped
<1>2. row \in BookRow
  BY <1>1 DEF BookRow
<1>3. Becomes(h, r)
  BY DEF EditFind, Begin
<1>4. RowsTyped'
  <2>1. disturbed' \subseteq Owners
    BY BeginTyped DEF EditFind, Staged, Owners
  <2>2. QED
    BY <2>1 DEF EditFind, rows, Staged, RowsTyped
<1> HIDE DEF row
<1>5. r \in EditReq
  BY <1>1, <1>2 DEF EditReq, EditOps
<1>6. QED
  BY <1>3, <1>4, <1>5, EditStaged, StagedFrame

LEMMA TypedEditWrite ==
  ASSUME Staged, NEW h \in Handlers, EditWrite(h)
  PROVE  Staged'
<1>1. req[h] \in EditReq
  BY ReqTyped DEF EditWrite, EditOps
<1>2. RowsTyped'
  BY <1>1, EditFields DEF EditWrite, Staged, RowsTyped
<1>3. [req[h] EXCEPT !.op = "clear"] \in EditReq
  BY <1>1, EditMoves DEF EditOps
<1>4. Becomes(h, Idle) \/ Becomes(h, [req[h] EXCEPT !.op = "clear"])
  BY DEF EditWrite
<1>5. QED
  BY <1>2, <1>3, <1>4, EditStaged, IdleStaged, StagedFrame

LEMMA TypedGenres ==
  ASSUME Staged, NEW h \in Handlers, GenresClear(h) \/ GenresInsert(h) \/ GenresRefused(h)
  PROVE  Staged'
<1>1. req[h] \in EditReq
  BY ReqTyped DEF GenresClear, GenresInsert, GenresRefused, EditOps
<1>2. RowsTyped'
  <2>1. CASE GenresClear(h)
    BY <1>1, <2>1, EditFields DEF GenresClear, Staged, RowsTyped
  <2>2. CASE GenresInsert(h)
    BY <1>1, <2>2, EditFields DEF GenresInsert, Staged, RowsTyped
  <2>3. CASE GenresRefused(h)
    BY <1>1, <2>3, EditFields, DisturbTyped DEF GenresRefused, rows, Staged, RowsTyped, Owners
  <2>4. QED
    BY <2>1, <2>2, <2>3
<1>3. [req[h] EXCEPT !.op = "insert"] \in EditReq
  BY <1>1, EditMoves DEF EditOps
<1>4. Becomes(h, Idle) \/ Becomes(h, [req[h] EXCEPT !.op = "insert"])
  BY DEF GenresClear, GenresInsert, GenresRefused, Finish
<1>5. QED
  BY <1>2, <1>3, <1>4, EditStaged, IdleStaged, StagedFrame

LEMMA EraseStaged ==
  ASSUME NEW r \in EraseReq
  PROVE  r \in Requests /\ ReqStaged(r) /\ r.op = "erase" /\ r.owner \in Books
         /\ r.left \subseteq Urls /\ \A url : [r EXCEPT !.left = r.left \ {url}] \in EraseReq
BY AllRequests DEF EraseReq, ReqStaged, ImageOps

LEMMA TypedErase ==
  ASSUME Staged, NEW h \in Handlers,
         \/ \E b \in Books : RemoveBookFind(h, b)
         \/ \E url \in Urls : EraseObject(h, url)
         \/ EraseRow(h)
  PROVE  Staged'
<1>1. ASSUME NEW b \in Books, RemoveBookFind(h, b)
      PROVE  Staged'
  <2> DEFINE left == {books[b].file, books[b].cover} \ {None}
             r == [op |-> "erase", owner |-> b, left |-> left]
  <2>1. left \subseteq Urls
    BY <1>1 DEF RemoveBookFind, Staged, RowsTyped, BookRow
  <2>2. Becomes(h, r)
    BY <1>1 DEF RemoveBookFind, Begin
  <2>3. RowsTyped'
    <3>1. disturbed' \subseteq Owners
      BY <1>1, BeginTyped DEF RemoveBookFind, Staged, Owners
    <3>2. QED
      BY <1>1, <3>1 DEF RemoveBookFind, rows, Staged, RowsTyped
  <2> HIDE DEF left
  <2>4. r \in EraseReq
    BY <2>1 DEF EraseReq
  <2>5. QED
    BY <2>2, <2>3, <2>4, EraseStaged, StagedFrame
<1>2. ASSUME NEW url \in Urls, EraseObject(h, url)
      PROVE  Staged'
  <2>1. req[h] \in EraseReq
    BY <1>2, ReqTyped DEF EraseObject
  <2>2. RowsTyped'
    <3>1. objects' \in [Keys -> Object \cup {None}]
      BY <1>2, DeletedTyped DEF EraseObject, Staged, RowsTyped
    <3>2. disturbed' \subseteq Owners
      BY <1>2, <2>1, EraseStaged, DisturbTyped DEF EraseObject, Staged, RowsTyped, Owners
    <3>3. QED
      BY <1>2, <3>1, <3>2 DEF EraseObject, rows, Staged, RowsTyped
  <2>3. Becomes(h, [req[h] EXCEPT !.left = req[h].left \ {url}])
    BY <1>2, <2>1 DEF EraseObject, EraseReq
  <2>4. QED
    BY <2>1, <2>2, <2>3, EraseStaged, StagedFrame
<1>3. CASE EraseRow(h)
  <2>1. req[h].owner \in Books
    BY <1>3, ReqTyped, EraseStaged DEF EraseRow
  <2>2. RowsTyped'
    BY <1>3, <2>1 DEF EraseRow, Staged, RowsTyped
  <2>3. QED
    BY <1>3, <2>2, IdleStaged, StagedFrame DEF EraseRow, Finish
<1>4. QED
  BY <1>1, <1>2, <1>3

\* Failing requests, and requests that are refused
LEMMA TypedFail ==
  ASSUME Staged, NEW h \in Handlers, Fail(h) \/ PutRefused(h)
  PROVE  Staged'
<1>1. RowsTyped'
  <2>1. CASE Fail(h)
    BY <2>1, DisturbTyped DEF Fail, rows, Staged, RowsTyped
  <2>2. CASE PutRefused(h)
    <3>1. req[h].owner \in Owners
      BY <2>2, ReqTyped, ImageFields DEF PutRefused, ImageOps
    <3>2. QED
      BY <2>2, <3>1, DisturbTyped DEF PutRefused, rows, Staged, RowsTyped
  <2>3. QED
    BY <2>1, <2>2
<1>2. QED
  BY <1>1, IdleStaged, StagedFrame DEF Fail, PutRefused, Finish

\* Downloads
LEMMA TypedDownload ==
  ASSUME Staged, NEW h \in Handlers, Downloads(h)
  PROVE  Staged'
<1>1. ASSUME NEW b \in Books, NEW r \in Readers, DownloadStart(h, b, r)
      PROVE  Staged'
  <2> DEFINE q == [op |-> "find", reader |-> r, book |-> b, row |-> None]
  <2>1. q \in Requests /\ ReqStaged(q)
    BY AllRequests DEF FindReq, ReqStaged, ImageOps
  <2>2. RowsTyped' /\ Becomes(h, q)
    BY <1>1 DEF DownloadStart, rows, Staged, RowsTyped
  <2>3. QED
    BY <2>1, <2>2, StagedFrame
<1>2. CASE DownloadFind(h)
  <2> DEFINE row == books[req[h].book]
             q == [req[h] EXCEPT !.op = "send", !.row = row]
  <2>1. req[h] \in FindReq
    BY <1>2, ReqTyped DEF DownloadFind
  <2>2. row \in BookRow \cup {None}
    BY <2>1 DEF FindReq, Staged, RowsTyped
  <2>3. Becomes(h, Idle) \/ (Becomes(h, q) /\ row # None /\ row.file # None)
    BY <1>2 DEF DownloadFind
  <2>4. RowsTyped'
    BY <1>2 DEF DownloadFind, rows, Staged, RowsTyped
  <2> HIDE DEF row
  <2>5. row # None /\ row.file # None => q \in SendReq
    BY <2>1, <2>2 DEF FindReq, SendReq
  <2>6. q \in SendReq => q \in Requests /\ ReqStaged(q)
    BY AllRequests DEF SendReq, ReqStaged, ImageOps
  <2>7. QED
    BY <2>3, <2>4, <2>5, <2>6, IdleStaged, StagedFrame
<1>3. CASE DownloadSend(h)
  <2> DEFINE q == req[h]
             object == objects[q.row.file]
             c == [book |-> q.book, reader |-> q.reader, body |-> object.body,
                   mark |-> Embed(object, q.book, q.reader)]
  <2>1. q \in SendReq /\ Becomes(h, Idle)
    BY <1>3, ReqTyped DEF DownloadSend, Finish
  <2>2. copies' = copies \/ (copies' = copies \cup {c} /\ object.body = FormatOf(q.row.type, object))
    BY <1>3 DEF DownloadSend
  <2>3. FormatOf(q.row.type, object) \in Formats
    BY DEF FormatOf, Formats
  <2>4. q.book \in Books /\ q.reader \in Readers /\ Embed(object, q.book, q.reader) \in Marks
    BY <2>1 DEF SendReq, Embed, Marks
  <2> HIDE DEF q, object
  <2>5. object.body \in Formats => c \in Copy
    BY <2>4 DEF Copy
  <2>6. copies' \subseteq Copy
    BY <2>2, <2>3, <2>5 DEF Staged, RowsTyped
  <2>7. RowsTyped'
    BY <1>3, <2>6 DEF DownloadSend, rows, Staged, RowsTyped
  <2>8. QED
    BY <2>1, <2>7, IdleStaged, StagedFrame
<1>4. QED
  BY <1>1, <1>2, <1>3 DEF Downloads

LEMMA TypedOthers ==
  ASSUME Staged,
         \/ \E s \in SeriesIds : (\E u \in Authors : CreateSeries(s, u)) \/ RemoveSeries(s)
         \/ \E b \in Books, r \in Readers : Approve(b, r)
  PROVE  Staged' /\ req' = req
<1>1. CASE \E s \in SeriesIds, u \in Authors : CreateSeries(s, u)
  BY <1>1 DEF CreateSeries, Staged, RowsTyped, ReqStaged
<1>2. ASSUME NEW s \in SeriesIds, RemoveSeries(s)
      PROVE  Staged' /\ req' = req
  <2>1. \A b \in Books : books[b] # None => [books[b] EXCEPT !.series = None] \in BookRow
    BY DEF Staged, RowsTyped, BookRow
  <2>2. books' \in [Books -> BookRow \cup {None}]
    BY <1>2, <2>1 DEF RemoveSeries, Staged, RowsTyped
  <2>3. QED
    BY <1>2, <2>2 DEF RemoveSeries, Staged, RowsTyped, ReqStaged
<1>3. CASE \E b \in Books, r \in Readers : Approve(b, r)
  BY <1>3 DEF Approve, rows, Staged, RowsTyped, ReqStaged
<1>4. QED
  BY <1>1, <1>2, <1>3

LEMMA StagedStep == Staged /\ [Next]_vars => Staged'
<1> SUFFICES ASSUME Staged, [Next]_vars
             PROVE  Staged'
  OBVIOUS
<1>1. CASE UNCHANGED vars
  BY <1>1 DEF vars, Staged, RowsTyped, ReqStaged
<1>2. ASSUME NEW h \in Handlers, Images(h)
      PROVE  Staged'
  BY <1>2, TypedUploadFind, TypedRemoveFind, TypedDrop, TypedPut, TypedFail, TypedLoad, TypedSave,
     TypedPatch DEF Images
<1>3. ASSUME NEW h \in Handlers, Catalogue(h)
      PROVE  Staged'
  BY <1>3, TypedCreate, TypedEditFind, TypedEditWrite, TypedGenres, TypedErase DEF Catalogue
<1>4. QED
  BY <1>1, <1>2, <1>3, TypedDownload, TypedFail, TypedOthers DEF Next

LEMMA StagedInit == Init => Staged
<1> SUFFICES ASSUME Init
             PROVE  Staged
  OBVIOUS
<1>1. RowsTyped
  BY Numbers DEF Init, RowsTyped, Urls
<1>2. QED
  BY <1>1, IdleStaged DEF Init, Staged

\* Rows, bucket, copies and requests in flight keep their types: a save never
\* writes a row that was not loaded, a download is never sent without a file.
THEOREM FilesTypeCorrect == Spec => []FilesTypeOK
BY StagedInit, StagedStep, StagedTypes, PTL DEF Spec

-----------------------------------------------------------------------------
\* Copies

MarksNamed == \A c \in copies : c.mark = <<c.book, c.reader>>

LEMMA CopiesHandedOut ==
  ASSUME [Next]_vars
  PROVE  copies' = copies \/ \E h \in Handlers : DownloadSend(h)
<1>1. ASSUME NEW h, Images(h)
      PROVE  copies' = copies
  BY <1>1 DEF Images, UploadFind, RemoveFind, Drop, Put, PutRefused, Load, Save, PatchAvatar
<1>2. ASSUME NEW h, Catalogue(h)
      PROVE  copies' = copies
  BY <1>2 DEF Catalogue, Create, EditFind, EditWrite, GenresClear, GenresInsert, GenresRefused,
     RemoveBookFind, EraseObject, EraseRow
<1>3. ASSUME NEW h, Downloads(h), ~DownloadSend(h)
      PROVE  copies' = copies
  BY <1>3 DEF Downloads, DownloadStart, DownloadFind
<1>4. ASSUME NEW h, Fail(h)
      PROVE  copies' = copies
  BY <1>4 DEF Fail
<1>5. CASE UNCHANGED vars
  BY <1>5 DEF vars
<1>6. (\E s \in SeriesIds : (\E u \in Authors : CreateSeries(s, u)) \/ RemoveSeries(s)) => copies' = copies
  BY DEF CreateSeries, RemoveSeries
<1>7. (\E b \in Books, r \in Readers : Approve(b, r)) => copies' = copies
  BY DEF Approve
<1>8. QED
  BY <1>1, <1>2, <1>3, <1>4, <1>5, <1>6, <1>7 DEF Next

LEMMA MarksNamedStep == Staged /\ MarksNamed /\ [Next]_vars => MarksNamed'
<1> SUFFICES ASSUME Staged, MarksNamed, [Next]_vars
             PROVE  MarksNamed'
  OBVIOUS
<1>1. CASE copies' = copies
  BY <1>1 DEF MarksNamed
<1>2. ASSUME NEW h \in Handlers, DownloadSend(h)
      PROVE  MarksNamed'
  <2> DEFINE q == req[h]
             body == objects[q.row.file].body
             c == [book |-> q.book, reader |-> q.reader, body |-> body,
                   mark |-> <<q.book, q.reader>>]
  <2>1. copies' = copies \/ copies' = copies \cup {c}
    BY <1>2 DEF DownloadSend, Embed
  <2> HIDE DEF q, body
  <2>2. c.mark = <<c.book, c.reader>>
    OBVIOUS
  <2> HIDE DEF c
  <2>3. QED
    BY <2>1, <2>2 DEF MarksNamed
<1>3. QED
  BY <1>1, <1>2, CopiesHandedOut

\* A copy that was handed out names its reader, and no other book's author can
\* read it as one of theirs, whatever mark the uploaded file already carried.
THEOREM CopiesNameReaders == Spec => []CopyNamesReader
<1>1. Init => MarksNamed
  BY DEF Init, MarksNamed
<1>2. Staged /\ MarksNamed => CopyNamesReader
  <2> SUFFICES ASSUME Staged, MarksNamed, NEW c \in copies, NEW b \in Books
               PROVE  Decoded(c, b) = IF b = c.book THEN c.reader ELSE "wrong book"
    BY DEF CopyNamesReader
  <2>1. c \in Copy /\ c.mark = <<c.book, c.reader>>
    BY DEF Staged, RowsTyped, MarksNamed
  <2>2. c.mark \in (Books \cup {"another"}) \X Readers
    BY <2>1 DEF Copy
  <2>3. c.mark # None
    BY <2>2, FilesNulls
  <2>4. c.mark[1] = c.book /\ c.mark[2] = c.reader
    BY <2>1
  <2>5. CASE b = c.book
    BY <2>3, <2>4, <2>5 DEF Decoded
  <2>6. CASE b # c.book
    BY <2>3, <2>4, <2>6 DEF Decoded
  <2>7. QED
    BY <2>5, <2>6
<1>3. QED
  BY <1>1, <1>2, StagedInit, StagedStep, MarksNamedStep, PTL DEF Spec

-----------------------------------------------------------------------------
\* Whose request a step belongs to

Writes(r, o) == r.op \notin {"idle", "find", "send"} /\ r.owner = o

Alone(o) == \A g, h \in Handlers : Writing(g, o) /\ Writing(h, o) => g = h

\* As long as nothing disturbed it, an owner is written by one request at most.
AloneInv == \A o \in Owners : o \notin disturbed => Alone(o)

\* A step of the handler h for the owner o alone
Acts(h, o) ==
  /\ Others(h) /\ disturbed \subseteq disturbed'
  /\ \A p : Writing(h, p) \/ Writing(h, p)' => p = o
  /\ o \notin disturbed' => \A g \in Handlers : Writing(g, o) => g = h

\* A step after which every owner is written by those who wrote it before
Calm ==
  /\ disturbed' = disturbed
  /\ \A g \in Handlers, p \in Owners :
       /\ Writing(g, p)' <=> Writing(g, p)
       /\ Writing(g, p) => req'[g] = req[g]

\* The rows of all other owners stay.
OnlyRowsOf(o) ==
  /\ \A b \in Books : b # o => books'[b] = books[b] /\ genres'[b] = genres[b] /\ asked'[b] = asked[b]
  /\ \A u \in Users : u # o => avatar'[u] = avatar[u]

Touches(h, o) == Acts(h, o) /\ OnlyRowsOf(o)

LEMMA ActsBegin ==
  ASSUME Staged, NEW h \in Handlers, NEW o \in Owners, NEW r, Begin(h, o, r),
         r.op = "idle" \/ r.owner = o
  PROVE  Acts(h, o) /\ \A g \in Handlers : o \notin disturbed' => ~Writing(g, o)
<1>1. req[h] = Idle /\ req'[h] = r /\ Others(h)
  BY DEF Begin, Becomes, Others, Staged
<1>2. \A p : Writing(h, p) \/ Writing(h, p)' => p = o
  BY <1>1, IdleStaged DEF Writing
<1>3. disturbed \subseteq disturbed' /\ \A g \in Handlers : o \notin disturbed' => ~Writing(g, o)
  BY DEF Begin
<1>4. QED
  BY <1>1, <1>2, <1>3 DEF Acts

LEMMA ActsOn ==
  ASSUME Staged, AloneInv, NEW h \in Handlers, NEW o \in Owners, NEW r, Writing(h, o), Becomes(h, r),
         r.op = "idle" \/ r.owner = o, disturbed \subseteq disturbed'
  PROVE  Acts(h, o)
<1>1. req'[h] = r /\ Others(h)
  BY DEF Becomes, Others, Staged
<1>2. \A p : Writing(h, p) \/ Writing(h, p)' => p = o
  BY <1>1 DEF Writing
<1>3. o \notin disturbed' => \A g \in Handlers : Writing(g, o) => g = h
  BY DEF AloneInv, Alone
<1>4. QED
  BY <1>1, <1>2, <1>3 DEF Acts

\* The requests that begin
LEMMA TouchesBegin ==
  ASSUME Staged, NEW h \in Handlers, NEW o \in Owners,
         \/ \E kind \in Kinds, f \in Uploads : UploadFind(h, o, kind, f)
         \/ \E kind \in Kinds : RemoveFind(h, o, kind)
         \/ o \in Books /\ \E body \in Edits : Create(h, o, body) \/ EditFind(h, o, body)
         \/ o \in Books /\ RemoveBookFind(h, o)
  PROVE  /\ Touches(h, o) /\ req[h] = Idle
         /\ \A g \in Handlers : o \notin disturbed' => ~Writing(g, o)
<1>1. ASSUME NEW kind \in Kinds, NEW f \in Uploads, UploadFind(h, o, kind, f)
      PROVE  Touches(h, o) /\ req[h] = Idle /\ \A g \in Handlers : o \notin disturbed' => ~Writing(g, o)
  <2>1. \E r : Begin(h, o, r) /\ r.owner = o
    BY <1>1 DEF UploadFind
  <2>2. OnlyRowsOf(o)
    BY <1>1 DEF UploadFind, rows, OnlyRowsOf
  <2>3. QED
    BY <2>1, <2>2, ActsBegin DEF Touches, Begin
<1>2. ASSUME NEW kind \in Kinds, RemoveFind(h, o, kind)
      PROVE  Touches(h, o) /\ req[h] = Idle /\ \A g \in Handlers : o \notin disturbed' => ~Writing(g, o)
  <2>1. \E r : Begin(h, o, r) /\ r.owner = o
    BY <1>2 DEF RemoveFind
  <2>2. OnlyRowsOf(o)
    BY <1>2 DEF RemoveFind, rows, OnlyRowsOf
  <2>3. QED
    BY <2>1, <2>2, ActsBegin DEF Touches, Begin
<1>3. ASSUME o \in Books, NEW body \in Edits, Create(h, o, body)
      PROVE  Touches(h, o) /\ req[h] = Idle /\ \A g \in Handlers : o \notin disturbed' => ~Writing(g, o)
  <2>1. \E r : Begin(h, o, r) /\ (r.op = "idle" \/ r.owner = o)
    BY <1>3, IdleStaged DEF Create
  <2>2. OnlyRowsOf(o)
    BY <1>3 DEF Create, OnlyRowsOf, Staged, RowsTyped
  <2>3. QED
    BY <2>1, <2>2, ActsBegin DEF Touches, Begin
<1>4. ASSUME o \in Books, NEW body \in Edits, EditFind(h, o, body)
      PROVE  Touches(h, o) /\ req[h] = Idle /\ \A g \in Handlers : o \notin disturbed' => ~Writing(g, o)
  <2>1. \E r : Begin(h, o, r) /\ r.owner = o
    BY <1>4 DEF EditFind
  <2>2. OnlyRowsOf(o)
    BY <1>4 DEF EditFind, rows, OnlyRowsOf
  <2>3. QED
    BY <2>1, <2>2, ActsBegin DEF Touches, Begin
<1>5. ASSUME o \in Books, RemoveBookFind(h, o)
      PROVE  Touches(h, o) /\ req[h] = Idle /\ \A g \in Handlers : o \notin disturbed' => ~Writing(g, o)
  <2>1. \E r : Begin(h, o, r) /\ r.owner = o
    BY <1>5 DEF RemoveBookFind
  <2>2. OnlyRowsOf(o)
    BY <1>5 DEF RemoveBookFind, rows, OnlyRowsOf
  <2>3. QED
    BY <2>1, <2>2, ActsBegin DEF Touches, Begin
<1>6. QED
  BY <1>1, <1>2, <1>3, <1>4, <1>5

\* The requests that go on
GoesOn(h) ==
  \/ Drop(h) \/ Put(h) \/ PutRefused(h) \/ Load(h) \/ Save(h)
  \/ EditWrite(h) \/ GenresClear(h) \/ GenresInsert(h) \/ GenresRefused(h)
  \/ (\E url \in Urls : EraseObject(h, url)) \/ EraseRow(h) \/ Fail(h)

LEMMA WriterOwner ==
  ASSUME Staged, NEW h \in Handlers, req[h].op \in ImageOps \cup EditOps \cup {"erase"}
  PROVE  req[h].owner \in Owners /\ Writing(h, req[h].owner)
<1>1. req[h].owner \in Owners
  BY ReqTyped DEF ImageReq, EditReq, EraseReq, Owners
<1>2. QED
  BY <1>1 DEF Writing, ImageOps, EditOps

LEMMA TouchesOn ==
  ASSUME Staged, AloneInv, NEW h \in Handlers, GoesOn(h)
  PROVE  Touches(h, req[h].owner) /\ req[h].owner \in Owners /\ Writing(h, req[h].owner)
<1> DEFINE o == req[h].owner
<1>1. req[h].op \in ImageOps \cup EditOps \cup {"erase"} => o \in Owners /\ Writing(h, o)
  BY WriterOwner
<1>2. o \in Owners /\ Writing(h, o)
  <2>1. CASE Fail(h)
    BY <2>1 DEF Fail, Writing
  <2>2. CASE ~Fail(h)
    BY <1>1, <2>2 DEF GoesOn, Drop, Put, PutRefused, Load, Save, EditWrite, GenresClear, GenresInsert,
       GenresRefused, EraseObject, EraseRow, ImageOps, EditOps
  <2>3. QED
    BY <2>1, <2>2
<1>3. disturbed \subseteq disturbed'
  BY DEF GoesOn, Drop, Put, PutRefused, Load, Save, EditWrite, GenresClear, GenresInsert, GenresRefused,
     EraseObject, EraseRow, Fail, Disturb
<1>4. OnlyRowsOf(o)
  <2>1. CASE Save(h) \/ EditWrite(h) \/ GenresClear(h) \/ GenresInsert(h) \/ EraseRow(h)
    BY <2>1 DEF Save, EditWrite, GenresClear, GenresInsert, EraseRow, OnlyRowsOf, Staged, RowsTyped
  <2>2. CASE ~(Save(h) \/ EditWrite(h) \/ GenresClear(h) \/ GenresInsert(h) \/ EraseRow(h))
    BY <2>2 DEF GoesOn, Drop, Put, PutRefused, Load, GenresRefused, EraseObject, Fail, rows, OnlyRowsOf
  <2>3. QED
    BY <2>1, <2>2
<1>5. \E r : Becomes(h, r) /\ (r.op = "idle" \/ r.owner = o)
  <2>1. \A op, left :
          /\ req[h] \in EditReq => [req[h] EXCEPT !.op = op].owner = o
          /\ req[h] \in EraseReq => [req[h] EXCEPT !.left = left].owner = o
    BY DEF ImageReq, EditReq, EraseReq
  <2>2. CASE Drop(h) \/ Put(h) \/ Load(h)
    <3>1. req[h] \in ImageReq
      BY <2>2, ReqTyped DEF Drop, Put, Load, ImageOps
    <3>2. CASE Drop(h)
      <4> DEFINE r == IF req[h].upload = None THEN [req[h] EXCEPT !.op = "save", !.url = None]
                                              ELSE [req[h] EXCEPT !.op = "put"]
      <4>1. r.owner = o
        BY <3>1 DEF ImageReq
      <4>2. Becomes(h, r)
        BY <3>2 DEF Drop
      <4> HIDE DEF r, o
      <4>3. QED
        BY <4>1, <4>2
    <3>3. CASE Put(h)
      <4>1. [req[h] EXCEPT !.op = IF req[h].kind = "avatar" THEN "save" ELSE "load",
                           !.url = drawn'].owner = o
        BY <3>1 DEF ImageReq
      <4>2. QED
        BY <3>3, <4>1 DEF Put
    <3>4. CASE Load(h)
      <4> DEFINE row == books[req[h].owner]
                 r == [req[h] EXCEPT !.op = "save", !.row = row]
      <4>1. r.owner = o
        BY <3>1 DEF ImageReq
      <4>2. Becomes(h, Idle) \/ Becomes(h, r)
        BY <3>4 DEF Load
      <4> HIDE DEF r, o
      <4>3. QED
        BY <4>1, <4>2, IdleStaged
    <3>5. QED
      BY <2>2, <3>2, <3>3, <3>4
  <2>3. CASE EditWrite(h) \/ GenresClear(h)
    <3>1. req[h] \in EditReq
      BY <2>3, ReqTyped DEF EditWrite, GenresClear, EditOps
    <3>2. QED
      BY <2>1, <2>3, <3>1, IdleStaged DEF EditWrite, GenresClear, Finish
  <2>4. CASE \E url \in Urls : EraseObject(h, url)
    <3>1. req[h] \in EraseReq
      BY <2>4, ReqTyped DEF EraseObject
    <3>2. QED
      BY <2>1, <2>4, <3>1 DEF EraseObject
  <2>5. CASE PutRefused(h) \/ Save(h) \/ GenresInsert(h) \/ GenresRefused(h) \/ EraseRow(h) \/ Fail(h)
    BY <2>5, IdleStaged DEF PutRefused, Save, GenresInsert, GenresRefused, EraseRow, Fail, Finish
  <2>6. QED
    BY <2>2, <2>3, <2>4, <2>5 DEF GoesOn
<1>6. QED
  BY <1>2, <1>3, <1>4, <1>5, ActsOn DEF Touches

LEMMA TouchesPatch ==
  ASSUME Staged, NEW h \in Handlers, NEW u \in Users, NEW url \in Urls, PatchAvatar(h, u, url)
  PROVE  Touches(h, u) /\ \A g \in Handlers : u \notin disturbed' => ~Writing(g, u)
<1>1. req[h] = Idle /\ req' = req /\ OnlyRowsOf(u)
  BY DEF PatchAvatar, OnlyRowsOf, Staged, RowsTyped
<1>2. disturbed \subseteq disturbed' /\ \A g \in Handlers : u \notin disturbed' => ~Writing(g, u)
  BY DEF PatchAvatar, Disturb
<1>3. \A p : ~Writing(h, p) /\ ~Writing(h, p)'
  BY <1>1, IdleStaged DEF Writing
<1>4. QED
  BY <1>1, <1>2, <1>3 DEF Touches, Acts, Others

\* Steps that are nobody's: downloads, series, approvals and stuttering
Aside ==
  \/ \E h \in Handlers : Downloads(h)
  \/ \E s \in SeriesIds : (\E u \in Authors : CreateSeries(s, u)) \/ RemoveSeries(s)
  \/ \E b \in Books, r \in Readers : Approve(b, r)
  \/ UNCHANGED vars

LEMMA AsideCalm ==
  ASSUME Staged, Aside
  PROVE  /\ Calm /\ genres' = genres /\ avatar' = avatar /\ objects' = objects
         /\ asked' = asked /\ drawn' = drawn
<1>1. ASSUME NEW h \in Handlers, Downloads(h)
      PROVE  Calm /\ UNCHANGED <<genres, avatar, objects, asked, drawn>>
  <2>1. /\ UNCHANGED <<genres, avatar, objects, asked, drawn, disturbed>>
        /\ \E r : Becomes(h, r) /\ r.op \in {"idle", "find", "send"}
        /\ req[h].op \in {"idle", "find", "send"}
    <3>1. CASE \E b \in Books, r \in Readers : DownloadStart(h, b, r)
      BY <3>1, IdleStaged DEF DownloadStart, rows
    <3>2. CASE DownloadFind(h)
      <4> DEFINE row == books[req[h].book]
                 r == [req[h] EXCEPT !.op = "send", !.row = row]
      <4>1. req[h] \in FindReq
        BY <3>2, ReqTyped DEF DownloadFind
      <4>2. r.op = "send"
        BY <4>1 DEF FindReq
      <4>3. Becomes(h, Idle) \/ Becomes(h, r)
        BY <3>2 DEF DownloadFind
      <4> HIDE DEF r
      <4>4. QED
        BY <3>2, <4>2, <4>3, IdleStaged DEF DownloadFind, rows
    <3>3. CASE DownloadSend(h)
      BY <3>3, IdleStaged DEF DownloadSend, rows, Finish
    <3>4. QED
      BY <1>1, <3>1, <3>2, <3>3 DEF Downloads
  <2>2. \A p : ~Writing(h, p) /\ ~Writing(h, p)'
    BY <2>1 DEF Writing, Becomes, Staged
  <2>3. Others(h)
    BY <2>1 DEF Becomes, Others, Staged
  <2>4. QED
    BY <2>1, <2>2, <2>3 DEF Calm, Others, Writing
<1>2. CASE \E s \in SeriesIds : (\E u \in Authors : CreateSeries(s, u)) \/ RemoveSeries(s)
  BY <1>2 DEF CreateSeries, RemoveSeries, Calm, Writing
<1>3. CASE \E b \in Books, r \in Readers : Approve(b, r)
  BY <1>3 DEF Approve, rows, Calm, Writing
<1>4. CASE UNCHANGED vars
  BY <1>4 DEF vars, Calm, Writing
<1>5. QED
  BY <1>1, <1>2, <1>3, <1>4 DEF Aside

LEMMA StepKinds ==
  ASSUME [Next]_vars
  PROVE  \/ Aside
         \/ \E h \in Handlers :
              \/ GoesOn(h) \/ (\E u \in Users, url \in Urls : PatchAvatar(h, u, url))
              \/ \E o \in Owners :
                   \/ \E kind \in Kinds, f \in Uploads : UploadFind(h, o, kind, f)
                   \/ \E kind \in Kinds : RemoveFind(h, o, kind)
                   \/ o \in Books /\ \E body \in Edits : Create(h, o, body) \/ EditFind(h, o, body)
                   \/ o \in Books /\ RemoveBookFind(h, o)
<1>1. CASE \E h \in Handlers : Images(h)
  BY <1>1 DEF Images, GoesOn
<1>2. CASE \E h \in Handlers : Catalogue(h)
  BY <1>2 DEF Catalogue, GoesOn, Owners
<1>3. CASE \E h \in Handlers : Fail(h)
  BY <1>3 DEF GoesOn
<1>4. QED
  BY <1>1, <1>2, <1>3 DEF Next, Aside

\* The owners that are not the step's keep their writers.
LEMMA WritersKept ==
  ASSUME NEW h \in Handlers, NEW o, Acts(h, o), NEW p, p # o, NEW g \in Handlers
  PROVE  (Writing(g, p)' <=> Writing(g, p)) /\ (Writing(g, p) => g # h /\ req'[g] = req[g])
BY DEF Acts, Others, Writing

LEMMA AloneActs ==
  ASSUME AloneInv, NEW h \in Handlers, NEW o, Acts(h, o)
  PROVE  AloneInv'
<1> SUFFICES ASSUME NEW p \in Owners, p \notin disturbed', NEW f \in Handlers, NEW g \in Handlers,
                    Writing(f, p)', Writing(g, p)'
             PROVE  f = g
  BY DEF AloneInv, Alone
<1>1. p \notin disturbed
  BY DEF Acts
<1>2. CASE p = o
  <2>1. \A i \in Handlers : i # h => (Writing(i, p)' <=> Writing(i, p))
    BY DEF Acts, Others, Writing
  <2>2. QED
    BY <1>2, <2>1 DEF Acts
<1>3. CASE p # o
  BY <1>1, <1>3, WritersKept DEF AloneInv, Alone
<1>4. QED
  BY <1>2, <1>3

LEMMA AloneStep == Staged /\ AloneInv /\ [Next]_vars => AloneInv'
<1> SUFFICES ASSUME Staged, AloneInv, [Next]_vars
             PROVE  AloneInv'
  OBVIOUS
<1>1. CASE Aside
  BY <1>1, AsideCalm DEF Calm, AloneInv, Alone
<1>2. ASSUME NEW h \in Handlers, NEW u \in Users, NEW url \in Urls, PatchAvatar(h, u, url)
      PROVE  AloneInv'
  BY <1>2, TouchesPatch, AloneActs DEF Touches
<1>3. ASSUME NEW h \in Handlers, GoesOn(h)
      PROVE  AloneInv'
  BY <1>3, TouchesOn, AloneActs DEF Touches
<1>4. QED
  BY <1>1, <1>2, <1>3, StepKinds, TouchesBegin, AloneActs DEF Touches

-----------------------------------------------------------------------------
\* Series

\* The series of a loaded book is its author's, or has been removed since.
SeriesOf(row, b) == row.series # None => series[row.series] \in {AuthorOf[b], "gone"}

ReqLinked(r) == r.op \in ImageOps \cup EditOps /\ r.row # None => r.owner \in Books /\ SeriesOf(r.row, r.owner)

RowLinked(b) == books[b] # None /\ books[b].series # None => series[books[b].series] = AuthorOf[b]

LinkInv ==
  /\ \A b \in Books : RowLinked(b)
  /\ \A h \in Handlers : ReqLinked(req[h])

\* A step that replaces one request and leaves the series
LEMMA LinkFrame ==
  ASSUME Staged, LinkInv, NEW h \in Handlers, NEW r, Becomes(h, r), ReqLinked(r), series' = series,
         \A b \in Books : books'[b] = books[b] \/ RowLinked(b)'
  PROVE  LinkInv'
<1>1. req'[h] = r /\ Others(h)
  BY DEF Becomes, Others, Staged
<1>2. \A g \in Handlers : ReqLinked(req[g])'
  BY <1>1 DEF LinkInv, ReqLinked, SeriesOf, Others
<1>3. \A b \in Books : RowLinked(b)'
  BY DEF LinkInv, RowLinked
<1>4. QED
  BY <1>2, <1>3 DEF LinkInv

LEMMA IdleLinked == ReqLinked(Idle)
BY IdleStaged DEF ReqLinked, ImageOps, EditOps

LEMMA LinkImages ==
  ASSUME Staged, LinkInv, NEW h \in Handlers, Images(h)
  PROVE  LinkInv'
<1>1. ASSUME NEW o \in Owners, NEW kind \in Kinds, NEW f \in Uploads, UploadFind(h, o, kind, f)
      PROVE  LinkInv'
  <2>1. \E r : Becomes(h, r) /\ r.row = None
    BY <1>1 DEF UploadFind, Begin
  <2>2. QED
    BY <1>1, <2>1, LinkFrame DEF UploadFind, rows, ReqLinked
<1>2. ASSUME NEW o \in Owners, NEW kind \in Kinds, RemoveFind(h, o, kind)
      PROVE  LinkInv'
  <2>1. \E r : Becomes(h, r) /\ r.owner = o /\ r.row = IF o \in Books THEN books[o] ELSE None
    BY <1>2 DEF RemoveFind, Begin
  <2>2. PICK r : Becomes(h, r) /\ r.owner = o /\ r.row = IF o \in Books THEN books[o] ELSE None
    BY <2>1
  <2>3. ReqLinked(r)
    BY <2>2 DEF ReqLinked, SeriesOf, LinkInv, RowLinked
  <2>4. QED
    BY <1>2, <2>2, <2>3, LinkFrame DEF RemoveFind, rows
<1>3. CASE Drop(h)
  <2> DEFINE r == IF req[h].upload = None THEN [req[h] EXCEPT !.op = "save", !.url = None]
                                          ELSE [req[h] EXCEPT !.op = "put"]
  <2>1. req[h] \in ImageReq
    BY <1>3, ReqTyped DEF Drop, ImageOps
  <2>2. r.row = req[h].row /\ r.owner = req[h].owner /\ Becomes(h, r)
    BY <1>3, <2>1 DEF Drop, ImageReq
  <2> HIDE DEF r
  <2>3. ReqLinked(r)
    BY <2>1, <2>2, ImageFields DEF ReqLinked, LinkInv
  <2>4. QED
    BY <1>3, <2>2, <2>3, LinkFrame DEF Drop, rows
<1>4. CASE Put(h)
  <2> DEFINE r == [req[h] EXCEPT !.op = IF req[h].kind = "avatar" THEN "save" ELSE "load",
                                 !.url = drawn']
  <2>1. req[h] \in ImageReq
    BY <1>4, ReqTyped DEF Put, ImageOps
  <2>2. r.row = req[h].row /\ r.owner = req[h].owner
    BY <2>1 DEF ImageReq
  <2>3. Becomes(h, r)
    BY <1>4 DEF Put
  <2> HIDE DEF r
  <2>4. ReqLinked(r)
    BY <2>1, <2>2, ImageFields DEF ReqLinked, LinkInv
  <2>5. QED
    BY <1>4, <2>3, <2>4, LinkFrame DEF Put, rows
<1>5. CASE PutRefused(h)
  BY <1>5, IdleLinked, LinkFrame DEF PutRefused, rows, Finish
<1>6. CASE Load(h)
  <2> DEFINE row == books[req[h].owner]
             r == [req[h] EXCEPT !.op = "save", !.row = row]
  <2>1. req[h] \in ImageReq /\ req[h].owner \in Books
    BY <1>6, ReqTyped, ImageFields DEF Load, ReqStaged, ImageOps, Owns, Owners
  <2>2. r.row = row /\ r.owner = req[h].owner
    BY <2>1 DEF ImageReq
  <2>3. Becomes(h, Idle) \/ Becomes(h, r)
    BY <1>6 DEF Load
  <2>4. row # None => req[h].owner \in Books /\ SeriesOf(row, req[h].owner)
    BY <2>1 DEF SeriesOf, LinkInv, RowLinked
  <2> HIDE DEF r, row
  <2>5. ReqLinked(r)
    BY <2>2, <2>4 DEF ReqLinked
  <2>6. QED
    BY <1>6, <2>3, <2>5, IdleLinked, LinkFrame DEF Load, rows
<1>7. CASE Save(h)
  <2> DEFINE q == req[h]
  <2>1. q \in ImageReq /\ q.op = "save" /\ ReqStaged(q) /\ ReqLinked(q)
    BY <1>7, ReqTyped DEF Save, ImageOps, LinkInv
  <2>2. CASE q.kind = "avatar"
    BY <1>7, <2>2, IdleLinked, LinkFrame DEF Save, Finish
  <2>3. CASE q.kind # "avatar"
    <3>1. /\ q.owner \in Books /\ Saved(q) \in BookRow /\ Saved(q).series = q.row.series
          /\ q.row \in BookRow
      BY <2>1, <2>3, SavedRow
    <3>2. SeriesOf(q.row, q.owner)
      BY <2>1, <3>1, FilesNulls DEF ReqLinked, ImageOps
    <3>3. books' = [books EXCEPT ![q.owner] = Saved(q)] /\ series' = series /\ Linked(q.row)
      BY <1>7, <2>3 DEF Save
    <3>4. ASSUME NEW b \in Books
          PROVE  books'[b] = books[b] \/ RowLinked(b)'
      BY <3>1, <3>2, <3>3, FilesNulls DEF RowLinked, SeriesOf, Linked, Staged, RowsTyped
    <3>5. QED
      BY <1>7, <3>3, <3>4, IdleLinked, LinkFrame DEF Save, Finish
  <2>4. QED
    BY <2>2, <2>3
<1>8. CASE \E u \in Users, url \in Urls : PatchAvatar(h, u, url)
  BY <1>8 DEF PatchAvatar, LinkInv, ReqLinked, RowLinked, SeriesOf
<1>9. QED
  BY <1>1, <1>2, <1>3, <1>4, <1>5, <1>6, <1>7, <1>8 DEF Images

LEMMA LinkCatalogue ==
  ASSUME Staged, LinkInv, NEW h \in Handlers, Catalogue(h)
  PROVE  LinkInv'
<1>1. ASSUME NEW b \in Books, NEW body \in Edits, Create(h, b, body)
      PROVE  LinkInv'
  <2> DEFINE row == NewBook(body.series)
             r == [op |-> "clear", owner |-> b, row |-> row, body |-> body]
  <2>1. /\ body.series \in SeriesIds \cup {None, Unasked}
        /\ row.series = IF body.series = Unasked THEN None ELSE body.series
    BY BodyFields, NewBookRow
  <2>2. row.series # None => series[row.series] = AuthorOf[b]
    BY <1>1, <2>1 DEF Create, ensureSeriesOwnership
  <2>3. /\ books' = [books EXCEPT ![b] = row] /\ series' = series
        /\ Becomes(h, Idle) \/ Becomes(h, r)
    BY <1>1 DEF Create, Begin
  <2> HIDE DEF row
  <2>4. ReqLinked(r)
    BY <2>2 DEF ReqLinked, SeriesOf
  <2>5. \A c \in Books : books'[c] = books[c] \/ RowLinked(c)'
    BY <2>2, <2>3 DEF RowLinked, Staged, RowsTyped
  <2>6. QED
    BY <2>3, <2>4, <2>5, IdleLinked, LinkFrame
<1>2. ASSUME NEW b \in Books, NEW body \in Edits, EditFind(h, b, body)
      PROVE  LinkInv'
  <2> DEFINE s == IF body.series = Unasked THEN books[b].series ELSE body.series
             row == [books[b] EXCEPT !.series = s]
             r == [op |-> "write", owner |-> b, body |-> body, row |-> row]
  <2>1. books[b] \in BookRow /\ body.series \in SeriesIds \cup {None, Unasked}
    BY <1>2, BodyFields DEF EditFind, Staged, RowsTyped
  <2>2. row.series = s
    BY <2>1 DEF BookRow
  <2>3. s # None => series[s] = AuthorOf[b]
    BY <1>2, <2>1 DEF EditFind, ensureSeriesOwnership, LinkInv, RowLinked
  <2>4. Becomes(h, r)
    BY <1>2 DEF EditFind, Begin
  <2> HIDE DEF row, s
  <2>5. ReqLinked(r)
    BY <2>2, <2>3 DEF ReqLinked, SeriesOf
  <2>6. QED
    BY <1>2, <2>4, <2>5, LinkFrame DEF EditFind, rows
<1>3. CASE EditWrite(h)
  <2> DEFINE q == req[h]
             r == [q EXCEPT !.op = "clear"]
  <2>1. q \in EditReq /\ ReqLinked(q) /\ q.op \in EditOps /\ q.owner \in Books /\ q.row \in BookRow
    BY <1>3, ReqTyped, EditFields DEF EditWrite, EditOps, LinkInv
  <2>2. SeriesOf(q.row, q.owner)
    BY <2>1, FilesNulls DEF ReqLinked
  <2>3. /\ books' = [books EXCEPT ![q.owner] = q.row] /\ series' = series /\ Linked(q.row)
        /\ Becomes(h, Idle) \/ Becomes(h, r)
    BY <1>3 DEF EditWrite
  <2>4. r.row = q.row /\ r.owner = q.owner
    BY <2>1 DEF EditReq
  <2> HIDE DEF r
  <2>5. ReqLinked(r)
    BY <2>1, <2>2, <2>4 DEF ReqLinked
  <2>6. ASSUME NEW b \in Books
        PROVE  books'[b] = books[b] \/ RowLinked(b)'
    BY <2>1, <2>2, <2>3, FilesNulls DEF RowLinked, SeriesOf, Linked, Staged, RowsTyped
  <2>7. QED
    BY <2>3, <2>5, <2>6, IdleLinked, LinkFrame
<1>4. CASE GenresClear(h)
  <2> DEFINE r == [req[h] EXCEPT !.op = "insert"]
  <2>1. req[h] \in EditReq /\ ReqLinked(req[h])
    BY <1>4, ReqTyped DEF GenresClear, EditOps, LinkInv
  <2>2. r.row = req[h].row /\ r.owner = req[h].owner
    BY <2>1 DEF EditReq
  <2>3. Becomes(h, Idle) \/ Becomes(h, r)
    BY <1>4 DEF GenresClear, Finish
  <2> HIDE DEF r
  <2>4. ReqLinked(r)
    BY <2>1, <2>2, EditFields DEF ReqLinked
  <2>5. QED
    BY <1>4, <2>3, <2>4, IdleLinked, LinkFrame DEF GenresClear
<1>5. CASE GenresInsert(h) \/ GenresRefused(h)
  BY <1>5, IdleLinked, LinkFrame DEF GenresInsert, GenresRefused, Finish, rows
<1>6. ASSUME NEW b \in Books, RemoveBookFind(h, b)
      PROVE  LinkInv'
  <2>1. \E r : Becomes(h, r) /\ r.op = "erase"
    BY <1>6 DEF RemoveBookFind, Begin
  <2>2. QED
    BY <1>6, <2>1, LinkFrame DEF RemoveBookFind, rows, ReqLinked, ImageOps, EditOps
<1>7. ASSUME NEW url \in Urls, EraseObject(h, url)
      PROVE  LinkInv'
  <2> DEFINE left == req[h].left \ {url}
             r == [req[h] EXCEPT !.left = left]
  <2>1. req[h] \in EraseReq /\ req[h].op = "erase"
    BY <1>7, ReqTyped DEF EraseObject
  <2>2. Becomes(h, r)
    BY <1>7, <2>1 DEF EraseObject, EraseReq
  <2>3. r.op = "erase"
    BY <2>1 DEF EraseReq
  <2> HIDE DEF r
  <2>4. QED
    BY <1>7, <2>2, <2>3, LinkFrame DEF EraseObject, rows, ReqLinked, ImageOps, EditOps
<1>8. CASE EraseRow(h)
  <2>1. \A b \in Books : books'[b] = books[b] \/ RowLinked(b)'
    BY <1>8 DEF EraseRow, RowLinked, Staged, RowsTyped
  <2>2. QED
    BY <1>8, <2>1, IdleLinked, LinkFrame DEF EraseRow, Finish
<1>9. QED
  BY <1>1, <1>2, <1>3, <1>4, <1>5, <1>6, <1>7, <1>8 DEF Catalogue

LEMMA LinkDownloads ==
  ASSUME Staged, LinkInv, NEW h \in Handlers, Downloads(h)
  PROVE  LinkInv'
<1>1. CASE \E b \in Books, r \in Readers : DownloadStart(h, b, r)
  <2>1. \E q : Becomes(h, q) /\ q.op = "find"
    BY <1>1 DEF DownloadStart
  <2>2. QED
    BY <1>1, <2>1, LinkFrame DEF DownloadStart, rows, ReqLinked, ImageOps, EditOps
<1>2. CASE DownloadFind(h)
  <2> DEFINE row == books[req[h].book]
             r == [req[h] EXCEPT !.op = "send", !.row = row]
  <2>1. req[h] \in FindReq
    BY <1>2, ReqTyped DEF DownloadFind
  <2>2. r.op = "send"
    BY <2>1 DEF FindReq
  <2>3. Becomes(h, Idle) \/ Becomes(h, r)
    BY <1>2 DEF DownloadFind
  <2> HIDE DEF r
  <2>4. ReqLinked(r)
    BY <2>2 DEF ReqLinked, ImageOps, EditOps
  <2>5. QED
    BY <1>2, <2>3, <2>4, IdleLinked, LinkFrame DEF DownloadFind, rows
<1>3. CASE DownloadSend(h)
  BY <1>3, IdleLinked, LinkFrame DEF DownloadSend, Finish, rows
<1>4. QED
  BY <1>1, <1>2, <1>3 DEF Downloads

LEMMA LinkSeries ==
  ASSUME Staged, LinkInv, NEW s \in SeriesIds,
         (\E u \in Authors : CreateSeries(s, u)) \/ RemoveSeries(s)
  PROVE  LinkInv'
<1>1. /\ \A row \in BookRow : row.series \in SeriesIds \cup {None}
      /\ \A b \in Books : books[b] \in BookRow \cup {None} /\ AuthorOf[b] \in Authors
      /\ \A g \in Handlers : req[g].op \in ImageOps \cup EditOps => req[g].row \in BookRow \cup {None}
  BY ReqTyped, ImageFields, EditFields, FilesOwners DEF Staged, RowsTyped, BookRow
<1>2. ASSUME NEW u \in Authors, CreateSeries(s, u)
      PROVE  LinkInv'
  <2>1. /\ series[s] = None /\ \A t : t # s => series'[t] = series[t] 
        /\ books' = books /\ req' = req
    BY <1>2 DEF CreateSeries, Staged, RowsTyped
  <2>2. \A b \in Books : RowLinked(b)'
    BY <1>1, <2>1, FilesNulls DEF LinkInv, RowLinked
  <2>3. ASSUME NEW g \in Handlers, req[g].op \in ImageOps \cup EditOps, req[g].row # None,
               req[g].row.series # None
        PROVE  series'[req[g].row.series] \in {AuthorOf[req[g].owner], "gone"}
    <3>1. req[g].owner \in Books /\ series[req[g].row.series] \in {AuthorOf[req[g].owner], "gone"}
      BY <2>3 DEF LinkInv, ReqLinked, SeriesOf
    <3>2. AuthorOf[req[g].owner] # None /\ "gone" # None
      BY <1>1, <3>1, FilesNulls
    <3>3. QED
      BY <2>1, <3>1, <3>2
  <2>4. QED
    BY <2>1, <2>2, <2>3 DEF LinkInv, ReqLinked, SeriesOf
<1>3. CASE RemoveSeries(s)
  <2>1. /\ series' = [series EXCEPT ![s] = "gone"] /\ req' = req
        /\ \A b \in Books : books'[b] = IF books[b] = None \/ books[b].series # s THEN books[b]
                                        ELSE [books[b] EXCEPT !.series = None]
    BY <1>3 DEF RemoveSeries
  <2>2. ASSUME NEW b \in Books
        PROVE  RowLinked(b)'
    <3>1. CASE books[b] = None \/ books[b].series # s
      BY <1>1, <2>1, <3>1 DEF LinkInv, RowLinked, Staged, RowsTyped
    <3>2. CASE books[b] # None /\ books[b].series = s
      <4>1. [books[b] EXCEPT !.series = None].series = None
        BY <1>1, <3>2 DEF BookRow
      <4>2. QED
        BY <2>1, <3>2, <4>1 DEF RowLinked
    <3>3. QED
      BY <3>1, <3>2
  <2>3. \A g \in Handlers : ReqLinked(req[g])'
    BY <1>1, <2>1 DEF LinkInv, ReqLinked, SeriesOf, Staged, RowsTyped
  <2>4. QED
    BY <2>2, <2>3 DEF LinkInv
<1>4. QED
  BY <1>2, <1>3

LEMMA LinkStep == Staged /\ LinkInv /\ [Next]_vars => LinkInv'
<1> SUFFICES ASSUME Staged, LinkInv, [Next]_vars
             PROVE  LinkInv'
  OBVIOUS
<1>1. CASE UNCHANGED vars
  BY <1>1 DEF vars, LinkInv, RowLinked, ReqLinked, SeriesOf
<1>2. CASE \E h \in Handlers : Fail(h)
  BY <1>2, IdleLinked, LinkFrame DEF Fail, Finish, rows
<1>3. CASE \E b \in Books, r \in Readers : Approve(b, r)
  BY <1>3 DEF Approve, rows, LinkInv, RowLinked, ReqLinked, SeriesOf
<1>4. QED
  BY <1>1, <1>2, <1>3, LinkImages, LinkCatalogue, LinkDownloads, LinkSeries DEF Next

LEMMA LinkInit == Init => LinkInv
BY IdleLinked DEF Init, LinkInv, RowLinked

-----------------------------------------------------------------------------
\* Genres

Inserting(g, b) == Writing(g, b) /\ req[g].op = "insert"

\* A book that was never created has nothing, and nobody writes it.
GenresBegun(b) ==
  asked[b] = Unasked => genres[b] = {} /\ books[b] = None /\ \A g \in Handlers : ~Writing(g, b)

\* Between the two statements of an edit a book has no genres.
GenresSound(b) ==
  b \notin disturbed =>
    /\ \A g \in Handlers : Inserting(g, b) => genres[b] = {}
    /\ asked[b] # Unasked /\ (\A g \in Handlers : ~Inserting(g, b)) => genres[b] = asked[b]

GenreInv == \A b \in Books : GenresBegun(b) /\ GenresSound(b)

LEMMA GenreCalm ==
  ASSUME Staged, GenreInv, Calm, genres' = genres, asked' = asked,
         \A b \in Books : books[b] = None => books'[b] = None
  PROVE  GenreInv'
BY DEF GenreInv, GenresBegun, GenresSound, Inserting, Calm, Owners

LEMMA GenreOthers ==
  ASSUME Staged, GenreInv, NEW h \in Handlers, NEW o, Touches(h, o), NEW b \in Books, b # o
  PROVE  GenresBegun(b)' /\ GenresSound(b)'
<1>1. \A g \in Handlers : (Writing(g, b)' <=> Writing(g, b)) /\ (Inserting(g, b)' <=> Inserting(g, b))
  BY WritersKept DEF Touches, Inserting
<1>2. books'[b] = books[b] /\ genres'[b] = genres[b] /\ asked'[b] = asked[b]
      /\ disturbed \subseteq disturbed'
  BY DEF Touches, Acts, OnlyRowsOf
<1>3. QED
  BY <1>1, <1>2 DEF GenreInv, GenresBegun, GenresSound

\* A step for a book that leaves it with genres that were asked for, or inserts them next
LEMMA GenreOwner ==
  ASSUME Staged, GenreInv, NEW h \in Handlers, NEW o \in Owners, Touches(h, o),
         o \in Books => asked'[o] # Unasked,
         o \in Books /\ o \notin disturbed' => IF Inserting(h, o)' THEN genres'[o] = {}
                                                                   ELSE genres'[o] = asked'[o]
  PROVE  GenreInv'
<1>1. \A b \in Books : b # o => GenresBegun(b)' /\ GenresSound(b)'
  BY GenreOthers
<1>2. ASSUME o \in Books
      PROVE  GenresBegun(o)' /\ GenresSound(o)'
  <2>1. o \notin disturbed' => \A g \in Handlers : g # h => ~Inserting(g, o)'
    BY DEF Touches, Acts, Others, Writing, Inserting
  <2>2. QED
    BY <1>2, <2>1 DEF GenresBegun, GenresSound
<1>3. QED
  BY <1>1, <1>2 DEF GenreInv

\* The requests that leave the genres as they are
LEMMA GenreStays ==
  ASSUME Staged, GenreInv, NEW h \in Handlers, NEW o \in Owners, Touches(h, o),
         genres' = genres, asked' = asked, ~Inserting(h, o)', ~Inserting(h, o),
         o \in Books => books[o] # None \/ Writing(h, o)
  PROVE  GenreInv'
<1>1. o \in Books => asked[o] # Unasked
  BY DEF GenreInv, GenresBegun
<1>2. o \in Books /\ o \notin disturbed' => genres[o] = asked[o]
  BY <1>1 DEF GenreInv, GenresSound, Touches, Acts, Inserting
<1>3. QED
  BY <1>1, <1>2, GenreOwner

LEMMA GenreBegin ==
  ASSUME Staged, GenreInv, NEW h \in Handlers, NEW o \in Owners,
         \/ \E kind \in Kinds, f \in Uploads : UploadFind(h, o, kind, f)
         \/ \E kind \in Kinds : RemoveFind(h, o, kind)
         \/ o \in Books /\ \E body \in Edits : Create(h, o, body) \/ EditFind(h, o, body)
         \/ o \in Books /\ RemoveBookFind(h, o)
  PROVE  GenreInv'
<1>1. Touches(h, o) /\ req[h] = Idle
  BY TouchesBegin
<1>2. ~Inserting(h, o)
  BY <1>1, IdleStaged DEF Inserting
<1>3. ASSUME o \in Books, NEW body \in Edits, Create(h, o, body)
      PROVE  GenreInv'
  <2>1. genres'[o] = {} /\ asked'[o] = {}
    BY <1>3 DEF Create, GenreInv, GenresBegun, Staged, RowsTyped
  <2>2. {} # Unasked
    BY DEF Unasked
  <2>3. QED
    BY <1>1, <2>1, <2>2, GenreOwner
<1>4. CASE ~(o \in Books /\ \E body \in Edits : Create(h, o, body))
  <2>1. genres' = genres /\ asked' = asked /\ (o \in Books => books[o] # None)
    BY <1>4, FilesOwners DEF UploadFind, RemoveFind, EditFind, RemoveBookFind, rows, Present
  <2>2. \E r : Becomes(h, r) /\ r.op # "insert"
    <3>1. CASE \E kind \in Kinds, f \in Uploads : UploadFind(h, o, kind, f)
      BY <3>1 DEF UploadFind, Begin
    <3>2. CASE \E kind \in Kinds : RemoveFind(h, o, kind)
      BY <3>2 DEF RemoveFind, Begin
    <3>3. CASE \E body \in Edits : EditFind(h, o, body)
      BY <3>3 DEF EditFind, Begin
    <3>4. CASE RemoveBookFind(h, o)
      BY <3>4 DEF RemoveBookFind, Begin
    <3>5. QED
      BY <1>4, <3>1, <3>2, <3>3, <3>4
  <2>3. ~Inserting(h, o)'
    BY <2>2 DEF Inserting, Becomes, Staged
  <2>4. QED
    BY <1>1, <1>2, <2>1, <2>3, GenreStays
<1>5. QED
  BY <1>3, <1>4

LEMMA GenreGoesOn ==
  ASSUME Staged, AloneInv, GenreInv, NEW h \in Handlers, GoesOn(h)
  PROVE  GenreInv'
<1> DEFINE q == req[h]
<1>1. PICK o \in Owners : o = q.owner
  BY TouchesOn
<1>2. Touches(h, o) /\ Writing(h, o)
  BY <1>1, TouchesOn
<1>3. o \in Books => asked[o] # Unasked
  BY <1>2 DEF GenreInv, GenresBegun
<1>4. {} # Unasked /\ \A g \in SUBSET GenreIds : g # Unasked
  BY FilesNulls DEF Unasked
<1>5. CASE Drop(h) \/ Put(h) \/ Load(h) \/ PutRefused(h) \/ Save(h) \/ EditWrite(h)
           \/ \E url \in Urls : EraseObject(h, url)
  <2>1. genres' = genres /\ asked' = asked /\ q.op # "insert"
    BY <1>5 DEF Drop, Put, Load, PutRefused, Save, EditWrite, EraseObject, rows
  <2>2. \E r : Becomes(h, r) /\ r.op # "insert"
    <3>1. CASE Drop(h) \/ Put(h) \/ Load(h)
      <4>1. q \in ImageReq
        BY <3>1, ReqTyped DEF Drop, Put, Load, ImageOps
      <4>2. /\ [q EXCEPT !.op = "save", !.url = None].op = "save" /\ [q EXCEPT !.op = "put"].op = "put"
            /\ [q EXCEPT !.op = IF q.kind = "avatar" THEN "save" ELSE "load", !.url = drawn'].op # "insert"
            /\ [q EXCEPT !.op = "save", !.row = books[q.owner]].op = "save"
        BY <4>1 DEF ImageReq
      <4>3. CASE Drop(h)
        <5> DEFINE r == IF q.upload = None THEN [q EXCEPT !.op = "save", !.url = None]
                                           ELSE [q EXCEPT !.op = "put"]
        <5>1. r.op # "insert" /\ Becomes(h, r)
          BY <4>2, <4>3 DEF Drop
        <5> HIDE DEF r
        <5>2. QED
          BY <5>1
      <4>4. CASE Put(h)
        BY <4>2, <4>4 DEF Put
      <4>5. CASE Load(h)
        <5> DEFINE r == [q EXCEPT !.op = "save", !.row = books[q.owner]]
        <5>1. Becomes(h, r) \/ Becomes(h, Idle)
          BY <4>5 DEF Load
        <5>2. r.op = "save"
          BY <4>2
        <5> HIDE DEF r
        <5>3. QED
          BY <5>1, <5>2, IdleStaged
      <4>6. QED
        BY <3>1, <4>3, <4>4, <4>5
    <3>2. CASE PutRefused(h) \/ Save(h)
      BY <3>2, IdleStaged DEF PutRefused, Save, Finish
    <3>3. CASE EditWrite(h)
      <4> DEFINE r == [q EXCEPT !.op = "clear"]
      <4>1. q \in EditReq
        BY <3>3, ReqTyped DEF EditWrite, EditOps
      <4>2. r.op = "clear"
        BY <4>1 DEF EditReq
      <4>3. Becomes(h, r) \/ Becomes(h, Idle)
        BY <3>3 DEF EditWrite
      <4> HIDE DEF r
      <4>4. QED
        BY <4>2, <4>3, IdleStaged
    <3>4. ASSUME NEW url \in Urls, EraseObject(h, url)
          PROVE  \E r : Becomes(h, r) /\ r.op # "insert"
      <4> DEFINE r == [q EXCEPT !.left = q.left \ {url}]
      <4>1. q \in EraseReq
        BY <3>4, ReqTyped DEF EraseObject
      <4>2. r.op = "erase" /\ Becomes(h, r)
        BY <3>4, <4>1 DEF EraseReq, EraseObject
      <4> HIDE DEF r
      <4>3. QED
        BY <4>2
    <3>5. QED
      BY <1>5, <3>1, <3>2, <3>3, <3>4
  <2>3. ~Inserting(h, o)' /\ ~Inserting(h, o)
    BY <2>1, <2>2 DEF Inserting, Becomes, Staged
  <2>4. QED
    BY <1>2, <2>1, <2>3, GenreStays
<1>6. CASE GenresClear(h)
  <2>1. o \in Books
    BY <1>1, <1>6, ReqTyped, EditFields DEF GenresClear, EditOps
  <2>2. genres'[o] = {}
    BY <1>1, <1>6, <2>1 DEF GenresClear, Staged, RowsTyped
  <2>3. CASE q.body.genres = {}
    BY <1>1, <1>2, <1>4, <1>6, <2>1, <2>2, <2>3, GenreOwner DEF GenresClear, Staged, RowsTyped
  <2>4. CASE q.body.genres # {}
    <3> DEFINE r == [q EXCEPT !.op = "insert"]
    <3>1. q \in EditReq
      BY <1>6, ReqTyped DEF GenresClear, EditOps
    <3>2. r.op = "insert" /\ r.owner = o
      BY <1>1, <3>1 DEF EditReq
    <3>3. Becomes(h, r) /\ asked' = asked
      BY <1>6, <2>4 DEF GenresClear
    <3> HIDE DEF r
    <3>4. Inserting(h, o)'
      BY <3>2, <3>3 DEF Inserting, Writing, Becomes, Staged
    <3>5. QED
      BY <1>2, <1>3, <2>2, <3>3, <3>4, GenreOwner
  <2>5. QED
    BY <2>3, <2>4
<1>7. CASE GenresInsert(h)
  <2> DEFINE g == q.body.genres
  <2>1. o \in Books /\ q.op = "insert"
    BY <1>1, <1>7, ReqTyped, EditFields DEF GenresInsert, EditOps
  <2>2. g \subseteq GenreIds /\ asked'[o] = g /\ genres'[o] = genres[o] \cup g
    BY <1>1, <1>7, <2>1 DEF GenresInsert, Staged, RowsTyped
  <2>3. asked'[o] # Unasked
    BY <1>4, <2>2
  <2>4. o \notin disturbed => genres[o] = {}
    BY <1>2, <2>1 DEF GenreInv, GenresSound, Inserting
  <2>5. ~Inserting(h, o)' /\ disturbed' = disturbed
    BY <1>7, IdleStaged DEF GenresInsert, Finish, Inserting, Becomes, Staged
  <2>6. QED
    BY <1>2, <2>2, <2>3, <2>4, <2>5, GenreOwner
<1>8. CASE GenresRefused(h) \/ Fail(h)
  <2>1. genres' = genres /\ asked' = asked
    BY <1>8 DEF GenresRefused, Fail, rows
  <2>2. o \in disturbed'
    BY <1>1, <1>8 DEF GenresRefused, Fail, Disturb, Writing
  <2>3. QED
    BY <1>2, <1>3, <2>1, <2>2, GenreOwner
<1>9. CASE EraseRow(h)
  <2>1. o \in Books
    BY <1>1, <1>9, ReqTyped, EraseStaged DEF EraseRow
  <2>2. genres'[o] = {} /\ asked'[o] = {}
    BY <1>1, <1>9, <2>1 DEF EraseRow, Staged, RowsTyped
  <2>3. QED
    BY <1>2, <1>4, <2>2, GenreOwner
<1>10. QED
  BY <1>5, <1>6, <1>7, <1>8, <1>9 DEF GoesOn

LEMMA GenreStep == Staged /\ AloneInv /\ GenreInv /\ [Next]_vars => GenreInv'
<1> SUFFICES ASSUME Staged, AloneInv, GenreInv, [Next]_vars
             PROVE  GenreInv'
  OBVIOUS
<1>1. CASE Aside
  <2>1. \A b \in Books : books[b] = None => books'[b] = None
    BY <1>1 DEF Aside, Downloads, DownloadStart, DownloadFind, DownloadSend, CreateSeries, RemoveSeries,
       Approve, vars, rows
  <2>2. QED
    BY <1>1, <2>1, AsideCalm, GenreCalm
<1>2. ASSUME NEW h \in Handlers, NEW u \in Users, NEW url \in Urls, PatchAvatar(h, u, url)
      PROVE  GenreInv'
  <2>1. Touches(h, u) /\ u \notin Books /\ u \in Owners
    BY <1>2, TouchesPatch, FilesOwners DEF Owners
  <2>2. QED
    BY <2>1, GenreOwner
<1>3. QED
  BY <1>1, <1>2, StepKinds, GenreBegin, GenreGoesOn

LEMMA GenreInit == Init => AloneInv /\ GenreInv
BY IdleStaged DEF Init, AloneInv, Alone, GenreInv, GenresBegun, GenresSound, Inserting, Writing

\* The genres of a book are those of the last request that went through, and its
\* series is one of its author's, however many authors create and delete series:
\* save() writes back a series id that a removal has just set to null only if the
\* foreign key lets it, and an id is never used again.
THEOREM BookLinksStaySound == Spec => []BookLinksSound
<1> DEFINE Inv == Staged /\ AloneInv /\ LinkInv /\ GenreInv
<1>1. Init => Inv
  BY StagedInit, LinkInit, GenreInit
<1>2. Inv /\ [Next]_vars => Inv'
  BY StagedStep, AloneStep, LinkStep, GenreStep
<1>3. Inv => BookLinksSound
  BY DEF BookLinksSound, LinkInv, RowLinked, GenreInv, GenresSound, Settled, Inserting
<1>4. QED
  BY <1>1, <1>2, <1>3, PTL DEF Spec

-----------------------------------------------------------------------------
\* The names of an object

RowUrls(row) == IF row = None THEN {} ELSE {row.file, row.cover}

\* The urls a request still knows
ReqUrls(r) ==
  IF r.op \in ImageOps THEN {r.url} \cup RowUrls(r.row)
  ELSE IF r.op \in EditOps THEN RowUrls(r.row)
  ELSE IF r.op = "erase" THEN r.left ELSE {}

Mine(o, k) == objects[k] # None /\ objects[k].owner = o

ByRow(o, k) == o \in Owners /\ k \in Keys /\ k \in UrlsOf(o)
ByReq(h, o, k) == Writing(h, o) /\ k \in ReqUrls(req[h])

Named(o, k) == \/ ByRow(o, k) \/ Mine(o, k)
               \/ \E h \in Handlers : ByReq(h, o, k)

\* A key is known to one owner at most: by its object, its row or its requests.
NamedInv == \A k \in Keys, o \in Owners :
  Named(o, k) => k <= drawn /\ \A p \in Owners : Named(p, k) => o = p

LEMMA OwnerUrls ==
  ASSUME Staged, NEW o \in Owners
  PROVE  /\ o \in Books => UrlsOf(o) = RowUrls(books[o])
         /\ o \in Users => UrlsOf(o) = {avatar[o]}
BY FilesOwners DEF UrlsOf, RowUrls, Owners

LEMMA KeyFacts == \A k \in Keys : k # None /\ k # External /\ k \in Urls /\ k \in Nat
BY FilesNulls DEF Keys, Urls

\* Names do not come from nowhere
NewByRow(K) == \A p \in Owners, k \in Keys : ByRow(p, k)' => Named(p, k) \/ <<p, k>> \in K
NewByObj(K) == \A p \in Owners, k \in Keys : Mine(p, k)' => Named(p, k) \/ <<p, k>> \in K
NewByReq(K) == \A h \in Handlers, p \in Owners, k \in Keys :
                 ByReq(h, p, k)' => Named(p, k) \/ <<p, k>> \in K

LEMMA NamedKept ==
  ASSUME Staged, NamedInv, NewByRow({}), NewByObj({}), NewByReq({}), drawn' = drawn
  PROVE  NamedInv'
<1>1. \A p \in Owners, k \in Keys : Named(p, k)' => Named(p, k)
  BY DEF Named, NewByRow, NewByObj, NewByReq
<1>2. QED
  BY <1>1 DEF NamedInv

LEMMA NamedDrawn ==
  ASSUME Staged, NamedInv, NEW o \in Owners, NewByRow({<<o, drawn + 1>>}), NewByObj({<<o, drawn + 1>>}),
         NewByReq({<<o, drawn + 1>>}), drawn' = drawn + 1
  PROVE  NamedInv'
<1>1. \A p \in Owners, k \in Keys : Named(p, k)' => Named(p, k) \/ (p = o /\ k = drawn + 1)
  BY DEF Named, NewByRow, NewByObj, NewByReq
<1>2. drawn \in Nat /\ Keys \subseteq Nat
  BY Numbers DEF Staged, RowsTyped, Keys
<1>3. \A k \in Keys, p \in Owners : Named(p, k) => k <= drawn /\ \A q \in Owners : Named(q, k) => p = q
  BY DEF NamedInv
<1> SUFFICES ASSUME NEW k \in Keys, NEW p \in Owners, Named(p, k)'
             PROVE  k <= drawn + 1 /\ \A q \in Owners : Named(q, k)' => p = q
  BY DEF NamedInv
<1>4. QED
  BY <1>1, <1>2, <1>3

LEMMA RequestNames ==
  ASSUME Staged, NEW h \in Handlers, NEW r, Becomes(h, r), NEW K,
         \A p \in Owners, k \in Keys : Writes(r, p) /\ k \in ReqUrls(r) => Named(p, k) \/ <<p, k>> \in K
  PROVE  NewByReq(K)
<1>1. req'[h] = r /\ Others(h)
  BY DEF Becomes, Others, Staged
<1> SUFFICES ASSUME NEW g \in Handlers, NEW p \in Owners, NEW k \in Keys, ByReq(g, p, k)'
             PROVE  Named(p, k) \/ <<p, k>> \in K
  BY DEF NewByReq
<1>2. CASE g = h
  BY <1>1, <1>2 DEF ByReq, Writing, Writes
<1>3. CASE g # h
  <2>1. ByReq(g, p, k)
    BY <1>1, <1>3 DEF ByReq, Writing, Others
  <2>2. QED
    BY <2>1 DEF Named
<1>4. QED
  BY <1>2, <1>3

LEMMA SameObjects == objects' = objects => NewByObj({})
BY DEF NewByObj, Mine, Named

LEMMA DeletedObjects ==
  ASSUME Staged, NEW urls, objects' = Deleted(urls) \/ objects' = objects
  PROVE  NewByObj({}) /\ \A p, k : k \in Keys /\ Mine(p, k)' => Mine(p, k)
BY DEF NewByObj, Mine, Named, Deleted

\* The rows keep their urls, or the row of one owner gets names its owner has.
LEMMA RowNames ==
  ASSUME Staged, Staged', NEW o, OnlyRowsOf(o), NEW K,
         \A k \in Keys : ByRow(o, k)' => Named(o, k) \/ <<o, k>> \in K
  PROVE  NewByRow(K)
<1> SUFFICES ASSUME NEW p \in Owners, NEW k \in Keys, ByRow(p, k)'
             PROVE  Named(p, k) \/ <<p, k>> \in K
  BY DEF NewByRow
<1>1. CASE p = o
  BY <1>1
<1>2. CASE p # o
  <2>1. UrlsOf(p)' = UrlsOf(p)
    BY <1>2 DEF OnlyRowsOf, UrlsOf, Owners
  <2>2. QED
    BY <2>1 DEF ByRow, Named
<1>3. QED
  BY <1>1, <1>2

LEMMA SameRows ==
  ASSUME UNCHANGED <<books, avatar>>, NEW K
  PROVE  NewByRow(K)
BY DEF NewByRow, ByRow, UrlsOf, Named

SameUrls(row1, row2) == row1.file = row2.file /\ row1.cover = row2.cover

\* A step that is nobody's changes no url: a removed series leaves the rest of the row.
LEMMA AsideUrls ==
  ASSUME Staged, Aside
  PROVE  /\ \A b \in Books : /\ books'[b] = None <=> books[b] = None
                             /\ books[b] # None => SameUrls(books'[b], books[b])
         /\ \A p \in Owners : UrlsOf(p)' = UrlsOf(p)
<1>1. ASSUME NEW s \in SeriesIds, RemoveSeries(s), NEW b \in Books
      PROVE  /\ books'[b] = None <=> books[b] = None
             /\ books[b] # None => SameUrls(books'[b], books[b])
  <2>1. CASE books[b] = None
    BY <1>1, <2>1 DEF RemoveSeries
  <2>2. CASE books[b] # None
    <3>1. books[b] \in BookRow /\ books'[b] # None
      BY <1>1, <2>2, FilesNulls DEF RemoveSeries, Staged, RowsTyped, BookRow
    <3>2. books'[b].file = books[b].file /\ books'[b].cover = books[b].cover
      BY <1>1, <2>2, <3>1 DEF RemoveSeries, BookRow
    <3>3. QED
      BY <2>2, <3>1, <3>2 DEF SameUrls
  <2>3. QED
    BY <2>1, <2>2
<1>2. books' = books \/ \E s \in SeriesIds : RemoveSeries(s)
  BY DEF Aside, Downloads, DownloadStart, DownloadFind, DownloadSend, CreateSeries, Approve, vars, rows
<1>3. \A b \in Books : /\ books'[b] = None <=> books[b] = None
                       /\ books[b] # None => SameUrls(books'[b], books[b])
  BY <1>1, <1>2 DEF SameUrls
<1>4. avatar' = avatar
  BY AsideCalm
<1>5. QED
  BY <1>3, <1>4 DEF SameUrls, UrlsOf, Owners

LEMMA NamedCalm ==
  ASSUME Staged, NamedInv, Aside
  PROVE  NamedInv'
<1>1. Calm /\ objects' = objects /\ drawn' = drawn
  BY AsideCalm
<1>2. NewByRow({})
  BY AsideUrls DEF NewByRow, ByRow, Named
<1>3. NewByReq({})
  BY <1>1 DEF NewByReq, ByReq, Named, Calm
<1>4. QED
  BY <1>1, <1>2, <1>3, SameObjects, NamedKept

\* The images of a book or a user
LEMMA NamedImages ==
  ASSUME Staged, Staged', NamedInv, NEW h \in Handlers, Images(h)
  PROVE  NamedInv'
<1>0. \A o \in Owners, kind \in Kinds : Owns(o, kind) /\ Present(o) => UrlOf(o, kind) \in UrlsOf(o)
  BY FilesOwners DEF UrlOf, UrlsOf, Owns, Present, Kinds, Owners
<1>1. ASSUME NEW o \in Owners, NEW kind \in Kinds, NEW f \in Uploads, UploadFind(h, o, kind, f)
      PROVE  NamedInv'
  <2>1. PICK r : Becomes(h, r) /\ r.owner = o /\ r.url = UrlOf(o, kind) /\ r.row = None
                 /\ r.op \in ImageOps
    BY <1>1 DEF UploadFind, Begin, ImageOps
  <2>2. \A p \in Owners, k \in Keys : Writes(r, p) /\ k \in ReqUrls(r) => Named(p, k)
    BY <1>0, <1>1, <2>1, KeyFacts DEF Writes, ReqUrls, RowUrls, Named, ByRow, UploadFind
  <2>3. NewByReq({})
    BY <2>1, <2>2, RequestNames
  <2>4. QED
    BY <1>1, <2>3, SameRows, SameObjects, NamedKept DEF UploadFind, rows
<1>2. ASSUME NEW o \in Owners, NEW kind \in Kinds, RemoveFind(h, o, kind)
      PROVE  NamedInv'
  <2>1. PICK r : Becomes(h, r) /\ r.owner = o /\ r.url = UrlOf(o, kind)
                 /\ r.row = (IF o \in Books THEN books[o] ELSE None) /\ r.op \in ImageOps
    BY <1>2 DEF RemoveFind, Begin, ImageOps
  <2>2. \A p \in Owners, k \in Keys : Writes(r, p) /\ k \in ReqUrls(r) => Named(p, k)
    BY <1>0, <1>2, <2>1, OwnerUrls DEF Writes, ReqUrls, RowUrls, Named, ByRow, RemoveFind
  <2>3. NewByReq({})
    BY <2>1, <2>2, RequestNames
  <2>4. QED
    BY <1>2, <2>3, SameRows, SameObjects, NamedKept DEF RemoveFind, rows
<1>3. CASE Drop(h)
  <2> DEFINE q == req[h]
             r == IF q.upload = None THEN [q EXCEPT !.op = "save", !.url = None]
                                     ELSE [q EXCEPT !.op = "put"]
  <2>1. q \in ImageReq
    BY <1>3, ReqTyped DEF Drop, ImageOps
  <2>2. r.row = q.row /\ r.owner = q.owner /\ r.url \in {q.url, None} /\ Becomes(h, r)
        /\ r.op \in ImageOps
    BY <1>3, <2>1 DEF Drop, ImageReq, ImageOps
  <2> HIDE DEF r
  <2>3. \A p \in Owners, k \in Keys : Writes(r, p) /\ k \in ReqUrls(r) => ByReq(h, p, k)
    BY <2>1, <2>2, KeyFacts DEF Writes, ReqUrls, ByReq, Writing, ImageReq, ImageOps
  <2>4. NewByReq({})
    BY <2>2, <2>3, RequestNames DEF Named
  <2>5. NewByObj({})
    BY <1>3, DeletedObjects DEF Drop
  <2>6. QED
    BY <1>3, <2>4, <2>5, SameRows, NamedKept DEF Drop, rows
<1>4. CASE Put(h)
  <2> DEFINE q == req[h]
             r == [q EXCEPT !.op = IF q.kind = "avatar" THEN "save" ELSE "load", !.url = drawn']
             obj == [ext |-> q.upload.ext, body |-> q.upload.body,
                     mark |-> q.upload.mark, owner |-> q.owner]
  <2>1. q \in ImageReq /\ q.owner \in Owners
    BY <1>4, ReqTyped, ImageFields DEF Put, ImageOps
  <2>2. r.row = q.row /\ r.owner = q.owner /\ r.url = drawn' /\ r.op \in ImageOps
    BY <2>1 DEF ImageReq, ImageOps
  <2>3. Becomes(h, r) /\ drawn' = drawn + 1 /\ objects' = [objects EXCEPT ![drawn'] = obj]
    BY <1>4 DEF Put
  <2>4. obj.owner = q.owner
    OBVIOUS
  <2> HIDE DEF r, obj
  <2> DEFINE o == q.owner
             K == {<<o, drawn + 1>>}
  <2>5. \A p \in Owners, k \in Keys : Writes(r, p) /\ k \in ReqUrls(r)
          => ByReq(h, p, k) \/ <<p, k>> \in K
    BY <2>1, <2>2, <2>3 DEF Writes, ReqUrls, ByReq, Writing, ImageReq, ImageOps
  <2>6. NewByReq(K)
    <3> HIDE DEF K
    <3>1. QED
      BY <2>3, <2>5, RequestNames DEF Named
  <2>7. NewByObj(K)
    BY <2>3, <2>4 DEF NewByObj, Mine, Named, Staged, RowsTyped
  <2>8. NewByRow(K)
    BY <1>4, SameRows DEF Put, rows
  <2>9. QED
    <3> HIDE DEF o
    <3>1. o \in Owners
      BY <2>1 DEF o
    <3>2. QED
      BY <2>3, <2>6, <2>7, <2>8, <3>1, NamedDrawn
<1>5. CASE PutRefused(h)
  <2>1. NewByReq({})
    BY <1>5, RequestNames, IdleStaged DEF PutRefused, Finish, Writes
  <2>2. QED
    BY <1>5, <2>1, SameRows, SameObjects, NamedKept DEF PutRefused, rows
<1>6. CASE Load(h)
  <2> DEFINE q == req[h]
             row == books[q.owner]
             r == [q EXCEPT !.op = "save", !.row = row]
  <2>1. q \in ImageReq /\ q.owner \in Books
    BY <1>6, ReqTyped, ImageFields DEF Load, ReqStaged, ImageOps, Owns, Owners
  <2>2. r.row = row /\ r.owner = q.owner /\ r.url = q.url /\ r.op = "save"
    BY <2>1 DEF ImageReq
  <2>3. Becomes(h, Idle) \/ Becomes(h, r)
    BY <1>6 DEF Load
  <2>4. UrlsOf(q.owner) = RowUrls(row)
    BY <2>1, OwnerUrls DEF Owners
  <2> HIDE DEF r, row
  <2>5. ASSUME NEW p \in Owners, NEW k \in Keys, Writes(r, p), k \in ReqUrls(r)
        PROVE  Named(p, k)
    <3>1. p = q.owner /\ (k = q.url \/ k \in RowUrls(row))
      BY <2>2, <2>5 DEF Writes, ReqUrls, ImageOps
    <3>2. CASE k = q.url
      <4>1. ByReq(h, p, k)
        BY <2>1, <3>1, <3>2 DEF ByReq, Writing, ReqUrls, ImageReq, ImageOps
      <4>2. QED
        BY <4>1 DEF Named
    <3>3. CASE k \in RowUrls(row)
      BY <2>4, <3>1, <3>3 DEF Named, ByRow
    <3>4. QED
      BY <3>1, <3>2, <3>3
  <2>6. NewByReq({})
    BY <2>3, <2>5, RequestNames, IdleStaged DEF Writes
  <2>7. QED
    BY <1>6, <2>6, SameRows, SameObjects, NamedKept DEF Load, rows
<1>7. CASE Save(h)
  <2> DEFINE q == req[h]
  <2>1. q \in ImageReq /\ q.op = "save" /\ ReqStaged(q) /\ q.owner \in Owners /\ Owns(q.owner, q.kind)
    BY <1>7, ReqTyped, ImageFields DEF Save, ImageOps, ReqStaged
  <2>2. NewByReq({})
    BY <1>7, RequestNames, IdleStaged DEF Save, Finish, Writes
  <2>3. ASSUME NEW p \in Owners, NEW k \in Keys, ByRow(p, k)'
        PROVE  Named(p, k)
    <3>1. CASE q.kind = "avatar"
      <4>1. q.owner \in Users /\ avatar' = [avatar EXCEPT ![q.owner] = q.url] /\ books' = books
        BY <1>7, <2>1, <3>1 DEF Save, Owns
      <4>2. CASE p = q.owner
        BY <2>1, <2>3, <4>1, <4>2 DEF ByRow, UrlsOf, Named, ByReq, ReqUrls, Writing, ImageOps,
           Staged, RowsTyped
      <4>3. CASE p # q.owner
        BY <2>3, <4>1, <4>3 DEF ByRow, UrlsOf, Named, Staged, RowsTyped
      <4>4. QED
        BY <4>2, <4>3
    <3>2. CASE q.kind # "avatar"
      <4>1. /\ q.owner \in Books /\ q.row \in BookRow /\ q.row # None /\ Saved(q) # None
            /\ {Saved(q).file, Saved(q).cover} \subseteq {q.url, q.row.file, q.row.cover}
        BY <2>1, <3>2, SavedRow, FilesNulls DEF Kinds, ImageReq
      <4>2. books' = [books EXCEPT ![q.owner] = Saved(q)] /\ avatar' = avatar
        BY <1>7, <3>2 DEF Save
      <4>3. CASE p = q.owner
        <5>1. UrlsOf(p)' = {Saved(q).file, Saved(q).cover}
          BY <4>1, <4>2, <4>3, FilesOwners DEF UrlsOf, Staged, RowsTyped
        <5>2. k \in ReqUrls(q) /\ Writing(h, p)
          BY <2>1, <2>3, <4>1, <4>3, <5>1 DEF ByRow, ReqUrls, RowUrls, Writing, ImageOps
        <5>3. QED
          BY <5>2 DEF Named, ByReq
      <4>4. CASE p # q.owner
        BY <2>3, <4>2, <4>4 DEF ByRow, UrlsOf, Named, Staged, RowsTyped
      <4>5. QED
        BY <4>3, <4>4
    <3>3. QED
      BY <3>1, <3>2
  <2>4. NewByRow({})
    BY <2>3 DEF NewByRow
  <2>5. QED
    BY <1>7, <2>2, <2>4, SameObjects, NamedKept DEF Save
<1>8. ASSUME NEW u \in Users, NEW url \in Urls, PatchAvatar(h, u, url)
      PROVE  NamedInv'
  <2>1. NewByRow({})
    BY <1>8, KeyFacts DEF PatchAvatar, NewByRow, ByRow, UrlsOf, Named, Staged, RowsTyped
  <2>2. NewByReq({})
    BY <1>8 DEF PatchAvatar, NewByReq, ByReq, Writing, Named
  <2>3. QED
    BY <1>8, <2>1, <2>2, SameObjects, NamedKept DEF PatchAvatar
<1>9. QED
  BY <1>1, <1>2, <1>3, <1>4, <1>5, <1>6, <1>7, <1>8 DEF Images

\* Books and failing requests
LEMMA NamedBegin ==
  ASSUME Staged, NamedInv, NEW h \in Handlers, NEW o \in Books,
         (\E body \in Edits : EditFind(h, o, body)) \/ RemoveBookFind(h, o)
  PROVE  NamedInv'
<1>1. UrlsOf(o) = {books[o].file, books[o].cover} /\ books[o] \in BookRow
  BY FilesOwners DEF UrlsOf, EditFind, RemoveBookFind, Staged, RowsTyped
<1>2. \E r : /\ Becomes(h, r) /\ r.owner = o
             /\ ReqUrls(r) \subseteq UrlsOf(o)
  <2>1. ASSUME NEW body \in Edits, EditFind(h, o, body)
        PROVE  \E r : Becomes(h, r) /\ r.owner = o /\ ReqUrls(r) \subseteq UrlsOf(o)
    <3> DEFINE s == IF body.series = Unasked THEN books[o].series ELSE body.series
               row == [books[o] EXCEPT !.series = s]
               r == [op |-> "write", owner |-> o, body |-> body, row |-> row]
    <3>1. Becomes(h, r)
      BY <2>1 DEF EditFind, Begin
    <3>2. row.file = books[o].file /\ row.cover = books[o].cover
      BY <1>1 DEF BookRow
    <3> HIDE DEF row
    <3>3. ReqUrls(r) \subseteq UrlsOf(o) /\ r.owner = o
      BY <1>1, <3>2 DEF ReqUrls, RowUrls, ImageOps, EditOps
    <3> HIDE DEF r
    <3>4. QED
      BY <3>1, <3>3
  <2>2. CASE RemoveBookFind(h, o)
    <3> DEFINE r == [op |-> "erase", owner |-> o, left |-> {books[o].file, books[o].cover} \ {None}]
    <3>1. Becomes(h, r)
      BY <2>2 DEF RemoveBookFind, Begin
    <3>2. ReqUrls(r) \subseteq UrlsOf(o) /\ r.owner = o
      BY <1>1 DEF ReqUrls, ImageOps, EditOps
    <3> HIDE DEF r
    <3>3. QED
      BY <3>1, <3>2
  <2>3. QED
    BY <2>1, <2>2
<1>3. NewByReq({})
  <2>1. PICK r : Becomes(h, r) /\ r.owner = o /\ ReqUrls(r) \subseteq UrlsOf(o)
    BY <1>2
  <2>2. \A p \in Owners, k \in Keys : Writes(r, p) /\ k \in ReqUrls(r) => Named(p, k)
    BY <2>1 DEF Writes, Named, ByRow
  <2>3. QED
    BY <2>1, <2>2, RequestNames
<1>4. QED
  BY <1>3, SameRows, SameObjects, NamedKept DEF EditFind, RemoveBookFind, rows

LEMMA NamedCreate ==
  ASSUME Staged, NamedInv, NEW h \in Handlers, NEW b \in Books, NEW body \in Edits,
         Create(h, b, body)
  PROVE  NamedInv'
<1> DEFINE row == NewBook(body.series)
           r == [op |-> "clear", owner |-> b, row |-> row, body |-> body]
<1>1. row.file = None /\ row.cover = None /\ row \in BookRow
  BY BodyFields, NewBookRow
<1>2. books' = [books EXCEPT ![b] = row] /\ avatar' = avatar /\ objects' = objects /\ drawn' = drawn
      /\ (Becomes(h, Idle) \/ Becomes(h, r))
  BY DEF Create, Begin
<1> HIDE DEF row
<1>3. ReqUrls(r) \subseteq {None}
  BY <1>1 DEF ReqUrls, RowUrls, ImageOps, EditOps
<1> HIDE DEF r
<1>4. NewByReq({})
  BY <1>2, <1>3, KeyFacts, RequestNames, IdleStaged DEF Writes
<1>5. NewByRow({})
  BY <1>1, <1>2, KeyFacts DEF NewByRow, ByRow, UrlsOf, Named, Staged, RowsTyped
<1>6. QED
  BY <1>2, <1>4, <1>5, SameObjects, NamedKept

LEMMA NamedGoesOn ==
  ASSUME Staged, NamedInv, NEW h \in Handlers, GoesOn(h), ~Images(h)
  PROVE  NamedInv'
<1> DEFINE q == req[h]
<1>2. CASE EditWrite(h)
  <2> DEFINE r == [q EXCEPT !.op = "clear"]
  <2>1. q \in EditReq /\ q.op = "write" /\ q.owner \in Books /\ q.row \in BookRow
    BY <1>2, ReqTyped, EditFields DEF EditWrite, EditOps
  <2>2. r.row = q.row /\ r.owner = q.owner /\ r.op = "clear"
    BY <2>1 DEF EditReq
  <2>3. books' = [books EXCEPT ![q.owner] = q.row] /\ avatar' = avatar /\ objects' = objects
        /\ drawn' = drawn /\ (Becomes(h, Idle) \/ Becomes(h, r))
    BY <1>2 DEF EditWrite
  <2> HIDE DEF r
  <2>4. ReqUrls(q) = RowUrls(q.row) /\ ReqUrls(r) = RowUrls(q.row)
    BY <2>1, <2>2 DEF ReqUrls, ImageOps, EditOps
  <2>5. \A p \in Owners, k \in Keys : p = q.owner /\ k \in RowUrls(q.row) => ByReq(h, p, k)
    BY <2>1, <2>4 DEF ByReq, Writing
  <2>6. NewByReq({})
    BY <2>2, <2>3, <2>4, <2>5, RequestNames, IdleStaged DEF Writes, Named
  <2>7. ASSUME NEW p \in Owners, NEW k \in Keys, ByRow(p, k)'
        PROVE  Named(p, k)
    <3>1. CASE p = q.owner
      <4>1. q.row # None
        BY <2>1, FilesNulls
      <4>2. UrlsOf(p)' = RowUrls(q.row)
        BY <2>1, <2>3, <3>1, <4>1, FilesOwners DEF UrlsOf, RowUrls, Staged, RowsTyped
      <4>3. QED
        BY <2>5, <2>7, <3>1, <4>2 DEF ByRow, Named
    <3>2. CASE p # q.owner
      BY <2>3, <2>7, <3>2 DEF ByRow, UrlsOf, Named, Staged, RowsTyped
    <3>3. QED
      BY <3>1, <3>2
  <2>8. NewByRow({})
    BY <2>7 DEF NewByRow
  <2>9. QED
    BY <2>3, <2>6, <2>8, SameObjects, NamedKept
<1>3. CASE GenresClear(h)
  <2> DEFINE r == [q EXCEPT !.op = "insert"]
  <2>1. q \in EditReq /\ q.op = "clear"
    BY <1>3, ReqTyped DEF GenresClear, EditOps
  <2>2. r.row = q.row /\ r.owner = q.owner /\ r.op = "insert"
    BY <2>1 DEF EditReq
  <2>3. Becomes(h, Idle) \/ Becomes(h, r)
    BY <1>3 DEF GenresClear, Finish
  <2> HIDE DEF r
  <2>4. \A p \in Owners, k \in Keys : Writes(r, p) /\ k \in ReqUrls(r) => ByReq(h, p, k)
    BY <2>1, <2>2 DEF ReqUrls, ByReq, Writes, Writing, ImageOps, EditOps
  <2>5. NewByReq({})
    BY <2>3, <2>4, RequestNames, IdleStaged DEF Writes, Named
  <2>6. QED
    BY <1>3, <2>5, SameRows, SameObjects, NamedKept DEF GenresClear
<1>4. CASE GenresInsert(h) \/ GenresRefused(h) \/ Fail(h)
  <2>1. NewByReq({})
    BY <1>4, RequestNames, IdleStaged DEF GenresInsert, GenresRefused, Fail, Finish, Writes
  <2>2. QED
    BY <1>4, <2>1, SameRows, SameObjects, NamedKept DEF GenresInsert, GenresRefused, Fail, rows
<1>5. ASSUME NEW url \in Urls, EraseObject(h, url)
      PROVE  NamedInv'
  <2> DEFINE r == [q EXCEPT !.left = q.left \ {url}]
  <2>1. q \in EraseReq /\ q.op = "erase"
    BY <1>5, ReqTyped DEF EraseObject
  <2>2. r.left \subseteq q.left /\ r.owner = q.owner /\ r.op = "erase" /\ Becomes(h, r)
    BY <1>5, <2>1 DEF EraseReq, EraseObject
  <2> HIDE DEF r
  <2>3. \A p \in Owners, k \in Keys : Writes(r, p) /\ k \in ReqUrls(r) => ByReq(h, p, k)
    BY <2>1, <2>2 DEF ReqUrls, ByReq, Writes, Writing, ImageOps, EditOps
  <2>4. NewByReq({})
    BY <2>2, <2>3, RequestNames DEF Named
  <2>5. NewByObj({})
    BY <1>5, DeletedObjects DEF EraseObject
  <2>6. QED
    BY <1>5, <2>4, <2>5, SameRows, NamedKept DEF EraseObject, rows
<1>6. CASE EraseRow(h)
  <2>1. NewByReq({})
    BY <1>6, RequestNames, IdleStaged DEF EraseRow, Finish, Writes
  <2>2. NewByRow({})
    BY <1>6 DEF EraseRow, NewByRow, ByRow, UrlsOf, Named, Staged, RowsTyped
  <2>3. QED
    BY <1>6, <2>1, <2>2, SameObjects, NamedKept DEF EraseRow
<1>7. QED
  BY <1>2, <1>3, <1>4, <1>5, <1>6 DEF GoesOn, Images

LEMMA NamedStep == Staged /\ Staged' /\ NamedInv /\ [Next]_vars => NamedInv'
<1> SUFFICES ASSUME Staged, Staged', NamedInv, [Next]_vars
             PROVE  NamedInv'
  OBVIOUS
<1>1. CASE Aside
  BY <1>1, NamedCalm
<1>2. ASSUME NEW h \in Handlers, Images(h)
      PROVE  NamedInv'
  BY <1>2, NamedImages
<1>3. ASSUME NEW h \in Handlers, Catalogue(h), ~Images(h)
      PROVE  NamedInv'
  <2>1. \/ GoesOn(h)
        \/ \E b \in Books, body \in Edits : Create(h, b, body)
        \/ \E b \in Books : (\E body \in Edits : EditFind(h, b, body)) \/ RemoveBookFind(h, b)
    BY <1>3 DEF Catalogue, GoesOn
  <2>2. QED
    BY <1>3, <2>1, NamedGoesOn, NamedCreate, NamedBegin
<1>4. ASSUME NEW h \in Handlers, Fail(h), ~Images(h)
      PROVE  NamedInv'
  BY <1>4, NamedGoesOn DEF GoesOn
<1>5. QED
  BY <1>1, <1>2, <1>3, <1>4 DEF Next, Aside

LEMMA NamedInit == Init => NamedInv
<1> SUFFICES ASSUME Init, NEW k \in Keys, NEW o \in Owners, Named(o, k)
             PROVE  FALSE
  BY DEF NamedInv
<1>1. ~ByRow(o, k)
  BY KeyFacts DEF Init, ByRow, UrlsOf, Owners
<1>2. ~Mine(o, k) /\ \A h \in Handlers : ~ByReq(h, o, k)
  BY IdleStaged DEF Init, Mine, ByReq, Writing
<1>3. QED
  BY <1>1, <1>2 DEF Named

-----------------------------------------------------------------------------
\* Rows and bucket

Exact(o)        == \A k \in Keys : Mine(o, k) <=> k \in UrlsOf(o)
Rest(o, kind)   == {k \in Keys : k \in UrlsOf(o) /\ k # UrlOf(o, kind)}
FileApart(o)    == o \in Books /\ books[o] # None /\ books[o].file \in Keys
                     => books[o].file # books[o].cover

\* How far the row and the objects of an undisturbed owner are apart, by what
\* its one request does next
TidyReq(r, o) ==
  /\ Present(o)
  /\ r.op \in {"drop"} \cup EditOps => Exact(o)
  /\ r.op = "put" => \A k \in Keys : Mine(o, k) <=> k \in Rest(o, r.kind)
  /\ r.op \in {"load", "save"} =>
       /\ \A k \in Keys : Mine(o, k) <=> k = r.url \/ k \in Rest(o, r.kind)
       /\ r.url \in Keys => r.url \notin UrlsOf(o)
  /\ r.op = "erase" => r.left \subseteq UrlsOf(o) /\ \A k \in Keys : Mine(o, k) <=> k \in r.left
  /\ r.op \in {"drop", "put"} => r.url = UrlOf(o, r.kind)
  /\ o \in Books /\ (r.op \in {"save", "write"} \/ (r.op = "drop" /\ r.upload = None))
       => SameUrls(r.row, books[o])

Tidy(o) ==
  /\ FileApart(o)
  /\ (\A g \in Handlers : ~Writing(g, o)) => Exact(o)
  /\ \A g \in Handlers : Writing(g, o) => TidyReq(req[g], o)

TidyInv == \A o \in Owners : o \notin disturbed => Tidy(o)

SameRow(p) ==
  /\ p \in Books => /\ books'[p] = None <=> books[p] = None
                    /\ books[p] # None => SameUrls(books'[p], books[p])
  /\ p \in Users => avatar'[p] = avatar[p]

LEMMA RowKept ==
  ASSUME NEW p \in Owners, SameRow(p)
  PROVE  /\ UrlsOf(p)' = UrlsOf(p) /\ FileApart(p)' = FileApart(p) /\ Present(p)' = Present(p)
         /\ \A kind \in Kinds : Owns(p, kind) /\ Present(p) =>
              UrlOf(p, kind)' = UrlOf(p, kind) /\ Rest(p, kind)' = Rest(p, kind)
<1>1. UrlsOf(p)' = UrlsOf(p)
  BY FilesOwners DEF SameRow, SameUrls, UrlsOf, Owners
<1>2. (FileApart(p)' <=> FileApart(p)) /\ (Present(p)' <=> Present(p))
  BY FilesOwners DEF SameRow, SameUrls, FileApart, Present, Owners
<1>3. \A kind \in Kinds : Owns(p, kind) /\ Present(p) => UrlOf(p, kind)' = UrlOf(p, kind)
  BY FilesOwners DEF SameRow, SameUrls, UrlOf, Owns, Present, Kinds, Owners
<1>4. FileApart(p) \in BOOLEAN /\ FileApart(p)' \in BOOLEAN /\ Present(p) \in BOOLEAN /\ Present(p)' \in BOOLEAN
  BY DEF FileApart, Present
<1>5. QED
  BY <1>1, <1>2, <1>3, <1>4 DEF Rest

LEMMA UntouchedRow ==
  ASSUME NEW o, OnlyRowsOf(o), NEW p, p # o
  PROVE  SameRow(p)
BY DEF OnlyRowsOf, SameRow, SameUrls

\* An owner whose row, objects and requests stay is as tidy as before.
LEMMA TidyFrame ==
  ASSUME Staged, NEW p \in Owners, Tidy(p), SameRow(p), \A k \in Keys : Mine(p, k)' <=> Mine(p, k),
         \A g \in Handlers : (Writing(g, p)' <=> Writing(g, p)) /\ (Writing(g, p) => req'[g] = req[g])
  PROVE  Tidy(p)'
<1>1. /\ UrlsOf(p)' = UrlsOf(p) /\ FileApart(p)' = FileApart(p) /\ Present(p)' = Present(p)
      /\ \A kind \in Kinds : Owns(p, kind) /\ Present(p) =>
           UrlOf(p, kind)' = UrlOf(p, kind) /\ Rest(p, kind)' = Rest(p, kind)
  BY RowKept
<1>2. Exact(p) => Exact(p)'
  BY <1>1 DEF Exact
<1>3. ASSUME NEW g \in Handlers, Writing(g, p)'
      PROVE  TidyReq(req[g], p)'
  <2>1. Writing(g, p) /\ req'[g] = req[g] /\ TidyReq(req[g], p)
    BY <1>3 DEF Tidy
  <2>2. req[g].op \in ImageOps => req[g].kind \in Kinds /\ Owns(p, req[g].kind)
    BY <2>1, ReqTyped, ImageFields DEF ReqStaged, Writing
  <2>3. Present(p)
    BY <2>1 DEF TidyReq
  <2>4. req[g].op \in ImageOps => UrlOf(p, req[g].kind)' = UrlOf(p, req[g].kind)
                                  /\ Rest(p, req[g].kind)' = Rest(p, req[g].kind)
    BY <1>1, <2>1, <2>2, <2>3
  <2>5. p \in Books => SameUrls(books'[p], books[p])
    BY <2>3, FilesOwners DEF Present, SameRow
  <2>6. QED
    BY <1>1, <1>2, <2>1, <2>3, <2>4, <2>5 DEF TidyReq, SameUrls, ImageOps
<1>4. QED
  BY <1>1, <1>2, <1>3 DEF Tidy

\* A step for one owner, after which that owner is tidy or disturbed
LEMMA TidyTouch ==
  ASSUME Staged, TidyInv, NEW h \in Handlers, NEW o \in Owners, Touches(h, o),
         \A p \in Owners, k \in Keys : p # o => (Mine(p, k)' <=> Mine(p, k)),
         o \notin disturbed' => /\ FileApart(o)'
                                /\ Writing(h, o)' => TidyReq(req[h], o)'
                                /\ ~Writing(h, o)' => Exact(o)'
  PROVE  TidyInv'
<1> SUFFICES ASSUME NEW p \in Owners, p \notin disturbed'
             PROVE  Tidy(p)'
  BY DEF TidyInv
<1>1. CASE p # o
  <2>1. Tidy(p)
    BY DEF TidyInv, Touches, Acts
  <2>2. \A g \in Handlers : (Writing(g, p)' <=> Writing(g, p)) /\ (Writing(g, p) => req'[g] = req[g])
    BY <1>1, WritersKept DEF Touches
  <2>3. QED
    BY <1>1, <2>1, <2>2, UntouchedRow, TidyFrame DEF Touches
<1>2. CASE p = o
  <2>1. \A g \in Handlers : Writing(g, o)' => g = h
    BY <1>2 DEF Touches, Acts, Others, Writing
  <2>2. FileApart(o)'
    BY <1>2
  <2>3. (\A g \in Handlers : ~Writing(g, o)') => Exact(o)'
    BY <1>2
  <2>4. \A g \in Handlers : Writing(g, o)' => TidyReq(req[g], o)'
    BY <1>2, <2>1
  <2>5. QED
    BY <1>2, <2>2, <2>3, <2>4 DEF Tidy
<1>3. QED
  BY <1>1, <1>2

LEMMA TidyAside ==
  ASSUME Staged, TidyInv, Aside
  PROVE  TidyInv'
<1>1. Calm /\ objects' = objects /\ avatar' = avatar
  BY AsideCalm
<1>2. \A p \in Owners : SameRow(p)
  BY <1>1, AsideUrls DEF SameRow
<1>3. \A p, k : Mine(p, k)' <=> Mine(p, k)
  BY <1>1 DEF Mine
<1> SUFFICES ASSUME NEW p \in Owners, p \notin disturbed'
             PROVE  Tidy(p)'
  BY DEF TidyInv
<1>4. Tidy(p)
  BY <1>1 DEF TidyInv, Calm
<1>5. \A g \in Handlers : (Writing(g, p)' <=> Writing(g, p)) /\ (Writing(g, p) => req'[g] = req[g])
  BY <1>1 DEF Calm
<1>6. QED
  BY <1>2, <1>3, <1>4, <1>5, TidyFrame

LEMMA RowsStay ==
  ASSUME UNCHANGED <<books, avatar>>, NEW o
  PROVE  /\ UrlsOf(o)' = UrlsOf(o) /\ (FileApart(o)' <=> FileApart(o)) /\ (Present(o)' <=> Present(o))
         /\ \A kind : UrlOf(o, kind)' = UrlOf(o, kind) /\ Rest(o, kind)' = Rest(o, kind)
BY DEF UrlsOf, FileApart, Present, UrlOf, Rest

LEMMA SameMine == ASSUME objects' = objects PROVE \A p, k : Mine(p, k)' <=> Mine(p, k)
BY DEF Mine

\* The owner that is not disturbed when a request begins is as it should be.
LEMMA TidyBegins ==
  ASSUME Staged, TidyInv, NEW h \in Handlers, NEW o \in Owners, o \notin disturbed',
         \A g \in Handlers : ~Writing(g, o), disturbed \subseteq disturbed'
  PROVE  Exact(o) /\ FileApart(o)
BY DEF TidyInv, Tidy

LEMMA TidyUploadFind ==
  ASSUME Staged, TidyInv, NEW h \in Handlers, NEW o \in Owners, NEW kind \in Kinds, NEW f \in Uploads,
         UploadFind(h, o, kind, f)
  PROVE  TidyInv'
<1> DEFINE op == IF UrlOf(o, kind) = None THEN "put" ELSE "drop"
           r == [op |-> op, owner |-> o, kind |-> kind, upload |-> f, url |-> UrlOf(o, kind),
                 row |-> None]
<1>1. /\ Touches(h, o) /\ (o \notin disturbed' => \A g \in Handlers : ~Writing(g, o))
      /\ disturbed \subseteq disturbed'
  BY TouchesBegin DEF Touches, Acts
<1>2. UNCHANGED <<books, avatar, objects>> /\ Present(o) /\ req'[h] = r
  BY DEF UploadFind, Begin, Becomes, rows, Staged
<1>3. f # None
  BY FilesUploads, FilesNulls
<1> DEFINE url == UrlOf(o, kind)
<1>4. r.op = op /\ r.owner = o /\ r.kind = kind /\ r.upload = f /\ r.url = url
  OBVIOUS
<1>5. op \in {"put", "drop"} /\ (op = "put" => url = None)
  OBVIOUS
<1> HIDE DEF r, op
<1>6. Writing(h, o)'
  BY <1>2, <1>4, <1>5 DEF Writing
<1>7. ASSUME o \notin disturbed'
      PROVE  FileApart(o)' /\ TidyReq(req[h], o)'
  <2>1. Exact(o) /\ FileApart(o)
    BY <1>1, <1>7, TidyBegins
  <2>2. op = "put" => Rest(o, kind) = {k \in Keys : k \in UrlsOf(o)}
    BY <1>5, KeyFacts DEF Rest
  <2> HIDE DEF url
  <2>3. url = UrlOf(o, kind)
    BY DEF url
  <2>4. QED
    BY <1>2, <1>3, <1>4, <1>5, <2>1, <2>2, <2>3, RowsStay, SameMine DEF TidyReq, Exact, EditOps
<1>8. QED
  BY <1>1, <1>2, <1>6, <1>7, SameMine, TidyTouch

LEMMA TidyRemoveFind ==
  ASSUME Staged, TidyInv, NEW h \in Handlers, NEW o \in Owners, NEW kind \in Kinds,
         RemoveFind(h, o, kind)
  PROVE  TidyInv'
<1> DEFINE op == IF UrlOf(o, kind) = None THEN "save" ELSE "drop"
           row == IF o \in Books THEN books[o] ELSE None
           r == [op |-> op, owner |-> o, kind |-> kind, upload |-> None, url |-> UrlOf(o, kind),
                 row |-> row]
           url == UrlOf(o, kind)
<1>1. /\ Touches(h, o) /\ (o \notin disturbed' => \A g \in Handlers : ~Writing(g, o))
      /\ disturbed \subseteq disturbed'
  BY TouchesBegin DEF Touches, Acts
<1>2. UNCHANGED <<books, avatar, objects>> /\ Present(o) /\ req'[h] = r
  BY DEF RemoveFind, Begin, Becomes, rows, Staged
<1>3. o \in Books => row = books[o]
  OBVIOUS
<1>4. r.op = op /\ r.owner = o /\ r.kind = kind /\ r.url = url /\ r.row = row
  OBVIOUS
<1>5. op \in {"save", "drop"} /\ (op = "save" => url = None)
  OBVIOUS
<1> HIDE DEF r, op, row
<1>6. Writing(h, o)'
  BY <1>2, <1>4, <1>5 DEF Writing
<1>7. ASSUME o \notin disturbed'
      PROVE  FileApart(o)' /\ TidyReq(req[h], o)'
  <2>1. Exact(o) /\ FileApart(o)
    BY <1>1, <1>7, TidyBegins
  <2>2. op = "save" => Rest(o, kind) = {k \in Keys : k \in UrlsOf(o)} /\ url \notin Keys
    BY <1>5, KeyFacts DEF Rest
  <2> HIDE DEF url
  <2>3. url = UrlOf(o, kind)
    BY DEF url
  <2>4. QED
    BY <1>2, <1>3, <1>4, <1>5, <2>1, <2>2, <2>3, KeyFacts, RowsStay, SameMine
       DEF TidyReq, Exact, EditOps, SameUrls
<1>8. QED
  BY <1>1, <1>2, <1>6, <1>7, SameMine, TidyTouch

LEMMA TidyEditFind ==
  ASSUME Staged, TidyInv, NEW h \in Handlers, NEW o \in Books,
         (\E body \in Edits : EditFind(h, o, body)) \/ RemoveBookFind(h, o)
  PROVE  TidyInv'
<1>1. /\ Touches(h, o) /\ (o \notin disturbed' => \A g \in Handlers : ~Writing(g, o))
      /\ disturbed \subseteq disturbed'
  BY TouchesBegin DEF Touches, Acts, Owners
<1>2. UNCHANGED <<books, avatar, objects>> /\ Present(o) /\ books[o] \in BookRow
  BY FilesOwners DEF EditFind, RemoveBookFind, rows, Present, Staged, RowsTyped
<1>3. UrlsOf(o) = {books[o].file, books[o].cover}
  BY <1>2, FilesOwners DEF UrlsOf, EditFind, RemoveBookFind
<1>4. o \notin disturbed' => Exact(o) /\ FileApart(o)
  BY <1>1, TidyBegins DEF Owners
<1>5. ASSUME NEW body \in Edits, EditFind(h, o, body)
      PROVE  o \notin disturbed' => TidyReq(req[h], o)' /\ Writing(h, o)'
  <2> DEFINE s == IF body.series = Unasked THEN books[o].series ELSE body.series
             row == [books[o] EXCEPT !.series = s]
             r == [op |-> "write", owner |-> o, body |-> body, row |-> row]
  <2>1. req'[h] = r
    BY <1>5 DEF EditFind, Begin, Becomes, Staged
  <2>2. SameUrls(row, books[o])
    BY <1>2 DEF BookRow, SameUrls
  <2> HIDE DEF row
  <2>3. r.op = "write" /\ r.owner = o /\ r.row = row
    OBVIOUS
  <2> HIDE DEF r
  <2>4. QED
    BY <1>2, <1>4, <2>1, <2>2, <2>3, RowsStay, SameMine
       DEF TidyReq, Exact, EditOps, SameUrls, Writing
<1>6. CASE RemoveBookFind(h, o)
  <2> DEFINE left == {books[o].file, books[o].cover} \ {None}
             r == [op |-> "erase", owner |-> o, left |-> left]
  <2>1. req'[h] = r
    BY <1>6 DEF RemoveBookFind, Begin, Becomes, Staged
  <2>2. left \subseteq UrlsOf(o) /\ \A k \in Keys : k \in left <=> k \in UrlsOf(o)
    BY <1>3, KeyFacts
  <2> HIDE DEF left
  <2>3. r.op = "erase" /\ r.owner = o /\ r.left = left
    OBVIOUS
  <2> HIDE DEF r
  <2>4. o \notin disturbed' => TidyReq(req[h], o)' /\ Writing(h, o)'
    BY <1>2, <1>4, <2>1, <2>2, <2>3, RowsStay, SameMine DEF TidyReq, Exact, EditOps, Writing
  <2>5. QED
    BY <1>1, <1>2, <1>4, <2>4, RowsStay, SameMine, TidyTouch DEF Owners
<1>7. QED
  BY <1>1, <1>2, <1>4, <1>5, <1>6, RowsStay, SameMine, TidyTouch DEF Owners

LEMMA TidyCreate ==
  ASSUME Staged, GenreInv, TidyInv, NEW h \in Handlers, NEW o \in Books, NEW body \in Edits,
         Create(h, o, body)
  PROVE  TidyInv'
<1> DEFINE row == NewBook(body.series)
           r == [op |-> "clear", owner |-> o, row |-> row, body |-> body]
<1>1. /\ Touches(h, o) /\ (o \notin disturbed' => \A g \in Handlers : ~Writing(g, o))
      /\ disturbed \subseteq disturbed'
  BY TouchesBegin DEF Touches, Acts, Owners
<1>2. row.file = None /\ row.cover = None /\ row \in BookRow /\ row # None
  BY BodyFields, NewBookRow, FilesNulls
<1>3. books[o] = None /\ books'[o] = row /\ objects' = objects /\ (req'[h] = Idle \/ req'[h] = r)
  BY DEF Create, Begin, Becomes, GenreInv, GenresBegun, Staged, RowsTyped
<1> HIDE DEF row
<1>4. r.op = "clear" /\ r.owner = o
  OBVIOUS
<1> HIDE DEF r
<1>5. UrlsOf(o) = {} /\ UrlsOf(o)' = {None} /\ Present(o)' /\ FileApart(o)'
  BY <1>2, <1>3, FilesOwners, KeyFacts DEF UrlsOf, Present, FileApart
<1>6. o \notin disturbed' => Exact(o)'
  <2>1. o \notin disturbed' => Exact(o)
    BY <1>1, TidyBegins DEF Owners
  <2>2. QED
    BY <1>3, <1>5, <2>1, SameMine, KeyFacts DEF Exact
<1>7. o \notin disturbed' /\ Writing(h, o)' => TidyReq(req[h], o)'
  BY <1>3, <1>4, <1>5, <1>6, IdleStaged DEF TidyReq, Writing, EditOps
<1>8. QED
  BY <1>1, <1>3, <1>5, <1>6, <1>7, SameMine, TidyTouch DEF Owners

\* The request q of h goes on, for the owner o, who is tidy unless disturbed.
Turn(h, q, o) ==
  /\ q = req[h] /\ o = q.owner /\ Touches(h, o) /\ Writing(h, o) /\ ReqStaged(q)
  /\ q.op \in ImageOps => q \in ImageReq
  /\ q.op \in EditOps => q \in EditReq
  /\ q.op = "erase" => q \in EraseReq
  /\ o \notin disturbed' => o \notin disturbed /\ TidyReq(q, o) /\ FileApart(o)

LEMMA TidyOn ==
  ASSUME Staged, AloneInv, TidyInv, NEW h \in Handlers, GoesOn(h)
  PROVE  \E q \in Requests, o \in Owners : Turn(h, q, o)
<1>1. Touches(h, req[h].owner) /\ req[h].owner \in Owners /\ Writing(h, req[h].owner)
  BY TouchesOn
<1>2. disturbed \subseteq disturbed'
  BY <1>1 DEF Touches, Acts
<1>3. QED
  BY <1>1, <1>2, ReqTyped DEF TidyInv, Tidy, Turn

\* An object that another owner has is not deleted.
LEMMA MineDeleted ==
  ASSUME Staged, NamedInv, NEW h \in Handlers, NEW o \in Owners, NEW url, ByReq(h, o, url),
         objects' = Deleted({url})
  PROVE  /\ \A p \in Owners, k \in Keys : p # o => (Mine(p, k)' <=> Mine(p, k))
         /\ \A k \in Keys : Mine(o, k)' <=> Mine(o, k) /\ k # url
<1>1. \A p, k : k \in Keys => (Mine(p, k)' <=> Mine(p, k) /\ k # url)
  BY DEF Mine, Deleted
<1>2. \A p \in Owners : url \in Keys /\ Mine(p, url) => p = o
  BY DEF NamedInv, Named
<1>3. QED
  BY <1>1, <1>2

LEMMA TidyDrop ==
  ASSUME Staged, AloneInv, NamedInv, TidyInv, NEW h \in Handlers, Drop(h)
  PROVE  TidyInv'
<1> USE DEF Turn
<1>1. PICK q \in Requests, o \in Owners : Turn(h, q, o)
  BY TidyOn DEF GoesOn
<1> DEFINE r == IF q.upload = None THEN [q EXCEPT !.op = "save", !.url = None]
                                   ELSE [q EXCEPT !.op = "put"]
<1>2. q.op = "drop" /\ q \in ImageReq
  BY <1>1 DEF Drop, ImageOps
<1>3. UNCHANGED <<books, avatar>> /\ req'[h] = r
  BY <1>1 DEF Drop, Becomes, rows, Staged
<1>4. /\ r.owner = o /\ r.kind = q.kind /\ r.row = q.row /\ r.upload = q.upload
      /\ IF q.upload = None THEN r.op = "save" /\ r.url = None ELSE r.op = "put" /\ r.url = q.url
  BY <1>1, <1>2 DEF ImageReq
<1> HIDE DEF r
<1>5. ByReq(h, o, q.url)
  BY <1>1, <1>2 DEF ByReq, ReqUrls, ImageOps
<1>6. CASE objects' = Deleted({q.url})
  <2>1. /\ \A p \in Owners, k \in Keys : p # o => (Mine(p, k)' <=> Mine(p, k))
        /\ \A k \in Keys : Mine(o, k)' <=> Mine(o, k) /\ k # q.url
    BY <1>5, <1>6, MineDeleted
  <2>2. Writing(h, o)'
    BY <1>3, <1>4 DEF Writing
  <2>3. ASSUME o \notin disturbed'
        PROVE  TidyReq(req[h], o)'
    <3>1. TidyReq(q, o)
      BY <1>1, <2>3
    <3>2. Present(o) /\ Exact(o) /\ q.url = UrlOf(o, q.kind)
          /\ (o \in Books /\ q.upload = None => SameUrls(q.row, books[o]))
      BY <1>2, <3>1 DEF TidyReq
    <3>3. \A k \in Keys : Mine(o, k)' <=> k \in Rest(o, q.kind)
      BY <2>1, <3>2 DEF Exact, Rest
    <3>4. QED
      BY <1>3, <1>4, <3>2, <3>3, KeyFacts, RowsStay DEF TidyReq, SameUrls, EditOps
  <2>4. o \notin disturbed' => FileApart(o)'
    BY <1>1, <1>3, RowsStay
  <2>5. QED
    BY <1>1, <2>1, <2>2, <2>3, <2>4, TidyTouch
<1>7. CASE o \in disturbed' /\ objects' = objects
  BY <1>1, <1>7, SameMine, TidyTouch
<1>8. QED
  BY <1>1, <1>6, <1>7 DEF Drop, Disturb

LEMMA TidyPut ==
  ASSUME Staged, AloneInv, NamedInv, TidyInv, NEW h \in Handlers, Put(h)
  PROVE  TidyInv'
<1> USE DEF Turn
<1>1. PICK q \in Requests, o \in Owners : Turn(h, q, o)
  BY TidyOn DEF GoesOn
<1> DEFINE op == IF q.kind = "avatar" THEN "save" ELSE "load"
           key == drawn + 1
           r == [q EXCEPT !.op = op, !.url = key]
           obj == [ext |-> q.upload.ext, body |-> q.upload.body,
                   mark |-> q.upload.mark, owner |-> o]
<1>2. q.op = "put" /\ q \in ImageReq
  BY <1>1 DEF Put, ImageOps
<1>3. UNCHANGED <<books, avatar>> /\ req'[h] = r /\ objects' = [objects EXCEPT ![key] = obj]
  BY <1>1 DEF Put, Becomes, rows, Staged
<1>4. key \in Keys /\ obj # None /\ obj.owner = o
  <2>1. q.upload \in Upload
    BY <1>1, <1>2, ImageFields DEF ReqStaged, ImageOps
  <2>2. obj \in Object
    BY <1>1, <2>1 DEF Put, Accepted, Upload, Object
  <2>3. key \in Keys
    BY Numbers DEF Put, Keys, Staged, RowsTyped
  <2>4. QED
    BY <2>2, <2>3, FilesNulls
<1>5. r.owner = o /\ r.kind = q.kind /\ r.op = op /\ r.url = key
  BY <1>1, <1>2 DEF ImageReq
<1>6. op \in {"save", "load"} /\ (op = "save" => q.kind = "avatar")
  OBVIOUS
<1> HIDE DEF r, op, obj
<1>7. \A p \in Owners : ~Named(p, key)
  <2>1. drawn \in Nat
    BY Numbers DEF Staged, RowsTyped
  <2>2. ~(key <= drawn)
    BY <2>1
  <2>3. QED
    BY <1>4, <2>2 DEF NamedInv
<1> HIDE DEF key
<1>8. \A p \in Owners, k \in Keys : Mine(p, k)' <=> Mine(p, k) \/ (p = o /\ k = key)
  BY <1>3, <1>4, <1>7 DEF Mine, Named, Staged, RowsTyped
<1>9. Writing(h, o)'
  BY <1>3, <1>5, <1>6 DEF Writing
<1>10. ASSUME o \notin disturbed'
       PROVE  FileApart(o)' /\ TidyReq(req[h], o)'
  <2>1. TidyReq(q, o)
    BY <1>1, <1>10
  <2>2. Present(o) /\ \A k \in Keys : Mine(o, k) <=> k \in Rest(o, q.kind)
    BY <1>2, <2>1 DEF TidyReq
  <2>3. key \notin UrlsOf(o)
    BY <1>4, <1>7 DEF Named, ByRow
  <2>4. \A k \in Keys : Mine(o, k)' <=> k = key \/ k \in Rest(o, q.kind)
    BY <1>8, <2>2
  <2>5. op = "save" => o \notin Books
    BY <1>1, <1>2, <1>6, FilesOwners DEF ReqStaged, ImageOps, Owns
  <2>6. FileApart(o)'
    BY <1>1, <1>3, <1>10, RowsStay
  <2>7. TidyReq(req[h], o)'
    BY <1>3, <1>5, <1>6, <2>2, <2>3, <2>4, <2>5, RowsStay DEF TidyReq, EditOps
  <2>8. QED
    BY <2>6, <2>7
<1>11. QED
  BY <1>1, <1>8, <1>9, <1>10, TidyTouch

LEMMA TidyPutRefused ==
  ASSUME Staged, AloneInv, TidyInv, NEW h \in Handlers, PutRefused(h)
  PROVE  TidyInv'
<1> USE DEF Turn
<1>1. PICK q \in Requests, o \in Owners : Turn(h, q, o)
  BY TidyOn DEF GoesOn
<1>2. UNCHANGED <<books, avatar, objects>> /\ req'[h] = Idle /\ q.op = "put"
  BY <1>1 DEF PutRefused, Finish, Becomes, rows, Staged
<1>3. ~Writing(h, o)'
  BY <1>2, IdleStaged DEF Writing
<1>4. o \notin disturbed' => q.url = None
  BY <1>1 DEF PutRefused, Disturb
<1>5. o \notin disturbed' => Exact(o)' /\ FileApart(o)'
  BY <1>1, <1>2, <1>4, KeyFacts, RowsStay, SameMine DEF TidyReq, Exact, Rest
<1>6. QED
  BY <1>1, <1>2, <1>3, <1>5, SameMine, TidyTouch

LEMMA TidyLoad ==
  ASSUME Staged, AloneInv, TidyInv, NEW h \in Handlers, Load(h)
  PROVE  TidyInv'
<1> USE DEF Turn
<1>1. PICK q \in Requests, o \in Owners : Turn(h, q, o)
  BY TidyOn DEF GoesOn
<1>2. q.op = "load" /\ q \in ImageReq /\ o \in Books
  BY <1>1, ImageFields DEF Load, ImageOps, ReqStaged, Owns, Owners
<1>3. PICK row : row = books[o]
  OBVIOUS
<1> DEFINE r == [q EXCEPT !.op = "save", !.row = row]
<1>4. UNCHANGED <<books, avatar, objects>> /\ (req'[h] = Idle \/ req'[h] = r)
      /\ (row # None => req'[h] = r)
  BY <1>1, <1>3 DEF Load, Becomes, rows, Staged
<1>5. r.owner = o /\ r.kind = q.kind /\ r.url = q.url /\ r.op = "save" /\ r.row = row
  BY <1>1, <1>2 DEF ImageReq
<1> HIDE DEF r
<1>6. ASSUME o \notin disturbed'
      PROVE  FileApart(o)' /\ TidyReq(req[h], o)' /\ Writing(h, o)'
  <2>1. TidyReq(q, o)
    BY <1>1, <1>6
  <2>2. Present(o) /\ row # None
    BY <1>2, <1>3, <2>1, FilesOwners DEF TidyReq, Present
  <2>3. req'[h] = r
    BY <1>4, <2>2
  <2>4. FileApart(o)' /\ Writing(h, o)'
    BY <1>1, <1>4, <1>5, <1>6, <2>3, RowsStay DEF Writing
  <2>5. TidyReq(req[h], o)'
    BY <1>2, <1>3, <1>4, <1>5, <2>1, <2>2, <2>3, RowsStay, SameMine DEF TidyReq, SameUrls, EditOps
  <2>6. QED
    BY <2>4, <2>5
<1>7. QED
  BY <1>1, <1>4, <1>6, SameMine, TidyTouch

LEMMA TidySave ==
  ASSUME Staged, AloneInv, TidyInv, NEW h \in Handlers, Save(h)
  PROVE  TidyInv'
<1> USE DEF Turn
<1>1. PICK q \in Requests, o \in Owners : Turn(h, q, o)
  BY TidyOn DEF GoesOn
<1>2. q.op = "save" /\ q \in ImageReq /\ Owns(o, q.kind) /\ q.kind \in Kinds
  BY <1>1, ImageFields DEF Save, ImageOps, ReqStaged
<1>3. objects' = objects /\ ~Writing(h, o)'
  BY <1>1, IdleStaged DEF Save, Finish, Becomes, Writing, Staged
<1>4. ASSUME o \notin disturbed'
      PROVE  Exact(o)' /\ FileApart(o)'
  <2>1. TidyReq(q, o) /\ FileApart(o)
    BY <1>1, <1>4
  <2>2. /\ Present(o) /\ (q.url \in Keys => q.url \notin UrlsOf(o))
        /\ \A k \in Keys : Mine(o, k) <=> k = q.url \/ k \in Rest(o, q.kind)
        /\ o \in Books => SameUrls(q.row, books[o])
    BY <1>2, <2>1 DEF TidyReq
  <2>3. CASE q.kind = "avatar"
    <3>1. o \in Users /\ o \notin Books
      BY <1>2, <2>3, FilesOwners DEF Owns
    <3>2. avatar'[o] = q.url
      BY <1>1, <2>3, <3>1 DEF Save, Staged, RowsTyped
    <3>3. UrlsOf(o)' = {q.url} /\ Rest(o, q.kind) = {} /\ FileApart(o)'
      BY <2>3, <3>1, <3>2 DEF UrlsOf, UrlOf, Rest, FileApart
    <3>4. QED
      BY <1>3, <2>2, <3>3, SameMine DEF Exact
  <2>4. CASE q.kind # "avatar"
    <3>1. /\ o \in Books /\ Saved(q) \in BookRow /\ q.kind \in {"file", "cover"}
          /\ q.kind = "file" => Saved(q).file = q.url /\ Saved(q).cover = q.row.cover
          /\ q.kind = "cover" => Saved(q).cover = q.url /\ Saved(q).file = q.row.file
      BY <1>1, <1>2, <2>4, SavedRow DEF Kinds
    <3>2. books'[o] = Saved(q)
      BY <1>1, <2>4, <3>1 DEF Save, Staged, RowsTyped
    <3>3. /\ UrlsOf(o)' = {Saved(q).file, Saved(q).cover} /\ Saved(q) # None
          /\ UrlsOf(o) = {books[o].file, books[o].cover} /\ books[o] # None
      BY <2>2, <3>1, <3>2, FilesOwners, FilesNulls DEF UrlsOf, Present
    <3>4. CASE q.kind = "file"
      <4>1. UrlOf(o, q.kind) = books[o].file
        BY <3>4 DEF UrlOf
      <4>2. UrlsOf(o)' = {q.url, books[o].cover}
        BY <2>2, <3>1, <3>3, <3>4 DEF SameUrls
      <4>3. books[o].file \in Keys => books[o].file # books[o].cover
        BY <2>1, <3>1, <3>3 DEF FileApart
      <4>4. FileApart(o)'
        BY <2>2, <3>1, <3>2, <3>3, <3>4 DEF FileApart, SameUrls
      <4>5. \A k \in Keys : k \in Rest(o, q.kind) <=> k = books[o].cover
        BY <3>3, <4>1, <4>3 DEF Rest
      <4>6. QED
        BY <1>3, <2>2, <4>2, <4>4, <4>5, SameMine DEF Exact
    <3>5. CASE q.kind = "cover"
      <4>1. UrlOf(o, q.kind) = books[o].cover
        BY <3>5 DEF UrlOf
      <4>2. UrlsOf(o)' = {q.url, books[o].file}
        BY <2>2, <3>1, <3>3, <3>5 DEF SameUrls
      <4>3. books[o].file \in Keys => books[o].file # books[o].cover
        BY <2>1, <3>1, <3>3 DEF FileApart
      <4>4. FileApart(o)'
        BY <2>2, <3>1, <3>2, <3>3, <3>5 DEF FileApart, SameUrls
      <4>5. \A k \in Keys : k \in Rest(o, q.kind) <=> k = books[o].file
        BY <3>3, <4>1, <4>3 DEF Rest
      <4>6. QED
        BY <1>3, <2>2, <4>2, <4>4, <4>5, SameMine DEF Exact
    <3>6. QED
      BY <3>1, <3>4, <3>5
  <2>5. QED
    BY <2>3, <2>4
<1>5. QED
  BY <1>1, <1>3, <1>4, SameMine, TidyTouch

LEMMA TidyPatch ==
  ASSUME Staged, TidyInv, NEW h \in Handlers, NEW u \in Users, NEW url \in Urls,
         PatchAvatar(h, u, url)
  PROVE  TidyInv'
<1>1. Touches(h, u) /\ (u \notin disturbed' => \A g \in Handlers : ~Writing(g, u)) /\ u \in Owners
      /\ u \notin Books
  BY TouchesPatch, FilesOwners DEF Owners
<1>2. /\ url \notin Keys /\ avatar'[u] = url /\ objects' = objects /\ req' = req /\ req[h] = Idle
      /\ u \notin disturbed' => avatar[u] \notin Keys /\ u \notin disturbed
  BY FilesNulls DEF PatchAvatar, Disturb, Staged, RowsTyped
<1>3. ~Writing(h, u)'
  BY <1>2, IdleStaged DEF Writing
<1>4. u \notin disturbed' => Exact(u)' /\ FileApart(u)'
  <2>1. u \notin disturbed' => Exact(u)
    BY <1>1, <1>2 DEF TidyInv, Tidy
  <2>2. UrlsOf(u) = {avatar[u]} /\ UrlsOf(u)' = {url}
    BY <1>2 DEF UrlsOf
  <2>3. QED
    BY <1>1, <1>2, <2>1, <2>2, SameMine DEF Exact, FileApart
<1>5. QED
  BY <1>1, <1>2, <1>3, <1>4, SameMine, TidyTouch

LEMMA TidyEditWrite ==
  ASSUME Staged, AloneInv, TidyInv, NEW h \in Handlers, EditWrite(h)
  PROVE  TidyInv'
<1> USE DEF Turn
<1>1. PICK q \in Requests, o \in Owners : Turn(h, q, o)
  BY TidyOn DEF GoesOn
<1> DEFINE r == [q EXCEPT !.op = "clear"]
<1>2. q.op = "write" /\ q \in EditReq /\ o \in Books /\ q.row \in BookRow /\ q.row # None
  BY <1>1, EditFields, FilesNulls DEF EditWrite, EditOps
<1>3. /\ books'[o] = q.row /\ avatar' = avatar /\ objects' = objects
      /\ req'[h] = Idle \/ req'[h] = r
  BY <1>1, <1>2 DEF EditWrite, Becomes, Staged, RowsTyped
<1>4. r.owner = o /\ r.op = "clear"
  BY <1>1, <1>2 DEF EditReq
<1> HIDE DEF r
<1>5. ASSUME o \notin disturbed'
      PROVE  Exact(o)' /\ FileApart(o)' /\ Present(o)'
  <2>1. TidyReq(q, o) /\ FileApart(o)
    BY <1>1, <1>5
  <2>2. Present(o) /\ Exact(o) /\ SameUrls(q.row, books[o])
    BY <1>2, <2>1 DEF TidyReq, EditOps
  <2>3. SameRow(o)
    BY <1>2, <1>3, <2>2, FilesOwners DEF SameRow, SameUrls, Present
  <2>4. UrlsOf(o)' = UrlsOf(o) /\ FileApart(o)' = FileApart(o) /\ Present(o)' = Present(o)
    BY <2>3, RowKept
  <2>5. QED
    BY <1>3, <2>1, <2>2, <2>4, SameMine DEF Exact
<1>6. o \notin disturbed' /\ Writing(h, o)' => TidyReq(req[h], o)'
  BY <1>3, <1>4, <1>5, IdleStaged DEF TidyReq, Writing, EditOps
<1>7. QED
  BY <1>1, <1>3, <1>5, <1>6, SameMine, TidyTouch

LEMMA TidyGenres ==
  ASSUME Staged, AloneInv, TidyInv, NEW h \in Handlers, GenresClear(h) \/ GenresInsert(h)
  PROVE  TidyInv'
<1> USE DEF Turn
<1>1. PICK q \in Requests, o \in Owners : Turn(h, q, o)
  BY TidyOn DEF GoesOn
<1> DEFINE r == [q EXCEPT !.op = "insert"]
<1>2. q.op \in {"clear", "insert"} /\ q \in EditReq
  BY <1>1 DEF GenresClear, GenresInsert, EditOps
<1>3. UNCHANGED <<books, avatar, objects>> /\ (req'[h] = Idle \/ req'[h] = r)
  BY <1>1 DEF GenresClear, GenresInsert, Finish, Becomes, Staged
<1>4. r.owner = o /\ r.op = "insert"
  BY <1>1, <1>2 DEF EditReq
<1> HIDE DEF r
<1>5. o \notin disturbed' => Present(o)' /\ Exact(o)' /\ FileApart(o)'
  BY <1>1, <1>2, <1>3, RowsStay, SameMine DEF TidyReq, EditOps, Exact
<1>6. o \notin disturbed' /\ Writing(h, o)' => TidyReq(req[h], o)'
  BY <1>3, <1>4, <1>5, IdleStaged DEF TidyReq, Writing, EditOps
<1>7. QED
  BY <1>1, <1>3, <1>5, <1>6, SameMine, TidyTouch

LEMMA TidyFails ==
  ASSUME Staged, AloneInv, TidyInv, NEW h \in Handlers, GenresRefused(h) \/ Fail(h)
  PROVE  TidyInv'
<1>1. PICK q \in Requests, o \in Owners : Turn(h, q, o)
  BY TidyOn DEF GoesOn
<1>2. o \in disturbed' /\ objects' = objects
  BY <1>1 DEF Turn, GenresRefused, Fail, Disturb, Writing
<1>3. QED
  BY <1>1, <1>2, SameMine, TidyTouch DEF Turn

LEMMA TidyEraseObject ==
  ASSUME Staged, AloneInv, NamedInv, TidyInv, NEW h \in Handlers, NEW url \in Urls,
         EraseObject(h, url)
  PROVE  TidyInv'
<1> USE DEF Turn
<1>1. PICK q \in Requests, o \in Owners : Turn(h, q, o)
  BY TidyOn DEF GoesOn
<1> DEFINE r == [q EXCEPT !.left = q.left \ {url}]
<1>2. q.op = "erase" /\ q \in EraseReq /\ url \in q.left
  BY <1>1 DEF EraseObject
<1>3. UNCHANGED <<books, avatar>> /\ req'[h] = r
  BY <1>1, <1>2 DEF EraseObject, EraseReq, Becomes, rows, Staged
<1>4. r.owner = o /\ r.op = "erase" /\ r.left = q.left \ {url}
  BY <1>1, <1>2 DEF EraseReq
<1> HIDE DEF r
<1>5. ByReq(h, o, url)
  BY <1>1, <1>2 DEF ByReq, ReqUrls, ImageOps, EditOps
<1>6. CASE objects' = Deleted({url})
  <2>1. /\ \A p \in Owners, k \in Keys : p # o => (Mine(p, k)' <=> Mine(p, k))
        /\ \A k \in Keys : Mine(o, k)' <=> Mine(o, k) /\ k # url
    BY <1>5, <1>6, MineDeleted
  <2>2. Writing(h, o)' /\ (o \notin disturbed' => FileApart(o)')
    BY <1>1, <1>3, <1>4, RowsStay DEF Writing
  <2>3. o \notin disturbed' => TidyReq(req[h], o)'
    BY <1>1, <1>2, <1>3, <1>4, <2>1, RowsStay DEF TidyReq, EditOps
  <2>4. QED
    BY <1>1, <2>1, <2>2, <2>3, TidyTouch
<1>7. CASE o \in disturbed' /\ objects' = objects
  BY <1>1, <1>7, SameMine, TidyTouch
<1>8. QED
  BY <1>1, <1>6, <1>7 DEF EraseObject, Disturb

LEMMA TidyEraseRow ==
  ASSUME Staged, AloneInv, TidyInv, NEW h \in Handlers, EraseRow(h)
  PROVE  TidyInv'
<1> USE DEF Turn
<1>1. PICK q \in Requests, o \in Owners : Turn(h, q, o)
  BY TidyOn DEF GoesOn
<1>2. q.op = "erase" /\ q \in EraseReq /\ q.left = {} /\ o \in Books
  BY <1>1, EraseStaged DEF EraseRow
<1>3. books'[o] = None /\ objects' = objects /\ ~Writing(h, o)'
  BY <1>1, <1>2, IdleStaged DEF EraseRow, Finish, Becomes, Writing, Staged, RowsTyped
<1>4. UrlsOf(o)' = {} /\ FileApart(o)'
  BY <1>2, <1>3, FilesOwners DEF UrlsOf, FileApart
<1>5. o \notin disturbed' => Exact(o)'
  BY <1>1, <1>2, <1>3, <1>4, SameMine DEF TidyReq, Exact
<1>6. QED
  BY <1>1, <1>3, <1>4, <1>5, SameMine, TidyTouch

LEMMA TidyStep == Staged /\ AloneInv /\ GenreInv /\ NamedInv /\ TidyInv /\ [Next]_vars => TidyInv'
<1> SUFFICES ASSUME Staged, AloneInv, GenreInv, NamedInv, TidyInv, [Next]_vars
             PROVE  TidyInv'
  OBVIOUS
<1>1. ASSUME NEW h \in Handlers, GoesOn(h)
      PROVE  TidyInv'
  BY <1>1, TidyDrop, TidyPut, TidyPutRefused, TidyLoad, TidySave, TidyEditWrite, TidyGenres, TidyFails,
     TidyEraseObject, TidyEraseRow DEF GoesOn
<1>2. QED
  BY <1>1, StepKinds, TidyAside, TidyPatch, TidyUploadFind, TidyRemoveFind, TidyCreate, TidyEditFind

LEMMA TidyInit == Init => TidyInv
<1> SUFFICES ASSUME Init, NEW o \in Owners
             PROVE  Tidy(o)
  BY DEF TidyInv
<1>1. \A g \in Handlers : ~Writing(g, o)
  BY IdleStaged DEF Init, Writing
<1>2. Exact(o) /\ FileApart(o)
  BY KeyFacts DEF Init, Exact, Mine, UrlsOf, FileApart, Owners
<1>3. QED
  BY <1>1, <1>2 DEF Tidy

UrlsInv == Staged /\ AloneInv /\ GenreInv /\ NamedInv /\ TidyInv

LEMMA UrlsInvHolds == Spec => []UrlsInv
<1>1. Init => UrlsInv
  BY StagedInit, GenreInit, NamedInit, TidyInit DEF UrlsInv
<1>2. UrlsInv /\ [Next]_vars => UrlsInv'
  BY StagedStep, AloneStep, GenreStep, NamedStep, TidyStep DEF UrlsInv
<1>3. QED
  BY <1>1, <1>2, PTL DEF Spec

LEMMA SettledExact == UrlsInv => \A o \in Owners : Settled(o) => Exact(o)
BY DEF UrlsInv, TidyInv, Tidy, Settled

\* What a settled row names is there and is its own: no request deletes, or puts
\* in its row, an object of another book or user, however the requests on
\* different owners interleave.
THEOREM SettledUrlsResolve == Spec => []UrlsResolve
<1>1. UrlsInv => UrlsResolve
  BY SettledExact DEF UrlsResolve, Exact, Mine
<1>2. QED
  BY <1>1, UrlsInvHolds, PTL

\* What is in the bucket for a settled owner is named by its row: replacing a
\* file, removing an image and deleting the book leave nothing behind.
THEOREM BucketKeepsNothing == Spec => []NothingLeftBehind
<1>1. UrlsInv => NothingLeftBehind
  <2> SUFFICES ASSUME UrlsInv, NEW k \in Keys, objects[k] # None, Settled(objects[k].owner)
               PROVE  k \in UrlsOf(objects[k].owner)
    BY DEF NothingLeftBehind
  <2>1. objects[k].owner \in Owners
    BY DEF UrlsInv, Staged, RowsTyped, Object
  <2>2. QED
    BY <2>1, SettledExact DEF Exact, Mine
<1>2. QED
  BY <1>1, UrlsInvHolds, PTL
=============================================================================
