-------------------------------- MODULE Files --------------------------------
(***************************************************************************)
(* The files of books and users: the url columns of their rows and the     *)
(* objects in the S3 bucket they name (src/src/files, books-file.service,  *)
(* the avatar in users.service), what books and their genres and series    *)
(* rows promise each other (books.service, books-update.helper, series),   *)
(* and the marked copies readers download.                                 *)
(*                                                                         *)
(* Row and bucket are changed in separate steps and no handler undoes what *)
(* it did: an upload deletes the old object, puts the new one, loads the   *)
(* row again and saves it.  save() is one step here; it writes the whole   *)
(* entity back, and inserts it again when the row has been deleted.        *)
(***************************************************************************)
EXTENDS Integers, FiniteSets

CONSTANTS
  Handlers,   \* request handlers that can run at the same time
  Books, Users, Readers, SeriesIds, GenreIds,
  AuthorOf,   \* the author of each book
  Authors,    \* those who create series, the authors of the books among them
  MaxKeys,    \* bound on the objects ever put
  Uploads,    \* the files clients send, see Upload
  Edits,      \* the bodies of the requests that save a book, see EditBody
  MaxCopies,  \* bound on the downloaded copies
  MaxDisturbed, \* no request begins when more owners than that are disturbed
  None,       \* SQL null, and the row or object that is not there
  External    \* the url of an image that is not in the bucket

Formats    == {"pdf", "epub", "other"}
BookTypes  == {"pdf", "epub"}        \* ALLOWED_FILE_TYPES
ImageTypes == {"png"}                \* stands for ALLOWED_IMAGE_TYPES
Kinds      == {"file", "cover", "avatar"}
Keys       == 1..MaxKeys           \* UUIDs, numbered as they are drawn
Urls       == Keys \cup {None, External}
Owners     == Books \cup Users
Unasked    == {None}                 \* a body without genres, a book never created

\* The signed token in a copy: whose download of which book it was
Marks == ((Books \cup {"another"}) \X Readers) \cup {None}

\* What a client sends: the extension of its name, the MIME type it claims,
\* what the bytes really are and the mark they carry
Upload  == [ext : BookTypes \cup ImageTypes \cup {"exe"}, mime : Formats,
            body : Formats, mark : Marks]
Object  == [ext : BookTypes \cup ImageTypes, body : Formats, mark : Marks, owner : Owners]
Copy    == [book : Books, reader : Readers, body : Formats, mark : Marks]
BookRow == [file : Urls, type : Formats \cup {None}, cover : Urls,
            series : SeriesIds \cup {None}]

\* series may be missing from a body, as Unasked; likewise the genres
EditBody == [series : SeriesIds \cup {None, Unasked},
             genres : (SUBSET GenreIds) \cup {Unasked, {"unknown"}}]

ASSUME FilesOwners  == Books \cap Users = {} /\ AuthorOf \in [Books -> Authors]
ASSUME FilesUploads == Uploads \subseteq Upload
ASSUME FilesEdits   == Edits \subseteq EditBody
ASSUME FilesNulls   == /\ {None, External} \cap (Keys \cup SeriesIds) = {} /\ None # External
                       /\ None \notin Authors \cup GenreIds \cup BookRow \cup Upload \cup Object
                       /\ None \notin (Books \cup {"another"}) \X Readers
                       /\ "gone" \notin Authors \cup {None} /\ "unknown" \notin GenreIds
ASSUME FilesBounds  == {MaxKeys, MaxCopies, MaxDisturbed} \subseteq Nat

VARIABLES
  books,     \* the rows of "books"
  genres,    \* "book_genres": the genres of each book
  series,    \* the author of each row of "series", None before, "gone" after
  avatar,    \* the column avatar_url of each user
  objects,   \* the bucket
  approved,  \* the readers with an approved application, per book
  copies,    \* history: the copies that were handed out
  drawn,     \* history: how many keys were used
  asked,     \* history: the genres of the last request that went through
  disturbed, \* history: owners whose requests overlapped, failed half-way or
             \* dropped a url without its object
  req        \* what each handler is doing

vars == <<books, genres, series, avatar, objects, approved, copies, drawn, asked,
          disturbed, req>>

rows == <<books, genres, series, avatar>>

Idle == [op |-> "idle"]

\* An upload or the removal of an image (no upload): url is the old one until
\* it is dropped and the new one when it is saved; row is the loaded book.
\* "find" and "send" are a download, the others book requests.
Requests ==
  {Idle}
  \cup [op : {"drop", "put", "load", "save"}, owner : Owners, kind : Kinds,
        upload : Upload \cup {None}, url : Urls, row : BookRow \cup {None}]
  \cup [op : {"erase"}, owner : Books, left : SUBSET Urls]
  \cup [op : {"write", "clear", "insert"}, owner : Books, row : BookRow, body : EditBody]
  \cup [op : {"find"}, reader : Readers, book : Books, row : {None}]
  \cup [op : {"send"}, reader : Readers, book : Books,
        row : {row \in BookRow : row.file # None}]

Becomes(h, r) == req' = [req EXCEPT ![h] = r]
Finish(h)     == Becomes(h, Idle)

Writing(g, o) == req[g].op \notin {"idle", "find", "send"} /\ req[g].owner = o

\* A request that is going to save the row of o begins
Begin(h, o, r) ==
  /\ req[h] = Idle /\ Becomes(h, r) /\ Cardinality(disturbed) <= MaxDisturbed
  /\ disturbed' = IF \E g \in Handlers : Writing(g, o) THEN disturbed \cup {o}
                                                       ELSE disturbed
Disturb(o)     == disturbed' = disturbed \cup {o}

Present(o) == IF o \in Users THEN TRUE ELSE books[o] # None
UrlOf(o, kind) == IF kind = "avatar" THEN avatar[o] ELSE books[o][kind]

\* deleteFileByUrl: a url from elsewhere names no object
Deleted(urls) == [k \in Keys |-> IF k \in urls THEN None ELSE objects[k]]

-----------------------------------------------------------------------------
\* uploadBookFile, uploadCoverImage, uploadAvatar; removeCoverImage, removeAvatar

Owns(o, kind) == (kind = "avatar") = (o \in Users)

UploadFind(h, o, kind, f) ==
  /\ Owns(o, kind) /\ Present(o)
  /\ Begin(h, o, [op |-> IF UrlOf(o, kind) = None THEN "put" ELSE "drop", owner |-> o,
                  kind |-> kind, upload |-> f, url |-> UrlOf(o, kind), row |-> None])
  /\ UNCHANGED <<rows, objects, approved, copies, drawn, asked>>

RemoveFind(h, o, kind) ==
  /\ Owns(o, kind) /\ kind # "file" /\ Present(o)
  /\ Begin(h, o, [op |-> IF UrlOf(o, kind) = None THEN "save" ELSE "drop", owner |-> o,
                  kind |-> kind, upload |-> None, url |-> UrlOf(o, kind),
                  row |-> IF o \in Books THEN books[o] ELSE None])
  /\ UNCHANGED <<rows, objects, approved, copies, drawn, asked>>

\* The old object goes first; a failing delete is logged and passed over.
Drop(h) ==
  /\ req[h].op = "drop"
  /\ Becomes(h, IF req[h].upload = None THEN [req[h] EXCEPT !.op = "save", !.url = None]
                                        ELSE [req[h] EXCEPT !.op = "put"])
  /\ \/ objects' = Deleted({req[h].url}) /\ UNCHANGED disturbed
     \/ UNCHANGED objects /\ Disturb(req[h].owner)
  /\ UNCHANGED <<rows, approved, copies, drawn, asked>>

\* The name and the size are looked at only now.
Accepted(kind, f) == f.ext \in IF kind = "file" THEN BookTypes ELSE ImageTypes

\* uploadFile, uploadImage: a random key
Put(h) ==
  /\ req[h].op = "put" /\ Accepted(req[h].kind, req[h].upload) /\ drawn < MaxKeys
  /\ drawn' = drawn + 1
  /\ objects' = [objects EXCEPT ![drawn'] =
       [ext |-> req[h].upload.ext, body |-> req[h].upload.body,
        mark |-> req[h].upload.mark, owner |-> req[h].owner]]
  /\ Becomes(h, [req[h] EXCEPT !.op = IF req[h].kind = "avatar" THEN "save" ELSE "load",
                               !.url = drawn'])
  /\ UNCHANGED <<rows, approved, copies, asked, disturbed>>

PutRefused(h) ==
  /\ req[h].op = "put" /\ ~Accepted(req[h].kind, req[h].upload)
  /\ Finish(h)
  /\ IF req[h].url = None THEN UNCHANGED disturbed ELSE Disturb(req[h].owner)
  /\ UNCHANGED <<rows, objects, approved, copies, drawn, asked>>

\* updateFileInfo and updateCoverImage load the book again.
Load(h) ==
  /\ req[h].op = "load"
  /\ LET row == books[req[h].owner]
     IN  Becomes(h, IF row = None THEN Idle ELSE [req[h] EXCEPT !.op = "save", !.row = row])
  /\ UNCHANGED <<rows, objects, approved, copies, drawn, asked, disturbed>>

\* Mutant: an image that is removed leaves its url in the row
SavedKept(r) == CASE r.url = None   -> r.row
                  [] r.kind = "file" -> [r.row EXCEPT !.file = r.url, !.type = r.upload.mime]
                  [] OTHER           -> [r.row EXCEPT !.cover = r.url]

Saved(r) == IF r.kind = "file" THEN [r.row EXCEPT !.file = r.url, !.type = r.upload.mime]
                               ELSE [r.row EXCEPT !.cover = r.url]

\* books.series_id references "series", books.author_id an existing user
Linked(row) == row.series # None => series[row.series] \in Authors

Save(h) ==
  /\ req[h].op = "save" /\ Finish(h)
  /\ \/ /\ req[h].kind = "avatar"
        /\ avatar' = [avatar EXCEPT ![req[h].owner] = req[h].url]
        /\ UNCHANGED books
     \/ /\ req[h].kind # "avatar" /\ Linked(req[h].row)
        /\ books' = [books EXCEPT ![req[h].owner] = Saved(req[h])]
        /\ UNCHANGED avatar
  /\ UNCHANGED <<genres, series, objects, approved, copies, drawn, asked, disturbed>>

\* updateProfile: the url is replaced, the object it named stays.
PatchAvatar(h, u, url) ==
  /\ url \in {None, External} /\ req[h] = Idle
  /\ avatar' = [avatar EXCEPT ![u] = url]
  /\ IF avatar[u] \in Keys \/ \E g \in Handlers : Writing(g, u)
     THEN Disturb(u) ELSE UNCHANGED disturbed
  /\ UNCHANGED <<books, genres, series, objects, approved, copies, drawn, asked, req>>

-----------------------------------------------------------------------------
\* create, update, publish, remove; series

\* Mutant: any series will do
ensureSeriesOwnershipAny(b, s) == s \in SeriesIds => series[s] \in Authors

\* ensureSeriesOwnershipIfProvided
ensureSeriesOwnership(b, s) == s \in SeriesIds => series[s] = AuthorOf[b]

NewBook(s) == [file |-> None, type |-> None, cover |-> None,
               series |-> IF s = Unasked THEN None ELSE s]

Create(h, b, body) ==
  /\ asked[b] = Unasked /\ ensureSeriesOwnership(b, body.series)
  /\ LET row == NewBook(body.series)
     IN  /\ Begin(h, b, IF body.genres \in {Unasked, {}} THEN Idle
                        ELSE [op |-> "clear", owner |-> b, row |-> row, body |-> body])
         /\ books' = [books EXCEPT ![b] = row]
  /\ asked' = [asked EXCEPT ![b] = {}]
  /\ UNCHANGED <<genres, series, avatar, objects, approved, copies, drawn>>

\* A body without series and genres is also what publish does to these columns.
EditFind(h, b, body) ==
  /\ books[b] # None /\ ensureSeriesOwnership(b, body.series)
  /\ Begin(h, b, [op |-> "write", owner |-> b, body |-> body,
                  row |-> [books[b] EXCEPT !.series =
                             IF body.series = Unasked THEN @ ELSE body.series]])
  /\ UNCHANGED <<rows, objects, approved, copies, drawn, asked>>

EditWrite(h) ==
  /\ req[h].op = "write" /\ Linked(req[h].row)
  /\ books' = [books EXCEPT ![req[h].owner] = req[h].row]
  /\ Becomes(h, IF req[h].body.genres = Unasked THEN Idle ELSE [req[h] EXCEPT !.op = "clear"])
  /\ UNCHANGED <<genres, series, avatar, objects, approved, copies, drawn, asked, disturbed>>

\* updateGenres: what was there goes before the new ones are looked up.
GenresClear(h) ==
  /\ req[h].op = "clear"
  /\ genres' = [genres EXCEPT ![req[h].owner] = {}]
  /\ IF req[h].body.genres = {}
     THEN Finish(h) /\ asked' = [asked EXCEPT ![req[h].owner] = {}]
     ELSE Becomes(h, [req[h] EXCEPT !.op = "insert"]) /\ UNCHANGED asked
  /\ UNCHANGED <<books, series, avatar, objects, approved, copies, drawn, disturbed>>

\* The unique index on book and genre and the key of the book may refuse.
GenresInsert(h) ==
  /\ req[h].op = "insert"
  /\ LET b == req[h].owner
         g == req[h].body.genres
     IN  /\ g \subseteq GenreIds /\ g \cap genres[b] = {} /\ books[b] # None
         /\ genres' = [genres EXCEPT ![b] = @ \cup g]
         /\ asked'  = [asked EXCEPT ![b] = g]
  /\ Finish(h)
  /\ UNCHANGED <<books, series, avatar, objects, approved, copies, drawn, disturbed>>

\* A genre that does not exist: the book stays without genres.
GenresRefused(h) ==
  /\ req[h].op = "insert" /\ ~(req[h].body.genres \subseteq GenreIds)
  /\ Finish(h) /\ Disturb(req[h].owner)
  /\ UNCHANGED <<rows, objects, approved, copies, drawn, asked>>

\* Mutant: the cover is forgotten
RemoveBookFindFile(h, b) ==
  /\ books[b] # None
  /\ Begin(h, b, [op |-> "erase", owner |-> b, left |-> {books[b].file} \ {None}])
  /\ UNCHANGED <<rows, objects, approved, copies, drawn, asked>>

RemoveBookFind(h, b) ==
  /\ books[b] # None
  /\ Begin(h, b, [op |-> "erase", owner |-> b, left |-> {books[b].file, books[b].cover} \ {None}])
  /\ UNCHANGED <<rows, objects, approved, copies, drawn, asked>>

\* Both objects at once, either delete may fail; then the row, with its genres
\* and its applications.
EraseObject(h, url) ==
  /\ req[h].op = "erase" /\ url \in req[h].left
  /\ Becomes(h, [req[h] EXCEPT !.left = @ \ {url}])
  /\ \/ objects' = Deleted({url}) /\ UNCHANGED disturbed
     \/ UNCHANGED objects /\ Disturb(req[h].owner)
  /\ UNCHANGED <<rows, approved, copies, drawn, asked>>

EraseRow(h) ==
  /\ req[h].op = "erase" /\ req[h].left = {}
  /\ LET b == req[h].owner
     IN  /\ books'    = [books EXCEPT ![b] = None]
         /\ genres'   = [genres EXCEPT ![b] = {}]
         /\ approved' = [approved EXCEPT ![b] = {}]
         /\ asked'    = [asked EXCEPT ![b] = {}]
  /\ Finish(h)
  /\ UNCHANGED <<series, avatar, objects, copies, drawn, disturbed>>

CreateSeries(s, u) ==
  /\ series[s] = None
  /\ series' = [series EXCEPT ![s] = u]
  /\ UNCHANGED <<books, genres, avatar, objects, approved, copies, drawn, asked, disturbed, req>>

\* By its author; ON DELETE SET NULL
RemoveSeries(s) ==
  /\ series[s] \in Authors
  /\ series' = [series EXCEPT ![s] = "gone"]
  /\ books'  = [b \in Books |-> IF books[b] = None \/ books[b].series # s THEN books[b]
                                ELSE [books[b] EXCEPT !.series = None]]
  /\ UNCHANGED <<genres, avatar, objects, approved, copies, drawn, asked, disturbed, req>>

\* A statement or an S3 call fails, or the process is killed.
Fail(h) ==
  /\ \E o \in Owners : Writing(h, o) /\ Disturb(o)
  /\ Finish(h)
  /\ UNCHANGED <<rows, objects, approved, copies, drawn, asked>>

-----------------------------------------------------------------------------
\* Downloads and their marks

\* The author approves a reader, or a withdrawal that read the application
\* before the approval takes it back (see Applications).
Approve(b, r) ==
  /\ books[b] # None
  /\ approved' = [approved EXCEPT ![b] = IF r \in @ THEN @ \ {r} ELSE @ \cup {r}]
  /\ UNCHANGED <<rows, objects, copies, drawn, asked, disturbed, req>>

\* ApprovedBookApplicationGuard
DownloadStart(h, b, r) ==
  /\ req[h] = Idle /\ r \in approved[b] /\ Cardinality(copies) < MaxCopies
  /\ Becomes(h, [op |-> "find", reader |-> r, book |-> b, row |-> None])
  /\ UNCHANGED <<rows, objects, approved, copies, drawn, asked, disturbed>>

\* Mutant: a book without a file is let through
DownloadFindAny(h) ==
  /\ req[h].op = "find"
  /\ LET row == books[req[h].book]
     IN  Becomes(h, IF row = None \/ req[h].reader \notin approved[req[h].book]
                    THEN Idle ELSE [req[h] EXCEPT !.op = "send", !.row = row])
  /\ UNCHANGED <<rows, objects, approved, copies, drawn, asked, disturbed>>

\* findOnePublic takes the file columns away from a reader who is not approved
\* (any more); without them nothing is sent.
DownloadFind(h) ==
  /\ req[h].op = "find"
  /\ LET row == books[req[h].book]
     IN  Becomes(h, IF row = None \/ row.file = None \/ req[h].reader \notin approved[req[h].book]
                    THEN Idle ELSE [req[h] EXCEPT !.op = "send", !.row = row])
  /\ UNCHANGED <<rows, objects, approved, copies, drawn, asked, disturbed>>

\* isPdfBook, isEpubBook: the MIME type or the extension of the key.  With the
\* default ALLOWED_FILE_TYPES one of the two holds, so every download is marked.
FormatOf(type, object) == IF "pdf" \in {type, object.ext} THEN "pdf" ELSE "epub"

\* Mutant: a field that is there already keeps its token
EmbedKept(object, b, r) == IF object.mark = None THEN <<b, r>> ELSE object.mark

\* embedFingerprint: the field or the entry of an earlier mark is overwritten
Embed(object, b, r) == <<b, r>>

\* A document of another format than the one it is taken for is not sent.
DownloadSend(h) ==
  /\ req[h].op = "send" /\ Finish(h)
  /\ LET object == objects[req[h].row.file]
         b == req[h].book
         r == req[h].reader
     IN  IF object = None \/ object.body # FormatOf(req[h].row.type, object)
         THEN UNCHANGED copies
         ELSE copies' = copies \cup {[book |-> b, reader |-> r, body |-> object.body,
                                      mark |-> Embed(object, b, r)]}
  /\ UNCHANGED <<rows, objects, approved, drawn, asked, disturbed>>

\* extractFingerprint and decodeLeakFingerprintFromUpload
Decoded(c, b) == CASE c.mark = None   -> "not found"
                   [] c.mark[1] # b   -> "wrong book"
                   [] OTHER           -> c.mark[2]

-----------------------------------------------------------------------------
Init ==
  /\ books = [b \in Books |-> None] /\ genres = [b \in Books |-> {}]
  /\ series = [s \in SeriesIds |-> None] /\ avatar = [u \in Users |-> None]
  /\ objects = [k \in Keys |-> None] /\ approved = [b \in Books |-> {}]
  /\ copies = {} /\ drawn = 0 /\ disturbed = {}
  /\ asked = [b \in Books |-> Unasked]
  /\ req = [h \in Handlers |-> Idle]

Images(h) ==
  \/ \E o \in Owners, kind \in Kinds, f \in Uploads : UploadFind(h, o, kind, f)
  \/ \E o \in Owners, kind \in Kinds : RemoveFind(h, o, kind)
  \/ Drop(h) \/ Put(h) \/ PutRefused(h) \/ Load(h) \/ Save(h)
  \/ \E u \in Users, url \in Urls : PatchAvatar(h, u, url)

Catalogue(h) ==
  \/ \E b \in Books, body \in Edits : Create(h, b, body) \/ EditFind(h, b, body)
  \/ EditWrite(h) \/ GenresClear(h) \/ GenresInsert(h) \/ GenresRefused(h)
  \/ \E b \in Books : RemoveBookFind(h, b)
  \/ \E url \in Urls : EraseObject(h, url)
  \/ EraseRow(h)

Downloads(h) ==
  \/ \E b \in Books, r \in Readers : DownloadStart(h, b, r)
  \/ DownloadFind(h) \/ DownloadSend(h)

Next ==
  \/ \E h \in Handlers : Images(h) \/ Catalogue(h) \/ Downloads(h) \/ Fail(h)
  \/ \E s \in SeriesIds : (\E u \in Authors : CreateSeries(s, u)) \/ RemoveSeries(s)
  \/ \E b \in Books, r \in Readers : Approve(b, r)

Spec == Init /\ [][Next]_vars

-----------------------------------------------------------------------------
\* Rows, bucket, copies and every request in flight have their types.
FilesTypeOK ==
  /\ books \in [Books -> BookRow \cup {None}]
  /\ genres \in [Books -> SUBSET GenreIds]
  /\ series \in [SeriesIds -> Authors \cup {None, "gone"}]
  /\ avatar \in [Users -> Urls]
  /\ \A k \in Keys : objects[k] = None \/ objects[k] \in Object
  /\ approved \in [Books -> SUBSET Readers]
  /\ copies \subseteq Copy /\ drawn \in 0..MaxKeys /\ disturbed \subseteq Owners
  /\ \A b \in Books : asked[b] = Unasked \/ asked[b] \subseteq GenreIds
  /\ \A h \in Handlers : req[h] \in Requests

Settled(o) == o \notin disturbed /\ ~\E g \in Handlers : Writing(g, o)

UrlsOf(o) == IF o \in Users THEN {avatar[o]}
             ELSE IF books[o] = None THEN {} ELSE {books[o].file, books[o].cover}

\* Once the requests on a book or a user are over, and none of them overlapped,
\* failed half-way or was refused after the old object was gone, its urls name
\* objects of its own: what a reader opens is what was uploaded for that row.
UrlsResolve == \A o \in Owners : Settled(o) =>
  \A url \in UrlsOf(o) \cap Keys : objects[url] # None /\ objects[url].owner = o

\* Under the same conditions no object is left behind in the bucket, neither by
\* replacing a file nor by deleting the book.
NothingLeftBehind == \A k \in Keys :
  objects[k] # None /\ Settled(objects[k].owner) => k \in UrlsOf(objects[k].owner)

\* Whatever file an author uploads, a marked copy of another download or a file
\* under the wrong type included, a copy handed out decodes to the reader who
\* asked for it, and only for the book it was downloaded from.
CopyNamesReader == \A c \in copies, b \in Books :
  Decoded(c, b) = IF b = c.book THEN c.reader ELSE "wrong book"

\* The genres of a book are those of the last request that went through, and
\* its series is one of its author's, however the author and others create and
\* delete series meanwhile.
BookLinksSound == \A b \in Books :
  /\ Settled(b) /\ asked[b] # Unasked => genres[b] = asked[b]
  /\ books[b] # None /\ books[b].series # None => series[books[b].series] = AuthorOf[b]
=============================================================================
