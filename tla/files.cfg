SPECIFICATION Spec
CONSTANTS
  Handlers = {h1, h2}
  Books = {b1}
  u1 = u1
  Users = {u1}
  Authors = {u1, u2}
  Readers = {r1}
  SeriesIds = {s1}
  GenreIds = {g1}
  AuthorOf <- OneAuthor
  MaxKeys = 2
  Uploads <- Sent
  Edits <- Bodies
  MaxCopies = 1
  MaxDisturbed = 0
  None = None
  External = External
SYMMETRY Symmetric
INVARIANT FilesTypeOK
INVARIANT UrlsResolve
INVARIANT NothingLeftBehind
INVARIANT CopyNamesReader
INVARIANT BookLinksSound
