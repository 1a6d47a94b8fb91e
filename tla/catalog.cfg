SPECIFICATION Spec
CONSTANTS
  Handlers = {h1, h2}
  h1 = h1
  h2 = h2
  Movers = {m1, m2}
  Books = {b1, b2, b3}
  Readers = {r1, r2}
  Authors = {a1, a2}
  Genres = {g1, g2}
  Countries = {country}
  b1 = b1
  b2 = b2
  b3 = b3
  a1 = a1
  a2 = a2
  r1 = r1
  r2 = r2
  g1 = g1
  g2 = g2
  AuthorOf <- WrittenBy
  GenresOf <- AllGenres
  Workloads <- Loads
  Ages <- AgeOf
  Limit = 1
  Start = 60
  MaxLog = 2
  MaxHomes = 3
  TTL = 1
  TopBooks = 1
  MaxCached = 1
  None = None
INVARIANT CatalogTypeOK
INVARIANT ListedWereOpen
INVARIANT PagesFaithful
INVARIANT FilesHidden
INVARIANT FiguresAddUp
INVARIANT ReportsFresh
