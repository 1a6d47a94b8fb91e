SPECIFICATION Spec
CONSTANTS
  Readers = {r1, r2}
  Eligible = {r1, r2}
  Handlers = {h1, h2}
  Requests = {"apply", "lottery", "edit"}
  Decisions = {}
  Edits <- AnyEdits
  InitialBooks <- LotteryBooks
  MaxTime = 2
SYMMETRY Symmetric
INVARIANT LotteryOnce
