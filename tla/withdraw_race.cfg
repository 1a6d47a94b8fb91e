SPECIFICATION Spec
CONSTANTS
  Readers = {r1, r2}
  Eligible = {r1, r2}
  Handlers = {h1, h2}
  Requests = {"apply", "decide", "withdraw"}
  Decisions = {"approved"}
  Edits <- NoEdits
  InitialBooks <- DecidedBooks
  MaxTime = 2
PROPERTY WithdrawOnlyPending
