SPECIFICATION Spec
CONSTANTS
  Readers = {r1, r2}
  Eligible = {r1, r2}
  Handlers = {h1, h2}
  Requests = {"apply", "message", "withdraw", "decide", "bulk", "sent", "bulksent", "progress"}
  Decisions = {"approved", "pending"}
  Edits <- NoEdits
  InitialBooks <- DecidedBooks
  MaxTime = 1
SYMMETRY Symmetric
INVARIANT NoOverPromise
PROPERTY LedgerSpec
