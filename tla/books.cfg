SPECIFICATION Spec
CONSTANTS
  Readers = {r1, r2}
  Eligible = {r1, r2}
  Handlers = {h1, h2}
  Requests = {"apply", "decide", "lottery", "edit", "publish"}
  Decisions = {"approved"}
  Edits <- AnyEdits
  InitialBooks <- OneCopyBooks
  MaxTime = 1
SYMMETRY Symmetric
INVARIANT TypeOK
INVARIANT NeverOversold
INVARIANT ApprovedWasGranted
