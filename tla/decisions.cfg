SPECIFICATION FairSpec
CONSTANTS
  Readers = {r1, r2}
  Eligible = {r1, r2}
  Handlers = {h1, h2}
  Requests = {"apply", "decide", "bulk", "lottery", "sent", "progress"}
  Decisions = {"approved", "rejected"}
  Edits <- NoEdits
  InitialBooks <- AnsweredBooks
  MaxTime = 2
INVARIANT LotteryOnce
PROPERTY AnswerIsFinal
PROPERTY CopiesConserved
PROPERTY RequestsEnd
