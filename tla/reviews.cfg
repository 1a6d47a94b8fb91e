SPECIFICATION Spec
CONSTANTS
  Handlers = {h1, h2}
  Requests = {"create", "update", "remove", "progress", "sent"}
  Drafts <- Written
  Edits <- Bodies
  Statuses = {"for_review"}
  Viewers = {v1}
  Reader = Reader
  Author = Author
  MaxReviews = 2
SYMMETRY Symmetric
INVARIANT ReviewsTypeOK
INVARIANT OneReview
INVARIANT ReviewRecorded
INVARIANT WordCountFits
INVARIANT ListedCanBeOpened
PROPERTY MarksStay
