SPECIFICATION Spec
CONSTANTS
  u1 = u1
  u2 = u2
  a1 = a1
  Users = {u1, u2, a1}
  Authors = {a1}
  Known = {u1, a1}
  Contacts <- EachOther
  Handlers = {h1, h2}
  Requests = {"send", "accept", "decline", "cancel", "unfriend", "settings", "read", "readAll", "deleteNote"}
  Settings <- Saved
  Activities <- Log
  Limit = 1
  MaxRows = 2
  MaxNotes = 1
SYMMETRY Symmetric
INVARIANT SocialTypeOK
INVARIANT ViewsAgree
INVARIANT PrivacyRulesAgree
INVARIANT FeedRespectsPrivacy
INVARIANT AuthorsPublic
PROPERTY FriendshipSpec
PROPERTY NotesSettle
