SPECIFICATION Spec
CONSTANTS
  Users = {u1, u2}
  Nobody = Nobody
  Email <- OneEmail
  Handlers = {h1, h2}
  Requests = {"register", "login", "refresh", "logout", "logoutAll", "requestReset", "resend", "verify", "reset", "profile", "delete"}
  Digits = {1}
  MaxCodes = 2
  MaxLogins <- LoginsAllowed
  Returning = u1
  TokenLife = 1
  CodeLife = 0
  MaxTime = 1
SYMMETRY Symmetric
INVARIANT AccountsTypeOK
INVARIANT SessionsListed
INVARIANT OneUsableCode
INVARIANT ProvenByCode
PROPERTY LedgerSpec
PROPERTY CodeUsedUp
PROPERTY AccountKeepsProgress
