------------------------------ MODULE Accounts ------------------------------
(***************************************************************************)
(* Accounts, sessions and verification codes (src/src/auth, src/src/users).*)
(* An account is a row of "users"; a session is a refresh token, stored in *)
(* Redis under its hash and listed in a set per user; a verification code  *)
(* is a row with six digits that proves an e-mail address or allows a new  *)
(* password.                                                               *)
(*                                                                         *)
(* A refresh token is a signed JWT whose claims are the user and the       *)
(* second of issue, so that is what a token is here: two logins within one *)
(* second get the same token.  Handlers interleave at every await.         *)
(***************************************************************************)
EXTENDS Integers, FiniteSets

CONSTANTS
  Users,       \* account ids
  Nobody,      \* not an account
  Email,       \* the address each account registers with
  Handlers,    \* request handlers that can run at the same time
  Requests,    \* the kinds of request that are issued, see RequestKinds
  Digits,      \* the codes generateCode may draw
  MaxCodes,    \* bound on the code rows ever inserted
  MaxLogins,   \* bound on the logins of each account
  TokenLife,   \* seconds until a refresh token expires
  CodeLife,    \* seconds until a code expires
  MaxTime      \* bound on the clock

RequestKinds == {"register", "login", "refresh", "logout", "logoutAll",
                 "requestReset", "resend", "verify", "reset", "profile", "delete"}
CodeTypes    == {"email", "reset"}
Stages       == {"idle", "insert", "retire", "insertCode", "sign", "save", "found",
                 "revokeAll", "markUsed", "apply", "saveUser"}

Ids   == 1..MaxCodes
Token == [user : Users, iat : 0..MaxTime]

\* A row of "users"; the hash of the password is the password.  Names, bio and
\* picture are columns no other handler depends on.
UserRow == [state : {"none", "active", "deleted"}, verified : BOOLEAN,
            password : {"old", "new", "null"}]
NoUser  == [state |-> "none", verified |-> FALSE, password |-> "null"]

CodeRow == [state : {"none", "unused", "used", "deleted"}, user : Users \cup {Nobody},
            type : CodeTypes, digits : Digits \cup {0}, expires : Nat]
NoCode  == [state |-> "none", user |-> Nobody, type |-> "email", digits |-> 0,
            expires |-> 0]

ASSUME AccountsKnown == IsFiniteSet(Users) /\ Nobody \notin Users
ASSUME RequestsKnown == Requests \subseteq RequestKinds
ASSUME BoundsNat     == {MaxCodes, TokenLife, CodeLife, MaxTime} \subseteq Nat
ASSUME LoginsBounded == MaxLogins \in [Users -> Nat]

VARIABLES
  user,      \* the rows of "users"
  code,      \* the rows of "verification_codes"
  keys,      \* Redis: the tokens with a key auth:refresh:<hash>
  listed,    \* Redis: the set auth:refresh:user:<id> of each user
  now,       \* the clock, in seconds
  req,       \* what each handler is doing
  logins,    \* history: successful registrations and logins of each account
  accepted,  \* history: the code rows that were accepted
  crossed,   \* history: accounts and types of codes whose senders overlapped
  missed     \* history: the keys set while a logout of all sessions was under way

vars  == <<user, code, keys, listed, now, req, logins, accepted, crossed, missed>>
rows  == <<user, code>>
redis == <<keys, listed, missed>>
notes == <<now, logins, accepted, crossed>>

Idle    == [at |-> "idle", kind |-> "login", user |-> Nobody, toks |-> {}, id |-> 0,
            ent |-> NoUser]
Request == [at : Stages, kind : RequestKinds, user : Users \cup {Nobody},
            toks : SUBSET Token, id : Ids \cup {0}, ent : UserRow]

Start(h, kind) == kind \in Requests /\ req[h].at = "idle"

Begin(h, kind, u, stage) ==
  /\ Start(h, kind)
  /\ req' = [req EXCEPT ![h] = [Idle EXCEPT !.at = stage, !.kind = kind, !.user = u]]

GoTo(h, stage) == req' = [req EXCEPT ![h].at = stage]
Finish(h)      == req' = [req EXCEPT ![h] = Idle]

\* getUserId and verifyAsync: the key is there and neither it nor the JWT expired
Usable(t) == t \in keys /\ now < t.iat + TokenLife

-----------------------------------------------------------------------------
\* Registering and logging in

Taken(u) == \E v \in Users : user[v].state = "active" /\ Email[v] = Email[u]

FreeIds  == {i \in Ids : code[i].state = "none"}
IdsLeft  == Cardinality(FreeIds) >
              Cardinality({h \in Handlers : req[h].at \in {"insert", "retire", "insertCode"}})

\* register: the look for an existing account locks nothing
RegisterCheck(h, u) ==
  /\ user[u].state = "none" /\ ~Taken(u)
  /\ IdsLeft
  /\ Begin(h, "register", u, "insert")
  /\ UNCHANGED <<rows, redis, notes>>

\* createUser: the unique index decides
RegisterInsert(h) ==
  LET u == req[h].user
  IN  /\ req[h].at = "insert"
      /\ IF Taken(u) \/ user[u].state # "none"
         THEN Finish(h) /\ UNCHANGED <<user, logins>>
         ELSE /\ user' = [user EXCEPT ![u] = [state |-> "active", verified |-> FALSE,
                                              password |-> "old"]]
              /\ logins' = [logins EXCEPT ![u] = @ + 1]
              /\ GoTo(h, "retire")
      /\ UNCHANGED <<code, redis, now, accepted, crossed>>

\* login: verifyPassword, then lastLogin is set
Login(h, u, password) ==
  /\ user[u].state = "active" /\ user[u].password = password /\ password # "null"
  /\ logins[u] < MaxLogins[u]
  /\ Begin(h, "login", u, "sign")
  /\ logins' = [logins EXCEPT ![u] = @ + 1]
  /\ UNCHANGED <<rows, redis, now, accepted, crossed>>

\* generateTokens signs the claims, then saves the hash
Sign(h) ==
  /\ req[h].at = "sign"
  /\ req' = [req EXCEPT ![h].at = "save",
                        ![h].toks = {[user |-> req[h].user, iat |-> now]}]
  /\ UNCHANGED <<rows, redis, notes>>

\* A logout of all sessions of the account has read the set and deletes it next
LoggingOut(u) == \E g \in Handlers : req[g].at = "revokeAll" /\ req[g].user = u

NoteMissed(h) ==
  missed' = IF LoggingOut(req[h].user) THEN missed \cup req[h].toks ELSE missed \ req[h].toks

\* Mutant: the key is set without adding the token to the user's set
SaveUnlisted(h) ==
  /\ req[h].at = "save"
  /\ keys' = keys \cup req[h].toks
  /\ NoteMissed(h)
  /\ Finish(h)
  /\ UNCHANGED <<rows, listed, notes>>

\* RefreshTokenStoreService.save: one pipeline
SaveToken(h) ==
  /\ req[h].at = "save"
  /\ keys' = keys \cup req[h].toks
  /\ listed' = [listed EXCEPT ![req[h].user] = @ \cup req[h].toks]
  /\ NoteMissed(h)
  /\ Finish(h)
  /\ UNCHANGED <<rows, notes>>

-----------------------------------------------------------------------------
\* Refreshing and logging out

\* revoke: GET, then DEL and SREM in one pipeline.  When the key is gone
\* nothing but the listing differs, and a listing without a key has no effect.
Revoke(t) ==
  /\ keys' = keys \ {t}
  /\ listed' = IF t \in keys THEN [listed EXCEPT ![t.user] = @ \ {t}] ELSE listed
  /\ missed' = missed \ {t}

RefreshFind(h, t) ==
  /\ Usable(t)
  /\ Start(h, "refresh")
  /\ req' = [req EXCEPT ![h] = [Idle EXCEPT !.at = "found", !.kind = "refresh",
                                            !.user = t.user, !.toks = {t}]]
  /\ UNCHANGED <<rows, redis, notes>>

\* Mutant: a new token without taking back the old one
RefreshKeeps(h) ==
  /\ req[h].at = "found"
  /\ GoTo(h, "sign")
  /\ UNCHANGED <<rows, redis, notes>>

\* The user is looked up, then the old token is revoked
RefreshRevoke(h) ==
  /\ req[h].at = "found"
  /\ IF user[req[h].user].state = "active"
     THEN (\A t \in req[h].toks : Revoke(t)) /\ GoTo(h, "sign")
     ELSE Finish(h) /\ UNCHANGED redis
  /\ UNCHANGED <<rows, notes>>

Logout(h, t) ==
  /\ Start(h, "logout")
  /\ t \in keys
  /\ Revoke(t)
  /\ UNCHANGED <<rows, notes, req>>

\* revokeAllForUser: SMEMBERS, then DEL of what was read and of the set
LogoutAllRead(h, u) ==
  /\ user[u].state # "none"
  /\ Start(h, "logoutAll")
  /\ req' = [req EXCEPT ![h] = [Idle EXCEPT !.at = "revokeAll", !.kind = "logoutAll",
                                            !.user = u, !.toks = listed[u]]]
  /\ UNCHANGED <<rows, redis, notes>>

LogoutAllDelete(h) ==
  /\ req[h].at = "revokeAll"
  /\ keys' = keys \ req[h].toks
  /\ listed' = [listed EXCEPT ![req[h].user] = {}]
  /\ missed' = missed \ req[h].toks
  /\ Finish(h)
  /\ UNCHANGED <<rows, notes>>

-----------------------------------------------------------------------------
\* Verification codes

\* Mutant: the kind of the request instead of the type of the code
TypeSentRaw(kind) == kind

TypeSent(kind) == IF kind = "requestReset" THEN "reset" ELSE "email"

\* requestPasswordReset, resendVerificationCode
SendCode(h, kind, u) ==
  /\ user[u].state = "active"
  /\ kind = "resend" => ~user[u].verified
  /\ IdsLeft
  /\ Begin(h, kind, u, "retire")
  /\ UNCHANGED <<rows, redis, notes>>

\* Another request for the account has retired its codes of this type and
\* inserts a new one next
InsertsNext(g, u, type) ==
  req[g].at = "insertCode" /\ req[g].user = u /\ TypeSent(req[g].kind) = type

NoteCrossed(h) ==
  LET u == req[h].user  type == TypeSent(req[h].kind)
  IN  crossed' = IF \E g \in Handlers : InsertsNext(g, u, type)
                 THEN crossed \cup {<<u, type>>} ELSE crossed \ {<<u, type>>}

\* Mutant: the codes sent before stay usable
RetireNone(h) ==
  /\ req[h].at = "retire"
  /\ NoteCrossed(h)
  /\ GoTo(h, "insertCode")
  /\ UNCHANGED <<rows, redis, now, logins, accepted>>

\* createVerificationCode: first one UPDATE retires the unused codes ...
Retire(h) ==
  /\ req[h].at = "retire"
  /\ code' = [i \in Ids |->
                IF /\ code[i].user = req[h].user /\ code[i].state = "unused"
                   /\ code[i].type = TypeSent(req[h].kind)
                THEN [code[i] EXCEPT !.state = "used"] ELSE code[i]]
  /\ NoteCrossed(h)
  /\ GoTo(h, "insertCode")
  /\ UNCHANGED <<user, redis, now, logins, accepted>>

\* ... then the new one is inserted, which fails if the account is gone.  The
\* mail may fail as well; only its sender learns about it.  register catches
\* either failure and goes on to its tokens.
InsertCode(h) ==
  LET u == req[h].user
  IN  /\ req[h].at = "insertCode"
      /\ IF user[u].state # "active"
         THEN code' = code
         ELSE \E d \in Digits, i \in FreeIds :
                /\ \A j \in FreeIds : i <= j
                /\ code' = [code EXCEPT ![i] =
                              [state |-> "unused", user |-> u,
                               type |-> TypeSent(req[h].kind), digits |-> d,
                               expires |-> now + CodeLife]]
      /\ IF req[h].kind = "register"
         THEN GoTo(h, "sign") ELSE Finish(h)
      /\ UNCHANGED <<user, redis, notes>>

TypeTaken(kind) == IF kind = "reset" THEN "reset" ELSE "email"

\* Mutants: a code of either type will do; used codes as well
AcceptableOfAnyType(i, kind, d) ==
  code[i].state = "unused" /\ code[i].digits = d /\ now <= code[i].expires
AcceptableAgain(i, kind, d) ==
  /\ code[i].state \in {"unused", "used"} /\ code[i].digits = d
  /\ code[i].type = TypeTaken(kind) /\ now <= code[i].expires

\* verifyCode: the row is found by its digits and type, whoever it was sent to
Acceptable(i, kind, d) ==
  /\ code[i].state = "unused" /\ code[i].digits = d
  /\ code[i].type = TypeTaken(kind) /\ now <= code[i].expires

FindCode(h, kind, d) ==
  \E i \in Ids :
    /\ Acceptable(i, kind, d)
    /\ Start(h, kind)
    /\ req' = [req EXCEPT ![h] = [Idle EXCEPT !.at = "markUsed", !.kind = kind,
                                              !.user = code[i].user, !.id = i]]
    /\ UNCHANGED <<rows, redis, notes>>

\* The save of the row: an INSERT for a deleted account breaks the foreign key
MarkUsed(h) ==
  LET i == req[h].id
  IN  /\ req[h].at = "markUsed"
      /\ IF code[i].state = "deleted"
         THEN Finish(h) /\ UNCHANGED <<code, accepted>>
         ELSE /\ code' = [code EXCEPT ![i].state = "used"]
              /\ accepted' = accepted \cup {i}
              /\ GoTo(h, "apply")
      /\ UNCHANGED <<user, redis, now, logins, crossed>>

\* verifyEmailWithCode, resetPasswordWithCode: an UPDATE of the user by id
ApplyCode(h) ==
  LET u == req[h].user
  IN  /\ req[h].at = "apply"
      /\ user' = CASE user[u].state # "active" -> user
                   [] req[h].kind = "verify" -> [user EXCEPT ![u].verified = TRUE]
                   [] OTHER -> [user EXCEPT ![u].password = "new"]
      /\ Finish(h)
      /\ UNCHANGED <<code, redis, notes>>

-----------------------------------------------------------------------------
\* The user's own row

\* updateProfile loads the row without the hash of the password ...
ProfileLoad(h, u) ==
  /\ user[u].state = "active"
  /\ Start(h, "profile")
  /\ req' = [req EXCEPT ![h] = [Idle EXCEPT !.at = "saveUser", !.kind = "profile",
                                            !.user = u, !.ent = user[u]]]
  /\ UNCHANGED <<rows, redis, notes>>

\* Mutant: the save also writes a hash that was loaded
ProfileSaveAll(h) ==
  /\ req[h].at = "saveUser"
  /\ user' = [user EXCEPT ![req[h].user] = req[h].ent]
  /\ Finish(h)
  /\ UNCHANGED <<code, redis, notes>>

\* ... and saves it: the columns it loaded are written back, and a row that is
\* gone is inserted again, without a password, unless its address is taken.
ProfileSave(h) ==
  LET u == req[h].user
  IN  /\ req[h].at = "saveUser"
      /\ user' = IF user[u].state # "active" /\ Taken(u) THEN user
                 ELSE [user EXCEPT ![u] =
                        [req[h].ent EXCEPT !.password = IF user[u].state = "active"
                                                        THEN user[u].password ELSE "null"]]
      /\ Finish(h)
      /\ UNCHANGED <<code, redis, notes>>

\* remove: the codes go with the account, the tokens stay in Redis
DeleteAccount(h, u) ==
  /\ user[u].state = "active"
  /\ Start(h, "delete")
  /\ user' = [user EXCEPT ![u] = [NoUser EXCEPT !.state = "deleted"]]
  /\ code' = [i \in Ids |-> IF code[i].user = u THEN [code[i] EXCEPT !.state = "deleted"]
                            ELSE code[i]]
  /\ UNCHANGED <<redis, notes, req>>

Tick ==
  /\ now < MaxTime
  /\ now' = now + 1
  /\ UNCHANGED <<rows, redis, req, logins, accepted, crossed>>

-----------------------------------------------------------------------------

Init ==
  /\ user = [u \in Users |-> NoUser]
  /\ code = [i \in Ids |-> NoCode]
  /\ keys = {}
  /\ listed = [u \in Users |-> {}]
  /\ now = 0
  /\ req = [h \in Handlers |-> Idle]
  /\ logins = [u \in Users |-> 0]
  /\ accepted = {}
  /\ crossed = {} /\ missed = {}

\* A request enters the service
Arrive(h) ==
  \/ \E u \in Users :
       \/ RegisterCheck(h, u)
       \/ \E p \in {"old", "new"} : Login(h, u, p)
       \/ LogoutAllRead(h, u)
       \/ \E kind \in {"requestReset", "resend"} : SendCode(h, kind, u)
       \/ ProfileLoad(h, u)
       \/ DeleteAccount(h, u)
  \/ \E t \in keys : RefreshFind(h, t) \/ Logout(h, t)
  \/ \E kind \in {"verify", "reset"}, d \in Digits : FindCode(h, kind, d)

\* A handler runs from one await to the next
Continue(h) ==
  \/ RegisterInsert(h)
  \/ Sign(h)
  \/ SaveToken(h)
  \/ RefreshRevoke(h)
  \/ LogoutAllDelete(h)
  \/ Retire(h)
  \/ InsertCode(h)
  \/ MarkUsed(h)
  \/ ApplyCode(h)
  \/ ProfileSave(h)

Next == (\E h \in Handlers : Arrive(h) \/ Continue(h)) \/ Tick

Spec == Init /\ [][Next]_vars

-----------------------------------------------------------------------------
\* Type invariant: rows, Redis keys and handlers have their types.
AccountsTypeOK ==
  /\ user \in [Users -> UserRow]
  /\ code \in [Ids -> CodeRow]
  /\ keys \subseteq Token
  /\ listed \in [Users -> SUBSET Token]
  /\ now \in 0..MaxTime
  /\ req \in [Handlers -> Request]
  /\ logins \in [Users -> Nat]
  /\ accepted \subseteq Ids
  /\ crossed \subseteq Users \X CodeTypes /\ missed \subseteq Token

\* logout-all reaches every session: a token that refresh would accept is in
\* the set revokeAllForUser reads, whatever overlaps.  The one way out of the
\* set is to be saved between the SMEMBERS and the DEL of a logout-all; a token
\* that is saved again later is listed again.
SessionsListed == \A t \in keys \ missed : Usable(t) => t \in listed[t.user]

\* A session is opened by a login or by giving up another one: the sessions of
\* each account follow SessionLedger.  A refresh gets a new token for one that
\* was open when it was presented, however refreshes and logouts overlap, and
\* after the exchange the old one is not open.
OwedTo(h) == \/ req[h].at \in {"sign", "save"}
             \/ req[h].kind = "register" /\ req[h].at \in {"retire", "insertCode"}
Ledger == INSTANCE SessionLedger WITH
            Clients <- Handlers,
            Times   <- 0..MaxTime,
            open    <- keys,
            claims  <- UNION {{h} \X req[h].toks : h \in {g \in Handlers : req[g].at = "found"}},
            owed    <- {<<h, req[h].user>> : h \in {g \in Handlers : OwedTo(g)}},
            logins  <- logins
LedgerSpec == Ledger!Spec

\* The requests that found a code and have not marked it yet
Holders(i) == {h \in Handlers : req[h].at = "markUsed" /\ req[h].id = i}

\* A code that was accepted, retired or lost with its account is good for
\* nobody who comes later: nothing makes it usable again, and only a request
\* that had found it before may still be accepted.  (Two requests that find a
\* code before either marks it are both accepted.)
CodeUsedUp ==
  [][\A i \in Ids : code[i].state \in {"used", "deleted"} =>
       /\ code'[i].state \in {"used", "deleted"}
       /\ Holders(i)' \subseteq Holders(i)
       /\ i \in accepted' \ accepted => Holders(i)' # Holders(i)]_vars

\* At most the code sent last can be used: an older one does not come back.
\* Two codes of a type are usable only if one was retired while the other was
\* on its way, and no longer than until the next is sent.
OneUsableCode ==
  \A i, j \in Ids :
    /\ code[i].state = "unused" /\ code[j].state = "unused"
    /\ code[i].user = code[j].user /\ code[i].type = code[j].type
    => i = j \/ <<code[i].user, code[i].type>> \in crossed

\* An address is proved and a password replaced only by a code of the right
\* type that was sent to that account and accepted.
ProvenByCode ==
  \A u \in Users :
    user[u].state = "active" =>
      /\ user[u].verified =>
           \E i \in Ids : code[i].user = u /\ code[i].type = "email" /\ i \in accepted
      /\ user[u].password = "new" =>
           \E i \in Ids : code[i].user = u /\ code[i].type = "reset" /\ i \in accepted

\* The requests that loaded the profile before its address was verified and
\* have not saved it yet
Late(u) == {h \in Handlers : /\ req[h].at = "saveUser" /\ req[h].user = u
                             /\ ~req[h].ent.verified}

\* Nothing but its deletion takes back what an account achieved: a new password
\* stays, whatever is saved late, for no request saves a password it loaded.  A
\* verified address is lost only to a profile that was loaded before it was
\* verified; no request that comes later can lose it.
AccountKeepsProgress ==
  [][\A u \in Users :
       user[u].state = "active" /\ user'[u].state = "active" =>
         /\ user[u].password = "new" => user'[u].password = "new"
         /\ user[u].verified =>
              /\ Late(u)' \subseteq Late(u)
              /\ user'[u].verified \/ Late(u)' # Late(u)]_vars
=============================================================================
