--------------------------- MODULE AccountsProofs ---------------------------
(***************************************************************************)
(* Theorems about Accounts, for any accounts, handlers, codes and times.   *)
(***************************************************************************)
EXTENDS Accounts, TLAPS

-----------------------------------------------------------------------------
\* What a handler knows at each of its stages.  The first invariant ties the
\* stages of a handler to its kind, its user, its tokens and its code.

CodeSenders  == {"register", "requestReset", "resend"}
TokenGivers  == {"register", "login", "refresh"}

\* The request of a handler, by its stage
ReqStaged(r) ==
  /\ r.at # "idle" => r.user \in Users
  /\ r.at = "insert" => r.kind = "register"
  /\ r.at \in {"retire", "insertCode"} => r.kind \in CodeSenders
  /\ r.at \in {"sign", "save"} => r.kind \in TokenGivers
  /\ r.at = "save" => \E i \in 0..MaxTime : r.toks = {[user |-> r.user, iat |-> i]}
  /\ r.at = "found" => r.kind = "refresh" /\ \E t \in Token : t.user = r.user /\ r.toks = {t}
  /\ r.at = "revokeAll" => r.kind = "logoutAll"
  /\ r.at \in {"markUsed", "apply"} => r.kind \in {"verify", "reset"} /\ r.id \in Ids
  /\ r.at = "saveUser" => r.kind = "profile" /\ r.ent.state = "active"

\* The code of a handler is one that was sent to its user, of its type
ReqCoded(r) ==
  r.at \in {"markUsed", "apply"} =>
    /\ code[r.id].state # "none"
    /\ code[r.id].user = r.user
    /\ code[r.id].type = TypeTaken(r.kind)

CodesOwned == \A i \in Ids : code[i].state # "none" => code[i].user \in Users

Staged ==
  /\ AccountsTypeOK
  /\ CodesOwned
  /\ \A h \in Handlers : ReqStaged(req[h]) /\ ReqCoded(req[h])

\* A row that was inserted keeps its user and its type
CodesKept ==
  \A i \in Ids :
    code[i].state # "none" => /\ code'[i].state # "none"
                              /\ code'[i].user = code[i].user
                              /\ code'[i].type = code[i].type

\* The constants are numbers.
LEMMA Numbers ==
  MaxCodes \in Nat /\ TokenLife \in Nat /\ CodeLife \in Nat /\ MaxTime \in Nat
BY BoundsNat

\* The constant parts of the state have their types.
LEMMA BlankTypes == NoUser \in UserRow /\ NoCode \in CodeRow /\ Idle \in Request
BY DEF NoUser, UserRow, NoCode, CodeRow, CodeTypes, Idle, Request, Stages, RequestKinds

\* The handlers of a step: one request at most is replaced.
LEMMA FrameReq ==
  ASSUME NEW h \in Handlers, NEW r, req \in [Handlers -> Request],
         req' = [req EXCEPT ![h] = r]
  PROVE  /\ req'[h] = r
         /\ \A g \in Handlers : g # h => req'[g] = req[g]
         /\ r \in Request => req' \in [Handlers -> Request]
OBVIOUS

\* A handler that moves on keeps all but its stage.
LEMMA GoToFrame ==
  ASSUME req \in [Handlers -> Request], NEW h \in Handlers, NEW stage \in Stages, GoTo(h, stage)
  PROVE  /\ req' \in [Handlers -> Request]
         /\ req'[h] = [req[h] EXCEPT !.at = stage]
         /\ \A g \in Handlers : g # h => req'[g] = req[g]
<1>1. req[h] \in Request
  OBVIOUS
<1>2. [req[h] EXCEPT !.at = stage] \in Request
  BY <1>1 DEF Request
<1>3. QED
  BY <1>2 DEF GoTo

LEMMA GoToFields ==
  ASSUME req \in [Handlers -> Request], NEW h \in Handlers, NEW stage \in Stages, GoTo(h, stage)
  PROVE  /\ req'[h].at = stage /\ req'[h].kind = req[h].kind /\ req'[h].user = req[h].user
         /\ req'[h].id = req[h].id /\ req'[h].ent = req[h].ent /\ req'[h].toks = req[h].toks
<1>1. req'[h] = [req[h] EXCEPT !.at = stage] /\ req[h] \in Request
  BY GoToFrame
<1>2. QED
  BY <1>1 DEF Request

\* A handler that is done leaves the others alone.
LEMMA FinishFrame ==
  ASSUME req \in [Handlers -> Request], NEW h \in Handlers, Finish(h)
  PROVE  /\ req' \in [Handlers -> Request]
         /\ req'[h] = Idle
         /\ \A g \in Handlers : g # h => req'[g] = req[g]
BY BlankTypes DEF Finish

\* An idle handler has nothing to keep.
LEMMA IdleStaged == ReqStaged(Idle) /\ ReqCoded(Idle) /\ ReqCoded(Idle)'
BY DEF Idle, ReqStaged, ReqCoded

\* A request that moves the invariant on: every other request is as it was.
LEMMA StagedFrame ==
  ASSUME Staged, NEW h \in Handlers, AccountsTypeOK', CodesOwned', CodesKept,
         \A g \in Handlers : g # h => req'[g] = req[g],
         ReqStaged(req'[h]), ReqCoded(req[h])'
  PROVE  Staged'
<1>1. ASSUME NEW g \in Handlers
      PROVE  ReqStaged(req[g])' /\ ReqCoded(req[g])'
  <2>1. CASE g = h
    BY <2>1 DEF ReqStaged
  <2>2. CASE g # h
    BY <2>2 DEF Staged, ReqStaged, ReqCoded, CodesKept
  <2>3. QED
    BY <2>1, <2>2
<1>2. QED
  BY <1>1 DEF Staged

\* Steps that leave the codes alone keep what was known of them.
LEMMA SameCodes ==
  ASSUME Staged, code' = code
  PROVE  CodesOwned' /\ CodesKept
BY DEF Staged, CodesOwned, CodesKept

-----------------------------------------------------------------------------
\* Every step keeps the types and the stages, one lemma per group of steps

\* The records that requests begin with.
LEMMA BeginTypes ==
  ASSUME NEW stage \in Stages, NEW kind \in RequestKinds, NEW u \in Users
  PROVE  [Idle EXCEPT !.at = stage, !.kind = kind, !.user = u] \in Request
BY BlankTypes DEF Idle, Request

\* Requests that begin by reading the account.
LEMMA StagedArriveUser ==
  ASSUME Staged, NEW h \in Handlers, NEW u \in Users,
         \/ RegisterCheck(h, u)
         \/ \E p \in {"old", "new"} : Login(h, u, p)
         \/ LogoutAllRead(h, u)
         \/ \E kind \in {"requestReset", "resend"} : SendCode(h, kind, u)
         \/ ProfileLoad(h, u)
  PROVE  Staged' /\ CodesKept
<1>1. AccountsTypeOK /\ code' = code
  BY DEF Staged, RegisterCheck, Login, LogoutAllRead, SendCode, ProfileLoad, rows
<1>2. CodesOwned' /\ CodesKept
  BY <1>1, SameCodes
<1>3. /\ user' = user /\ keys' = keys /\ listed' = listed /\ now' = now
      /\ accepted' = accepted /\ crossed' = crossed /\ missed' = missed
      /\ logins' \in [Users -> Nat]
  BY <1>1 DEF AccountsTypeOK, RegisterCheck, Login, LogoutAllRead, SendCode, ProfileLoad,
              rows, redis, notes
<1>4. SUFFICES ASSUME NEW r \in Request, req' = [req EXCEPT ![h] = r],
                      ReqStaged(r), r.at \notin {"markUsed", "apply"}
               PROVE  Staged' /\ CodesKept
  <2>1. ASSUME NEW kind \in RequestKinds, NEW stage \in Stages, Begin(h, kind, u, stage),
               ReqStaged([Idle EXCEPT !.at = stage, !.kind = kind, !.user = u]),
               stage \notin {"markUsed", "apply"}
        PROVE  \E r \in Request : req' = [req EXCEPT ![h] = r] /\ ReqStaged(r)
                                  /\ r.at \notin {"markUsed", "apply"}
    <3> DEFINE r == [Idle EXCEPT !.at = stage, !.kind = kind, !.user = u]
    <3>1. r \in Request /\ r.at = stage /\ req' = [req EXCEPT ![h] = r]
      BY <2>1, BeginTypes DEF Begin, Idle
    <3>2. QED
      BY <2>1, <3>1
  <2>2. CASE RegisterCheck(h, u)
    BY <1>4, <2>1, <2>2 DEF RegisterCheck, ReqStaged, Idle, RequestKinds, Stages
  <2>3. CASE \E p \in {"old", "new"} : Login(h, u, p)
    BY <1>4, <2>1, <2>3 DEF Login, ReqStaged, Idle, RequestKinds, Stages, TokenGivers
  <2>4. CASE \E kind \in {"requestReset", "resend"} : SendCode(h, kind, u)
    BY <1>4, <2>1, <2>4 DEF SendCode, ReqStaged, Idle, RequestKinds, Stages, CodeSenders
  <2>5. CASE LogoutAllRead(h, u)
    <3> DEFINE r == [Idle EXCEPT !.at = "revokeAll", !.kind = "logoutAll",
                                 !.user = u, !.toks = listed[u]]
    <3>1. r \in Request
      BY <1>1, BlankTypes DEF AccountsTypeOK, Idle, Request, RequestKinds, Stages
    <3>2. ReqStaged(r) /\ r.at = "revokeAll" /\ req' = [req EXCEPT ![h] = r]
      BY <2>5 DEF LogoutAllRead, ReqStaged, Idle
    <3>3. QED
      BY <1>4, <3>1, <3>2
  <2>6. CASE ProfileLoad(h, u)
    <3> DEFINE r == [Idle EXCEPT !.at = "saveUser", !.kind = "profile",
                                 !.user = u, !.ent = user[u]]
    <3>1. r \in Request
      BY <1>1, BlankTypes DEF AccountsTypeOK, Idle, Request, RequestKinds, Stages
    <3>2. ReqStaged(r) /\ r.at = "saveUser" /\ req' = [req EXCEPT ![h] = r]
      BY <2>6 DEF ProfileLoad, ReqStaged, Idle
    <3>3. QED
      BY <1>4, <3>1, <3>2
  <2>7. QED
    BY <2>2, <2>3, <2>4, <2>5, <2>6
<1>5. req'[h] = r /\ req' \in [Handlers -> Request] /\ \A g \in Handlers : g # h => req'[g] = req[g]
  BY <1>1, <1>4, FrameReq DEF AccountsTypeOK
<1>6. AccountsTypeOK'
  BY <1>1, <1>3, <1>5 DEF AccountsTypeOK
<1>7. ReqStaged(req'[h]) /\ ReqCoded(req[h])'
  BY <1>4, <1>5 DEF ReqCoded
<1>8. QED
  BY <1>2, <1>5, <1>6, <1>7, StagedFrame

\* The steps that delete an account and those that begin with a token or a code.
LEMMA StagedDelete ==
  ASSUME Staged, NEW h \in Handlers, NEW u \in Users, DeleteAccount(h, u)
  PROVE  Staged' /\ CodesKept
<1>1. [NoUser EXCEPT !.state = "deleted"] \in UserRow
  BY DEF NoUser, UserRow
<1>2. \A i \in Ids : [code[i] EXCEPT !.state = "deleted"] \in CodeRow
  BY DEF Staged, AccountsTypeOK, CodeRow
<1>3. AccountsTypeOK'
  BY <1>1, <1>2 DEF Staged, AccountsTypeOK, DeleteAccount, redis, notes
<1>4. CodesKept /\ CodesOwned'
  BY DEF Staged, AccountsTypeOK, CodeRow, CodesOwned, CodesKept, DeleteAccount
<1>5. ReqStaged(req'[h]) /\ \A g \in Handlers : g # h => req'[g] = req[g]
  BY DEF Staged, DeleteAccount
<1>6. ReqCoded(req[h])'
  BY <1>4 DEF Staged, ReqStaged, ReqCoded, CodesKept, DeleteAccount
<1>7. QED
  BY <1>3, <1>4, <1>5, <1>6, StagedFrame

LEMMA StagedArriveToken ==
  ASSUME Staged, NEW h \in Handlers, NEW t \in keys,
         RefreshFind(h, t) \/ Logout(h, t)
  PROVE  Staged' /\ CodesKept
<1>1. AccountsTypeOK /\ code' = code /\ t \in Token /\ t.user \in Users
  BY DEF Staged, AccountsTypeOK, Token, RefreshFind, Logout, rows
<1>2. CodesOwned' /\ CodesKept
  BY <1>1, SameCodes
<1>3. CASE RefreshFind(h, t)
  <2> DEFINE r == [Idle EXCEPT !.at = "found", !.kind = "refresh",
                               !.user = t.user, !.toks = {t}]
  <2>1. r \in Request
    BY <1>1, BlankTypes DEF Idle, Request, RequestKinds, Stages
  <2>2. ReqStaged(r) /\ r.at = "found" /\ req' = [req EXCEPT ![h] = r]
    BY <1>1, <1>3 DEF RefreshFind, ReqStaged, Idle
  <2>3. req'[h] = r /\ req' \in [Handlers -> Request] /\ \A g \in Handlers : g # h => req'[g] = req[g]
    BY <1>1, <2>1, <2>2, FrameReq DEF AccountsTypeOK
  <2>4. AccountsTypeOK'
    BY <1>1, <1>3, <2>3 DEF AccountsTypeOK, RefreshFind, rows, redis, notes
  <2>5. ReqStaged(req'[h]) /\ ReqCoded(req[h])'
    BY <2>2, <2>3 DEF ReqCoded
  <2>6. QED
    BY <1>2, <2>3, <2>4, <2>5, StagedFrame
<1>4. CASE Logout(h, t)
  <2>1. AccountsTypeOK'
    BY <1>1, <1>4 DEF AccountsTypeOK, Logout, Revoke, rows, notes
  <2>2. ReqStaged(req'[h]) /\ ReqCoded(req[h])' /\ req' = req
    BY <1>1, <1>4 DEF Staged, Logout, ReqStaged, ReqCoded
  <2>3. QED
    BY <1>2, <2>1, <2>2, StagedFrame
<1>5. QED
  BY <1>3, <1>4

LEMMA StagedFindCode ==
  ASSUME Staged, NEW h \in Handlers, NEW kind \in {"verify", "reset"}, NEW d \in Digits,
         FindCode(h, kind, d)
  PROVE  Staged' /\ CodesKept
<1>1. PICK i \in Ids :
        /\ Acceptable(i, kind, d)
        /\ req' = [req EXCEPT ![h] = [Idle EXCEPT !.at = "markUsed", !.kind = kind,
                                                  !.user = code[i].user, !.id = i]]
        /\ UNCHANGED <<rows, redis, notes>>
  BY DEF FindCode
<1>2. AccountsTypeOK /\ code' = code /\ code[i].user \in Users
  BY <1>1 DEF Staged, CodesOwned, Acceptable, rows
<1> DEFINE r == [Idle EXCEPT !.at = "markUsed", !.kind = kind,
                             !.user = code[i].user, !.id = i]
<1>3. r \in Request
  BY <1>2, BlankTypes DEF Idle, Request, RequestKinds, Stages
<1>4. ReqStaged(r) /\ ReqCoded(r)
  BY <1>1, <1>2 DEF ReqStaged, ReqCoded, Acceptable, Idle
<1>5. req'[h] = r /\ req' \in [Handlers -> Request] /\ \A g \in Handlers : g # h => req'[g] = req[g]
  BY <1>1, <1>2, <1>3, FrameReq DEF AccountsTypeOK
<1>6. AccountsTypeOK'
  BY <1>1, <1>2, <1>5 DEF AccountsTypeOK, rows, redis, notes
<1>7. ReqStaged(req'[h]) /\ ReqCoded(req[h])'
  BY <1>2, <1>4, <1>5 DEF ReqCoded
<1>8. QED
  BY <1>2, <1>5, <1>6, <1>7, SameCodes, StagedFrame

\* The steps of a handler that change accounts.
LEMMA StagedAccount ==
  ASSUME Staged, NEW h \in Handlers,
         RegisterInsert(h) \/ ApplyCode(h) \/ ProfileSave(h)
  PROVE  Staged' /\ CodesKept
<1>1. AccountsTypeOK /\ req \in [Handlers -> Request] /\ req[h] \in Request /\ code' = code
  BY DEF Staged, AccountsTypeOK, RegisterInsert, ApplyCode, ProfileSave
<1>2. CodesOwned' /\ CodesKept
  BY <1>1, SameCodes
<1>3. Finish(h) \/ (RegisterInsert(h) /\ GoTo(h, "retire"))
  BY DEF RegisterInsert, ApplyCode, ProfileSave
<1>4. /\ req' \in [Handlers -> Request]
      /\ req'[h] \in {Idle, [req[h] EXCEPT !.at = "retire"]}
      /\ \A g \in Handlers : g # h => req'[g] = req[g]
  BY <1>1, <1>3, GoToFrame, FinishFrame DEF Stages
<1>5. req'[h] = Idle \/ (req'[h] = [req[h] EXCEPT !.at = "retire"] /\ req[h].at = "insert")
  BY <1>1, <1>3, GoToFrame, FinishFrame DEF Stages, RegisterInsert
<1>6. ReqStaged(req'[h]) /\ ReqCoded(req[h])'
  <2>1. CASE req'[h] = Idle
    BY <2>1, IdleStaged DEF ReqStaged, ReqCoded, Idle
  <2>2. CASE req'[h] = [req[h] EXCEPT !.at = "retire"] /\ req[h].at = "insert"
    BY <1>1, <2>2 DEF Staged, ReqStaged, ReqCoded, CodeSenders, Request
  <2>3. QED
    BY <1>5, <2>1, <2>2
<1>7. user' \in [Users -> UserRow] /\ logins' \in [Users -> Nat]
  <2>1. CASE RegisterInsert(h)
    <3> DEFINE new == [state |-> "active", verified |-> FALSE, password |-> "old"]
    <3>1. new \in UserRow
      BY DEF UserRow
    <3>2. \/ user' = user /\ logins' = logins
          \/ /\ user' = [user EXCEPT ![req[h].user] = new]
             /\ logins' = [logins EXCEPT ![req[h].user] = @ + 1]
      BY <2>1 DEF RegisterInsert
    <3>3. QED
      BY <1>1, <3>1, <3>2 DEF AccountsTypeOK
  <2>2. CASE ApplyCode(h)
    <3>1. /\ logins' = logins
          /\ \/ user' = user
             \/ user' = [user EXCEPT ![req[h].user] = [@ EXCEPT !.verified = TRUE]]
             \/ user' = [user EXCEPT ![req[h].user] = [@ EXCEPT !.password = "new"]]
      BY <2>2 DEF ApplyCode, notes
    <3>2. \A r \in UserRow : /\ [r EXCEPT !.verified = TRUE] \in UserRow
                            /\ [r EXCEPT !.password = "new"] \in UserRow
      BY DEF UserRow
    <3>3. QED
      BY <1>1, <3>1, <3>2 DEF AccountsTypeOK
  <2>3. CASE ProfileSave(h)
    <3>1. req[h].ent \in UserRow /\ user[req[h].user] \in UserRow
      BY <1>1, <2>3 DEF Staged, ReqStaged, AccountsTypeOK, ProfileSave, Request
    <3>2. \A p \in {"old", "new", "null"} : [req[h].ent EXCEPT !.password = p] \in UserRow
      BY <3>1 DEF UserRow
    <3>3. QED
      BY <1>1, <2>3, <3>1, <3>2 DEF ProfileSave, AccountsTypeOK, UserRow, notes
  <2>4. QED
    BY <2>1, <2>2, <2>3
<1>8. AccountsTypeOK'
  BY <1>1, <1>4, <1>7 DEF AccountsTypeOK, RegisterInsert, ApplyCode, ProfileSave, redis, notes
<1>9. QED
  BY <1>2, <1>4, <1>6, <1>8, StagedFrame

\* The steps of a handler that change the tokens.
LEMMA StagedToken ==
  ASSUME Staged, NEW h \in Handlers,
         Sign(h) \/ SaveToken(h) \/ RefreshRevoke(h) \/ LogoutAllDelete(h)
  PROVE  Staged' /\ CodesKept
<1>1. AccountsTypeOK /\ req \in [Handlers -> Request] /\ req[h] \in Request /\ code' = code
      /\ ReqStaged(req[h])
  BY DEF Staged, AccountsTypeOK, Sign, SaveToken, RefreshRevoke, LogoutAllDelete, rows
<1>2. CodesOwned' /\ CodesKept
  BY <1>1, SameCodes
<1>3. CASE Sign(h)
  <2> DEFINE r == [req[h] EXCEPT !.at = "save", !.toks = {[user |-> req[h].user, iat |-> now]}]
  <2>1. req' = [req EXCEPT ![h] = r]
    BY <1>1, <1>3 DEF Sign
  <2>2. [user |-> req[h].user, iat |-> now] \in Token /\ now \in 0..MaxTime
    BY <1>1, <1>3 DEF Sign, ReqStaged, Token, AccountsTypeOK
  <2>3. r \in Request
    BY <1>1, <2>2 DEF Request, Stages
  <2>4. ReqStaged(r) /\ r.at = "save"
    BY <1>1, <1>3, <2>2 DEF Sign, ReqStaged, Request
  <2>5. req'[h] = r /\ req' \in [Handlers -> Request] /\ \A g \in Handlers : g # h => req'[g] = req[g]
    BY <1>1, <2>1, <2>3, FrameReq
  <2>6. AccountsTypeOK'
    BY <1>1, <1>3, <2>5 DEF Sign, AccountsTypeOK, rows, redis, notes
  <2>7. ReqStaged(req'[h]) /\ ReqCoded(req[h])'
    BY <2>4, <2>5 DEF ReqCoded
  <2>8. QED
    BY <1>2, <2>5, <2>6, <2>7, StagedFrame
<1>4. CASE SaveToken(h) \/ RefreshRevoke(h) \/ LogoutAllDelete(h)
  <2>1. Finish(h) \/ (RefreshRevoke(h) /\ GoTo(h, "sign"))
    BY <1>4 DEF SaveToken, RefreshRevoke, LogoutAllDelete
  <2>2. /\ req' \in [Handlers -> Request]
        /\ req'[h] = Idle \/ (req'[h] = [req[h] EXCEPT !.at = "sign"] /\ req[h].at = "found")
        /\ \A g \in Handlers : g # h => req'[g] = req[g]
    BY <1>1, <2>1, GoToFrame, FinishFrame DEF Stages, RefreshRevoke
  <2>3. ReqStaged(req'[h]) /\ ReqCoded(req[h])'
    <3>1. CASE req'[h] = Idle
      BY <3>1, IdleStaged DEF ReqStaged, ReqCoded, Idle
    <3>2. CASE req'[h] = [req[h] EXCEPT !.at = "sign"] /\ req[h].at = "found"
      BY <1>1, <3>2 DEF ReqStaged, ReqCoded, TokenGivers, Request
    <3>3. QED
      BY <2>2, <3>1, <3>2
  <2>4. keys' \subseteq Token /\ listed' \in [Users -> SUBSET Token] /\ missed' \subseteq Token
    <3>1. req[h].toks \subseteq Token
      BY <1>1 DEF Request
    <3>2. CASE SaveToken(h)
      BY <1>1, <3>1, <3>2 DEF SaveToken, NoteMissed, AccountsTypeOK
    <3>3. CASE LogoutAllDelete(h)
      BY <1>1, <3>1, <3>3 DEF LogoutAllDelete, AccountsTypeOK
    <3>4. CASE RefreshRevoke(h)
      <4>1. PICK t \in Token : req[h].toks = {t}
        BY <1>1, <3>4 DEF RefreshRevoke, ReqStaged
      <4>2. Revoke(t) \/ UNCHANGED redis
        BY <3>4, <4>1 DEF RefreshRevoke
      <4>3. QED
        BY <1>1, <4>2 DEF Revoke, redis, AccountsTypeOK
    <3>5. QED
      BY <1>4, <3>2, <3>3, <3>4
  <2>5. AccountsTypeOK'
    BY <1>1, <1>4, <2>2, <2>4
       DEF AccountsTypeOK, SaveToken, RefreshRevoke, LogoutAllDelete, rows, notes
  <2>6. QED
    BY <1>2, <2>2, <2>3, <2>5, StagedFrame
<1>5. QED
  BY <1>3, <1>4

\* A step of a handler that leaves the accounts alone and may change the codes.
LEMMA StagedCode ==
  ASSUME Staged, NEW h \in Handlers, Retire(h) \/ InsertCode(h) \/ MarkUsed(h)
  PROVE  Staged' /\ CodesKept
<1>1. AccountsTypeOK /\ req \in [Handlers -> Request] /\ req[h] \in Request
      /\ ReqStaged(req[h]) /\ ReqCoded(req[h]) /\ code \in [Ids -> CodeRow]
  BY DEF Staged, AccountsTypeOK
<1>2. /\ code' \in [Ids -> CodeRow] /\ CodesOwned' /\ CodesKept
      /\ accepted' \subseteq Ids
  <2>1. CASE Retire(h)
    <3>1. \A i \in Ids : [code[i] EXCEPT !.state = "used"] \in CodeRow
      BY <1>1 DEF CodeRow
    <3>2. QED
      BY <1>1, <2>1, <3>1
         DEF Retire, Staged, AccountsTypeOK, CodesOwned, CodesKept, CodeRow, notes
  <2>2. CASE InsertCode(h)
    <3>1. accepted' = accepted /\ req[h].user \in Users
      BY <1>1, <2>2 DEF InsertCode, notes, ReqStaged
    <3>2. CASE code' = code
      BY <1>1, <3>1, <3>2, SameCodes DEF AccountsTypeOK
    <3>3. CASE \E d \in Digits, i \in FreeIds :
                 code' = [code EXCEPT ![i] =
                            [state |-> "unused", user |-> req[h].user,
                             type |-> TypeSent(req[h].kind), digits |-> d,
                             expires |-> now + CodeLife]]
      <4>1. PICK d \in Digits, i \in FreeIds :
              code' = [code EXCEPT ![i] =
                            [state |-> "unused", user |-> req[h].user,
                             type |-> TypeSent(req[h].kind), digits |-> d,
                             expires |-> now + CodeLife]]
        BY <3>3
      <4> DEFINE new == [state |-> "unused", user |-> req[h].user,
                         type |-> TypeSent(req[h].kind), digits |-> d,
                         expires |-> now + CodeLife]
      <4>2. now + CodeLife \in Nat /\ TypeSent(req[h].kind) \in CodeTypes
        BY <1>1, Numbers DEF AccountsTypeOK, TypeSent, CodeTypes
      <4>3. new \in CodeRow
        BY <3>1, <4>2 DEF CodeRow
      <4>4. i \in Ids /\ code[i].state = "none"
        BY DEF FreeIds
      <4>5. code' \in [Ids -> CodeRow]
        BY <1>1, <4>1, <4>3
      <4>6. code'[i] = new /\ \A j \in Ids : j # i => code'[j] = code[j]
        BY <1>1, <4>1, <4>4
      <4>7. CodesOwned' /\ CodesKept
        BY <3>1, <4>4, <4>6 DEF Staged, CodesOwned, CodesKept
      <4>8. QED
        BY <1>1, <3>1, <4>5, <4>7 DEF AccountsTypeOK
    <3>4. QED
      BY <2>2, <3>2, <3>3 DEF InsertCode
  <2>3. CASE MarkUsed(h)
    <3>1. [code[req[h].id] EXCEPT !.state = "used"] \in CodeRow /\ req[h].id \in Ids
      BY <1>1, <2>3 DEF MarkUsed, ReqStaged, CodeRow
    <3>2. \/ code' = code /\ accepted' = accepted
          \/ /\ code' = [code EXCEPT ![req[h].id] = [@ EXCEPT !.state = "used"]]
             /\ accepted' = accepted \cup {req[h].id}
      BY <2>3 DEF MarkUsed
    <3>3. code' \in [Ids -> CodeRow] /\ accepted' \subseteq Ids
      BY <1>1, <3>1, <3>2 DEF AccountsTypeOK
    <3>4. CodesOwned' /\ CodesKept
      BY <1>1, <2>3, <3>1, <3>2 DEF Staged, CodesOwned, CodesKept, CodeRow, ReqCoded, MarkUsed
    <3>5. QED
      BY <3>3, <3>4
  <2>4. QED
    BY <2>1, <2>2, <2>3
<1>3. /\ req' \in [Handlers -> Request]
      /\ \/ req'[h] = Idle
         \/ req'[h] = [req[h] EXCEPT !.at = "insertCode"] /\ req[h].at = "retire"
         \/ req'[h] = [req[h] EXCEPT !.at = "sign"] /\ req[h].kind = "register"
         \/ req'[h] = [req[h] EXCEPT !.at = "apply"] /\ req[h].at = "markUsed"
      /\ \A g \in Handlers : g # h => req'[g] = req[g]
  BY <1>1, GoToFrame, FinishFrame DEF Stages, Retire, InsertCode, MarkUsed
<1>4. ReqStaged(req'[h])
  BY <1>1, <1>3, IdleStaged DEF ReqStaged, Request, CodeSenders, TokenGivers, Retire, InsertCode, MarkUsed
<1>5. ReqCoded(req[h])'
  BY <1>1, <1>2, <1>3, IdleStaged DEF ReqStaged, ReqCoded, CodesKept, Request, Idle
<1>6. crossed' \subseteq Users \X CodeTypes
  <2>1. CASE Retire(h)
    <3>1. <<req[h].user, TypeSent(req[h].kind)>> \in Users \X CodeTypes
      BY <1>1, <2>1 DEF Retire, ReqStaged, TypeSent, CodeTypes
    <3>2. QED
      BY <1>1, <2>1, <3>1 DEF Retire, NoteCrossed, AccountsTypeOK
  <2>2. CASE InsertCode(h) \/ MarkUsed(h)
    BY <1>1, <2>2 DEF InsertCode, MarkUsed, notes, AccountsTypeOK
  <2>3. QED
    BY <2>1, <2>2
<1>7. AccountsTypeOK'
  <2>1. user' = user /\ now' = now /\ logins' = logins /\ UNCHANGED redis
    BY DEF Retire, InsertCode, MarkUsed, notes
  <2>2. QED
    BY <1>1, <1>2, <1>3, <1>6, <2>1 DEF AccountsTypeOK, redis
<1>8. QED
  BY <1>2, <1>3, <1>4, <1>5, <1>7, StagedFrame

LEMMA StagedStep == Staged /\ [Next]_vars => Staged' /\ CodesKept
<1> SUFFICES ASSUME Staged, [Next]_vars
             PROVE  Staged' /\ CodesKept
  OBVIOUS
<1>1. ASSUME NEW h \in Handlers, Arrive(h)
      PROVE  Staged' /\ CodesKept
  BY <1>1, StagedArriveUser, StagedDelete, StagedArriveToken, StagedFindCode DEF Arrive
<1>2. ASSUME NEW h \in Handlers, Continue(h)
      PROVE  Staged' /\ CodesKept
  BY <1>2, StagedAccount, StagedToken, StagedCode DEF Continue
<1>3. CASE Tick \/ UNCHANGED vars
  <2>1. /\ UNCHANGED <<user, code, keys, listed, missed, req, logins, accepted, crossed>>
        /\ now' \in 0..MaxTime
    BY <1>3, Numbers DEF Staged, AccountsTypeOK, Tick, vars, rows, redis
  <2>2. AccountsTypeOK'
    BY <2>1 DEF Staged, AccountsTypeOK
  <2>3. QED
    BY <2>1, <2>2 DEF Staged, CodesOwned, CodesKept, ReqStaged, ReqCoded
<1>4. QED
  BY <1>1, <1>2, <1>3 DEF Next

LEMMA StagedInit == Init => Staged
<1> SUFFICES ASSUME Init
             PROVE  Staged
  OBVIOUS
<1>1. AccountsTypeOK
  BY BlankTypes, Numbers DEF Init, AccountsTypeOK
<1>2. QED
  BY <1>1, IdleStaged DEF Init, Staged, CodesOwned, NoCode, ReqStaged, ReqCoded, Idle

\* Rows, Redis keys and handlers have their types.
THEOREM AccountsTypeCorrect == Spec => []AccountsTypeOK
<1>1. Staged => AccountsTypeOK
  BY DEF Staged
<1>2. QED
  BY <1>1, StagedInit, StagedStep, PTL DEF Spec

\* Every handler is at a stage of its kind, with a code of its user and type.
THEOREM StagesKept == Spec => []Staged
BY StagedInit, StagedStep, PTL DEF Spec

-----------------------------------------------------------------------------
\* The shape of a step: what becomes of the handler that takes it

\* A request entered the service and stands at its first await
Begun(h) ==
  LET r == req'[h]
  IN  /\ req[h].at = "idle" /\ r.user \in Users
      /\ UNCHANGED <<rows, redis, now, accepted, crossed>>
      /\ logins' = IF r.at = "sign" THEN [logins EXCEPT ![r.user] = @ + 1] ELSE logins
      /\ \/ r.at = "insert" /\ r.kind = "register" /\ user[r.user].state = "none"
         \/ r.at = "sign" /\ r.kind = "login" /\ r.toks = {}
         \/ r.at = "revokeAll" /\ r.kind = "logoutAll" /\ r.toks = listed[r.user]
         \/ r.at = "retire" /\ r.kind \in {"requestReset", "resend"}
         \/ /\ r.at = "saveUser" /\ r.kind = "profile"
            /\ user[r.user].state = "active" /\ r.ent = user[r.user]
         \/ /\ r.at = "found" /\ r.kind = "refresh"
            /\ \E t \in keys : r.toks = {t} /\ t.user = r.user
         \/ /\ r.at = "markUsed" /\ r.kind \in {"verify", "reset"}
            /\ r.id \in Ids /\ code[r.id].state = "unused"
            /\ code[r.id].user = r.user /\ code[r.id].type = TypeTaken(r.kind)

\* The stages that follow each other
Follows ==
  {<<"insert", "retire">>, <<"retire", "insertCode">>, <<"insertCode", "sign">>,
   <<"found", "sign">>, <<"sign", "save">>, <<"markUsed", "apply">>}

\* A handler went on to its next await, or is done
Moved(h) ==
  /\ req[h].at # "idle" /\ ReqStaged(req[h]) /\ ReqCoded(req[h])
  /\ \/ req'[h] = Idle
     \/ /\ <<req[h].at, req'[h].at>> \in Follows
        /\ req'[h].kind = req[h].kind /\ req'[h].user = req[h].user
        /\ req'[h].id = req[h].id /\ req'[h].ent = req[h].ent
        /\ req'[h].toks = req[h].toks \/ req'[h].at = "save"

Others(h) == \A g \in Handlers : g # h => req'[g] = req[g]

LEMMA BeganShape ==
  ASSUME Staged, NEW h \in Handlers, NEW kind, NEW u \in Users, NEW stage,
         Begin(h, kind, u, stage)
  PROVE  /\ Others(h) /\ req[h].at = "idle"
         /\ req'[h].at = stage /\ req'[h].kind = kind /\ req'[h].user = u
         /\ req'[h].toks = {}
BY DEF Staged, AccountsTypeOK, Begin, Start, Others, Idle

LEMMA ArriveShape ==
  ASSUME Staged, NEW h \in Handlers, Arrive(h)
  PROVE  /\ Others(h)
         /\ \/ Begun(h)
            \/ req' = req /\ \E u \in Users : DeleteAccount(h, u)
            \/ req' = req /\ \E t \in keys : Logout(h, t)
<1>1. req \in [Handlers -> Request] /\ AccountsTypeOK
  BY DEF Staged, AccountsTypeOK
<1>2. ASSUME NEW u \in Users, RegisterCheck(h, u)
      PROVE  Begun(h) /\ Others(h)
  <2>1. Begin(h, "register", u, "insert")
    BY <1>2 DEF RegisterCheck
  <2>2. /\ Others(h) /\ req[h].at = "idle" /\ req'[h].toks = {}
        /\ req'[h].at = "insert" /\ req'[h].kind = "register" /\ req'[h].user = u
    BY <2>1, BeganShape
  <2>3. QED
    BY <1>2, <2>2 DEF RegisterCheck, Begun, notes
<1>3. ASSUME NEW u \in Users, NEW p \in {"old", "new"}, Login(h, u, p)
      PROVE  Begun(h) /\ Others(h)
  <2>1. Begin(h, "login", u, "sign")
    BY <1>3 DEF Login
  <2>2. /\ Others(h) /\ req[h].at = "idle" /\ req'[h].toks = {}
        /\ req'[h].at = "sign" /\ req'[h].kind = "login" /\ req'[h].user = u
    BY <2>1, BeganShape
  <2>3. QED
    BY <1>3, <2>2 DEF Login, Begun
<1>4. ASSUME NEW u \in Users, NEW kind \in {"requestReset", "resend"}, SendCode(h, kind, u)
      PROVE  Begun(h) /\ Others(h)
  <2>1. Begin(h, kind, u, "retire")
    BY <1>4 DEF SendCode
  <2>2. /\ Others(h) /\ req[h].at = "idle" /\ req'[h].toks = {}
        /\ req'[h].at = "retire" /\ req'[h].kind = kind /\ req'[h].user = u
    BY <2>1, BeganShape
  <2>3. QED
    BY <1>4, <2>2 DEF SendCode, Begun, notes
<1>5. ASSUME NEW u \in Users, LogoutAllRead(h, u)
      PROVE  Begun(h) /\ Others(h)
  <2>1. /\ Others(h) /\ req'[h].at = "revokeAll" /\ req'[h].kind = "logoutAll"
        /\ req'[h].user = u /\ req'[h].toks = listed[u]
    BY <1>1, <1>5 DEF LogoutAllRead, Others, Idle
  <2>2. QED
    BY <1>5, <2>1 DEF LogoutAllRead, Start, Begun, notes
<1>6. ASSUME NEW u \in Users, ProfileLoad(h, u)
      PROVE  Begun(h) /\ Others(h)
  <2>1. /\ Others(h) /\ req'[h].at = "saveUser" /\ req'[h].kind = "profile"
        /\ req'[h].user = u /\ req'[h].ent = user[u]
    BY <1>1, <1>6 DEF ProfileLoad, Others, Idle
  <2>2. QED
    BY <1>6, <2>1 DEF ProfileLoad, Start, Begun, notes
<1>7. ASSUME NEW t \in keys, RefreshFind(h, t)
      PROVE  Begun(h) /\ Others(h)
  <2>1. /\ Others(h) /\ req'[h].at = "found" /\ req'[h].kind = "refresh"
        /\ req'[h].user = t.user /\ req'[h].toks = {t}
    BY <1>1, <1>7 DEF RefreshFind, Others, Idle
  <2>2. t.user \in Users
    BY <1>1 DEF AccountsTypeOK, Token
  <2>3. QED
    BY <1>7, <2>1, <2>2 DEF RefreshFind, Start, Begun, notes
<1>8. ASSUME NEW kind \in {"verify", "reset"}, NEW d \in Digits, FindCode(h, kind, d)
      PROVE  Begun(h) /\ Others(h)
  <2>1. PICK i \in Ids :
          /\ Acceptable(i, kind, d) /\ Start(h, kind)
          /\ req' = [req EXCEPT ![h] = [Idle EXCEPT !.at = "markUsed", !.kind = kind,
                                                    !.user = code[i].user, !.id = i]]
          /\ UNCHANGED <<rows, redis, notes>>
    BY <1>8 DEF FindCode
  <2>2. /\ Others(h) /\ req'[h].at = "markUsed" /\ req'[h].kind = kind
        /\ req'[h].user = code[i].user /\ req'[h].id = i
    BY <1>1, <2>1 DEF Others, Idle
  <2>3. code[i].user \in Users
    BY <2>1 DEF Staged, CodesOwned, Acceptable
  <2>4. QED
    BY <2>1, <2>2, <2>3 DEF Acceptable, Start, Begun, notes
<1>9. ASSUME NEW u \in Users, DeleteAccount(h, u)
      PROVE  req' = req
  BY <1>9 DEF DeleteAccount
<1>10. ASSUME NEW t \in keys, Logout(h, t)
       PROVE  req' = req
  BY <1>10 DEF Logout
<1>11. req' = req => Others(h)
  BY DEF Others
<1>12. QED
  BY <1>2, <1>3, <1>4, <1>5, <1>6, <1>7, <1>8, <1>9, <1>10, <1>11 DEF Arrive

LEMMA ContinueShape ==
  ASSUME Staged, NEW h \in Handlers, Continue(h)
  PROVE  Others(h) /\ Moved(h)
<1>1. req \in [Handlers -> Request] /\ req[h] \in Request
      /\ ReqStaged(req[h]) /\ ReqCoded(req[h])
  BY DEF Staged, AccountsTypeOK
<1>2. CASE Finish(h) /\ req[h].at # "idle"
  BY <1>1, <1>2, FinishFrame DEF Others, Moved
<1>3. ASSUME NEW stage \in Stages, GoTo(h, stage), <<req[h].at, stage>> \in Follows
      PROVE  Others(h) /\ Moved(h)
  <2>1. Others(h)
    BY <1>1, <1>3, GoToFrame DEF Others
  <2>2. /\ req'[h].at = stage /\ req'[h].kind = req[h].kind /\ req'[h].user = req[h].user
        /\ req'[h].id = req[h].id /\ req'[h].ent = req[h].ent /\ req'[h].toks = req[h].toks
    BY <1>1, <1>3, GoToFields
  <2>3. req[h].at # "idle"
    BY <1>3 DEF Follows
  <2>4. QED
    BY <1>1, <1>3, <2>1, <2>2, <2>3 DEF Moved
<1>4. CASE Sign(h)
  <2>1. Others(h) /\ req[h].at = "sign" /\ req'[h].at = "save"
        /\ req'[h].kind = req[h].kind /\ req'[h].user = req[h].user
        /\ req'[h].id = req[h].id /\ req'[h].ent = req[h].ent
    BY <1>1, <1>4 DEF Sign, Others, Request
  <2>2. QED
    BY <1>1, <2>1 DEF Moved, Follows
<1>5. CASE RegisterInsert(h)
  BY <1>2, <1>3, <1>5 DEF RegisterInsert, Follows, Stages
<1>6. CASE RefreshRevoke(h)
  BY <1>2, <1>3, <1>6 DEF RefreshRevoke, Follows, Stages
<1>7. CASE Retire(h)
  BY <1>3, <1>7 DEF Retire, Follows, Stages
<1>8. CASE InsertCode(h)
  BY <1>2, <1>3, <1>8 DEF InsertCode, Follows, Stages
<1>9. CASE MarkUsed(h)
  BY <1>2, <1>3, <1>9 DEF MarkUsed, Follows, Stages
<1>10. CASE SaveToken(h) \/ LogoutAllDelete(h) \/ ApplyCode(h) \/ ProfileSave(h)
  BY <1>2, <1>10 DEF SaveToken, LogoutAllDelete, ApplyCode, ProfileSave
<1>11. QED
  BY <1>4, <1>5, <1>6, <1>7, <1>8, <1>9, <1>10 DEF Continue

\* Every step has one of these shapes.
LEMMA StepShape ==
  ASSUME Staged, [Next]_vars
  PROVE  \/ UNCHANGED <<user, code, keys, listed, missed, req, logins, accepted, crossed>>
         \/ \E h \in Handlers :
              /\ Others(h)
              /\ \/ Begun(h)
                 \/ req' = req /\ \E u \in Users : DeleteAccount(h, u)
                 \/ req' = req /\ \E t \in keys : Logout(h, t)
                 \/ Continue(h) /\ Moved(h)
<1>1. CASE Tick \/ UNCHANGED vars
  BY <1>1 DEF Tick, vars, rows, redis
<1>2. ASSUME NEW h \in Handlers, Arrive(h)
      PROVE  /\ Others(h)
             /\ \/ Begun(h)
                \/ req' = req /\ \E u \in Users : DeleteAccount(h, u)
                \/ req' = req /\ \E t \in keys : Logout(h, t)
  BY <1>2, ArriveShape
<1>3. ASSUME NEW h \in Handlers, Continue(h)
      PROVE  Others(h) /\ Continue(h) /\ Moved(h)
  BY <1>3, ContinueShape
<1>4. QED
  BY <1>1, <1>2, <1>3 DEF Next

-----------------------------------------------------------------------------
\* ProvenByCode: whatever is verified or replaced rests on an accepted code

\* A code of this type was sent to the account and accepted
Shown(u, type) ==
  \E i \in Ids : /\ code[i].state # "none" /\ i \in accepted
                 /\ code[i].user = u /\ code[i].type = type

\* The row of the account, and the row a profile request will save over it
UserProven(u) ==
  /\ user[u].verified => Shown(u, "email")
  /\ user[u].password = "new" => Shown(u, "reset")
ReqProven(r) ==
  /\ r.at = "apply" => r.id \in accepted
  /\ r.at = "saveUser" /\ r.ent.verified => Shown(r.user, "email")

ProvenInv ==
  /\ \A u \in Users : UserProven(u)
  /\ \A h \in Handlers : ReqProven(req[h])

\* A code that was accepted stays so.
LEMMA AcceptedGrows ==
  ASSUME Staged, [Next]_vars
  PROVE  accepted \subseteq accepted'
<1>2. ASSUME NEW h \in Handlers, MarkUsed(h)
      PROVE  accepted \subseteq accepted'
  BY <1>2 DEF MarkUsed
<1>3. ASSUME NEW h \in Handlers, Continue(h), ~MarkUsed(h)
      PROVE  accepted' = accepted
  BY <1>3 DEF Continue, notes, RegisterInsert, Sign, SaveToken, RefreshRevoke, LogoutAllDelete,
              Retire, InsertCode, ApplyCode, ProfileSave
<1>4. ASSUME NEW h \in Handlers,
             \/ Begun(h)
             \/ \E u \in Users : DeleteAccount(h, u)
             \/ \E t \in keys : Logout(h, t)
      PROVE  accepted' = accepted
  BY <1>4 DEF Begun, DeleteAccount, Logout, notes
<1>5. QED
  BY <1>2, <1>3, <1>4, StepShape

\* What a code showed, it shows for good.
LEMMA ShownStays ==
  ASSUME Staged, [Next]_vars, NEW u, NEW type, Shown(u, type)
  PROVE  Shown(u, type)'
<1>1. Staged' /\ CodesKept
  BY StagedStep
<1>2. accepted \subseteq accepted'
  BY AcceptedGrows
<1>4. QED
  BY <1>1, <1>2 DEF Shown, CodesKept

\* A request that did not change is as proven as before.
LEMMA ReqProvenFrame ==
  ASSUME Staged, [Next]_vars, NEW g \in Handlers, req'[g] = req[g], ReqProven(req[g])
  PROVE  ReqProven(req[g])'
<1>3. req[g].at = "apply" => req[g].id \in accepted'
  BY AcceptedGrows DEF ReqProven
<1>4. ASSUME NEW u, u = req[g].user, Shown(u, "email")
      PROVE  Shown(req[g].user, "email")'
  BY <1>4, ShownStays DEF Shown
<1>5. req[g].at = "saveUser" /\ req[g].ent.verified => Shown(req[g].user, "email")'
  BY <1>4 DEF ReqProven
<1>6. QED
  BY <1>3, <1>5 DEF ReqProven

\* A row that did not change is as proven as before.
LEMMA UserProvenFrame ==
  ASSUME Staged, [Next]_vars, NEW u \in Users, UserProven(u),
         user'[u].verified => user[u].verified,
         user'[u].password = "new" => user[u].password = "new"
  PROVE  UserProven(u)'
BY ShownStays DEF UserProven

LEMMA ProvenStep == Staged /\ ProvenInv /\ [Next]_vars => ProvenInv'
<1> SUFFICES ASSUME Staged, ProvenInv, [Next]_vars
             PROVE  ProvenInv'
  OBVIOUS
<1>1. Staged' /\ CodesKept
  BY StagedStep
<1>2. req \in [Handlers -> Request] /\ user \in [Users -> UserRow] /\ AccountsTypeOK
  BY DEF Staged, AccountsTypeOK
<1>3. ASSUME user' = user
      PROVE  \A u \in Users : UserProven(u)'
  BY <1>3, UserProvenFrame DEF ProvenInv
<1>4. ASSUME req' = req
      PROVE  \A g \in Handlers : ReqProven(req[g])'
  BY <1>4, ReqProvenFrame DEF ProvenInv
<1>5. ASSUME NEW h \in Handlers, Others(h), ReqProven(req[h])'
      PROVE  \A g \in Handlers : ReqProven(req[g])'
  BY <1>5, ReqProvenFrame DEF ProvenInv, Others
<1>6. ASSUME NEW h \in Handlers, Others(h), req'[h].at \notin {"apply", "saveUser"}
      PROVE  \A g \in Handlers : ReqProven(req[g])'
  BY <1>5, <1>6 DEF ReqProven
<1>7. CASE UNCHANGED <<user, code, keys, listed, missed, req, logins, accepted, crossed>>
  BY <1>3, <1>4, <1>7 DEF ProvenInv
<1>8. ASSUME NEW h \in Handlers, Others(h), Begun(h)
      PROVE  ProvenInv'
  <2>1. user' = user
    BY <1>8 DEF Begun, rows
  <2>2. CASE req'[h].at = "saveUser"
    <3>1. req'[h].user \in Users /\ req'[h].ent = user[req'[h].user]
      BY <1>8, <2>2 DEF Begun
    <3>2. ASSUME NEW u \in Users, u = req'[h].user
          PROVE  ReqProven(req[h])'
      BY <2>2, <3>1, <3>2, ShownStays DEF ProvenInv, UserProven, ReqProven
    <3>3. QED
      BY <1>3, <1>5, <1>8, <2>1, <3>1, <3>2 DEF ProvenInv
  <2>3. CASE req'[h].at # "saveUser"
    <3>1. req'[h].at # "apply"
      BY <1>8 DEF Begun
    <3>2. QED
      BY <1>3, <1>6, <1>8, <2>1, <2>3, <3>1 DEF ProvenInv
  <2>4. QED
    BY <2>2, <2>3
<1>9. ASSUME NEW h \in Handlers, NEW u \in Users, DeleteAccount(h, u)
      PROVE  ProvenInv'
  <2>1. req' = req /\ user' = [user EXCEPT ![u] = [NoUser EXCEPT !.state = "deleted"]]
    BY <1>9 DEF DeleteAccount
  <2>2. \A v \in Users : UserProven(v)'
    BY <1>2, <2>1, UserProvenFrame DEF ProvenInv, NoUser
  <2>3. QED
    BY <1>4, <2>1, <2>2 DEF ProvenInv
<1>10. ASSUME NEW h \in Handlers, NEW t \in keys, Logout(h, t)
       PROVE  ProvenInv'
  BY <1>3, <1>4, <1>10 DEF Logout, rows, ProvenInv
<1>11. ASSUME NEW h \in Handlers, Others(h), Continue(h), Moved(h)
       PROVE  ProvenInv'
  <2> /\ req[h] \in Request /\ ReqStaged(req[h]) /\ ReqCoded(req[h]) /\ ReqProven(req[h])
    BY <1>2 DEF Staged, ProvenInv
  <2>1. CASE RegisterInsert(h)
    <3>1. user' = user \/ user' = [user EXCEPT ![req[h].user] =
                                   [state |-> "active", verified |-> FALSE, password |-> "old"]]
      BY <2>1 DEF RegisterInsert
    <3>2. \A u \in Users : UserProven(u)'
      BY <1>2, <3>1, UserProvenFrame DEF ProvenInv
    <3>3. req'[h].at \notin {"apply", "saveUser"}
      BY <1>11, <2>1 DEF Moved, Follows, RegisterInsert, Idle
    <3>4. QED
      BY <1>6, <1>11, <3>2, <3>3 DEF ProvenInv
  <2>2. CASE Sign(h) \/ SaveToken(h) \/ RefreshRevoke(h) \/ LogoutAllDelete(h)
              \/ Retire(h) \/ InsertCode(h)
    <3>1. user' = user /\ req[h].at # "markUsed"
      BY <2>2 DEF Sign, SaveToken, RefreshRevoke, LogoutAllDelete, Retire, InsertCode, rows
    <3>2. req'[h].at \notin {"apply", "saveUser"}
      BY <1>11, <3>1 DEF Moved, Follows, Idle
    <3>3. QED
      BY <1>3, <1>6, <1>11, <3>1, <3>2 DEF ProvenInv
  <2>3. CASE MarkUsed(h)
    <3>1. user' = user
      BY <2>3 DEF MarkUsed
    <3>2. /\ req[h].id \in Ids
          /\ \/ req'[h] = Idle
             \/ /\ req'[h].at = "apply" /\ req'[h].id = req[h].id
                /\ accepted' = accepted \cup {req[h].id}
      BY <1>2, <1>11, <2>3, GoToFrame, FinishFrame
         DEF MarkUsed, ReqStaged, Moved, Follows, Stages
    <3>3. ReqProven(req[h])'
      BY <1>2, <3>2 DEF ReqProven, Idle, AccountsTypeOK
    <3>4. QED
      BY <1>3, <1>5, <1>11, <3>1, <3>3 DEF ProvenInv
  <2>4. CASE ApplyCode(h) \/ ProfileSave(h)
    <3>1. Finish(h) /\ req[h].user \in Users
      BY <2>4 DEF ApplyCode, ProfileSave, ReqStaged
    <3>2. req'[h].at \notin {"apply", "saveUser"}
      BY <1>2, <3>1, FinishFrame DEF Idle
    <3>3. PICK u \in Users : u = req[h].user
      BY <3>1
    <3>4. UserProven(u)'
      <4>1. CASE user' = user
        BY <1>3, <4>1
      <4>2. CASE ApplyCode(h) /\ user' # user
        <5>1. /\ req[h].at = "apply" /\ req[h].id \in Ids
              /\ \/ req[h].kind = "verify" /\ user' = [user EXCEPT ![u].verified = TRUE]
                 \/ req[h].kind = "reset" /\ user' = [user EXCEPT ![u].password = "new"]
          BY <3>3, <4>2 DEF ApplyCode, ReqStaged
        <5>2. Shown(u, TypeTaken(req[h].kind))
          BY <3>3, <5>1 DEF ReqCoded, ReqProven, Shown
        <5>3. CASE req[h].kind = "verify" /\ user' = [user EXCEPT ![u].verified = TRUE]
          <6>1. user'[u].password = user[u].password /\ Shown(u, "email")
            BY <1>2, <5>2, <5>3 DEF TypeTaken, UserRow
          <6>2. QED
            BY <6>1, ShownStays DEF ProvenInv, UserProven
        <5>4. CASE req[h].kind = "reset" /\ user' = [user EXCEPT ![u].password = "new"]
          <6>1. user'[u].verified = user[u].verified /\ Shown(u, "reset")
            BY <1>2, <5>2, <5>4 DEF TypeTaken, UserRow
          <6>2. QED
            BY <6>1, ShownStays DEF ProvenInv, UserProven
        <5>5. QED
          BY <5>1, <5>3, <5>4
      <4>3. CASE ProfileSave(h) /\ user' # user
        <5>1. PICK p \in {user[u].password, "null"} :
                user' = [user EXCEPT ![u] = [req[h].ent EXCEPT !.password = p]]
          BY <3>3, <4>3 DEF ProfileSave
        <5>2. user'[u].verified = req[h].ent.verified /\ user'[u].password = p
          BY <1>2, <5>1 DEF Request, UserRow
        <5>3. user'[u].verified => Shown(u, "email")
          BY <3>3, <4>3, <5>2 DEF ReqProven, ProfileSave
        <5>4. user'[u].password = "new" => Shown(u, "reset")
          BY <5>1, <5>2 DEF ProvenInv, UserProven
        <5>5. QED
          BY <5>3, <5>4, ShownStays DEF UserProven
      <4>4. QED
        BY <2>4, <4>1, <4>2, <4>3
    <3>5. ASSUME NEW v \in Users, v # u
          PROVE  UserProven(v)'
      <4>1. user'[v] = user[v]
        BY <1>2, <2>4, <3>3, <3>5 DEF ApplyCode, ProfileSave
      <4>2. QED
        BY <4>1, UserProvenFrame DEF ProvenInv
    <3>6. QED
      BY <1>6, <1>11, <3>2, <3>4, <3>5 DEF ProvenInv
  <2>5. QED
    BY <1>11, <2>1, <2>2, <2>3, <2>4 DEF Continue
<1>12. QED
  BY <1>7, <1>8, <1>9, <1>10, <1>11, StepShape

LEMMA ProvenInit == Init => ProvenInv
BY DEF Init, ProvenInv, UserProven, ReqProven, NoUser, Idle

\* An address is proved and a password replaced only by a code of the right
\* type that was sent to that account and accepted, however the requests
\* overlap.
THEOREM CodesProve == Spec => []ProvenByCode
<1>1. ProvenInv => ProvenByCode
  BY DEF ProvenInv, UserProven, Shown, ProvenByCode
<1>2. QED
  BY <1>1, StagedInit, StagedStep, ProvenInit, ProvenStep, PTL DEF Spec

-----------------------------------------------------------------------------
\* CodeUsedUp: a code that is used up stays so, and nobody new finds it

LEMMA UsedUpStep ==
  ASSUME Staged, [Next]_vars, NEW i \in Ids, code[i].state \in {"used", "deleted"}
  PROVE  /\ code'[i].state \in {"used", "deleted"}
         /\ Holders(i)' \subseteq Holders(i)
         /\ i \in accepted' \ accepted => Holders(i)' # Holders(i)
<1>1. /\ code \in [Ids -> CodeRow]
      /\ \A h \in Handlers : ReqStaged(req[h])
  BY DEF Staged, AccountsTypeOK
<1>2. CASE UNCHANGED <<user, code, keys, listed, missed, req, logins, accepted, crossed>>
  BY <1>2 DEF Holders
<1>3. ASSUME NEW h \in Handlers, Others(h), Begun(h)
      PROVE  code' = code /\ accepted' = accepted /\ Holders(i)' \subseteq Holders(i)
  <2>1. code' = code /\ accepted' = accepted /\ ~(req'[h].at = "markUsed" /\ req'[h].id = i)
    BY <1>3 DEF Begun, rows
  <2>2. QED
    BY <1>3, <2>1 DEF Holders, Others
<1>4. ASSUME NEW h \in Handlers, NEW u \in Users, DeleteAccount(h, u)
      PROVE  /\ code'[i].state \in {"used", "deleted"} /\ accepted' = accepted
             /\ Holders(i)' = Holders(i)
  BY <1>1, <1>4 DEF DeleteAccount, CodeRow, notes, Holders
<1>5. ASSUME NEW h \in Handlers, NEW t \in keys, Logout(h, t)
      PROVE  code' = code /\ accepted' = accepted /\ Holders(i)' = Holders(i)
  BY <1>5 DEF Logout, rows, notes, Holders
<1>6. ASSUME NEW h \in Handlers, Others(h), Continue(h), Moved(h)
      PROVE  /\ code'[i].state \in {"used", "deleted"}
             /\ Holders(i)' \subseteq Holders(i)
             /\ i \in accepted' \ accepted => Holders(i)' # Holders(i)
  <2>1. req'[h].at # "markUsed"
    BY <1>6 DEF Moved, Follows, Idle
  <2>2. h \notin Holders(i)' /\ Holders(i)' \subseteq Holders(i)
    BY <1>6, <2>1 DEF Holders, Others
  <2>3. CASE MarkUsed(h)
    <3>1. /\ req[h].at = "markUsed" /\ req[h].id \in Ids
          /\ accepted' = accepted \/ accepted' = accepted \cup {req[h].id}
          /\ code' = code \/ code' = [code EXCEPT ![req[h].id] = [@ EXCEPT !.state = "used"]]
      BY <1>1, <2>3 DEF MarkUsed, ReqStaged
    <3>2. i \in accepted' \ accepted => h \in Holders(i)
      BY <3>1 DEF Holders
    <3>3. code'[i].state \in {"used", "deleted"}
      BY <1>1, <3>1 DEF CodeRow
    <3>4. QED
      BY <2>2, <3>2, <3>3
  <2>4. CASE InsertCode(h) \/ Retire(h)
    <3>1. code'[i] = code[i] /\ accepted' = accepted
      BY <1>1, <2>4 DEF InsertCode, FreeIds, Retire, notes
    <3>2. QED
      BY <2>2, <3>1
  <2>5. CASE RegisterInsert(h) \/ Sign(h) \/ SaveToken(h) \/ RefreshRevoke(h)
             \/ LogoutAllDelete(h) \/ ApplyCode(h) \/ ProfileSave(h)
    <3>1. code' = code /\ accepted' = accepted
      BY <2>5 DEF RegisterInsert, Sign, SaveToken, RefreshRevoke, LogoutAllDelete, ApplyCode,
                  ProfileSave, rows, notes
    <3>2. QED
      BY <2>2, <3>1
  <2>6. QED
    BY <1>6, <2>3, <2>4, <2>5 DEF Continue
<1>7. QED
  BY <1>2, <1>3, <1>4, <1>5, <1>6, StepShape

\* A code that was accepted, retired or lost with its account is good for
\* nobody who comes later, however the requests overlap: only those that had
\* found it before may still be accepted.
THEOREM CodesUsedUp == Spec => CodeUsedUp
<1>1. Staged /\ [Next]_vars =>
        [\A i \in Ids : code[i].state \in {"used", "deleted"} =>
           /\ code'[i].state \in {"used", "deleted"}
           /\ Holders(i)' \subseteq Holders(i)
           /\ i \in accepted' \ accepted => Holders(i)' # Holders(i)]_vars
  BY UsedUpStep
<1>2. QED
  BY <1>1, StagedInit, StagedStep, PTL DEF Spec, CodeUsedUp

-----------------------------------------------------------------------------
\* OneUsableCode: unless the senders of two codes of a type overlapped, who is
\* about to insert one is alone, and no other is left

UnusedOf(i, u, type) == code[i].state = "unused" /\ code[i].user = u /\ code[i].type = type

PairInv(u, type) ==
  <<u, type>> \notin crossed =>
    /\ \A i, j \in Ids : UnusedOf(i, u, type) /\ UnusedOf(j, u, type) => i = j
    /\ \A h \in Handlers, i \in Ids : InsertsNext(h, u, type) => ~UnusedOf(i, u, type)
    /\ \A g, h \in Handlers : InsertsNext(g, u, type) /\ InsertsNext(h, u, type) => g = h

OneCodeInv == \A u \in Users, type \in CodeTypes : PairInv(u, type)

\* Codes that stop being usable and senders that stop are not in the way.
LEMMA PairFrame ==
  ASSUME NEW u, NEW type, PairInv(u, type), <<u, type>> \in crossed => <<u, type>> \in crossed',
         \A i \in Ids : UnusedOf(i, u, type)' => UnusedOf(i, u, type),
         \A h \in Handlers : InsertsNext(h, u, type)' => InsertsNext(h, u, type)
  PROVE  PairInv(u, type)'
BY DEF PairInv

LEMMA PairStep ==
  ASSUME Staged, [Next]_vars, NEW u \in Users, NEW type \in CodeTypes, PairInv(u, type)
  PROVE  PairInv(u, type)'
<1>1. /\ code \in [Ids -> CodeRow] /\ req \in [Handlers -> Request]
      /\ \A h \in Handlers : ReqStaged(req[h]) /\ req[h] \in Request
  BY DEF Staged, AccountsTypeOK
<1>2. CASE UNCHANGED <<user, code, keys, listed, missed, req, logins, accepted, crossed>>
  BY <1>2, PairFrame DEF UnusedOf, InsertsNext
<1>3. ASSUME NEW h \in Handlers, Others(h), Begun(h)
      PROVE  PairInv(u, type)'
  <2>1. code' = code /\ crossed' = crossed /\ req'[h].at # "insertCode"
    BY <1>3 DEF Begun, rows
  <2>2. \A g \in Handlers : InsertsNext(g, u, type)' => InsertsNext(g, u, type)
    BY <1>3, <2>1 DEF InsertsNext, Others
  <2>3. QED
    BY <2>1, <2>2, PairFrame DEF UnusedOf
<1>4. ASSUME NEW h \in Handlers, NEW v \in Users, DeleteAccount(h, v)
      PROVE  PairInv(u, type)'
  <2>1. /\ req' = req /\ crossed' = crossed
        /\ \A i \in Ids : code'[i].state = "unused" => code'[i] = code[i]
    BY <1>1, <1>4 DEF DeleteAccount, CodeRow, notes
  <2>2. QED
    BY <2>1, PairFrame DEF UnusedOf, InsertsNext
<1>5. ASSUME NEW h \in Handlers, NEW t \in keys, Logout(h, t)
      PROVE  PairInv(u, type)'
  BY <1>5, PairFrame DEF Logout, rows, notes, UnusedOf, InsertsNext
<1>6. ASSUME NEW h \in Handlers, Others(h), Continue(h), Moved(h)
      PROVE  PairInv(u, type)'
  <2>1. CASE Retire(h)
    <3>1. /\ req[h].at = "retire" /\ req'[h].at = "insertCode"
          /\ req'[h].kind = req[h].kind /\ req'[h].user = req[h].user
      BY <1>1, <2>1, GoToFields DEF Retire, Stages
    <3>2. \A i \in Ids : /\ code'[i].state = "unused" => code'[i] = code[i]
                         /\ code'[i].state = "unused" /\ code'[i].user = req[h].user
                              => code'[i].type # TypeSent(req[h].kind)
      BY <1>1, <2>1 DEF Retire, CodeRow
    <3>3. CASE req[h].user = u /\ TypeSent(req[h].kind) = type
      <4>1. <<u, type>> \notin crossed' => \A g \in Handlers : ~InsertsNext(g, u, type)
        BY <2>1, <3>3 DEF Retire, NoteCrossed
      <4>2. \A i \in Ids : ~UnusedOf(i, u, type)'
        BY <3>2, <3>3 DEF UnusedOf
      <4>3. \A g \in Handlers : g # h => (InsertsNext(g, u, type)' => InsertsNext(g, u, type))
        BY <1>6 DEF InsertsNext, Others
      <4>4. QED
        BY <4>1, <4>2, <4>3 DEF PairInv
    <3>4. CASE ~(req[h].user = u /\ TypeSent(req[h].kind) = type)
      <4>1. <<u, type>> \in crossed => <<u, type>> \in crossed'
        BY <2>1, <3>4 DEF Retire, NoteCrossed
      <4>2. \A g \in Handlers : InsertsNext(g, u, type)' => InsertsNext(g, u, type)
        <5>1. TypeSent(req'[h].kind) = TypeSent(req[h].kind)
          BY <3>1
        <5>2. ~(req'[h].user = u /\ TypeSent(req'[h].kind) = type)
          BY <3>1, <3>4, <5>1
        <5>3. QED
          BY <1>6, <5>2 DEF InsertsNext, Others, TypeSent
      <4>3. QED
        BY <3>2, <4>1, <4>2, PairFrame DEF UnusedOf
    <3>5. QED
      BY <3>3, <3>4
  <2>2. CASE InsertCode(h)
    <3>1. /\ req[h].at = "insertCode" /\ req'[h].at # "insertCode" /\ crossed' = crossed
      BY <1>6, <2>2 DEF InsertCode, Moved, Follows, Idle, notes
    <3>2. /\ ~InsertsNext(h, u, type)'
          /\ \A g \in Handlers : InsertsNext(g, u, type)' => InsertsNext(g, u, type)
      BY <1>6, <3>1 DEF InsertsNext, Others
    <3>3. CASE code' = code
      BY <3>1, <3>2, <3>3, PairFrame DEF UnusedOf
    <3>4. CASE code' # code
      <4>1. PICK d \in Digits, k \in FreeIds :
              code' = [code EXCEPT ![k] =
                         [state |-> "unused", user |-> req[h].user,
                          type |-> TypeSent(req[h].kind), digits |-> d,
                          expires |-> now + CodeLife]]
        BY <2>2, <3>4 DEF InsertCode
      <4>2. /\ k \in Ids /\ code'[k].user = req[h].user /\ code'[k].type = TypeSent(req[h].kind)
            /\ \A i \in Ids : i # k => code'[i] = code[i]
        BY <1>1, <4>1 DEF FreeIds
      <4>3. CASE InsertsNext(h, u, type)
        <5>1. <<u, type>> \notin crossed' =>
                /\ \A i \in Ids : ~UnusedOf(i, u, type)
                /\ \A g \in Handlers : InsertsNext(g, u, type) => g = h
          BY <3>1, <4>3 DEF PairInv
        <5>2. \A i \in Ids : UnusedOf(i, u, type)' => i = k \/ UnusedOf(i, u, type)
          BY <4>2 DEF UnusedOf
        <5>3. QED
          BY <3>2, <5>1, <5>2 DEF PairInv
      <4>4. CASE ~InsertsNext(h, u, type)
        <5>1. ~UnusedOf(k, u, type)'
          BY <3>1, <4>2, <4>4 DEF UnusedOf, InsertsNext
        <5>2. \A i \in Ids : UnusedOf(i, u, type)' => UnusedOf(i, u, type)
          BY <4>2, <5>1 DEF UnusedOf
        <5>3. QED
          BY <3>1, <3>2, <5>2, PairFrame
      <4>5. QED
        BY <4>3, <4>4
    <3>5. QED
      BY <3>3, <3>4
  <2>3. CASE MarkUsed(h)
    <3>1. /\ crossed' = crossed /\ req[h].at = "markUsed"
          /\ \/ code' = code
             \/ code' = [code EXCEPT ![req[h].id] = [@ EXCEPT !.state = "used"]]
      BY <2>3 DEF MarkUsed
    <3>2. \A i \in Ids : code'[i].state = "unused" => code'[i] = code[i]
      BY <1>1, <3>1 DEF CodeRow
    <3>3. \A g \in Handlers : InsertsNext(g, u, type)' => InsertsNext(g, u, type)
      BY <1>6, <3>1 DEF InsertsNext, Others, Moved, Follows, Idle
    <3>4. QED
      BY <3>1, <3>2, <3>3, PairFrame DEF UnusedOf
  <2>4. CASE RegisterInsert(h) \/ Sign(h) \/ SaveToken(h) \/ RefreshRevoke(h)
             \/ LogoutAllDelete(h) \/ ApplyCode(h) \/ ProfileSave(h)
    <3>1. code' = code /\ crossed' = crossed /\ req[h].at # "retire"
      BY <2>4 DEF RegisterInsert, Sign, SaveToken, RefreshRevoke, LogoutAllDelete, ApplyCode,
                  ProfileSave, rows, notes
    <3>2. \A g \in Handlers : InsertsNext(g, u, type)' => InsertsNext(g, u, type)
      BY <1>6, <3>1 DEF InsertsNext, Others, Moved, Follows, Idle
    <3>3. QED
      BY <3>1, <3>2, PairFrame DEF UnusedOf
  <2>5. QED
    BY <1>6, <2>1, <2>2, <2>3, <2>4 DEF Continue
<1>7. QED
  BY <1>2, <1>3, <1>4, <1>5, <1>6, StepShape

LEMMA OneCodeInit == Init => OneCodeInv
BY DEF Init, OneCodeInv, PairInv, UnusedOf, InsertsNext, Idle, NoCode

\* At most the code sent last can be used, unless one was retired while the
\* other was on its way, and then until the next is sent, however requests,
\* verifications and deletions overlap.
THEOREM LastCodeOnly == Spec => []OneUsableCode
<1>1. Staged /\ OneCodeInv => OneUsableCode
  <2>1. SUFFICES ASSUME Staged, OneCodeInv, NEW i \in Ids, NEW j \in Ids,
                        code[i].state = "unused", code[j].state = "unused",
                        code[i].user = code[j].user, code[i].type = code[j].type,
                        <<code[i].user, code[i].type>> \notin crossed
                 PROVE  i = j
    BY DEF OneUsableCode
  <2>2. code[i].user \in Users /\ code[i].type \in CodeTypes
    BY <2>1 DEF Staged, CodesOwned, AccountsTypeOK, CodeRow
  <2>3. PairInv(code[i].user, code[i].type)
    BY <2>1, <2>2 DEF OneCodeInv
  <2>4. QED
    BY <2>1, <2>3 DEF PairInv, UnusedOf
<1>2. Staged /\ OneCodeInv /\ [Next]_vars => OneCodeInv'
  BY PairStep DEF OneCodeInv
<1>3. QED
  BY <1>1, <1>2, StagedInit, StagedStep, OneCodeInit, PTL DEF Spec

-----------------------------------------------------------------------------
\* SessionsListed: every key is in a listing, and logout-all has read it,
\* unless it was set while a logout-all was under way

ListedInv ==
  /\ \A t \in keys \ missed : t \in listed[t.user]
  /\ \A h \in Handlers : \A t \in keys \ missed :
       req[h].at = "revokeAll" /\ t.user = req[h].user => t \in req[h].toks

LEMMA ListedStep == Staged /\ ListedInv /\ [Next]_vars => ListedInv'
<1> SUFFICES ASSUME Staged, ListedInv, [Next]_vars
             PROVE  ListedInv'
  OBVIOUS
<1>1. /\ req \in [Handlers -> Request] /\ keys \subseteq Token
      /\ listed \in [Users -> SUBSET Token]
      /\ \A h \in Handlers : ReqStaged(req[h]) /\ req[h] \in Request
      /\ \A t \in keys : t.user \in Users
  BY DEF Staged, AccountsTypeOK, Token
<1>2. CASE UNCHANGED <<user, code, keys, listed, missed, req, logins, accepted, crossed>>
  BY <1>2 DEF ListedInv
<1>3. ASSUME NEW h \in Handlers, NEW u \in Users, DeleteAccount(h, u)
      PROVE  ListedInv'
  BY <1>3 DEF DeleteAccount, redis, ListedInv
<1>4. ASSUME NEW h \in Handlers, NEW t \in keys, Logout(h, t)
      PROVE  ListedInv'
  BY <1>1, <1>4 DEF Logout, Revoke, ListedInv
<1>5. ASSUME NEW h \in Handlers, Others(h), Begun(h)
      PROVE  ListedInv'
  <2>1. /\ keys' = keys /\ listed' = listed /\ missed' = missed
        /\ \A g \in Handlers : g # h => req'[g] = req[g]
    BY <1>5 DEF Begun, redis, Others
  <2>2. req'[h].at = "revokeAll" => req'[h].toks = listed[req'[h].user]
    BY <1>5 DEF Begun
  <2>3. \A t \in keys \ missed :
          req'[h].at = "revokeAll" /\ t.user = req'[h].user => t \in req'[h].toks
    BY <2>2 DEF ListedInv
  <2>4. QED
    BY <2>1, <2>3 DEF ListedInv
<1>6. ASSUME NEW h \in Handlers, Others(h), Continue(h), Moved(h)
      PROVE  ListedInv'
  <2>1. \A g \in Handlers : req'[g].at = "revokeAll" => req'[g] = req[g] /\ g # h
    BY <1>6 DEF Moved, Follows, Idle, Others
  <2>2. CASE SaveToken(h)
    <3>1. PICK i \in 0..MaxTime : req[h].toks = {[user |-> req[h].user, iat |-> i]}
      BY <1>1, <2>2 DEF SaveToken, ReqStaged
    <3> DEFINE new == [user |-> req[h].user, iat |-> i]
    <3>2. /\ keys' = keys \cup {new} /\ new.user = req[h].user /\ req[h].user \in Users
          /\ listed' = [listed EXCEPT ![req[h].user] = @ \cup {new}]
          /\ missed' = IF LoggingOut(req[h].user) THEN missed \cup {new} ELSE missed \ {new}
      BY <1>1, <2>2, <3>1 DEF SaveToken, NoteMissed, ReqStaged
    <3>3. \A t \in keys' \ missed' : t \in listed'[t.user]
      BY <1>1, <3>2 DEF ListedInv
    <3>4. ASSUME NEW g \in Handlers, NEW t \in keys' \ missed', req'[g].at = "revokeAll",
                 t.user = req'[g].user
          PROVE  t \in req'[g].toks
      <4>1. req'[g] = req[g]
        BY <2>1, <3>4
      <4>2. t \in keys \ missed
        BY <3>2, <3>4, <4>1 DEF LoggingOut
      <4>3. QED
        BY <3>4, <4>1, <4>2 DEF ListedInv
    <3>5. QED
      BY <3>3, <3>4 DEF ListedInv
  <2>3. CASE RefreshRevoke(h)
    <3>1. PICK t \in Token : req[h].toks = {t}
      BY <1>1, <2>3 DEF RefreshRevoke, ReqStaged
    <3>2. Revoke(t) \/ UNCHANGED redis
      BY <2>3, <3>1 DEF RefreshRevoke
    <3>3. /\ keys' \ missed' \subseteq keys \ missed
          /\ \A k \in keys' \ missed' : k \in listed'[k.user]
      BY <1>1, <3>2 DEF Revoke, redis, ListedInv
    <3>4. QED
      BY <2>1, <3>3 DEF ListedInv
  <2>4. CASE LogoutAllDelete(h)
    <3>1. /\ req[h].at = "revokeAll" /\ keys' = keys \ req[h].toks
          /\ missed' = missed \ req[h].toks /\ listed' = [listed EXCEPT ![req[h].user] = {}]
      BY <2>4 DEF LogoutAllDelete
    <3>2. \A t \in keys' \ missed' : t \in keys \ missed /\ t.user # req[h].user
      BY <3>1 DEF ListedInv
    <3>3. \A t \in keys' \ missed' : t \in listed'[t.user]
      BY <1>1, <3>1, <3>2 DEF ListedInv
    <3>4. QED
      BY <2>1, <3>2, <3>3 DEF ListedInv
  <2>5. CASE RegisterInsert(h) \/ Sign(h) \/ Retire(h) \/ InsertCode(h) \/ MarkUsed(h)
             \/ ApplyCode(h) \/ ProfileSave(h)
    <3>1. keys' = keys /\ listed' = listed /\ missed' = missed
      BY <2>5 DEF RegisterInsert, Sign, Retire, InsertCode, MarkUsed, ApplyCode, ProfileSave, redis
    <3>2. QED
      BY <2>1, <3>1 DEF ListedInv
  <2>6. QED
    BY <1>6, <2>2, <2>3, <2>4, <2>5 DEF Continue
<1>7. QED
  BY <1>2, <1>3, <1>4, <1>5, <1>6, StepShape

LEMMA ListedInit == Init => ListedInv
BY DEF Init, ListedInv

\* Every token refresh would accept is in the listing that logout-all reads,
\* however logins, refreshes and logouts of one token or of all overlap, but
\* for the tokens saved between the read and the delete of a logout-all.
THEOREM LogoutAllReaches == Spec => []SessionsListed
<1>1. ListedInv => SessionsListed
  BY DEF ListedInv, SessionsListed
<1>2. QED
  BY <1>1, StagedInit, StagedStep, ListedInit, ListedStep, PTL DEF Spec

-----------------------------------------------------------------------------
\* AccountKeepsProgress: what a profile that was loaded late cannot take back

LEMMA ProgressKept ==
  ASSUME Staged, [Next]_vars, NEW u \in Users,
         user[u].state = "active", user'[u].state = "active"
  PROVE  /\ user[u].password = "new" => user'[u].password = "new"
         /\ user[u].verified =>
              /\ Late(u)' \subseteq Late(u)
              /\ user'[u].verified \/ Late(u)' # Late(u)
<1>1. /\ user \in [Users -> UserRow] /\ \A h \in Handlers : req[h] \in Request
  BY DEF Staged, AccountsTypeOK
<1>2. CASE UNCHANGED <<user, code, keys, listed, missed, req, logins, accepted, crossed>>
  BY <1>2 DEF Late
<1>3. ASSUME NEW h \in Handlers, NEW v \in Users, DeleteAccount(h, v)
      PROVE  user'[u] = user[u] /\ Late(u)' = Late(u)
  BY <1>1, <1>3 DEF DeleteAccount, NoUser, Late
<1>4. ASSUME NEW h \in Handlers, NEW t \in keys, Logout(h, t)
      PROVE  user'[u] = user[u] /\ Late(u)' = Late(u)
  BY <1>4 DEF Logout, rows, Late
<1>5. ASSUME NEW h \in Handlers, Others(h), Begun(h)
      PROVE  /\ user'[u] = user[u]
             /\ user[u].verified => Late(u)' \subseteq Late(u)
  <2>1. user' = user /\ (req'[h].at = "saveUser" => req'[h].ent = user[req'[h].user])
    BY <1>5 DEF Begun, rows
  <2>2. user[u].verified => h \notin Late(u)'
    BY <2>1 DEF Late
  <2>3. QED
    BY <1>5, <2>1, <2>2 DEF Late, Others
<1>6. ASSUME NEW h \in Handlers, Others(h), Continue(h), Moved(h)
      PROVE  /\ user[u].password = "new" => user'[u].password = "new"
             /\ Late(u)' \subseteq Late(u)
             /\ user[u].verified => user'[u].verified \/ Late(u)' # Late(u)
  <2>1. h \notin Late(u)' /\ Late(u)' \subseteq Late(u)
    BY <1>6 DEF Moved, Follows, Idle, Others, Late
  <2>2. CASE RegisterInsert(h)
    <3>1. user'[u] = user[u]
      BY <1>1, <2>2 DEF RegisterInsert
    <3>2. QED
      BY <2>1, <3>1
  <2>3. CASE ApplyCode(h)
    <3>1. /\ user[u].verified => user'[u].verified
          /\ user[u].password = "new" => user'[u].password = "new"
      BY <1>1, <2>3 DEF ApplyCode, UserRow
    <3>2. QED
      BY <2>1, <3>1
  <2>4. CASE ProfileSave(h)
    <3>1. req[h].at = "saveUser" /\ req[h].ent \in UserRow
      BY <1>1, <2>4 DEF ProfileSave, Request
    <3>2. \/ user'[u] = user[u]
          \/ u = req[h].user /\ user'[u] = [req[h].ent EXCEPT !.password = user[u].password]
      BY <1>1, <2>4 DEF ProfileSave
    <3>3. user'[u].password = user[u].password
      BY <3>1, <3>2 DEF UserRow
    <3>4. \/ user'[u].verified = user[u].verified
          \/ u = req[h].user /\ user'[u].verified = req[h].ent.verified
      BY <3>1, <3>2 DEF UserRow
    <3>5. user[u].verified /\ ~user'[u].verified => h \in Late(u)
      BY <3>1, <3>4 DEF Late
    <3>6. QED
      BY <2>1, <3>3, <3>5
  <2>5. CASE Sign(h) \/ SaveToken(h) \/ RefreshRevoke(h) \/ LogoutAllDelete(h)
             \/ Retire(h) \/ InsertCode(h) \/ MarkUsed(h)
    <3>1. user' = user
      BY <2>5 DEF Sign, SaveToken, RefreshRevoke, LogoutAllDelete, Retire, InsertCode, MarkUsed, rows
    <3>2. QED
      BY <2>1, <3>1
  <2>6. QED
    BY <1>6, <2>2, <2>3, <2>4, <2>5 DEF Continue
<1>7. QED
  BY <1>2, <1>3, <1>4, <1>5, <1>6, StepShape

\* Nothing but its deletion takes back a new password, and a verified address
\* is lost only to a profile that was loaded before it was verified: requests
\* that come later cannot lose it, whatever overlaps.
THEOREM ProgressStays == Spec => AccountKeepsProgress
<1>1. Staged /\ [Next]_vars =>
        [\A u \in Users :
           user[u].state = "active" /\ user'[u].state = "active" =>
             /\ user[u].password = "new" => user'[u].password = "new"
             /\ user[u].verified =>
                  /\ Late(u)' \subseteq Late(u)
                  /\ user'[u].verified \/ Late(u)' # Late(u)]_vars
  BY ProgressKept
<1>2. QED
  BY <1>1, StagedInit, StagedStep, PTL DEF Spec, AccountKeepsProgress

-----------------------------------------------------------------------------
\* LedgerSpec: the handlers implement the ledger of sessions

\* What the ledger reads of the handlers
ClaimsOf == UNION {{h} \X req[h].toks : h \in {g \in Handlers : req[g].at = "found"}}
OwedOf   == {<<h, req[h].user>> : h \in {g \in Handlers : OwedTo(g)}}

\* What a step of one handler does to the claims.
LEMMA ClaimsSame ==
  ASSUME NEW h \in Handlers, Others(h), req[h].at # "found", req'[h].at # "found"
  PROVE  ClaimsOf' = ClaimsOf
<1>1. {g \in Handlers : req'[g].at = "found"} = {g \in Handlers : req[g].at = "found"}
  BY DEF Others
<1>2. \A g \in {f \in Handlers : req[f].at = "found"} : req'[g] = req[g]
  BY DEF Others
<1>3. QED
  BY <1>1, <1>2 DEF ClaimsOf

LEMMA ClaimsMore ==
  ASSUME NEW h \in Handlers, Others(h), NEW t,
         req[h].at # "found", req'[h].at = "found", req'[h].toks = {t}
  PROVE  ClaimsOf' = ClaimsOf \cup {<<h, t>>}
<1>1. {g \in Handlers : req'[g].at = "found"} = {g \in Handlers : req[g].at = "found"} \cup {h}
  BY DEF Others
<1>2. \A g \in {f \in Handlers : req[f].at = "found"} : req'[g] = req[g]
  BY DEF Others
<1>3. {h} \X req'[h].toks = {<<h, t>>}
  OBVIOUS
<1>4. QED
  BY <1>1, <1>2, <1>3 DEF ClaimsOf

LEMMA ClaimsLess ==
  ASSUME NEW h \in Handlers, Others(h), NEW t,
         req[h].at = "found", req[h].toks = {t}, req'[h].at # "found"
  PROVE  <<h, t>> \in ClaimsOf /\ ClaimsOf' = ClaimsOf \ {<<h, t>>}
<1>1. <<h, t>> \in ClaimsOf
  BY DEF ClaimsOf
<1>2. ASSUME NEW c, c \in ClaimsOf', c \notin ClaimsOf \ {<<h, t>>}
      PROVE  FALSE
  <2>1. PICK g \in Handlers : req'[g].at = "found" /\ \E k \in req'[g].toks : c = <<g, k>>
    BY <1>2 DEF ClaimsOf
  <2>2. g # h /\ req'[g] = req[g]
    BY <2>1 DEF Others
  <2>3. QED
    BY <1>2, <2>1, <2>2 DEF ClaimsOf
<1>3. ASSUME NEW c, c \in ClaimsOf \ {<<h, t>>}, c \notin ClaimsOf'
      PROVE  FALSE
  <2>1. PICK g \in Handlers : req[g].at = "found" /\ \E k \in req[g].toks : c = <<g, k>>
    BY <1>3 DEF ClaimsOf
  <2>2. g # h
    BY <1>3, <2>1
  <2>3. QED
    BY <1>3, <2>1, <2>2 DEF ClaimsOf, Others
<1>4. QED
  BY <1>1, <1>2, <1>3

\* A handler is owed a token when it holds this request
OwedReq(r) ==
  \/ r.at \in {"sign", "save"}
  \/ r.kind = "register" /\ r.at \in {"retire", "insertCode"}

\* What it does to the tokens that are owed.
LEMMA OwedSame ==
  ASSUME NEW h \in Handlers, Others(h), OwedReq(req[h]) <=> OwedReq(req'[h]),
         OwedReq(req[h]) => req'[h].user = req[h].user
  PROVE  OwedOf' = OwedOf
<1>1. {g \in Handlers : OwedTo(g)}' = {g \in Handlers : OwedTo(g)}
  BY DEF Others, OwedTo, OwedReq
<1>2. \A g \in {f \in Handlers : OwedTo(f)} : req'[g].user = req[g].user
  BY DEF Others, OwedTo, OwedReq
<1>3. QED
  BY <1>1, <1>2 DEF OwedOf

LEMMA OwedMore ==
  ASSUME NEW h \in Handlers, Others(h), NEW u,
         ~OwedReq(req[h]), OwedReq(req'[h]), req'[h].user = u
  PROVE  <<h, u>> \notin OwedOf /\ OwedOf' = OwedOf \cup {<<h, u>>}
<1>1. {g \in Handlers : OwedTo(g)}' = {g \in Handlers : OwedTo(g)} \cup {h}
  BY DEF Others, OwedTo, OwedReq
<1>2. \A g \in {f \in Handlers : OwedTo(f)} : g # h /\ req'[g].user = req[g].user
  BY DEF Others, OwedTo, OwedReq
<1>3. QED
  BY <1>1, <1>2 DEF OwedOf

LEMMA OwedLess ==
  ASSUME NEW h \in Handlers, Others(h), NEW u,
         OwedReq(req[h]), ~OwedReq(req'[h]), req[h].user = u
  PROVE  <<h, u>> \in OwedOf /\ OwedOf' = OwedOf \ {<<h, u>>}
<1>1. {g \in Handlers : OwedTo(g)}' = {g \in Handlers : OwedTo(g)} \ {h}
  BY DEF Others, OwedTo, OwedReq
<1>2. h \in {g \in Handlers : OwedTo(g)}
  BY DEF OwedTo, OwedReq
<1>3. \A g \in {f \in Handlers : OwedTo(f)} : g # h => req'[g].user = req[g].user
  BY DEF Others
<1>4. OwedOf' = {<<g, req[g].user>> : g \in {f \in Handlers : OwedTo(f)} \ {h}}
  BY <1>1, <1>3 DEF OwedOf
<1>5. QED
  BY <1>2, <1>4 DEF OwedOf

\* Steps of the ledger, in terms of what it reads.
LEMMA LedgerEarn ==
  ASSUME NEW h \in Handlers, NEW u \in Users, keys' = keys, ClaimsOf' = ClaimsOf,
         <<h, u>> \notin OwedOf, OwedOf' = OwedOf \cup {<<h, u>>},
         logins' = [logins EXCEPT ![u] = @ + 1]
  PROVE  Ledger!Next
BY DEF ClaimsOf, OwedOf, Ledger!Next, Ledger!Earn

LEMMA LedgerClaim ==
  ASSUME NEW h \in Handlers, NEW t \in keys, keys' = keys, ClaimsOf' = ClaimsOf \cup {<<h, t>>},
         OwedOf' = OwedOf, logins' = logins
  PROVE  Ledger!Next
BY DEF ClaimsOf, OwedOf, Ledger!Next, Ledger!Claim

LEMMA LedgerExchange ==
  ASSUME NEW h, NEW t, <<h, t>> \in ClaimsOf, ClaimsOf' = ClaimsOf \ {<<h, t>>},
         <<h, t.user>> \notin OwedOf, OwedOf' = OwedOf \cup {<<h, t.user>>},
         keys' = keys \ {t}, logins' = logins
  PROVE  Ledger!Next
<1>1. Ledger!Exchange(h, t)
  BY DEF ClaimsOf, OwedOf, Ledger!Exchange
<1>2. <<h, t>>[1] = h /\ <<h, t>>[2] = t
  OBVIOUS
<1>3. \E d \in ClaimsOf : Ledger!Exchange(d[1], d[2])
  BY <1>1, <1>2
<1>4. QED
  BY <1>3 DEF ClaimsOf, Ledger!Next

LEMMA LedgerRefuse ==
  ASSUME NEW h, NEW t, <<h, t>> \in ClaimsOf, ClaimsOf' = ClaimsOf \ {<<h, t>>},
         OwedOf' = OwedOf, keys' = keys, logins' = logins
  PROVE  Ledger!Next
<1>1. Ledger!Refuse(h, t)
  BY DEF ClaimsOf, OwedOf, Ledger!Refuse
<1>2. <<h, t>>[1] = h /\ <<h, t>>[2] = t
  OBVIOUS
<1>3. \E d \in ClaimsOf : Ledger!Refuse(d[1], d[2])
  BY <1>1, <1>2
<1>4. QED
  BY <1>3 DEF ClaimsOf, Ledger!Next

LEMMA LedgerHandOut ==
  ASSUME NEW h, NEW u, NEW i \in 0..MaxTime, <<h, u>> \in OwedOf, OwedOf' = OwedOf \ {<<h, u>>},
         keys' = keys \cup {[user |-> u, iat |-> i]}, ClaimsOf' = ClaimsOf, logins' = logins
  PROVE  Ledger!Next
<1>1. Ledger!HandOut(h, u)
  BY DEF ClaimsOf, OwedOf, Ledger!HandOut
<1>2. <<h, u>>[1] = h /\ <<h, u>>[2] = u
  OBVIOUS
<1>3. \E d \in OwedOf : Ledger!HandOut(d[1], d[2])
  BY <1>1, <1>2
<1>4. QED
  BY <1>3 DEF OwedOf, Ledger!Next

LEMMA LedgerClose ==
  ASSUME NEW u \in Users, NEW S, keys' = keys \ S, \A t \in S : t.user = u,
         ClaimsOf' = ClaimsOf, OwedOf' = OwedOf, logins' = logins
  PROVE  Ledger!Next
BY DEF ClaimsOf, OwedOf, Ledger!Next, Ledger!Close

LEMMA LedgerStutter ==
  ASSUME keys' = keys, ClaimsOf' = ClaimsOf, OwedOf' = OwedOf, logins' = logins
  PROVE  UNCHANGED Ledger!vars
BY DEF ClaimsOf, OwedOf, Ledger!vars

\* The set of an account lists its own tokens, and logout-all has read those.
OwnInv ==
  /\ \A u \in Users : \A t \in listed[u] : t.user = u
  /\ \A h \in Handlers : req[h].at = "revokeAll" => \A t \in req[h].toks : t.user = req[h].user

LEMMA OwnStep == Staged /\ OwnInv /\ [Next]_vars => OwnInv'
<1> SUFFICES ASSUME Staged, OwnInv, [Next]_vars
             PROVE  OwnInv'
  OBVIOUS
<1>1. /\ req \in [Handlers -> Request] /\ listed \in [Users -> SUBSET Token]
      /\ \A h \in Handlers : ReqStaged(req[h])
  BY DEF Staged, AccountsTypeOK
<1>2. CASE UNCHANGED <<user, code, keys, listed, missed, req, logins, accepted, crossed>>
  BY <1>2 DEF OwnInv
<1>3. ASSUME NEW h \in Handlers, NEW u \in Users, DeleteAccount(h, u)
      PROVE  OwnInv'
  BY <1>3 DEF DeleteAccount, redis, OwnInv
<1>4. ASSUME NEW h \in Handlers, NEW t \in keys, Logout(h, t)
      PROVE  OwnInv'
  BY <1>1, <1>4 DEF Logout, Revoke, OwnInv
<1>5. ASSUME NEW h \in Handlers, Others(h), Begun(h)
      PROVE  OwnInv'
  BY <1>5 DEF Begun, redis, Others, OwnInv
<1>6. ASSUME NEW h \in Handlers, Others(h), Continue(h), Moved(h)
      PROVE  OwnInv'
  <2>1. \A g \in Handlers : req'[g].at = "revokeAll" => req'[g] = req[g]
    BY <1>6 DEF Moved, Follows, Idle, Others
  <2>2. \A u \in Users : \A t \in listed'[u] : t.user = u
    <3>1. CASE SaveToken(h)
      <4>1. \A t \in req[h].toks : t.user = req[h].user
        BY <1>1, <3>1 DEF SaveToken, ReqStaged
      <4>2. QED
        BY <1>1, <3>1, <4>1 DEF SaveToken, OwnInv
    <3>2. CASE RefreshRevoke(h)
      <4>1. PICK t \in Token : req[h].toks = {t}
        BY <1>1, <3>2 DEF RefreshRevoke, ReqStaged
      <4>2. Revoke(t) \/ UNCHANGED redis
        BY <3>2, <4>1 DEF RefreshRevoke
      <4>3. QED
        BY <1>1, <4>2 DEF Revoke, redis, OwnInv
    <3>3. CASE LogoutAllDelete(h)
      BY <1>1, <3>3 DEF LogoutAllDelete, OwnInv
    <3>4. CASE RegisterInsert(h) \/ Sign(h) \/ Retire(h) \/ InsertCode(h) \/ MarkUsed(h)
               \/ ApplyCode(h) \/ ProfileSave(h)
      BY <3>4 DEF RegisterInsert, Sign, Retire, InsertCode, MarkUsed, ApplyCode, ProfileSave,
                  redis, OwnInv
    <3>5. QED
      BY <1>6, <3>1, <3>2, <3>3, <3>4 DEF Continue
  <2>3. QED
    BY <2>1, <2>2 DEF OwnInv
<1>7. QED
  BY <1>2, <1>3, <1>4, <1>5, <1>6, StepShape

\* Every step of the handlers is a step of the ledger or leaves it alone.
LEMMA LedgerNext ==
  ASSUME Staged, OwnInv, [Next]_vars
  PROVE  [Ledger!Next]_(Ledger!vars)
<1>1. /\ req \in [Handlers -> Request] /\ keys \subseteq Token
      /\ \A h \in Handlers : ReqStaged(req[h]) /\ req[h] \in Request
  BY DEF Staged, AccountsTypeOK
<1>2. ~OwedReq(Idle) /\ Idle.at # "found"
  BY DEF OwedReq, Idle
<1>3. req' = req => OwedOf' = OwedOf /\ ClaimsOf' = ClaimsOf
  BY DEF OwedOf, ClaimsOf, OwedTo
<1>4. CASE UNCHANGED <<user, code, keys, listed, missed, req, logins, accepted, crossed>>
  BY <1>3, <1>4, LedgerStutter
<1>5. ASSUME NEW h \in Handlers, NEW u \in Users, DeleteAccount(h, u)
      PROVE  [Ledger!Next]_(Ledger!vars)
  BY <1>3, <1>5, LedgerStutter DEF DeleteAccount, redis, notes
<1>6. ASSUME NEW h \in Handlers, NEW t \in keys, Logout(h, t)
      PROVE  [Ledger!Next]_(Ledger!vars)
  <2>1. req' = req /\ keys' = keys \ {t} /\ logins' = logins
    BY <1>6 DEF Logout, Revoke, notes
  <2>2. PICK u \in Users : u = t.user
    BY <1>1 DEF Token
  <2> DEFINE S == {t}
  <2>3. keys' = keys \ S /\ \A k \in S : k.user = u
    BY <2>1, <2>2
  <2> HIDE DEF S
  <2>4. QED
    BY <1>3, <2>1, <2>3, LedgerClose
<1>7. ASSUME NEW h \in Handlers, Others(h), Begun(h)
      PROVE  [Ledger!Next]_(Ledger!vars)
  <2>1. keys' = keys /\ ~OwedReq(req[h]) /\ req[h].at # "found"
    BY <1>7 DEF Begun, redis, OwedReq
  <2>2. CASE req'[h].at = "sign"
    <3>1. PICK u \in Users : u = req'[h].user
      BY <1>7 DEF Begun
    <3>2. logins' = [logins EXCEPT ![u] = @ + 1] /\ OwedReq(req'[h])
      BY <1>7, <2>2, <3>1 DEF Begun, OwedReq
    <3>3. QED
      BY <1>7, <2>1, <2>2, <3>1, <3>2, ClaimsSame, OwedMore, LedgerEarn
  <2>3. CASE req'[h].at = "found"
    <3>1. PICK t \in keys : req'[h].toks = {t}
      BY <1>7, <2>3 DEF Begun
    <3>2. logins' = logins /\ ~OwedReq(req'[h])
      BY <1>7, <2>3 DEF Begun, OwedReq
    <3>3. QED
      BY <1>7, <2>1, <2>3, <3>1, <3>2, ClaimsMore, OwedSame, LedgerClaim
  <2>4. CASE req'[h].at \notin {"sign", "found"}
    <3>1. logins' = logins /\ ~OwedReq(req'[h])
      BY <1>7, <2>4 DEF Begun, OwedReq
    <3>2. QED
      BY <1>7, <2>1, <2>4, <3>1, ClaimsSame, OwedSame, LedgerStutter
  <2>5. QED
    BY <2>2, <2>3, <2>4
<1>8. ASSUME NEW h \in Handlers, Others(h), Continue(h), Moved(h)
      PROVE  [Ledger!Next]_(Ledger!vars)
  <2>1. PICK u \in Users : u = req[h].user
    BY <1>1, <1>8 DEF Moved, ReqStaged
  <2>2. CASE RegisterInsert(h)
    <3>1. keys' = keys /\ req[h].at = "insert" /\ req[h].kind = "register" /\ ~OwedReq(req[h])
      BY <1>1, <2>2 DEF RegisterInsert, redis, ReqStaged, OwedReq
    <3>2. CASE Finish(h) /\ logins' = logins
      <4>1. ~OwedReq(req'[h]) /\ req'[h].at # "found"
        BY <1>1, <1>2, <3>2, FinishFrame
      <4>2. QED
        BY <1>8, <3>1, <3>2, <4>1, ClaimsSame, OwedSame, LedgerStutter
    <3>3. CASE GoTo(h, "retire") /\ logins' = [logins EXCEPT ![u] = @ + 1]
      <4>1. req'[h].at = "retire" /\ req'[h].kind = "register" /\ req'[h].user = u
        BY <1>1, <2>1, <3>1, <3>3, GoToFields DEF Stages
      <4>2. OwedReq(req'[h])
        BY <4>1 DEF OwedReq
      <4>3. QED
        BY <1>8, <3>1, <3>3, <4>1, <4>2, ClaimsSame, OwedMore, LedgerEarn
    <3>4. QED
      BY <2>1, <2>2, <3>2, <3>3 DEF RegisterInsert
  <2>3. CASE Sign(h)
    <3>1. keys' = keys /\ logins' = logins /\ req[h].at = "sign"
      BY <2>3 DEF Sign, redis, notes
    <3>2. req'[h].user = req[h].user /\ req'[h].at = "save"
      BY <1>8, <2>3, <3>1 DEF Moved, Follows, Idle, Sign, Staged, AccountsTypeOK
    <3>3. OwedReq(req[h]) /\ OwedReq(req'[h])
      BY <3>1, <3>2 DEF OwedReq
    <3>4. QED
      BY <1>8, <3>1, <3>2, <3>3, ClaimsSame, OwedSame, LedgerStutter
  <2>4. CASE SaveToken(h)
    <3>1. PICK i \in 0..MaxTime : req[h].toks = {[user |-> u, iat |-> i]}
      BY <1>1, <2>1, <2>4 DEF SaveToken, ReqStaged
    <3>2. /\ keys' = keys \cup {[user |-> u, iat |-> i]} /\ logins' = logins
          /\ req[h].at = "save" /\ Finish(h)
      BY <2>4, <3>1 DEF SaveToken, notes
    <3>3. OwedReq(req[h]) /\ ~OwedReq(req'[h]) /\ req'[h].at # "found"
      BY <1>1, <1>2, <3>2, FinishFrame DEF OwedReq
    <3>4. QED
      BY <1>8, <2>1, <3>2, <3>3, ClaimsSame, OwedLess, LedgerHandOut
  <2>5. CASE RefreshRevoke(h)
    <3>1. PICK t \in Token : /\ req[h].toks = {t} /\ t.user = u
                             /\ req[h].kind = "refresh" /\ req[h].at = "found"
      BY <1>1, <2>1, <2>5 DEF RefreshRevoke, ReqStaged
    <3>2. logins' = logins /\ ~OwedReq(req[h])
      BY <2>5, <3>1 DEF RefreshRevoke, notes, OwedReq
    <3>3. CASE Finish(h) /\ UNCHANGED redis
      <4>1. ~OwedReq(req'[h]) /\ req'[h].at # "found"
        BY <1>1, <1>2, <3>3, FinishFrame
      <4>2. <<h, t>> \in ClaimsOf /\ ClaimsOf' = ClaimsOf \ {<<h, t>>}
        BY <1>8, <3>1, <4>1, ClaimsLess
      <4>3. OwedOf' = OwedOf /\ keys' = keys
        BY <1>8, <3>2, <3>3, <4>1, OwedSame DEF redis
      <4>4. QED
        BY <3>2, <4>2, <4>3, LedgerRefuse
    <3>4. CASE GoTo(h, "sign") /\ Revoke(t)
      <4>1. req'[h].at = "sign" /\ req'[h].user = t.user
        BY <1>1, <2>1, <3>1, <3>4, GoToFields DEF Stages
      <4>2. <<h, t>> \in ClaimsOf /\ ClaimsOf' = ClaimsOf \ {<<h, t>>}
        BY <1>8, <3>1, <4>1, ClaimsLess
      <4>3. <<h, t.user>> \notin OwedOf /\ OwedOf' = OwedOf \cup {<<h, t.user>>}
        BY <1>8, <3>2, <4>1, OwedMore DEF OwedReq
      <4>4. QED
        BY <3>2, <3>4, <4>2, <4>3, LedgerExchange DEF Revoke
    <3>5. QED
      BY <2>5, <3>1, <3>3, <3>4 DEF RefreshRevoke
  <2>6. CASE LogoutAllDelete(h)
    <3>1. /\ req[h].at = "revokeAll" /\ req[h].kind = "logoutAll" /\ Finish(h)
          /\ keys' = keys \ req[h].toks /\ logins' = logins
      BY <1>1, <2>6 DEF LogoutAllDelete, ReqStaged, notes
    <3>2. ~OwedReq(req[h]) /\ ~OwedReq(req'[h]) /\ req'[h].at # "found"
      BY <1>1, <1>2, <3>1, FinishFrame DEF OwedReq
    <3>3. \A t \in req[h].toks : t.user = u
      BY <2>1, <3>1 DEF OwnInv
    <3>4. OwedOf' = OwedOf /\ ClaimsOf' = ClaimsOf
      BY <1>8, <3>1, <3>2, OwedSame, ClaimsSame
    <3>5. QED
      BY <3>1, <3>3, <3>4, LedgerClose
  <2>7. CASE Retire(h)
    <3>1. /\ keys' = keys /\ logins' = logins /\ req[h].at = "retire"
          /\ req'[h].at = "insertCode" /\ req'[h].kind = req[h].kind
          /\ req'[h].user = req[h].user
      BY <1>1, <2>7, GoToFields DEF Retire, redis, notes, Stages
    <3>2. OwedReq(req[h]) <=> OwedReq(req'[h])
      BY <3>1 DEF OwedReq
    <3>3. QED
      BY <1>8, <3>1, <3>2, ClaimsSame, OwedSame, LedgerStutter
  <2>8. CASE InsertCode(h)
    <3>1. keys' = keys /\ logins' = logins /\ req[h].at = "insertCode"
      BY <2>8 DEF InsertCode, redis, notes
    <3>2. CASE GoTo(h, "sign") /\ req[h].kind = "register"
      <4>1. req'[h].at = "sign" /\ req'[h].user = req[h].user
        BY <1>1, <3>2, GoToFields DEF Stages
      <4>2. OwedReq(req[h]) /\ OwedReq(req'[h])
        BY <3>1, <3>2, <4>1 DEF OwedReq
      <4>3. QED
        BY <1>8, <3>1, <4>1, <4>2, ClaimsSame, OwedSame, LedgerStutter
    <3>3. CASE Finish(h) /\ req[h].kind # "register"
      <4>1. ~OwedReq(req[h]) /\ ~OwedReq(req'[h]) /\ req'[h].at # "found"
        BY <1>1, <1>2, <3>1, <3>3, FinishFrame DEF OwedReq
      <4>2. QED
        BY <1>8, <3>1, <4>1, ClaimsSame, OwedSame, LedgerStutter
    <3>4. QED
      BY <2>8, <3>2, <3>3 DEF InsertCode
  <2>9. CASE MarkUsed(h) \/ ApplyCode(h) \/ ProfileSave(h)
    <3>1. /\ keys' = keys /\ logins' = logins
          /\ req[h].at \in {"markUsed", "apply", "saveUser"}
      BY <2>9 DEF MarkUsed, ApplyCode, ProfileSave, redis, notes
    <3>2. req'[h].at \in {"idle", "apply"}
      BY <1>1, <1>8, <3>1 DEF ReqStaged, Moved, Follows, Idle
    <3>3. ~OwedReq(req[h]) /\ ~OwedReq(req'[h])
      BY <3>1, <3>2 DEF OwedReq
    <3>4. QED
      BY <1>8, <3>1, <3>2, <3>3, ClaimsSame, OwedSame, LedgerStutter
  <2>10. QED
    BY <1>8, <2>2, <2>3, <2>4, <2>5, <2>6, <2>7, <2>8, <2>9 DEF Continue
<1>9. QED
  BY <1>4, <1>5, <1>6, <1>7, <1>8, StepShape

LEMMA OwnInit == Init => OwnInv
BY DEF Init, OwnInv, Idle

LEMMA LedgerInit == Init => Ledger!Init
<1> SUFFICES ASSUME Init
             PROVE  Ledger!Init
  OBVIOUS
<1>1. ClaimsOf = {} /\ OwedOf = {}
  BY DEF Init, ClaimsOf, OwedOf, OwedTo, Idle
<1>2. QED
  BY <1>1 DEF Init, ClaimsOf, OwedOf, Ledger!Init

\* The handlers implement the ledger of sessions, however they overlap: a token
\* is handed out for a login or for one that was open when it was presented and
\* is not open after the exchange, once for each time it was presented.
THEOREM SessionsRefined == Spec => LedgerSpec
<1>1. Staged /\ OwnInv /\ [Next]_vars => [Ledger!Next]_(Ledger!vars)
  BY LedgerNext
<1>2. QED
  BY <1>1, StagedInit, StagedStep, OwnInit, OwnStep, LedgerInit, PTL
     DEF Spec, LedgerSpec, Ledger!Spec
=============================================================================
